--------------------------- MODULE MCMultiLookup ---------------------------
(* Two requesters and two resolvers: every pair of roles meets at each of  *)
(* the two mutexes and around the unlocked test.                           *)
EXTENDS MultiLookup

CONSTANTS v1, v2

MCResolvers == {v1, v2}
OneResolver == {v1}

\* File 1 has two names, file 2 has one.
TwoFiles == <<2, 1>>
OneFile == <<2>>

NamesOf(count) == UNION {{i} \X (1 .. count[i]) : i \in DOMAIN count}
TwoFilesNames == NamesOf(TwoFiles)
OneFileNames == NamesOf(OneFile)
=============================================================================

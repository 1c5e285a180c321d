--------------------------- MODULE MCBranchEngine ---------------------------
(* The five programs of programs.c with their statements between branches  *)
(* cut away, and one more for NFOR and a table of five branches.           *)
EXTENDS BranchEngine

B(wherefrom, whereto, btype, min, max) ==
    [wherefrom |-> wherefrom, whereto |-> whereto, btype |-> btype,
     min |-> min, max |-> max]

P(size, branches) == [size |-> size, branches |-> branches, exits |-> <<size - 1>>]

MCPrograms ==
    {P(8, <<B(1, 4, "IF", 0, 0), B(3, 6, "GOTO", 0, 0), B(6, 0, "FOR", 1, 3)>>),
     P(3, <<B(1, 0, "FOR", 2, 4)>>),
     P(4, <<B(1, 1, "FOR", 1, 3), B(2, 0, "FOR", 2, 4)>>),
     P(3, <<>>),
     P(6, <<B(1, 4, "IF", 0, 0), B(2, 0, "GOTO", 0, 0), B(3, 4, "GOTO", 0, 0),
            B(4, 0, "FOR", 1, 3)>>),
     P(9, <<B(0, 2, "IF", 0, 0), B(2, 5, "NFOR", 1, 3), B(3, 2, "GOTO", 0, 0),
            B(6, 8, "NFOR", 2, 2), B(7, 0, "GOTO", 0, 0)>>)}
=============================================================================

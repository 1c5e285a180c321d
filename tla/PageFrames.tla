----------------------------- MODULE PageFrames -----------------------------
(***************************************************************************)
(* What simulator.h promises of paging, without the clock: a page of a     *)
(* process is out, coming, in or going, it holds a physical frame in all   *)
(* but the first, and the frames not held are free.  Simulator is shown to *)
(* implement this specification.                                           *)
(***************************************************************************)
EXTENDS Naturals, FiniteSets

CONSTANTS Owners,   \* the processes
          Pages,    \* the page numbers of each
          Frames    \* how many physical frames there are

VARIABLES place,    \* where each page of each process is
          free      \* how many frames are free

frameVars == <<place, free>>

In(S) == {op \in Owners \X Pages : place[op[1]][op[2]] \in S}

Init ==
    /\ place = [o \in Owners |-> [p \in Pages |-> "out"]]
    /\ free = Frames

\* pagein starts: the page takes a frame at once.
StartIn(o, p) ==
    /\ place[o][p] = "out"
    /\ free > 0
    /\ place' = [place EXCEPT ![o][p] = "coming"]
    /\ free' = free - 1

\* pageout starts: the page keeps its frame until it has gone.
StartOut(o, p) ==
    /\ place[o][p] = "in"
    /\ place' = [place EXCEPT ![o][p] = "going"]
    /\ free' = free

\* Time passes: some of the pages under way arrive.
Arrive(S) ==
    /\ place' = [o \in Owners |-> [p \in Pages |->
                   IF <<o, p>> \notin S THEN place[o][p]
                   ELSE IF place[o][p] = "coming" THEN "in" ELSE "out"]]
    /\ free' = free + Cardinality(S \cap In({"going"}))

\* A process ends and gives back every frame, wherever its pages are.
Release(o) ==
    /\ place' = [place EXCEPT ![o] = [p \in Pages |-> "out"]]
    /\ free' = free + Cardinality({p \in Pages : place[o][p] # "out"})

Next ==
    \/ \E o \in Owners, p \in Pages : StartIn(o, p) \/ StartOut(o, p)
    \/ \E S \in SUBSET In({"coming", "going"}) : Arrive(S)
    \/ \E o \in Owners : Release(o)

Spec == Init /\ [][Next]_frameVars
=============================================================================

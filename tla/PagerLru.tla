------------------------------ MODULE PagerLru ------------------------------
(***************************************************************************)
(* PA4/pager-lru.c as the pager of the simulator.  Once per tick it looks  *)
(* at every processor in turn: it notes the page the program counter is    *)
(* on, asks for it if it is not resident and, when it cannot have it,      *)
(* evicts the page of the same processor with the oldest note.             *)
(*                                                                         *)
(* pageit works on a copy of the state taken before it (callyou); of that  *)
(* copy it reads, for a processor, only what the calls for the processors  *)
(* before it left alone, so the turns below read the state itself.         *)
(***************************************************************************)
EXTENDS Simulator

VARIABLES timestamps,   \* the tick each page of a processor was last noted
          tick,         \* the static counter of calls of pageit
          proc,         \* the processor the loop is at
          exited,       \* exit(0) was called
          lastUse       \* history: the same notes, kept by job

lruVars == <<vars, timestamps, tick, proc, exited, lastUse>>

FirstTick == 1

LruInit ==
    /\ Init
    /\ timestamps = [i \in Processors |-> [p \in Pages |-> 0]]
    /\ tick = FirstTick
    /\ proc = 0
    /\ exited = FALSE
    /\ lastUse = [j \in Jobs |-> [p \in Pages |-> 0]]

\* q[i].pages: the resident pages of the processor's job.
Allocated(i) == {p \in Pages : pages[processes[i]][p] = 0}

Lowest(S) == CHOOSE p \in S : \A r \in S : p <= r

\* Mutant: the page with the newest note.
lru_pageNewest(i) ==
    IF Allocated(i) = {} THEN -1
    ELSE Lowest({p \in Allocated(i) :
                   \A r \in Allocated(i) : timestamps[i][p] >= timestamps[i][r]})

\* The allocated page with the lowest note, the first of them; the search
\* stops early at a note of 1 or less, and yields -1 when it finds none.
lru_page(i) ==
    LET aged == {p \in Allocated(i) : timestamps[i][p] < tick + 1}
        first == {p \in aged : timestamps[i][p] <= 1}
    IN  IF aged = {} THEN -1
        ELSE IF first # {} THEN Lowest(first)
        ELSE Lowest({p \in aged :
                       \A r \in aged : timestamps[i][p] <= timestamps[i][r]})

\* pages_alloc(q, proc) < 1, and the mutant that is off by one.
NoneAllocatedOff(i) == Cardinality(Allocated(i)) < 0
NoneAllocated(i) == Cardinality(Allocated(i)) < 1

Evict(i) ==
    /\ pageout(i, lru_page(i))
    /\ exited' = ~PageoutReturns(i, lru_page(i))

\* The body of the loop for an active processor.
ServeNoting(i) ==
    LET page == Needed(processes[i])
    IN  /\ timestamps' = [timestamps EXCEPT ![i][page] = tick]
        /\ lastUse' = [lastUse EXCEPT ![processes[i]][page] = tick]
        /\ \/ /\ page \in Allocated(i)
              /\ UNCHANGED <<pages, pagesavail, exited>>
           \/ /\ page \notin Allocated(i)
              /\ PageinReturns(i, page)
              /\ pagein(i, page)
              /\ UNCHANGED exited
           \/ /\ page \notin Allocated(i)
              /\ ~PageinReturns(i, page)
              /\ NoneAllocated(i)
              /\ UNCHANGED <<pages, pagesavail, exited>>
           \/ /\ page \notin Allocated(i)
              /\ ~PageinReturns(i, page)
              /\ ~NoneAllocated(i)
              /\ Evict(i)

lru_pageit ==
    /\ phase = "pageit"
    /\ ~exited
    /\ proc < procs
    /\ proc' = proc + 1
    /\ IF processes[proc] = NULL
       THEN UNCHANGED <<pages, pagesavail, timestamps, exited, lastUse>>
       ELSE ServeNoting(proc)
    /\ UNCHANGED <<processes, queueend, walk, pc, active, phase, turn, tick>>

\* pageit counts its calls and returns.
LruEndTick ==
    /\ ~exited
    /\ proc = procs
    /\ EndTick
    /\ tick' = tick + 1
    /\ proc' = 0
    /\ UNCHANGED <<timestamps, exited, lastUse>>

LruNext ==
    \/ allstep /\ UNCHANGED <<timestamps, tick, proc, exited, lastUse>>
    \/ allage /\ UNCHANGED <<timestamps, tick, proc, exited, lastUse>>
    \/ lru_pageit
    \/ LruEndTick
    \/ (exited \/ phase = "done") /\ UNCHANGED lruVars

\* One sequential program, which runs until it stops itself.
LruSpec == LruInit /\ [][LruNext]_lruVars /\ WF_lruVars(LruNext)

----------------------------------------------------------------------------
\* The types of the pager's variables.
LruTypeOK ==
    /\ timestamps \in [Processors -> [Pages -> Nat]]
    /\ tick \in Nat \ {0}
    /\ proc \in 0 .. procs
    /\ exited \in BOOLEAN
    /\ lastUse \in [Jobs -> [Pages -> Nat]]

\* The pager never gives up (pager-lru.c:95-97): the page it picks is always
\* one that pageout accepts.
NeverExits == ~exited

\* The page that is evicted is the least recently used one of its job,
\* although the notes are kept by processor and those of the job that ran
\* there before are still around.
EvictsLeastRecent ==
    [][\A j \in Jobs, p \in Pages :
          pages[j][p] = 0 /\ pages'[j][p] = -1 =>
              \A r \in Pages : pages[j][r] = 0 => lastUse[j][p] <= lastUse[j][r]
      ]_lruVars
=============================================================================

----------------------------- MODULE Simulator -----------------------------
(***************************************************************************)
(* PA4/simulator.c: processors run jobs from a queue, a job computes while *)
(* the page its program counter is on is resident, and once per tick a     *)
(* pager may start moving pages in and out.  Here the pager is any pager:  *)
(* during pageit it makes any calls of pagein and pageout, with good and   *)
(* bad arguments.  PagerBasic and PagerLru are particular pagers.          *)
(*                                                                         *)
(* process_load draws every branch decision of a job ahead (bcontext_init) *)
(* so a job is known by the pages its program counter visits, a statement  *)
(* at a time: its walk.  Its last statement is an exit.  Logs, the csv     *)
(* files and the compute and block counts only report and are left out.    *)
(***************************************************************************)
EXTENDS Integers, Sequences, FiniteSets

CONSTANTS procs,           \* number of processors
          QUEUESIZE,       \* number of jobs
          MAXPROCPAGES,    \* pages of each job
          PAGEWAIT,        \* ticks to move a page in or out
          PHYSICALPAGES,   \* number of physical frames
          Walks,           \* the walks a job can take
          NULL             \* no job

Processors == 0 .. procs - 1
Jobs == 0 .. QUEUESIZE - 1
Pages == 0 .. MAXPROCPAGES - 1

ASSUME SizesAssumption ==
    /\ procs \in Nat \ {0} /\ QUEUESIZE \in Nat \ {0}
    /\ MAXPROCPAGES \in Nat \ {0} /\ PAGEWAIT \in Nat \ {0}
    /\ PHYSICALPAGES \in Nat \ {0}
ASSUME WalksAssumption == Walks \subseteq Seq(Pages) \ {<<>>}
ASSUME NullAssumption == NULL \notin Jobs

VARIABLES processes,    \* the job on each processor, or NULL
          queueend,     \* the next job of the queue
          walk,         \* the walk of each job
          pc,           \* how far each job is in its walk
          active,       \* whether each job is still to be finished
          pages,        \* the state of each page of each job, see below
          pagesavail,   \* free physical frames
          phase,        \* the function main is in
          turn          \* the processor allstep is at

vars == <<processes, queueend, walk, pc, active, pages, pagesavail, phase,
          turn>>

(***************************************************************************)
(* The state of a page is a number: 0 when it is resident, the ticks left  *)
(* when it comes in, the negated ticks spent, plus one, when it goes out,  *)
(* and OUT when it is out.                                                 *)
(***************************************************************************)
OUT == -PAGEWAIT - 1
PageState == OUT .. PAGEWAIT

Holds(n) == n >= -PAGEWAIT

\* process_clear and process_load leave every page of a job out.
NoPages == [p \in Pages |-> OUT]

\* Every job is loaded when the queue is made, each at its first statement.
initqueue ==
    /\ walk \in [Jobs -> Walks]
    /\ pc = [j \in Jobs |-> 1]
    /\ active = [j \in Jobs |-> TRUE]
    /\ pages = [j \in Jobs |-> NoPages]

\* Each processor takes a job.
Init ==
    /\ initqueue
    /\ processes = [i \in Processors |-> IF i < QUEUESIZE THEN i ELSE NULL]
    /\ queueend = IF procs < QUEUESIZE THEN procs ELSE QUEUESIZE
    /\ pagesavail = PHYSICALPAGES
    /\ phase = "allstep"
    /\ turn = 0

----------------------------------------------------------------------------
(* allstep, one processor at a time *)

Needed(j) == walk[j][pc[j]]
Resident(j) == pages[j][Needed(j)] = 0
AtExit(j) == pc[j] = Len(walk[j])

\* The next turn of the loop, or its end.
NextTurn ==
    IF turn + 1 < procs THEN turn' = turn + 1 /\ UNCHANGED phase
                        ELSE turn' = 0 /\ phase' = "allage"

\* Mutant: the end of the queue is not moved.
ReloadSame(i) ==
    /\ processes' = [processes EXCEPT ![i] = IF queueend < QUEUESIZE
                                             THEN queueend ELSE NULL]
    /\ UNCHANGED queueend

empty == queueend >= QUEUESIZE

\* The processor gets the next job of the queue, or nothing.
Reload(i) ==
    \/ /\ ~empty
       /\ processes' = [processes EXCEPT ![i] = queueend]
       /\ queueend' = queueend + 1
    \/ /\ empty
       /\ processes' = [processes EXCEPT ![i] = NULL]
       /\ UNCHANGED queueend

\* Mutant: the frames of pages on their way out are forgotten.
process_unloadResident(j) ==
    /\ pagesavail' =
         pagesavail + Cardinality({p \in Pages : pages[j][p] >= 0})
    /\ pages' = [pages EXCEPT ![j] = NoPages]
    /\ active' = [active EXCEPT ![j] = FALSE]

\* Mutant: the pages are left as they are.
process_unloadKeeping(j) ==
    /\ pagesavail' =
         pagesavail + Cardinality({p \in Pages : Holds(pages[j][p])})
    /\ active' = [active EXCEPT ![j] = FALSE]
    /\ UNCHANGED pages

\* Frames of pages coming in and going out are given back as well.
process_unload(j) ==
    /\ pagesavail' =
         pagesavail + Cardinality({p \in Pages : Holds(pages[j][p])})
    /\ pages' = [pages EXCEPT ![j] = NoPages]
    /\ active' = [active EXCEPT ![j] = FALSE]

StepIdle(i) ==
    /\ processes[i] = NULL
    /\ Reload(i)
    /\ UNCHANGED <<walk, pc, active, pages, pagesavail>>

StepBlocked(i) ==
    /\ processes[i] # NULL
    /\ ~Resident(processes[i])
    /\ UNCHANGED <<processes, queueend, walk, pc, active, pages, pagesavail>>

StepCompute(i) ==
    /\ processes[i] # NULL
    /\ Resident(processes[i])
    /\ ~AtExit(processes[i])
    /\ pc' = [pc EXCEPT ![processes[i]] = @ + 1]
    /\ UNCHANGED <<processes, queueend, walk, active, pages, pagesavail>>

StepExit(i) ==
    /\ processes[i] # NULL
    /\ Resident(processes[i])
    /\ AtExit(processes[i])
    /\ process_unload(processes[i])
    /\ Reload(i)
    /\ UNCHANGED <<walk, pc>>

allstep ==
    /\ phase = "allstep"
    /\ StepIdle(turn) \/ StepBlocked(turn) \/ StepCompute(turn) \/ StepExit(turn)
    /\ NextTurn

----------------------------------------------------------------------------
(* allage *)

\* The jobs on a processor; allage, alldone and the pager see no others.
Running == {processes[i] : i \in Processors} \ {NULL}

\* Mutants: pages that are out go on ageing; pages going out do not age.
AgedBeyond(n) == IF n = 0 THEN n ELSE n - 1
AgedComing(n) == IF n > 0 THEN n - 1 ELSE n

\* A page under way is one tick nearer to its end.
Aged(n) == IF n = 0 \/ n < -PAGEWAIT THEN n ELSE n - 1

Leaving == {jp \in Running \X Pages : pages[jp[1]][jp[2]] = -PAGEWAIT}

allage ==
    /\ phase = "allage"
    /\ pages' = [j \in Jobs |-> IF j \in Running
                                THEN [p \in Pages |-> Aged(pages[j][p])]
                                ELSE pages[j]]
    /\ pagesavail' = pagesavail + Cardinality(Leaving)
    /\ phase' = "pageit"
    /\ UNCHANGED <<processes, queueend, walk, pc, active, turn>>

----------------------------------------------------------------------------
(* The calls a pager makes *)

ValidCall(proc, page) ==
    /\ proc \in Processors
    /\ processes[proc] # NULL
    /\ active[processes[proc]]
    /\ page \in Pages

StateOf(proc, page) == pages[processes[proc]][page]

\* Mutant: a page that is still going out may be brought in.
StartsInEarly(proc, page) ==
    /\ ValidCall(proc, page)
    /\ StateOf(proc, page) < 0
    /\ pagesavail # 0

\* Whether pagein moves the page now, and what it returns.
StartsIn(proc, page) ==
    /\ ValidCall(proc, page)
    /\ StateOf(proc, page) < -PAGEWAIT
    /\ pagesavail # 0

PageinReturns(proc, page) ==
    /\ ValidCall(proc, page)
    /\ StateOf(proc, page) >= 0 \/ StartsIn(proc, page)

pagein(proc, page) ==
    IF StartsIn(proc, page)
    THEN /\ pages' = [pages EXCEPT ![processes[proc]][page] = PAGEWAIT]
         /\ pagesavail' = pagesavail - 1
    ELSE UNCHANGED <<pages, pagesavail>>

\* Whether pageout moves the page now, and what it returns.
StartsOut(proc, page) ==
    /\ ValidCall(proc, page)
    /\ StateOf(proc, page) = 0

PageoutReturns(proc, page) ==
    /\ ValidCall(proc, page)
    /\ StateOf(proc, page) <= 0

pageout(proc, page) ==
    /\ IF StartsOut(proc, page)
       THEN pages' = [pages EXCEPT ![processes[proc]][page] = -1]
       ELSE UNCHANGED pages
    /\ UNCHANGED pagesavail

\* A call of either, from inside pageit.
Call ==
    /\ phase = "pageit"
    /\ \E proc \in -1 .. procs, page \in -1 .. MAXPROCPAGES :
          pagein(proc, page) \/ pageout(proc, page)
    /\ UNCHANGED <<processes, queueend, walk, pc, active, phase, turn>>

----------------------------------------------------------------------------
(* main *)

\* Mutant: one idle processor ends the simulation.
alldoneSome == \E i \in Processors : processes[i] = NULL

alldone == \A i \in Processors : processes[i] # NULL => ~active[processes[i]]

\* pageit returns, the clock advances and the loop is tested again.
EndTick ==
    /\ phase = "pageit"
    /\ phase' = IF alldone THEN "done" ELSE "allstep"
    /\ UNCHANGED <<processes, queueend, walk, pc, active, pages, pagesavail,
                   turn>>

Ended == phase = "done" /\ UNCHANGED vars

Next == allstep \/ allage \/ Call \/ EndTick \/ Ended

Spec == Init /\ [][Next]_vars

\* One sequential program: it goes on, and a pager returns sooner or later.
FairSpec == Spec /\ WF_vars(allstep) /\ WF_vars(allage) /\ WF_vars(EndTick)

----------------------------------------------------------------------------
\* The types of the variables.
TypeOK ==
    /\ processes \in [Processors -> Jobs \cup {NULL}]
    /\ queueend \in 0 .. QUEUESIZE
    /\ walk \in [Jobs -> Walks]
    /\ pc \in [Jobs -> Nat \ {0}]
    /\ \A j \in Jobs : pc[j] <= Len(walk[j])
    /\ active \in [Jobs -> BOOLEAN]
    /\ pages \in [Jobs -> [Pages -> PageState]]
    /\ pagesavail \in 0 .. PHYSICALPAGES
    /\ phase \in {"allstep", "allage", "pageit", "done"}
    /\ turn \in Processors

\* A job of the queue runs once: it is on one processor from the moment it
\* is taken from the queue until it is unloaded, and nowhere else.
JobsRunOnce ==
    /\ \A i, k \in Processors :
          processes[i] = processes[k] /\ i # k => processes[i] = NULL
    /\ \A j \in Jobs : j \in Running <=> j < queueend /\ active[j]
    /\ \A j \in Jobs : j >= queueend => active[j] /\ pc[j] = 1

\* No processor is idle while jobs wait: a pager that sees an inactive
\* processor can rely on it staying so.
IdleOnlyWhenDrained ==
    (\E i \in Processors : processes[i] = NULL) => queueend = QUEUESIZE

\* Only a running job holds frames: allage, which ages no other job's pages,
\* misses none, and unloading leaves none behind.
Held == {jp \in Jobs \X Pages : Holds(pages[jp[1]][jp[2]])}
OnlyRunningHold == \A jp \in Held : jp[1] \in Running

\* Every physical frame is free or held by exactly one page, through moves
\* in both directions and jobs that end in the middle of them.
FramesConserved == pagesavail + Cardinality(Held) = PHYSICALPAGES

\* When the simulation ends every job has reached its exit and every frame
\* is free again.
EndsClean ==
    phase = "done" => /\ \A j \in Jobs : ~active[j] /\ AtExit(j)
                      /\ pagesavail = PHYSICALPAGES

\* Pages go round out, coming, in, going, and take and give back frames as
\* PageFrames says.
PlaceOf(n) == CASE n = 0 -> "in"
                [] n > 0 -> "coming"
                [] n = OUT -> "out"
                [] OTHER -> "going"

Frames == INSTANCE PageFrames
            WITH Owners <- Jobs, Frames <- PHYSICALPAGES, free <- pagesavail,
                 place <- [j \in Jobs |-> [p \in Pages |-> PlaceOf(pages[j][p])]]

ImplementsFrames == Frames!Spec

\* A page that started to move arrives, whatever the pager does meanwhile.
TransitsEnd ==
    \A j \in Jobs, p \in Pages :
        /\ pages[j][p] > 0 ~> pages[j][p] = 0 \/ ~active[j]
        /\ pages[j][p] \in -PAGEWAIT .. -1 ~> pages[j][p] = OUT

\* The two that follow are of the particular pagers: of an arbitrary pager the
\* first does not hold, and the second is the specification above.

\* A processor that waits for a frame gets one sooner or later: every job of the
\* queue is run to its exit.
AllJobsEnd == <>(phase = "done")

\* The pager only does what any pager may do, so what holds of Simulator
\* holds of it.
IsAPager == Spec
=============================================================================

--------------------------- MODULE SimulatorProofs ---------------------------
(***************************************************************************)
(* What any pager can rely on, and what no pager can spoil: jobs and       *)
(* frames are accounted for, for every number of processors, jobs, pages   *)
(* and frames.                                                             *)
(***************************************************************************)
EXTENDS Simulator, FiniteSetTheorems, WellFoundedInduction, TLAPS

\* TypeOK without the upper bound of pagesavail, which follows from the count
\* of the frames.
Types ==
    /\ processes \in [Processors -> Jobs \cup {NULL}]
    /\ queueend \in 0 .. QUEUESIZE
    /\ walk \in [Jobs -> Walks]
    /\ pc \in [Jobs -> Nat \ {0}]
    /\ \A j \in Jobs : pc[j] <= Len(walk[j])
    /\ active \in [Jobs -> BOOLEAN]
    /\ pages \in [Jobs -> [Pages -> PageState]]
    /\ pagesavail \in Nat
    /\ phase \in {"allstep", "allage", "pageit", "done"}
    /\ turn \in Processors

\* A job is unloaded at its exit only.
ExitInv == \A j \in Jobs : ~active[j] => AtExit(j)

Good ==
    /\ Types
    /\ JobsRunOnce
    /\ IdleOnlyWhenDrained
    /\ OnlyRunningHold
    /\ FramesConserved
    /\ ExitInv
    /\ EndsClean

----------------------------------------------------------------------------
(* The constants, and the pages that hold a frame *)

\* The numbers the definitions are built from.
LEMMA Sizes ==
    /\ procs \in Nat \ {0} /\ QUEUESIZE \in Nat \ {0}
    /\ PAGEWAIT \in Nat \ {0} /\ PHYSICALPAGES \in Nat \ {0}
    /\ MAXPROCPAGES \in Nat \ {0}
    /\ Processors \subseteq Nat /\ Jobs \subseteq Nat /\ NULL \notin Jobs
    /\ 0 \in Processors
  BY SizesAssumption, NullAssumption DEF Processors, Jobs

\* Every walk has a first statement.
LEMMA WalksStart ==
    \A w \in Walks : w \in Seq(Pages) /\ Len(w) \in Nat \ {0}
  BY WalksAssumption

\* A set of natural numbers has a least one.
LEMMA LeastNat ==
    ASSUME NEW S \in SUBSET Nat, S # {}
    PROVE  \E n \in S : \A m \in S : n <= m
<1>1. PICK R : R = OpToRel(<, Nat)
  OBVIOUS
<1>2. IsWellFoundedOn(R, Nat)
  BY <1>1, NatLessThanWellFounded
<1>3. PICK n \in S : \A m \in S : ~(<<m, n>> \in R)
  BY <1>2, WFMin
<1>4. \A m, k \in Nat : m < k => <<m, k>> \in R
  BY <1>1 DEF OpToRel
<1>5. S \subseteq Nat
  OBVIOUS
<1>6. \A m \in S : ~(m < n)
  BY <1>3, <1>4, <1>5
<1> QED
  BY <1>5, <1>6

\* There are finitely many pages.
LEMMA FinitePages ==
    /\ IsFiniteSet(Pages) /\ IsFiniteSet(Jobs)
    /\ IsFiniteSet(Jobs \X Pages)
<1>1. IsFiniteSet(Pages)
  BY SizesAssumption, FS_Interval DEF Pages
<1>2. IsFiniteSet(Jobs)
  BY SizesAssumption, FS_Interval DEF Jobs
<1> QED
  BY <1>1, <1>2, FS_Product

\* Those that hold a frame can be counted.
LEMMA FiniteHeld ==
    IsFiniteSet(Held) /\ Cardinality(Held) \in Nat
<1>1. Held \in SUBSET (Jobs \X Pages)
  BY DEF Held
<1> QED
  BY <1>1, FinitePages, FS_Subset, FS_CardinalityType

\* What ageing does to the state of a page.
LEMMA AgedFacts ==
    ASSUME NEW n \in PageState
    PROVE  /\ Aged(n) \in PageState
           /\ Holds(Aged(n)) <=> Holds(n) /\ n # -PAGEWAIT
  BY Sizes DEF PageState, OUT, Aged, Holds

----------------------------------------------------------------------------
(* The steps, in terms of the job and the page they are about *)

\* Processor i gets n: the next job, or none because none is left.
Gets(i, n) ==
    /\ processes' = [processes EXCEPT ![i] = n]
    /\ \/ n = queueend /\ n \in Jobs /\ queueend' = n + 1
       \/ n = NULL /\ queueend = QUEUESIZE /\ queueend' = queueend

\* Job j ends at its exit and its pages go out.
Unloads(j) ==
    /\ j \in Jobs /\ j \in Running
    /\ AtExit(j)
    /\ active' = [active EXCEPT ![j] = FALSE]
    /\ pages' = [pages EXCEPT ![j] = [p \in Pages |-> OUT]]
    /\ pagesavail' =
         pagesavail + Cardinality({p \in Pages : Holds(pages[j][p])})

\* Page p of the running job j starts to come in, or to go out.
Comes(j, p) ==
    /\ j \in Jobs /\ j \in Running /\ p \in Pages
    /\ pages[j][p] = OUT /\ pagesavail > 0
    /\ pages' = [pages EXCEPT ![j][p] = PAGEWAIT]
    /\ pagesavail' = pagesavail - 1

Goes(j, p) ==
    /\ j \in Jobs /\ j \in Running /\ p \in Pages
    /\ pages[j][p] = 0
    /\ pages' = [pages EXCEPT ![j][p] = -1]
    /\ pagesavail' = pagesavail

\* The two outcomes of the reload in allstep.
LEMMA ReloadGets ==
    ASSUME Types, NEW i \in Processors, Reload(i)
    PROVE  \E n \in Jobs \cup {NULL} : Gets(i, n)
<1>1. queueend \in Nat /\ queueend <= QUEUESIZE
  BY Sizes DEF Types
<1>2. CASE queueend < QUEUESIZE
  <2>1. queueend \in Jobs
    BY <1>1, <1>2, Sizes DEF Jobs
  <2>2. Gets(i, queueend)
    BY <1>1, <1>2, <2>1, Sizes DEF Reload, empty, Gets
  <2> QED
    BY <2>1, <2>2
<1>3. CASE queueend = QUEUESIZE
  <2>1. Gets(i, NULL)
    BY <1>3, Sizes DEF Reload, empty, Gets
  <2> QED
    BY <2>1
<1> QED
  BY <1>1, <1>2, <1>3, Sizes

\* An exit unloads the job of the processor.
LEMMA ExitUnloads ==
    ASSUME Types, NEW i \in Processors, StepExit(i)
    PROVE  Unloads(processes[i]) /\ walk' = walk /\ pc' = pc
<1>1. processes[i] \in Jobs /\ processes[i] \in Running
  BY DEF Types, StepExit, Running
<1> QED
  BY <1>1 DEF StepExit, process_unload, NoPages, Unloads

\* A call of pagein moves a page of the processor's job, or nothing.
LEMMA PageinMoves ==
    ASSUME Types, NEW i, NEW p, pagein(i, p)
    PROVE  UNCHANGED <<pages, pagesavail>> \/ Comes(processes[i], p)
<1>1. CASE StartsIn(i, p)
  <2>1. PICK j : j = processes[i]
    OBVIOUS
  <2>2. j \in Jobs /\ j \in Running /\ p \in Pages
    BY <1>1, <2>1 DEF StartsIn, ValidCall, Types, Running
  <2>3. pages[j][p] \in PageState /\ pages[j][p] < -PAGEWAIT
    BY <1>1, <2>1, <2>2 DEF StartsIn, StateOf, Types
  <2>4. pages[j][p] = OUT
    BY <2>3, Sizes DEF PageState, OUT
  <2>5. pagesavail \in Nat /\ pagesavail > 0
    BY <1>1 DEF StartsIn, Types
  <2> QED
    BY <1>1, <2>1, <2>2, <2>4, <2>5 DEF pagein, Comes
<1> QED
  BY <1>1 DEF pagein

\* So does a call of pageout.
LEMMA PageoutMoves ==
    ASSUME Types, NEW i, NEW p, pageout(i, p)
    PROVE  UNCHANGED <<pages, pagesavail>> \/ Goes(processes[i], p)
<1>1. CASE StartsOut(i, p)
  <2>1. PICK j : j = processes[i]
    OBVIOUS
  <2>2. j \in Jobs /\ j \in Running /\ p \in Pages /\ pages[j][p] = 0
    BY <1>1, <2>1 DEF StartsOut, ValidCall, StateOf, Types, Running
  <2> QED
    BY <1>1, <2>1, <2>2 DEF pageout, Goes
<1> QED
  BY <1>1 DEF pageout

\* Whatever the pager calls, one page of a running job moves, or nothing.
LEMMA CallMoves ==
    ASSUME Types, Call
    PROVE  \/ UNCHANGED <<pages, pagesavail>>
           \/ \E j, p : Comes(j, p) \/ Goes(j, p)
  BY PageinMoves, PageoutMoves DEF Call

----------------------------------------------------------------------------
(* The types *)

\* Every step keeps the types.
LEMMA TypeStep ==
    Types /\ [Next]_vars => Types'
<1> SUFFICES ASSUME Types, [Next]_vars
             PROVE  Types'
  OBVIOUS
<1> USE DEF Types
<1>1. CASE allstep
  <2>1. turn' \in Processors /\ phase' \in {"allstep", "allage"}
    BY <1>1, Sizes DEF allstep, NextTurn, Processors
  <2>2. CASE StepIdle(turn)
    <3>1. PICK n \in Jobs \cup {NULL} : Gets(turn, n)
      BY <2>2, ReloadGets DEF StepIdle
    <3>2. /\ processes' \in [Processors -> Jobs \cup {NULL}]
          /\ queueend' \in 0 .. QUEUESIZE
      BY <3>1, Sizes DEF Gets, Jobs
    <3> QED
      BY <2>1, <2>2, <3>2 DEF StepIdle
  <2>3. CASE StepBlocked(turn)
    BY <2>1, <2>3 DEF StepBlocked
  <2>4. CASE StepCompute(turn)
    <3>1. processes[turn] \in Jobs
      BY <2>4 DEF StepCompute
    <3>2. PICK j : j = processes[turn]
      OBVIOUS
    <3>3. pc[j] \in Nat \ {0} /\ pc[j] + 1 <= Len(walk[j])
      BY <2>4, <3>1, <3>2, WalksStart DEF StepCompute, AtExit
    <3>4. pc' = [pc EXCEPT ![j] = pc[j] + 1] /\ walk' = walk
      BY <2>4, <3>2 DEF StepCompute
    <3> QED
      BY <2>1, <2>4, <3>1, <3>2, <3>3, <3>4 DEF StepCompute
  <2>5. CASE StepExit(turn)
    <3>1. PICK n \in Jobs \cup {NULL} : Gets(turn, n)
      BY <2>5, ReloadGets DEF StepExit
    <3>2. /\ processes' \in [Processors -> Jobs \cup {NULL}]
          /\ queueend' \in 0 .. QUEUESIZE
      BY <3>1, Sizes DEF Gets, Jobs
    <3>3. PICK j : j = processes[turn]
      OBVIOUS
    <3>4. Unloads(j) /\ walk' = walk /\ pc' = pc
      BY <2>5, <3>3, ExitUnloads
    <3>5. PICK P : P = {p \in Pages : Holds(pages[j][p])}
      OBVIOUS
    <3>6. Cardinality(P) \in Nat
      BY <3>5, FinitePages, FS_Subset, FS_CardinalityType
    <3>7. pagesavail' \in Nat
      BY <3>4, <3>5, <3>6 DEF Unloads
    <3>8. OUT \in PageState
      BY Sizes DEF OUT, PageState
    <3>9. /\ pages' \in [Jobs -> [Pages -> PageState]]
          /\ active' \in [Jobs -> BOOLEAN]
      BY <3>4, <3>8 DEF Unloads
    <3> QED
      BY <2>1, <3>2, <3>4, <3>7, <3>9
  <2> QED
    BY <1>1, <2>2, <2>3, <2>4, <2>5 DEF allstep
<1>2. CASE allage
  <2>1. pages' \in [Jobs -> [Pages -> PageState]]
    BY <1>2, AgedFacts DEF allage
  <2>2. Leaving \in SUBSET (Jobs \X Pages)
    BY DEF Leaving, Running
  <2>3. Cardinality(Leaving) \in Nat
    BY <2>2, FinitePages, FS_Subset, FS_CardinalityType
  <2> QED
    BY <1>2, <2>1, <2>3 DEF allage
<1>3. CASE Call
  <2>1. PAGEWAIT \in PageState /\ -1 \in PageState
    BY Sizes DEF OUT, PageState
  <2>2. ASSUME NEW j, NEW p, Comes(j, p) \/ Goes(j, p)
        PROVE  /\ pages' \in [Jobs -> [Pages -> PageState]]
               /\ pagesavail' \in Nat
    <3>1. j \in Jobs /\ p \in Pages
      BY <2>2 DEF Comes, Goes
    <3>2. pagesavail' \in Nat
      BY <2>2 DEF Comes, Goes
    <3>3. PICK n \in PageState :
            pages' = [pages EXCEPT ![j][p] = n]
      BY <2>1, <2>2 DEF Comes, Goes
    <3> QED
      BY <3>1, <3>2, <3>3
  <2>3. /\ pages' \in [Jobs -> [Pages -> PageState]]
        /\ pagesavail' \in Nat
    BY <1>3, <2>2, CallMoves
  <2> QED
    BY <1>3, <2>3 DEF Call
<1>4. CASE EndTick
  BY <1>4 DEF EndTick
<1>5. CASE UNCHANGED vars
  BY <1>5 DEF vars
<1> QED
  BY <1>1, <1>2, <1>3, <1>4, <1>5 DEF Next, Ended

----------------------------------------------------------------------------
(* The jobs *)

\* The jobs on the processors when processor i gets n.
LEMMA RunningAfter ==
    ASSUME Types, NEW i \in Processors, NEW n, Gets(i, n),
           NEW j \in Jobs
    PROVE  j \in Running' <=> j = n \/ \E k \in Processors \ {i} : processes[k] = j
  BY Sizes DEF Types, Gets, Running

\* What the queue and the jobs say does not depend on the other variables.
LEMMA JobsKept ==
    /\ JobsRunOnce /\ IdleOnlyWhenDrained /\ ExitInv
    /\ UNCHANGED <<processes, queueend, walk, pc, active>>
    => JobsRunOnce' /\ IdleOnlyWhenDrained' /\ ExitInv'
<1> SUFFICES ASSUME JobsRunOnce, IdleOnlyWhenDrained, ExitInv,
                    UNCHANGED <<processes, queueend, walk, pc, active>>
             PROVE  JobsRunOnce' /\ IdleOnlyWhenDrained' /\ ExitInv'
  OBVIOUS
<1>1. JobsRunOnce'
  BY DEF JobsRunOnce, Running
<1>2. IdleOnlyWhenDrained'
  BY DEF IdleOnlyWhenDrained
<1>3. ExitInv'
  BY DEF ExitInv, AtExit
<1> QED
  BY <1>1, <1>2, <1>3

\* A job is taken from the queue once, whoever takes it and whatever ends.
LEMMA JobsStep ==
    /\ Types /\ JobsRunOnce /\ IdleOnlyWhenDrained /\ ExitInv
    /\ [Next]_vars
    => JobsRunOnce' /\ IdleOnlyWhenDrained' /\ ExitInv'
<1> SUFFICES ASSUME Types, JobsRunOnce, IdleOnlyWhenDrained, ExitInv,
                    [Next]_vars
             PROVE  JobsRunOnce' /\ IdleOnlyWhenDrained' /\ ExitInv'
  OBVIOUS
<1> USE Sizes
<1>1. CASE allstep /\ StepIdle(turn)
  <2>1. turn \in Processors /\ processes[turn] = NULL
    BY <1>1 DEF StepIdle, Types
  <2>2. PICK n \in Jobs \cup {NULL} : Gets(turn, n)
    BY <1>1, <2>1, ReloadGets DEF StepIdle
  <2>3. queueend = QUEUESIZE /\ n = NULL
    BY <2>1, <2>2 DEF IdleOnlyWhenDrained, Gets, Jobs
  <2>4. processes' = processes /\ queueend' = queueend
    BY <2>1, <2>2, <2>3 DEF Gets, Types
  <2>5. UNCHANGED <<walk, pc, active>>
    BY <1>1 DEF StepIdle
  <2> QED
    BY <2>4, <2>5, JobsKept
<1>2. CASE allstep /\ StepCompute(turn)
  <2>1. PICK j : j = processes[turn]
    OBVIOUS
  <2>2. turn \in Processors /\ j \in Jobs /\ j \in Running
    BY <1>2, <2>1 DEF StepCompute, Types, Running
  <2>3. active[j] /\ j < queueend
    BY <2>2 DEF JobsRunOnce
  <2>4. /\ pc' = [pc EXCEPT ![j] = pc[j] + 1]
        /\ UNCHANGED <<processes, queueend, walk, active>>
    BY <1>2, <2>1 DEF StepCompute
  <2>5. \A k \in Jobs : k # j => pc'[k] = pc[k]
    BY <2>4 DEF Types
  <2>6. JobsRunOnce'
    <3>1. \A k \in Jobs : k >= queueend => k # j
      BY <2>2, <2>3 DEF Types, Jobs
    <3> QED
      BY <2>4, <2>5, <3>1 DEF JobsRunOnce, Running
  <2>7. ExitInv'
    BY <2>3, <2>4, <2>5 DEF ExitInv, AtExit
  <2> QED
    BY <2>4, <2>6, <2>7 DEF IdleOnlyWhenDrained
<1>3. CASE allstep /\ StepExit(turn)
  <2>1. PICK j : j = processes[turn]
    OBVIOUS
  <2>2. turn \in Processors
    BY DEF Types
  <2>3. Unloads(j) /\ walk' = walk /\ pc' = pc
    BY <1>3, <2>1, <2>2, ExitUnloads
  <2>4. PICK n \in Jobs \cup {NULL} : Gets(turn, n)
    BY <1>3, <2>2, ReloadGets DEF StepExit
  <2>5. j \in Jobs /\ j < queueend /\ active[j]
    BY <2>3 DEF Unloads, JobsRunOnce
  <2>6. \A k \in Processors \ {turn} : processes[k] # j
    BY <2>1, <2>2, <2>5 DEF JobsRunOnce
  <2>7. \A k \in Processors : processes[k] \in Jobs => processes[k] < queueend
    BY DEF JobsRunOnce, Running
  <2>8. queueend \in Nat /\ queueend' \in Nat /\ queueend <= queueend'
    BY <2>4 DEF Gets, Types, Jobs
  <2>9. /\ processes' = [processes EXCEPT ![turn] = n]
        /\ \A k \in Jobs : active'[k] <=> active[k] /\ k # j
    BY <2>3, <2>4 DEF Gets, Unloads, Types
  <2>10. \A k \in Processors : processes'[k] = IF k = turn THEN n ELSE processes[k]
    BY <2>9 DEF Types
  <2>11. n # NULL => \A k \in Processors : processes[k] # n
    BY <2>4, <2>7, <2>8 DEF Gets, Types, Jobs
  <2>12. \A i, k \in Processors :
            processes'[i] = processes'[k] /\ i # k => processes'[i] = NULL
    BY <2>10, <2>11 DEF JobsRunOnce
  <2>13. ASSUME NEW k \in Jobs
         PROVE  k \in Running' <=> k < queueend' /\ active'[k]
    <3>1. k \in Running' <=> k = n \/ \E i \in Processors \ {turn} : processes[i] = k
      BY <2>2, <2>4, RunningAfter
    <3>2. k \in Running <=> k = j \/ \E i \in Processors \ {turn} : processes[i] = k
      BY <2>1, <2>2, <2>5 DEF Running
    <3>3. k \in Running <=> k < queueend /\ active[k]
      BY DEF JobsRunOnce
    <3>4. CASE n \in Jobs
      <4>1. n = queueend /\ queueend' = queueend + 1 /\ active[n]
        BY <2>4, <3>4 DEF Gets, JobsRunOnce, Jobs
      <4>2. k < queueend' <=> k < queueend \/ k = n
        BY <2>8, <4>1 DEF Jobs
      <4> QED
        BY <2>5, <2>6, <2>8, <2>9, <3>1, <3>2, <3>3, <4>1, <4>2 DEF Jobs
    <3>5. CASE n = NULL
      <4>1. queueend' = queueend
        BY <2>4, <3>5 DEF Gets
      <4> QED
        BY <2>6, <2>9, <3>1, <3>2, <3>3, <3>5, <4>1
    <3> QED
      BY <2>4, <3>4, <3>5
  <2>14. \A k \in Jobs : k >= queueend' => active'[k] /\ pc'[k] = 1
    BY <2>3, <2>5, <2>8, <2>9 DEF JobsRunOnce, Jobs
  <2>15. IdleOnlyWhenDrained'
    <3>1. queueend = QUEUESIZE => queueend' = QUEUESIZE
      BY <2>4 DEF Gets, Jobs
    <3>2. n = NULL => queueend' = QUEUESIZE
      BY <2>4 DEF Gets
    <3> QED
      BY <2>10, <3>1, <3>2 DEF IdleOnlyWhenDrained
  <2>16. ExitInv'
    BY <2>3, <2>9 DEF ExitInv, AtExit, Unloads
  <2> QED
    BY <2>12, <2>13, <2>14, <2>15, <2>16 DEF JobsRunOnce
<1>4. CASE \/ allstep /\ StepBlocked(turn)
           \/ allage \/ Call \/ EndTick \/ UNCHANGED vars
  <2>1. UNCHANGED <<processes, queueend, walk, pc, active>>
    BY <1>4 DEF StepBlocked, allage, Call, EndTick, vars
  <2> QED
    BY <2>1, JobsKept
<1> QED
  BY <1>1, <1>2, <1>3, <1>4 DEF Next, Ended, allstep

----------------------------------------------------------------------------
(* The frames *)

\* A step that leaves the frames and their owners alone.
LEMMA FramesKept ==
    ASSUME OnlyRunningHold, FramesConserved,
           UNCHANGED <<pages, pagesavail>>, Running \subseteq Running'
    PROVE  OnlyRunningHold' /\ FramesConserved'
  BY DEF OnlyRunningHold, FramesConserved, Held

\* How the steps change the set of pages that hold a frame.
LEMMA HeldComes ==
    ASSUME Types, NEW j, NEW p, Comes(j, p)
    PROVE  /\ \A jp : jp \in Held' <=> jp \in Held \/ jp = <<j, p>>
           /\ <<j, p>> \notin Held
<1> USE Sizes
<1>1. j \in Jobs /\ p \in Pages /\ pages' = [pages EXCEPT ![j][p] = PAGEWAIT]
  BY DEF Comes
<1>2. PICK jp : jp = <<j, p>>
  OBVIOUS
<1>3. Held' = Held \cup {jp}
  BY <1>1, <1>2 DEF Held, Holds, Types
<1>4. jp \notin Held
  BY <1>2 DEF Comes, Held, Holds, OUT
<1> QED
  BY <1>2, <1>3, <1>4

\* A page that goes out keeps its frame.
LEMMA HeldGoes ==
    ASSUME Types, NEW j, NEW p, Goes(j, p)
    PROVE  Held' = Held
<1> USE Sizes
<1>1. /\ j \in Jobs /\ p \in Pages
      /\ pages' = [pages EXCEPT ![j][p] = -1] /\ pages[j][p] = 0
  BY DEF Goes
<1> QED
  BY <1>1 DEF Held, Holds, Types

\* Ageing takes the frames of those that have gone.
LEMMA HeldAges ==
    ASSUME Types, allage
    PROVE  Held' = Held \ Leaving /\ Leaving \subseteq Held
<1> USE Sizes
<1>1. Running \subseteq Jobs
  BY DEF Running, Types
<1>2. Leaving \subseteq Held
  <2>1. ASSUME NEW jp \in Leaving
        PROVE  jp \in Held
    <3>1. jp \in Running \X Pages /\ pages[jp[1]][jp[2]] = -PAGEWAIT
      BY DEF Leaving
    <3>2. jp \in Jobs \X Pages
      BY <1>1, <3>1
    <3>3. Holds(pages[jp[1]][jp[2]])
      BY <3>1 DEF Holds
    <3> QED
      BY <3>2, <3>3 DEF Held
  <2> QED
    BY <2>1
<1>3. ASSUME NEW j \in Jobs, NEW p \in Pages
      PROVE  Holds(pages'[j][p]) <=>
               Holds(pages[j][p]) /\ ~(j \in Running /\ pages[j][p] = -PAGEWAIT)
  <2>1. pages[j][p] \in PageState
    BY DEF Types
  <2>2. pages'[j][p] = IF j \in Running THEN Aged(pages[j][p]) ELSE pages[j][p]
    BY DEF allage
  <2> QED
    BY <2>1, <2>2, AgedFacts
<1>4. Held' = Held \ Leaving
  <2>1. \A jp \in Jobs \X Pages : jp[1] \in Jobs /\ jp[2] \in Pages
    OBVIOUS
  <2>2. \A jp \in Jobs \X Pages :
           jp \in Leaving <=> jp[1] \in Running /\ pages[jp[1]][jp[2]] = -PAGEWAIT
    BY <1>1 DEF Leaving
  <2> QED
    BY <1>3, <2>1, <2>2 DEF Held
<1> QED
  BY <1>2, <1>4

\* A job that ends keeps none, the others keep theirs.
LEMMA HeldUnloads ==
    ASSUME Types, NEW j, Unloads(j)
    PROVE  Held' = {jp \in Held : jp[1] # j}
<1>1. j \in Jobs /\ pages' = [pages EXCEPT ![j] = [p \in Pages |-> OUT]]
  BY DEF Unloads
<1> QED
  BY <1>1, Sizes DEF Held, Holds, OUT, Types

\* A page that comes in takes a frame.
LEMMA ComesStep ==
    ASSUME Types, OnlyRunningHold, FramesConserved,
           NEW j, NEW p, Comes(j, p), processes' = processes
    PROVE  OnlyRunningHold' /\ FramesConserved'
<1> USE Sizes
<1>1. j \in Jobs /\ j \in Running /\ p \in Pages
  BY DEF Comes
<1>2. PICK jp : jp = <<j, p>>
  OBVIOUS
<1>3. Held' = Held \cup {jp} /\ jp \notin Held
  BY <1>2, HeldComes
<1>4. Cardinality(Held') = Cardinality(Held) + 1
  BY <1>3, FiniteHeld, FS_AddElement
<1>5. FramesConserved'
  BY <1>4, FiniteHeld DEF FramesConserved, Comes, Types
<1>6. Running' = Running
  BY DEF Running
<1> QED
  BY <1>1, <1>2, <1>3, <1>5, <1>6 DEF OnlyRunningHold

\* A page that goes out keeps its frame.
LEMMA GoesStep ==
    ASSUME Types, OnlyRunningHold, FramesConserved,
           NEW j, NEW p, Goes(j, p), processes' = processes
    PROVE  OnlyRunningHold' /\ FramesConserved'
<1> USE Sizes
<1>1. j \in Jobs /\ j \in Running /\ p \in Pages
  BY DEF Goes
<1>2. Held' = Held
  BY HeldGoes
<1>3. Running' = Running
  BY DEF Running
<1> QED
  BY <1>2, <1>3 DEF OnlyRunningHold, FramesConserved, Goes

\* Ageing frees the frames of the pages that have gone, and no others.
LEMMA AgeStep ==
    ASSUME Types, OnlyRunningHold, FramesConserved, allage
    PROVE  OnlyRunningHold' /\ FramesConserved'
<1>1. Held' = Held \ Leaving /\ Leaving \subseteq Held
  BY HeldAges
<1>2. Held \cap Leaving = Leaving
  BY <1>1
<1>3. Cardinality(Held') = Cardinality(Held) - Cardinality(Leaving)
  BY <1>1, <1>2, FiniteHeld, FS_Difference
<1>4. Cardinality(Leaving) \in Nat
  BY <1>1, FiniteHeld, FS_Subset, FS_CardinalityType
<1>5. FramesConserved'
  BY <1>3, <1>4, FiniteHeld DEF FramesConserved, allage, Types
<1>6. Running' = Running
  BY DEF Running, allage
<1> QED
  BY <1>1, <1>5, <1>6 DEF OnlyRunningHold

\* The frames of a job are those of its pages.
LEMMA FramesOfJob ==
    ASSUME NEW j, NEW P, IsFiniteSet(P)
    PROVE  Cardinality({j} \X P) = Cardinality(P)
<1>1. PICK S : S = {j}
  OBVIOUS
<1>2. IsFiniteSet(S) /\ Cardinality(S) = 1
  BY ONLY <1>1, FS_Singleton
<1>3. Cardinality(S \X P) = Cardinality(S) * Cardinality(P)
  BY <1>2, FS_Product
<1>4. Cardinality(P) \in Nat
  BY FS_CardinalityType
<1> QED
  BY <1>1, <1>2, <1>3, <1>4

\* A job that ends gives back the frames it holds, and no others.
LEMMA UnloadStep ==
    ASSUME Types, JobsRunOnce, OnlyRunningHold, FramesConserved,
           NEW i \in Processors, Unloads(processes[i]),
           NEW n \in Jobs \cup {NULL}, Gets(i, n)
    PROVE  OnlyRunningHold' /\ FramesConserved'
<1> USE Sizes
<1>1. PICK j : j = processes[i]
  OBVIOUS
<1>2. j \in Jobs /\ pages' = [pages EXCEPT ![j] = [p \in Pages |-> OUT]]
  BY <1>1 DEF Unloads
<1>3. PICK P : P = {p \in Pages : Holds(pages[j][p])}
  OBVIOUS
<1>4. IsFiniteSet(P) /\ pagesavail' = pagesavail + Cardinality(P)
  BY <1>1, <1>3, FinitePages, FS_Subset DEF Unloads
<1>5. PICK T : T = {j} \X P
  OBVIOUS
<1>6. T \subseteq Held
  BY <1>2, <1>3, <1>5 DEF Held
<1>7. Held' = Held \ T
  BY <1>2, <1>3, <1>5 DEF Held, Holds, OUT, Types
<1>8. Cardinality(Held') = Cardinality(Held) - Cardinality(T)
  <2>1. Held \cap T = T
    BY <1>6
  <2> QED
    BY <1>7, <2>1, FiniteHeld, FS_Difference
<1>9. Cardinality(T) = Cardinality(P) /\ Cardinality(P) \in Nat
  BY <1>4, <1>5, FramesOfJob, FS_CardinalityType
<1>10. FramesConserved'
  BY <1>4, <1>8, <1>9, FiniteHeld DEF FramesConserved, Types
<1>11. ASSUME NEW k \in Jobs, k \in Running, k # j
       PROVE  k \in Running'
  <2>1. \E h \in Processors \ {i} : processes[h] = k
    BY <1>1, <1>11 DEF Running
  <2> QED
    BY <2>1, RunningAfter
<1>12. \A jp \in Held' : jp[1] \in Jobs /\ jp[1] \in Running /\ jp[1] # j
  BY <1>3, <1>5, <1>7 DEF OnlyRunningHold, Held
<1> QED
  BY <1>10, <1>11, <1>12 DEF OnlyRunningHold

\* No step loses a frame or leaves one to a job that no longer runs.
LEMMA FramesStep ==
    /\ Types /\ JobsRunOnce /\ IdleOnlyWhenDrained
    /\ OnlyRunningHold /\ FramesConserved /\ [Next]_vars
    => OnlyRunningHold' /\ FramesConserved'
<1> SUFFICES ASSUME Types, JobsRunOnce, IdleOnlyWhenDrained, OnlyRunningHold,
                    FramesConserved, [Next]_vars
             PROVE  OnlyRunningHold' /\ FramesConserved'
  OBVIOUS
<1>1. CASE allstep
  <2>1. turn \in Processors
    BY DEF Types
  <2>2. CASE StepIdle(turn)
    <3>1. UNCHANGED <<pages, pagesavail>>
      BY <2>2 DEF StepIdle
    <3>2. PICK n \in Jobs \cup {NULL} : Gets(turn, n)
      BY <2>1, <2>2, ReloadGets DEF StepIdle
    <3>3. Running \subseteq Running'
      BY <2>1, <2>2, <3>2 DEF StepIdle, Gets, Running, Types
    <3> QED
      BY <3>1, <3>3, FramesKept
  <2>3. CASE StepBlocked(turn) \/ StepCompute(turn)
    BY <2>3, FramesKept DEF StepBlocked, StepCompute, Running
  <2>4. CASE StepExit(turn)
    <3>1. PICK n \in Jobs \cup {NULL} : Gets(turn, n)
      BY <2>1, <2>4, ReloadGets DEF StepExit
    <3> QED
      BY <2>1, <2>4, <3>1, ExitUnloads, UnloadStep
  <2> QED
    BY <1>1, <2>2, <2>3, <2>4 DEF allstep
<1>2. CASE allage
  BY <1>2, AgeStep
<1>3. CASE Call
  <2>1. processes' = processes
    BY <1>3 DEF Call
  <2>2. CASE UNCHANGED <<pages, pagesavail>>
    BY <2>1, <2>2, FramesKept DEF Running
  <2>3. ASSUME NEW j, NEW p, Comes(j, p) \/ Goes(j, p)
        PROVE  OnlyRunningHold' /\ FramesConserved'
    BY <2>1, <2>3, ComesStep, GoesStep
  <2> QED
    BY <1>3, <2>2, <2>3, CallMoves
<1>4. CASE EndTick \/ UNCHANGED vars
  BY <1>4, FramesKept DEF EndTick, vars, Running
<1> QED
  BY <1>1, <1>2, <1>3, <1>4 DEF Next, Ended

----------------------------------------------------------------------------
(* The invariant *)

\* When no processor has an active job all is done and free.
LEMMA EndsStep ==
    Good /\ [Next]_vars => EndsClean'
<1> SUFFICES ASSUME Good, [Next]_vars
             PROVE  EndsClean'
  OBVIOUS
<1> USE Sizes DEF Good
<1>1. CASE EndTick
  <2>1. UNCHANGED <<processes, queueend, walk, pc, active, pages, pagesavail>>
    BY <1>1 DEF EndTick
  <2>2. CASE alldone
    <3>1. \A i \in Processors : processes[i] = NULL
      <4>1. ASSUME NEW i \in Processors, processes[i] # NULL
            PROVE  FALSE
        <5>1. processes[i] \in Jobs /\ processes[i] \in Running
          BY <4>1 DEF Types, Running
        <5>2. active[processes[i]]
          BY <5>1 DEF JobsRunOnce
        <5> QED
          BY <2>2, <4>1, <5>2 DEF alldone
      <4> QED
        BY <4>1
    <3>2. queueend = QUEUESIZE
      BY <3>1 DEF IdleOnlyWhenDrained
    <3>3. Running = {}
      BY <3>1 DEF Running
    <3>4. \A j \in Jobs : ~active[j] /\ AtExit(j)
      <4>1. \A j \in Jobs : j < queueend
        BY <3>2 DEF Jobs
      <4> QED
        BY <3>3, <4>1 DEF JobsRunOnce, ExitInv
    <3>5. Held = {}
      BY <3>3 DEF OnlyRunningHold
    <3>6. pagesavail = PHYSICALPAGES
      BY <3>5, FS_EmptySet DEF FramesConserved, Types
    <3> QED
      BY <2>1, <3>4, <3>6 DEF EndsClean, AtExit
  <2>3. CASE ~alldone
    BY <1>1, <2>3 DEF EndTick, EndsClean
  <2> QED
    BY <2>2, <2>3
<1>2. CASE allstep \/ allage \/ Call
  BY <1>2 DEF allstep, NextTurn, allage, Call, EndsClean
<1>3. CASE UNCHANGED vars
  BY <1>3 DEF vars, EndsClean, AtExit
<1> QED
  BY <1>1, <1>2, <1>3 DEF Next, Ended

\* It holds when the processors have taken their first jobs.
LEMMA InitGood ==
    Init => Good
<1> SUFFICES ASSUME Init
             PROVE  Good
  OBVIOUS
<1> USE Sizes DEF Init, initqueue, NoPages
<1>1. Types
  <2>1. OUT \in PageState
    BY DEF OUT, PageState
  <2>2. \A j \in Jobs : pc[j] <= Len(walk[j])
    BY WalksStart
  <2>3. processes \in [Processors -> Jobs \cup {NULL}]
    BY DEF Processors, Jobs
  <2>4. queueend \in 0 .. QUEUESIZE
    OBVIOUS
  <2> QED
    BY <2>1, <2>2, <2>3, <2>4 DEF Types
<1>2. \A j \in Jobs : j \in Running <=> j < queueend
  <2>1. ASSUME NEW j \in Jobs
        PROVE  j \in Running <=> j < procs
    <3>1. j \in Running <=> \E i \in Processors : processes[i] = j
      BY DEF Running
    <3>2. j \in Processors <=> j < procs
      BY DEF Processors, Jobs
    <3>3. \A i \in Processors : processes[i] = j <=> i = j
      BY DEF Processors, Jobs
    <3> QED
      BY <3>1, <3>2, <3>3
  <2> QED
    BY <2>1 DEF Jobs
<1>3. JobsRunOnce
  <2>1. \A i, k \in Processors :
           processes[i] = processes[k] /\ i # k => processes[i] = NULL
    BY DEF Processors, Jobs
  <2> QED
    BY <1>2, <2>1 DEF JobsRunOnce
<1>4. IdleOnlyWhenDrained
  BY DEF IdleOnlyWhenDrained, Processors, Jobs
<1>5. Held = {}
  BY DEF Held, Holds, OUT
<1>6. OnlyRunningHold
  BY <1>5 DEF OnlyRunningHold
<1>7. FramesConserved
  BY <1>5, FS_EmptySet DEF FramesConserved
<1>8. ExitInv /\ EndsClean
  BY DEF ExitInv, EndsClean
<1> QED
  BY <1>1, <1>3, <1>4, <1>6, <1>7, <1>8 DEF Good

\* Every step keeps it.
LEMMA GoodStep ==
    Good /\ [Next]_vars => Good'
  BY TypeStep, JobsStep, FramesStep, EndsStep DEF Good

\* So it always holds.
LEMMA AlwaysGood ==
    Spec => []Good
  BY InitGood, GoodStep, PTL DEF Spec

\* The variables of the simulator keep their types, for every number of
\* processors, jobs, pages and frames and whatever the pager does.
THEOREM TypeCorrect ==
    Spec => []TypeOK
<1>1. Good => TypeOK
  <2>1. ASSUME Good
        PROVE  pagesavail \in 0 .. PHYSICALPAGES
    BY <2>1, FiniteHeld, Sizes DEF Good, Types, FramesConserved
  <2> QED
    BY <2>1 DEF Good, Types, TypeOK
<1> QED
  BY <1>1, AlwaysGood, PTL

\* allstep hands out the jobs of the queue once each.
THEOREM EachJobRunsOnce ==
    Spec => []JobsRunOnce
<1>1. Good => JobsRunOnce
  BY DEF Good
<1> QED
  BY <1>1, AlwaysGood, PTL

\* allstep leaves no processor idle while the queue has a job.
THEOREM NoIdleWhileJobsWait ==
    Spec => []IdleOnlyWhenDrained
<1>1. Good => IdleOnlyWhenDrained
  BY DEF Good
<1> QED
  BY <1>1, AlwaysGood, PTL

\* process_unload leaves no page of a job that has ended in a frame.
THEOREM RunningJobsHoldTheFrames ==
    Spec => []OnlyRunningHold
<1>1. Good => OnlyRunningHold
  BY DEF Good
<1> QED
  BY <1>1, AlwaysGood, PTL

\* pagesavail counts the frames no page holds, at every moment.
THEOREM FramesStayConserved ==
    Spec => []FramesConserved
<1>1. Good => FramesConserved
  BY DEF Good
<1> QED
  BY <1>1, AlwaysGood, PTL

\* alldone ends the simulation with every job at its exit and all frames free.
THEOREM SimulationEndsClean ==
    Spec => []EndsClean
<1>1. Good => EndsClean
  BY DEF Good
<1> QED
  BY <1>1, AlwaysGood, PTL

----------------------------------------------------------------------------
(* The life cycle of a page *)

\* The places of PageFrames, as Simulator maps them.
Place == [j \in Jobs |-> [p \in Pages |-> PlaceOf(pages[j][p])]]

\* The four places, by the number of a page.
LEMMA Places ==
    ASSUME NEW n \in PageState
    PROVE  /\ PlaceOf(n) = "in" <=> n = 0
           /\ PlaceOf(n) = "coming" <=> n > 0
           /\ PlaceOf(n) = "going" <=> n < 0 /\ n >= -PAGEWAIT
           /\ PlaceOf(n) = "out" <=> n = OUT
           /\ PlaceOf(n) \in {"in", "coming", "going", "out"}
           /\ Holds(n) <=> PlaceOf(n) # "out"
  BY Sizes DEF PageState, PlaceOf, OUT, Holds

\* PageFrames counts as the simulator does.
LEMMA SameCount ==
    ASSUME NEW S
    PROVE  Frames!Cardinality(S) = Cardinality(S)
  BY DEF Frames!Cardinality, Cardinality

\* pagein begins: PageFrames takes a frame for the page.
LEMMA ComesStarts ==
    ASSUME Types, NEW j, NEW p, Comes(j, p)
    PROVE  Frames!Next
<1> USE Sizes
<1>1. j \in Jobs /\ p \in Pages /\ pages[j][p] = OUT
  BY DEF Comes
<1>2. /\ PAGEWAIT \in PageState /\ PlaceOf(PAGEWAIT) = "coming"
      /\ OUT \in PageState /\ PlaceOf(OUT) = "out"
  BY DEF PageState, PlaceOf, OUT
<1>3. pages' = [pages EXCEPT ![j][p] = PAGEWAIT]
  BY DEF Comes
<1>4. Place' = [Place EXCEPT ![j][p] = "coming"]
  BY <1>1, <1>2, <1>3 DEF Place, Types
<1>5. Place[j][p] = "out"
  BY <1>1, <1>2 DEF Place
<1>6. Frames!StartIn(j, p)
  BY <1>4, <1>5 DEF Frames!StartIn, Place, Comes
<1> QED
  BY <1>1, <1>6 DEF Frames!Next

\* pageout begins: the page keeps its frame.
LEMMA GoesStarts ==
    ASSUME Types, NEW j, NEW p, Goes(j, p)
    PROVE  Frames!Next
<1> USE Sizes
<1>1. j \in Jobs /\ p \in Pages /\ pages[j][p] = 0
  BY DEF Goes
<1>2. /\ -1 \in PageState /\ PlaceOf(-1) = "going"
      /\ PlaceOf(0) = "in"
  BY DEF PageState, PlaceOf, OUT
<1>3. pages' = [pages EXCEPT ![j][p] = -1]
  BY DEF Goes
<1>4. Place' = [Place EXCEPT ![j][p] = "going"]
  BY <1>1, <1>2, <1>3 DEF Place, Types
<1>5. Place[j][p] = "in"
  BY <1>1, <1>2 DEF Place
<1>6. Frames!StartOut(j, p)
  BY <1>4, <1>5 DEF Frames!StartOut, Place, Goes
<1> QED
  BY <1>1, <1>6 DEF Frames!Next

\* A job ends: its frames are released.
LEMMA UnloadReleases ==
    ASSUME Types, NEW j, Unloads(j)
    PROVE  Frames!Next
<1> USE Sizes
<1>1. j \in Jobs /\ pages' = [pages EXCEPT ![j] = [p \in Pages |-> OUT]]
  BY DEF Unloads
<1>2. PlaceOf(OUT) = "out"
  BY DEF PlaceOf, OUT
<1>3. Place' = [Place EXCEPT ![j] = [p \in Pages |-> "out"]]
  BY <1>1, <1>2 DEF Place, Types
<1>4. {p \in Pages : Holds(pages[j][p])} = {p \in Pages : Place[j][p] # "out"}
  BY <1>1, Places DEF Place, Types
<1>5. Frames!Release(j)
  BY <1>3, <1>4, SameCount DEF Frames!Release, Place, Unloads
<1> QED
  BY <1>1, <1>5 DEF Frames!Next

\* A tick of the clock: the pages whose time is up arrive.
LEMMA AgeArrives ==
    ASSUME Types, allage
    PROVE  Frames!Next
<1> USE Sizes
<1> DEFINE Up == {jp \in Running \X Pages :
                    pages[jp[1]][jp[2]] \in {1, -PAGEWAIT}}
<1>1. Running \subseteq Jobs
  BY DEF Running, Types
<1>2. ASSUME NEW j \in Jobs, NEW p \in Pages
      PROVE  /\ <<j, p>> \in Up <=>
                  j \in Running /\ pages[j][p] \in {1, -PAGEWAIT}
             /\ <<j, p>> \in Leaving <=>
                  j \in Running /\ pages[j][p] = -PAGEWAIT
  BY <1>1 DEF Leaving
<1>3. ASSUME NEW j \in Jobs, NEW p \in Pages
      PROVE  Place'[j][p] = IF <<j, p>> \notin Up THEN Place[j][p]
                            ELSE IF Place[j][p] = "coming" THEN "in" ELSE "out"
  <2>1. PICK n \in PageState : n = pages[j][p]
    BY DEF Types
  <2>2. pages'[j][p] = IF j \in Running THEN Aged(n) ELSE n
    BY <2>1 DEF allage
  <2>3. Place[j][p] = PlaceOf(n) /\ Place'[j][p] = PlaceOf(pages'[j][p])
    BY <2>1 DEF Place
  <2>4. /\ n = 1 => PlaceOf(n) = "coming" /\ PlaceOf(Aged(n)) = "in"
        /\ n = -PAGEWAIT => PlaceOf(n) = "going" /\ PlaceOf(Aged(n)) = "out"
        /\ n \notin {1, -PAGEWAIT} => PlaceOf(Aged(n)) = PlaceOf(n)
    BY DEF PageState, OUT, Aged, PlaceOf
  <2> QED
    BY <1>2, <2>1, <2>2, <2>3, <2>4
<1>4. Place' = [j \in Jobs |-> [p \in Pages |->
                  IF <<j, p>> \notin Up THEN Place[j][p]
                  ELSE IF Place[j][p] = "coming" THEN "in" ELSE "out"]]
  BY <1>3 DEF Place
<1>5. Up \in SUBSET Frames!In({"coming", "going"})
  <2>1. ASSUME NEW jp \in Up
        PROVE  jp \in Frames!In({"coming", "going"})
    <3>1. jp[1] \in Jobs /\ jp[2] \in Pages /\ jp \in Jobs \X Pages
      BY <1>1
    <3>2. pages[jp[1]][jp[2]] \in PageState
      BY <3>1 DEF Types
    <3>3. Place[jp[1]][jp[2]] \in {"coming", "going"}
      BY <3>1, <3>2, Places DEF Place
    <3> QED
      BY <3>1, <3>3 DEF Frames!In, Place
  <2> QED
    BY <2>1
<1>6. Up \cap Frames!In({"going"}) = Leaving
  <2>1. ASSUME NEW jp \in Jobs \X Pages
        PROVE  jp \in Up /\ jp \in Frames!In({"going"}) <=> jp \in Leaving
    <3>0. jp = <<jp[1], jp[2]>> /\ jp[1] \in Jobs /\ jp[2] \in Pages
      OBVIOUS
    <3>1. PICK j \in Jobs, p \in Pages : jp = <<j, p>>
      BY <3>0
    <3>2. pages[j][p] \in PageState
      BY DEF Types
    <3>3. jp \in Frames!In({"going"}) <=> PlaceOf(pages[j][p]) = "going"
      BY <3>1 DEF Frames!In
    <3>4. PlaceOf(pages[j][p]) = "going" <=>
            pages[j][p] < 0 /\ pages[j][p] >= -PAGEWAIT
      BY <3>2, Places
    <3> HIDE DEF Up
    <3>5. /\ jp \in Up <=> j \in Running /\ pages[j][p] \in {1, -PAGEWAIT}
          /\ jp \in Leaving <=> j \in Running /\ pages[j][p] = -PAGEWAIT
      BY <1>2, <3>1
    <3> QED
      BY <3>3, <3>4, <3>5
  <2>2. Up \subseteq Jobs \X Pages /\ Leaving \subseteq Jobs \X Pages
    BY <1>1 DEF Leaving
  <2> QED
    BY <2>1, <2>2
<1> HIDE DEF Up
<1>7. Frames!Arrive(Up)
  BY <1>4, <1>6, SameCount DEF Frames!Arrive, Place, allage
<1> QED
  BY <1>5, <1>7 DEF Frames!Next

\* Whatever the pager calls, pages go round out, coming, in and going, and
\* take and give back frames, as PageFrames says.
THEOREM SimulatorImplementsFrames ==
    Spec => ImplementsFrames
<1>1. Init => Frames!Init
  <2>1. PlaceOf(OUT) = "out"
    BY Sizes DEF PlaceOf, OUT
  <2> QED
    BY <2>1 DEF Init, initqueue, NoPages, Frames!Init
<1>2. Good /\ [Next]_vars => [Frames!Next]_(Frames!frameVars)
  <2> SUFFICES ASSUME Good, [Next]_vars
               PROVE  Frames!Next \/ UNCHANGED Frames!frameVars
    OBVIOUS
  <2>1. Types
    BY DEF Good
  <2>2. CASE UNCHANGED <<pages, pagesavail>>
    BY <2>2 DEF Frames!frameVars
  <2>3. CASE allstep /\ StepExit(turn)
    BY <2>1, <2>3, ExitUnloads, UnloadReleases DEF Types
  <2>4. CASE allage
    BY <2>1, <2>4, AgeArrives
  <2>5. CASE Call
    BY <2>1, <2>2, <2>5, CallMoves, ComesStarts, GoesStarts
  <2> QED
    BY <2>2, <2>3, <2>4, <2>5 DEF Next, allstep, StepIdle, StepBlocked,
         StepCompute, EndTick, Ended, vars
<1> QED
  BY <1>1, <1>2, AlwaysGood, PTL DEF Spec, ImplementsFrames, Frames!Spec

=============================================================================

---------------------------- MODULE PagerProofs ----------------------------
(***************************************************************************)
(* The pagers that make a call or two in a step, for every number of       *)
(* processors, jobs, pages and frames.                                     *)
(*                                                                         *)
(* The basic pager serves one job at a time, and with it frames suffice    *)
(* for every job whose pages fit in them.                                  *)
(*                                                                         *)
(* The LRU pager evicts by the notes it keeps for a processor.  Jobs come  *)
(* and go on a processor and leave their notes behind, but a page in a     *)
(* frame was noted for the job that holds it.                              *)
(*                                                                         *)
(* The test of the calls knows where its page is by what they return.      *)
(***************************************************************************)
EXTENDS Pagers, SimulatorProofs

----------------------------------------------------------------------------
(* The basic pager *)

\* Only the job on the first processor that has one holds frames.
HolderInv ==
    \A jp \in Held : \A i \in Processors :
        processes[i] # NULL =>
            \E k \in Processors : processes[k] = jp[1] /\ k <= i

Visited(j) == {walk[j][k] : k \in DOMAIN walk[j]}

\* A page is only brought in when the program counter is on it.
VisitedInv == \A jp \in Held : jp[2] \in Visited(jp[1])

BasicGood == Good /\ HolderInv /\ VisitedInv /\ NeverSwapsOut

----------------------------------------------------------------------------
(* What pageit does *)

First(i) ==
    /\ i \in Processors /\ processes[i] # NULL
    /\ \A k \in Processors : processes[k] # NULL => i <= k

\* The jobs on the processors are all active: the first active processor is
\* the first that has a job.
LEMMA FirstActiveIsFirst ==
    ASSUME Good, ActiveProcs # {}
    PROVE  First(FirstActive)
<1>1. ActiveProcs \in SUBSET Nat
  BY Sizes DEF ActiveProcs
<1>2. \E i \in ActiveProcs : \A k \in ActiveProcs : i <= k
  BY <1>1, LeastNat
<1>3. FirstActive \in ActiveProcs /\ \A k \in ActiveProcs : FirstActive <= k
  BY <1>2 DEF FirstActive
<1>4. \A k \in Processors : processes[k] # NULL => k \in ActiveProcs
  <2>1. ASSUME NEW k \in Processors, processes[k] # NULL
        PROVE  active[processes[k]]
    <3>1. processes[k] \in Jobs /\ processes[k] \in Running
      BY <2>1 DEF Good, Types, Running
    <3> QED
      BY <3>1 DEF Good, JobsRunOnce
  <2> QED
    BY <2>1 DEF ActiveProcs
<1> QED
  BY <1>3, <1>4 DEF First, ActiveProcs

\* Job j lacks its page and cannot have it.
Refused(j) ==
    /\ pages[j][Needed(j)] < 0
    /\ Holds(pages[j][Needed(j)]) \/ pagesavail = 0

\* pageit brings in the page the first job is on, or sends out another one of
\* that job because it cannot.
LEMMA PageitMoves ==
    ASSUME Good, pageit
    PROVE  \/ UNCHANGED <<pages, pagesavail>>
           \/ \E i : /\ First(i)
                     /\ \/ Comes(processes[i], Needed(processes[i]))
                        \/ /\ Refused(processes[i])
                           /\ \E p \in Pages \ {Needed(processes[i])} :
                                 Goes(processes[i], p)
<1>1. CASE ActiveProcs = {}
  BY <1>1 DEF pageit
<1>2. CASE ActiveProcs # {}
  <2>1. PICK i : i = FirstActive
    OBVIOUS
  <2>2. First(i) /\ Serve(i)
    BY <1>2, <2>1, FirstActiveIsFirst DEF pageit
  <2>3. PICK j : j = processes[i]
    OBVIOUS
  <2>4. PICK page : page = Needed(j)
    OBVIOUS
  <2>5. Types
    BY DEF Good
  <2>6. CASE Resident(processes[i])
    BY <2>2, <2>6 DEF Serve, Resident, pagein, StartsIn, PageinReturns
  <2>7. CASE ~Resident(processes[i]) /\ PageinReturns(i, Needed(processes[i]))
    <3>1. pagein(i, Needed(processes[i]))
      BY <2>2, <2>7 DEF Serve
    <3> QED
      BY <2>2, <2>5, <3>1, PageinMoves
  <2>8. CASE ~Resident(processes[i]) /\ ~PageinReturns(i, Needed(processes[i]))
    <3>1. EvictOther(i, page)
      BY <2>2, <2>3, <2>4, <2>8 DEF Serve
    <3>2. CASE Victims(i, page) = {}
      BY <3>1, <3>2 DEF EvictOther
    <3>3. CASE Victims(i, page) # {}
      <4>1. Victims(i, page) \in SUBSET Nat
        BY Sizes DEF Victims, Pages
      <4>2. PICK p \in Victims(i, page) : pageout(i, p)
        <5>1. \E p \in Victims(i, page) : \A r \in Victims(i, page) : p <= r
          BY <3>3, <4>1, LeastNat
        <5> QED
          BY <3>1, <3>3, <5>1 DEF EvictOther
      <4>3. p \in Pages \ {page}
        BY <4>2 DEF Victims
      <4>4. Refused(j)
        <5>1. /\ i \in Processors /\ processes[i] # NULL /\ j \in Jobs
              /\ j \in Running
          BY <2>2, <2>3, <2>5 DEF First, Types, Running
        <5>2. active[j]
          BY <5>1 DEF Good, JobsRunOnce
        <5>3. page \in Pages
          <6>1. walk[j] \in Seq(Pages) /\ pc[j] \in 1 .. Len(walk[j])
            BY <2>5, <5>1, WalksStart DEF Types
          <6> QED
            BY <2>4, <6>1 DEF Needed
        <5>4. ValidCall(i, page)
          BY <2>3, <5>1, <5>2, <5>3 DEF ValidCall
        <5>5. pages[j][page] \in PageState
          BY <2>5, <5>1, <5>3 DEF Types
        <5>6. /\ ~(pages[j][page] >= 0)
              /\ ~(pages[j][page] < -PAGEWAIT /\ pagesavail # 0)
          BY <2>3, <2>4, <2>8, <5>4 DEF PageinReturns, StartsIn, StateOf
        <5> QED
          BY <2>4, <5>5, <5>6, Sizes DEF Refused, Holds, PageState, OUT
      <4> QED
        BY <2>2, <2>3, <2>4, <2>5, <4>2, <4>3, <4>4, PageoutMoves
    <3> QED
      BY <3>2, <3>3
  <2> QED
    BY <2>6, <2>7, <2>8
<1> QED
  BY <1>1, <1>2

\* A tick of the pager is a call of pagein or pageout, or none.
LEMMA PageitCalls ==
    pageit => Call \/ UNCHANGED vars
<1> SUFFICES ASSUME pageit
             PROVE  Call \/ UNCHANGED vars
  OBVIOUS
<1>1. /\ phase = "pageit"
      /\ UNCHANGED <<processes, queueend, walk, pc, active, phase, turn>>
  BY DEF pageit
<1>2. ASSUME NEW i, NEW p, pagein(i, p) \/ pageout(i, p)
      PROVE  Call \/ UNCHANGED vars
  <2>1. CASE UNCHANGED <<pages, pagesavail>>
    BY <1>1, <2>1 DEF vars
  <2>2. CASE StartsIn(i, p) \/ StartsOut(i, p)
    <3>1. i \in -1 .. procs /\ p \in -1 .. MAXPROCPAGES
      BY <2>2, Sizes DEF StartsIn, StartsOut, ValidCall, Processors, Pages
    <3> QED
      BY <1>1, <1>2, <3>1 DEF Call
  <2> QED
    BY <1>2, <2>1, <2>2 DEF pagein, pageout
<1>3. CASE UNCHANGED <<pages, pagesavail>>
  BY <1>1, <1>3 DEF vars
<1> QED
  BY <1>2, <1>3 DEF pageit, Serve, EvictOther

\* Every step of the pager and the program is one of Simulator.
LEMMA BasicStep ==
    [BasicNext]_basicVars => [Next]_vars
  BY PageitCalls DEF BasicNext, basicVars, Next, BasicEndTick

\* The basic pager only does what any pager may do.
THEOREM BasicIsAPager ==
    BasicSpec => IsAPager
<1>1. BasicInit => Init
  BY DEF BasicInit
<1> QED
  BY <1>1, BasicStep, PTL DEF BasicSpec, Spec, IsAPager

----------------------------------------------------------------------------
(* One job holds the frames *)

\* A step of the simulator that moves no page and ends no job.
LEMMA StillStep ==
    ASSUME Good, HolderInv, VisitedInv, NeverSwapsOut, [Next]_vars,
           UNCHANGED <<pages, processes>>
    PROVE  HolderInv' /\ VisitedInv' /\ NeverSwapsOut'
<1>1. walk' = walk
  BY DEF Next, allstep, StepIdle, StepBlocked, StepCompute, StepExit, allage,
         Call, EndTick, Ended, vars
<1>2. Held' = Held
  BY DEF Held
<1> QED
  BY <1>1, <1>2 DEF HolderInv, VisitedInv, NeverSwapsOut, Visited

\* Only the job that holds the frames can end; it leaves none behind.
LEMMA ExitStep ==
    ASSUME Good, HolderInv, VisitedInv, NeverSwapsOut, StepExit(turn)
    PROVE  HolderInv' /\ VisitedInv' /\ NeverSwapsOut'
<1>0. Types /\ turn \in Processors
  BY DEF Good, Types
<1>1. PICK j : j = processes[turn]
  OBVIOUS
<1>2. Unloads(j) /\ walk' = walk /\ pc' = pc
  BY <1>0, <1>1, ExitUnloads
<1>3. PICK page : page = Needed(j)
  OBVIOUS
<1>4. j \in Jobs /\ page \in Pages /\ pages[j][page] = 0
  <2>1. j \in Jobs
    BY <1>2 DEF Unloads
  <2>2. walk[j] \in Seq(Pages) /\ pc[j] \in 1 .. Len(walk[j])
    BY <1>0, <2>1, WalksStart DEF Types
  <2> QED
    BY <1>1, <1>3, <2>1, <2>2 DEF Needed, StepExit, Resident
<1>5. <<j, page>> \in Held
  BY <1>4, Sizes DEF Held, Holds
<1>6. \A i \in Processors : processes[i] # NULL => turn <= i
  <2>1. ASSUME NEW i \in Processors, processes[i] # NULL
        PROVE  turn <= i
    <3>1. PICK k \in Processors : processes[k] = j /\ k <= i
      BY <1>5, <2>1 DEF HolderInv
    <3>2. k = turn
      BY <1>0, <1>1, <1>4, <3>1, Sizes DEF Good, JobsRunOnce
    <3> QED
      BY <3>1, <3>2
  <2> QED
    BY <2>1
<1>7. \A jp \in Held : jp[1] = j
  <2>1. ASSUME NEW jp \in Held
        PROVE  jp[1] = j
    <3>1. PICK k \in Processors : processes[k] = jp[1] /\ k <= turn
      BY <1>0, <1>1, <1>4, Sizes DEF HolderInv
    <3>2. jp[1] # NULL
      BY Sizes DEF Held
    <3>3. turn <= k
      BY <1>6, <3>1, <3>2
    <3> QED
      BY <1>0, <1>1, <3>1, <3>3, Sizes
  <2> QED
    BY <2>1
<1>8. Held' = {}
  BY <1>0, <1>2, <1>7, HeldUnloads
<1>9. NeverSwapsOut'
  <2>1. pages' = [pages EXCEPT ![j] = [p \in Pages |-> OUT]]
    BY <1>2 DEF Unloads
  <2> QED
    BY <1>0, <1>2, <2>1 DEF NeverSwapsOut, Types
<1> QED
  BY <1>8, <1>9 DEF HolderInv, VisitedInv

\* Ageing gives the frames to nobody else.
LEMMA AgeKeeps ==
    ASSUME Good, HolderInv, VisitedInv, NeverSwapsOut, allage
    PROVE  HolderInv' /\ VisitedInv' /\ NeverSwapsOut'
<1>0. Types /\ UNCHANGED <<processes, walk>>
  BY DEF Good, allage
<1>1. Held' \subseteq Held
  BY <1>0, HeldAges
<1>2. HolderInv'
  BY <1>0, <1>1 DEF HolderInv
<1>3. VisitedInv'
  BY <1>0, <1>1 DEF VisitedInv, Visited
<1>4. NeverSwapsOut'
  <2>1. ASSUME NEW j \in Jobs, NEW p \in Pages,
               pages[j][p] >= 0 \/ pages[j][p] = OUT
        PROVE  pages'[j][p] >= 0 \/ pages'[j][p] = OUT
    <3>1. PICK n \in PageState : n = pages[j][p]
      BY <1>0 DEF Types
    <3>2. pages'[j][p] \in {n, Aged(n)}
      BY <3>1 DEF allage
    <3>3. n >= 0 \/ n = OUT => Aged(n) >= 0 \/ Aged(n) = OUT
      BY <3>1, Sizes DEF Aged, OUT, PageState
    <3> QED
      BY <2>1, <3>1, <3>2, <3>3
  <2> QED
    BY <1>0, <2>1 DEF NeverSwapsOut
<1> QED
  BY <1>2, <1>3, <1>4

\* The pages of the walk of a job can be counted.
LEMMA VisitedFinite ==
    ASSUME Types, NEW j \in Jobs
    PROVE  /\ Visited(j) \subseteq Pages /\ IsFiniteSet(Visited(j))
           /\ Needed(j) \in Visited(j)
<1>1. walk[j] \in Seq(Pages) /\ pc[j] \in 1 .. Len(walk[j])
  BY WalksStart DEF Types
<1>2. Visited(j) \in SUBSET Pages
  BY <1>1 DEF Visited
<1>3. Needed(j) \in Visited(j)
  BY <1>1 DEF Needed, Visited
<1> QED
  BY <1>2, <1>3, FinitePages, FS_Subset

\* A job whose pages fit in the frames is never refused one.
LEMMA NeverRefused ==
    ASSUME Good, HolderInv, VisitedInv, NeverSwapsOut,
           NEW i, First(i), Refused(processes[i])
    PROVE  Cardinality(Visited(processes[i])) > PHYSICALPAGES
<1> USE Sizes
<1>0. Types
  BY DEF Good
<1>1. PICK j : j = processes[i]
  OBVIOUS
<1>2. j \in Jobs /\ i \in Processors
  BY <1>0, <1>1 DEF First, Types
<1>3. PICK page : page = Needed(j)
  OBVIOUS
<1>4. page \in Pages /\ page \in Visited(j)
  BY <1>0, <1>2, <1>3, VisitedFinite
<1> SUFFICES ASSUME Cardinality(Visited(j)) <= PHYSICALPAGES
             PROVE  FALSE
  <2>1. Cardinality(Visited(j)) \in Nat
    BY <1>0, <1>2, VisitedFinite, FS_CardinalityType
  <2> QED
    BY <1>1, <2>1
<1>5. ~Holds(pages[j][page]) /\ pagesavail = 0
  <2>1. pages[j][page] \in PageState /\ pages[j][page] < 0
    BY <1>0, <1>1, <1>2, <1>3, <1>4 DEF Types, Refused
  <2>2. pages[j][page] = OUT
    BY <1>2, <1>4, <2>1 DEF NeverSwapsOut, Visited, PageState
  <2> QED
    BY <1>1, <1>3, <2>2 DEF Refused, Holds, OUT
<1>6. \A jp \in Held : jp[1] = j
  <2>1. ASSUME NEW jp \in Held
        PROVE  jp[1] = j
    <3>1. PICK k \in Processors : processes[k] = jp[1] /\ k <= i
      BY <1>1, <1>2 DEF HolderInv
    <3>2. jp[1] # NULL
      BY DEF Held
    <3>3. i <= k
      BY <3>1, <3>2 DEF First
    <3> QED
      BY <1>1, <1>2, <3>1, <3>3
  <2> QED
    BY <2>1
<1>7. PICK P : P = {p \in Pages : Holds(pages[j][p])}
  OBVIOUS
<1>8. IsFiniteSet(P) /\ Cardinality(P) \in Nat
  BY <1>7, FinitePages, FS_Subset, FS_CardinalityType
<1>9. Held = {j} \X P
  BY <1>2, <1>6, <1>7 DEF Held
<1>10. Cardinality(P) = PHYSICALPAGES
  <2>1. Cardinality(Held) = Cardinality(P)
    BY <1>8, <1>9, FramesOfJob
  <2> QED
    BY <1>5, <1>8, <2>1 DEF Good, FramesConserved
<1>11. P \subseteq Visited(j) \ {page}
  <2>1. ASSUME NEW p \in P
        PROVE  p \in Visited(j) /\ p # page
    <3>1. <<j, p>> \in Held
      BY <1>9
    <3> QED
      BY <1>5, <1>7, <3>1 DEF VisitedInv
  <2> QED
    BY <2>1
<1>12. PICK V : V = Visited(j)
  OBVIOUS
<1>13. IsFiniteSet(V) /\ Cardinality(V) \in Nat /\ page \in V
  BY <1>0, <1>2, <1>4, <1>12, VisitedFinite, FS_CardinalityType
<1>14. /\ IsFiniteSet(V \ {page})
       /\ Cardinality(V \ {page}) = Cardinality(V) - 1
  BY <1>13, FS_RemoveElement
<1>15. Cardinality(P) <= Cardinality(V) - 1
  BY <1>11, <1>12, <1>14, FS_Subset
<1> QED
  BY <1>10, <1>12, <1>13, <1>15

\* The pager gives frames to the first job only, and takes none from it when
\* it fits.
LEMMA PageitKeeps ==
    ASSUME Good, HolderInv, VisitedInv, NeverSwapsOut, pageit
    PROVE  HolderInv' /\ VisitedInv' /\ NeverSwapsOut'
<1>0. Types /\ UNCHANGED <<processes, walk>>
  BY DEF Good, pageit
<1>1. CASE UNCHANGED <<pages, pagesavail>>
  <2>1. Held' = Held
    BY <1>1 DEF Held
  <2> QED
    BY <1>0, <1>1, <2>1 DEF HolderInv, VisitedInv, NeverSwapsOut, Visited
<1>2. ASSUME NEW i, First(i), Comes(processes[i], Needed(processes[i]))
      PROVE  HolderInv' /\ VisitedInv' /\ NeverSwapsOut'
  <2>1. PICK j : j = processes[i]
    OBVIOUS
  <2>2. PICK page : page = Needed(j)
    OBVIOUS
  <2>3. Comes(j, page)
    BY <1>2, <2>1, <2>2
  <2>4. \A jp : jp \in Held' <=> jp \in Held \/ jp = <<j, page>>
    BY <1>0, <2>3, HeldComes
  <2>5. HolderInv'
    BY <1>0, <1>2, <2>1, <2>4 DEF HolderInv, First
  <2>6. VisitedInv'
    <3>1. page \in Visited(j)
      BY <1>0, <2>2, <2>3, VisitedFinite DEF Comes
    <3> QED
      BY <1>0, <2>4, <3>1 DEF VisitedInv, Visited
  <2>7. NeverSwapsOut'
    <3>1. \A k \in Jobs, p \in Pages :
             pages'[k][p] = pages[k][p] \/ pages'[k][p] >= 0
      <4>1. PICK n : n = PAGEWAIT /\ n >= 0
        BY Sizes
      <4>2. j \in Jobs /\ page \in Pages /\ pages' = [pages EXCEPT ![j][page] = n]
        BY <2>3, <4>1 DEF Comes
      <4>3. \A k \in Jobs, p \in Pages : pages'[k][p] \in {pages[k][p], n}
        BY <1>0, <4>2 DEF Types
      <4> QED
        BY <4>1, <4>3
    <3>2. ASSUME NEW k \in Jobs,
                 Cardinality({walk'[k][n] : n \in DOMAIN walk'[k]}) <= PHYSICALPAGES,
                 NEW p \in Pages
          PROVE  pages'[k][p] >= 0 \/ pages'[k][p] = OUT
      <4>1. Cardinality({walk[k][n] : n \in DOMAIN walk[k]}) <= PHYSICALPAGES
        BY <1>0, <3>2
      <4>2. pages[k][p] >= 0 \/ pages[k][p] = OUT
        BY <4>1 DEF NeverSwapsOut
      <4> QED
        BY <3>1, <4>2
    <3> QED
      BY <3>2 DEF NeverSwapsOut
  <2> QED
    BY <2>5, <2>6, <2>7
<1>3. ASSUME NEW i, First(i), Refused(processes[i]),
             NEW p \in Pages, Goes(processes[i], p)
      PROVE  HolderInv' /\ VisitedInv' /\ NeverSwapsOut'
  <2>1. PICK j : j = processes[i]
    OBVIOUS
  <2>2. Goes(j, p)
    BY <1>3, <2>1
  <2>3. Held' = Held
    BY <1>0, <2>2, HeldGoes
  <2>4. HolderInv' /\ VisitedInv'
    BY <1>0, <2>3 DEF HolderInv, VisitedInv, Visited
  <2>5. j \in Jobs /\ ~(Cardinality(Visited(j)) <= PHYSICALPAGES)
    <3>1. j \in Jobs
      BY <2>2 DEF Goes
    <3>2. Cardinality(Visited(j)) \in Nat
      BY <1>0, <3>1, VisitedFinite, FS_CardinalityType
    <3>3. Cardinality(Visited(j)) > PHYSICALPAGES
      BY <1>3, <2>1, NeverRefused
    <3> QED
      BY <3>1, <3>2, <3>3, Sizes
  <2>6. NeverSwapsOut'
    <3>1. \A k \in Jobs \ {j} : pages'[k] = pages[k]
      BY <1>0, <2>2 DEF Goes, Types
    <3> QED
      BY <1>0, <2>5, <3>1 DEF NeverSwapsOut, Visited
  <2> QED
    BY <2>4, <2>6
<1> QED
  BY <1>1, <1>2, <1>3, PageitMoves

\* Every step keeps the invariant.
LEMMA BasicGoodStep ==
    BasicGood /\ [BasicNext]_basicVars => BasicGood'
<1> SUFFICES ASSUME BasicGood, [BasicNext]_basicVars
             PROVE  BasicGood'
  OBVIOUS
<1> USE DEF BasicGood
<1>1. Good' /\ [Next]_vars
  BY BasicStep, GoodStep
<1>2. CASE allstep
  <2>1. turn \in Processors /\ Types
    BY DEF Good, Types
  <2>2. CASE StepIdle(turn)
    <3>1. PICK n \in Jobs \cup {NULL} : Gets(turn, n)
      BY <2>1, <2>2, ReloadGets DEF StepIdle
    <3>2. n = NULL
      BY <2>1, <2>2, <3>1, Sizes DEF Good, IdleOnlyWhenDrained, StepIdle, Gets, Jobs
    <3>3. UNCHANGED <<pages, processes>>
      BY <2>1, <2>2, <3>1, <3>2 DEF StepIdle, Gets, Types
    <3> QED
      BY <1>1, <3>3, StillStep
  <2>3. CASE StepBlocked(turn) \/ StepCompute(turn)
    BY <1>1, <2>3, StillStep DEF StepBlocked, StepCompute
  <2>4. CASE StepExit(turn)
    BY <1>1, <2>4, ExitStep
  <2> QED
    BY <1>2, <2>2, <2>3, <2>4 DEF allstep
<1>3. CASE allage
  BY <1>1, <1>3, AgeKeeps
<1>4. CASE pageit
  BY <1>1, <1>4, PageitKeeps
<1>5. CASE EndTick \/ Ended \/ UNCHANGED basicVars
  BY <1>1, <1>5, StillStep DEF EndTick, Ended, vars, basicVars
<1> QED
  BY <1>2, <1>3, <1>4, <1>5 DEF BasicNext, BasicEndTick

\* It holds from the start.
LEMMA BasicGoodInit ==
    BasicInit => BasicGood
<1> SUFFICES ASSUME BasicInit
             PROVE  BasicGood
  OBVIOUS
<1>1. Good /\ Init
  BY InitGood DEF BasicInit
<1>2. \A j \in Jobs, p \in Pages : pages[j][p] = OUT
  BY <1>1 DEF Init, initqueue, NoPages
<1>3. Held = {}
  <2>1. ~Holds(OUT)
    BY Sizes DEF Holds, OUT
  <2> QED
    BY <1>2, <2>1 DEF Held
<1> QED
  BY <1>1, <1>2, <1>3 DEF BasicGood, HolderInv, VisitedInv, NeverSwapsOut

\* It holds always, in the program with the basic pager and in that program as one
\* of several.
LEMMA AlwaysBasicGood ==
    /\ BasicSpec => []BasicGood
    /\ PagersSpec => [](pager = "basic" => BasicGood)
<1>1. BasicSpec => []BasicGood
  BY BasicGoodInit, BasicGoodStep, PTL DEF BasicSpec
<1>2. PagersSpec => [](pager = "basic" => BasicGood)
  <2>1. PagersInit => (pager = "basic" => BasicGood)
    BY BasicGoodInit DEF PagersInit
  <2>2. (pager = "basic" => BasicGood) /\ [PagersNext]_pagersVars
          => (pager = "basic" => BasicGood)'
    <3>1. ASSUME [PagersNext]_pagersVars, pager' = "basic"
          PROVE  pager = "basic" /\ [BasicNext]_basicVars
      BY <3>1 DEF PagersNext, pagersVars, basicVars, basicOnly
    <3> QED
      BY <3>1, BasicGoodStep
  <2> QED
    BY <2>1, <2>2, PTL DEF PagersSpec
<1> QED
  BY <1>1, <1>2

\* The basic pager allocates frames to one job at a time.
THEOREM OneJobHoldsFrames ==
    /\ BasicSpec => []OneJobHolds
    /\ PagersSpec => []BasicOneJobHolds
<1>1. BasicGood => OneJobHolds
  <2> SUFFICES ASSUME BasicGood
               PROVE  OneJobHolds
    OBVIOUS
  <2>1. PICK H : H = {jp[1] : jp \in Held}
    OBVIOUS
  <2>2. \A g, h \in H : g = h
    <3>1. ASSUME NEW g \in H, NEW h \in H
          PROVE  \E k \in Processors : /\ processes[k] = g
                                       /\ \A l \in Processors :
                                             processes[l] = h => k <= l
      <4>1. PICK jp \in Held : jp[1] = g
        BY <2>1
      <4>2. \A k \in Processors : processes[k] = h => processes[k] # NULL
        BY <2>1, Sizes DEF Held
      <4>3. \A l \in Processors : processes[l] = h =>
               \E k \in Processors : processes[k] = g /\ k <= l
        BY <4>1, <4>2 DEF BasicGood, HolderInv
      <4>4. PICK k \in Processors : processes[k] = g
        BY <4>1 DEF BasicGood, Good, OnlyRunningHold, Running
      <4>5. \A l \in Processors : processes[l] = g => l = k
        <5>1. g # NULL
          BY <2>1, Sizes DEF Held
        <5> QED
          BY <4>4, <5>1 DEF BasicGood, Good, JobsRunOnce
      <4> QED
        BY <4>3, <4>4, <4>5
    <3>2. ASSUME NEW g \in H, NEW h \in H
          PROVE  g = h
      <4>1. PICK k \in Processors : processes[k] = g /\
                    \A l \in Processors : processes[l] = h => k <= l
        BY <3>1
      <4>2. PICK l \in Processors : processes[l] = h /\
                    \A m \in Processors : processes[m] = g => l <= m
        BY <3>1
      <4> QED
        BY <4>1, <4>2, Sizes
    <3> QED
      BY <3>2
  <2>3. CASE H = {}
    BY <2>1, <2>3, FS_EmptySet DEF OneJobHolds
  <2>4. CASE H # {}
    <3>1. PICK g : H = {g}
      BY <2>2, <2>4
    <3>2. Cardinality(H) = 1
      BY ONLY <3>1, FS_Singleton
    <3> QED
      BY <2>1, <3>2 DEF OneJobHolds
  <2> QED
    BY <2>3, <2>4
<1>2. (pager = "basic" => BasicGood) => BasicOneJobHolds
  BY <1>1 DEF BasicOneJobHolds
<1> QED
  BY <1>1, <1>2, AlwaysBasicGood, PTL

\* With frames enough for its pages no job ever loses one.
THEOREM FittingJobsKeepTheirPages ==
    /\ BasicSpec => []NeverSwapsOut
    /\ PagersSpec => []BasicNeverSwapsOut
<1>1. BasicGood => NeverSwapsOut
  BY DEF BasicGood
<1>2. (pager = "basic" => BasicGood) => BasicNeverSwapsOut
  BY <1>1 DEF BasicNeverSwapsOut
<1> QED
  BY <1>1, <1>2, AlwaysBasicGood, PTL

----------------------------------------------------------------------------
(* The LRU pager *)

\* No note is ahead of the counter.
NotesInv ==
    \A i \in Processors, p \in Pages : timestamps[i][p] <= tick

\* The note of a page in a frame is of the job that holds the frame, and it
\* is not the 0 of a page never noted.
SameNotes ==
    \A i \in Processors, p \in Pages :
        processes[i] # NULL /\ Holds(pages[processes[i]][p]) =>
            /\ timestamps[i][p] = lastUse[processes[i]][p]
            /\ timestamps[i][p] >= 1

LruGood == Good /\ LruTypeOK /\ NotesInv /\ SameNotes /\ NeverExits

----------------------------------------------------------------------------
(* What lru_pageit does *)

\* Every call it makes is one any pager can make.
LEMMA LruCalls ==
    lru_pageit => Call \/ UNCHANGED vars
<1> SUFFICES ASSUME lru_pageit
             PROVE  Call \/ UNCHANGED vars
  OBVIOUS
<1>1. /\ phase = "pageit"
      /\ UNCHANGED <<processes, queueend, walk, pc, active, phase, turn>>
  BY DEF lru_pageit
<1>2. ASSUME NEW i, NEW p, pagein(i, p) \/ pageout(i, p)
      PROVE  Call \/ UNCHANGED vars
  <2>1. CASE UNCHANGED <<pages, pagesavail>>
    BY <1>1, <2>1 DEF vars
  <2>2. CASE StartsIn(i, p) \/ StartsOut(i, p)
    <3>1. i \in -1 .. procs /\ p \in -1 .. MAXPROCPAGES
      BY <2>2, Sizes DEF StartsIn, StartsOut, ValidCall, Processors, Pages
    <3> QED
      BY <1>1, <1>2, <3>1 DEF Call
  <2> QED
    BY <1>2, <2>1, <2>2 DEF pagein, pageout
<1>3. CASE UNCHANGED <<pages, pagesavail>>
  BY <1>1, <1>3 DEF vars
<1> QED
  BY <1>2, <1>3 DEF lru_pageit, ServeNoting, Evict

\* Every step of the pager and the program is one of Simulator.
LEMMA LruStep ==
    [LruNext]_lruVars => [Next]_vars
  BY LruCalls DEF LruNext, lruVars, Next, LruEndTick

\* The job of a processor and the page it is on.
LEMMA ServedJob ==
    ASSUME Good, NEW i \in Processors, processes[i] # NULL
    PROVE  /\ processes[i] \in Jobs /\ processes[i] \in Running
           /\ active[processes[i]]
           /\ Needed(processes[i]) \in Pages
<1>1. PICK j : j = processes[i]
  OBVIOUS
<1>2. j \in Jobs /\ j \in Running
  BY <1>1 DEF Good, Types, Running
<1>3. active[j]
  BY <1>2 DEF Good, JobsRunOnce
<1>4. walk[j] \in Seq(Pages) /\ pc[j] \in 1 .. Len(walk[j])
  BY <1>2, WalksStart DEF Good, Types
<1> QED
  BY <1>1, <1>2, <1>3, <1>4 DEF Needed

\* lru_page finds a page of those in frames, and the one with the oldest note.
LEMMA OldestPage ==
    ASSUME LruGood, NEW i \in Processors, processes[i] # NULL,
           Allocated(i) # {}
    PROVE  /\ lru_page(i) \in Allocated(i)
           /\ \A r \in Allocated(i) :
                 timestamps[i][lru_page(i)] <= timestamps[i][r]
<1> USE Sizes
<1>1. PICK A : A = Allocated(i)
  OBVIOUS
<1>2. A \subseteq Pages /\ A \subseteq Nat /\ A # {}
  BY <1>1 DEF Allocated, Pages
<1>3. \A p \in A : timestamps[i][p] \in Nat /\ timestamps[i][p] < tick + 1
  BY <1>2 DEF LruGood, LruTypeOK, NotesInv
<1>4. \A p \in A : timestamps[i][p] >= 1
  BY <1>1, <1>2 DEF Allocated, Holds, LruGood, SameNotes
<1>5. A = {p \in A : timestamps[i][p] < tick + 1}
  BY <1>3
<1>6. PICK B : B = {p \in A : timestamps[i][p] <= 1}
  OBVIOUS
<1>7. PICK C : C = {p \in A : \A r \in A : timestamps[i][p] <= timestamps[i][r]}
  OBVIOUS
<1>8. lru_page(i) = IF B # {} THEN Lowest(B) ELSE Lowest(C)
  BY <1>1, <1>2, <1>5, <1>6, <1>7 DEF lru_page
<1>9. C # {}
  <2>1. PICK T : T = {timestamps[i][p] : p \in A}
    OBVIOUS
  <2>2. T \in SUBSET Nat /\ T # {}
    BY <1>2, <1>3, <2>1
  <2>3. \E n \in T : \A m \in T : n <= m
    BY <2>2, LeastNat
  <2> QED
    BY <1>7, <2>1, <2>3
<1>10. ASSUME NEW S \in SUBSET Nat, S # {}
       PROVE  Lowest(S) \in S
  BY <1>10, LeastNat DEF Lowest
<1>11. B \in SUBSET Nat /\ C \in SUBSET Nat
  BY <1>2, <1>6, <1>7
<1>12. lru_page(i) \in B \/ lru_page(i) \in C
  BY <1>8, <1>9, <1>10, <1>11
<1>13. B \subseteq C
  BY <1>3, <1>4, <1>6, <1>7
<1> QED
  BY <1>1, <1>7, <1>12, <1>13

\* Job j on processor i is noted on a page, and the page comes in, or an
\* other page of the job goes out, or nothing moves.
Serves(i, j, page) ==
    /\ i \in Processors /\ j \in Jobs /\ j = processes[i] /\ page \in Pages
    /\ timestamps' = [timestamps EXCEPT ![i][page] = tick]
    /\ lastUse' = [lastUse EXCEPT ![j][page] = tick]
    /\ \/ UNCHANGED <<pages, pagesavail>>
       \/ Comes(j, page)
       \/ \E p \in Pages :
             /\ Goes(j, p)
             /\ \A r \in Allocated(i) : timestamps[i][p] <= timestamps[i][r]

\* The turn of a processor in the loop: pageout accepts the page it evicts.
LEMMA ServeMoves ==
    ASSUME LruGood, lru_pageit
    PROVE  /\ exited' = exited
           /\ \/ UNCHANGED <<pages, pagesavail, timestamps, lastUse>>
              \/ \E i, j, page : Serves(i, j, page)
<1>0. Good /\ Types /\ ~exited
  BY DEF LruGood, Good, NeverExits
<1>1. CASE processes[proc] = NULL
  BY <1>1 DEF lru_pageit
<1>2. CASE processes[proc] # NULL
  <2>1. PICK i : i = proc
    OBVIOUS
  <2>2. i \in Processors /\ processes[i] # NULL /\ ServeNoting(i)
    BY <1>2, <2>1, Sizes DEF lru_pageit, LruGood, LruTypeOK, Processors
  <2>3. PICK j : j = processes[i]
    OBVIOUS
  <2>4. PICK page : page = Needed(j)
    OBVIOUS
  <2>5. j \in Jobs /\ active[j] /\ page \in Pages
    BY <1>0, <2>2, <2>3, <2>4, ServedJob
  <2>6. /\ timestamps' = [timestamps EXCEPT ![i][page] = tick]
        /\ lastUse' = [lastUse EXCEPT ![j][page] = tick]
    BY <2>2, <2>3, <2>4 DEF ServeNoting
  <2>7. CASE UNCHANGED <<pages, pagesavail, exited>>
    BY <2>2, <2>3, <2>5, <2>6, <2>7 DEF Serves
  <2>8. CASE pagein(i, page) /\ UNCHANGED exited
    <3>1. UNCHANGED <<pages, pagesavail>> \/ Comes(j, page)
      BY <1>0, <2>3, <2>8, PageinMoves
    <3> QED
      BY <2>2, <2>3, <2>5, <2>6, <2>8, <3>1 DEF Serves
  <2>9. CASE ~NoneAllocated(i) /\ Evict(i)
    <3>1. Allocated(i) # {}
      BY <2>9, FS_EmptySet DEF NoneAllocated
    <3>2. PICK p : p = lru_page(i)
      OBVIOUS
    <3>3. p \in Allocated(i) /\ \A r \in Allocated(i) :
                                   timestamps[i][p] <= timestamps[i][r]
      BY <2>2, <3>1, <3>2, OldestPage
    <3>4. p \in Pages /\ pages[j][p] = 0
      BY <2>3, <3>3 DEF Allocated
    <3>5. exited' = exited
      <4>1. ValidCall(i, p) /\ StateOf(i, p) <= 0
        BY <2>2, <2>3, <2>5, <3>4 DEF ValidCall, StateOf
      <4>2. exited' = FALSE
        BY <2>9, <3>2, <4>1 DEF Evict, PageoutReturns
      <4> QED
        BY <1>0, <4>2 DEF LruGood, LruTypeOK
    <3>6. UNCHANGED <<pages, pagesavail>> \/ Goes(j, p)
      BY <1>0, <2>3, <2>9, <3>2, PageoutMoves DEF Evict
    <3> QED
      BY <2>2, <2>3, <2>5, <2>6, <3>3, <3>4, <3>5, <3>6 DEF Serves
  <2> QED
    BY <2>2, <2>3, <2>4, <2>7, <2>8, <2>9 DEF ServeNoting
<1> QED
  BY <1>1, <1>2

----------------------------------------------------------------------------
(* The invariant *)

\* The loop keeps the types, and a note made now is of the job that is there.
LEMMA ServeKeeps ==
    ASSUME LruGood, lru_pageit
    PROVE  LruTypeOK' /\ NotesInv' /\ SameNotes' /\ NeverExits'
<1> USE Sizes
<1>0. /\ Types /\ LruTypeOK /\ NotesInv /\ SameNotes /\ NeverExits
      /\ UNCHANGED <<processes, tick>>
      /\ proc' \in 0 .. procs
  BY DEF LruGood, Good, lru_pageit, LruTypeOK
<1>1. exited' = exited
  BY ServeMoves
<1>2. CASE UNCHANGED <<pages, pagesavail, timestamps, lastUse>>
  <2>1. LruTypeOK' /\ NeverExits'
    BY <1>0, <1>1, <1>2 DEF LruTypeOK, NeverExits
  <2>2. NotesInv'
    BY <1>0, <1>2 DEF NotesInv
  <2>3. SameNotes'
    BY <1>0, <1>2 DEF SameNotes
  <2> QED
    BY <2>1, <2>2, <2>3
<1>3. ASSUME NEW i, NEW j, NEW page, Serves(i, j, page)
      PROVE  LruTypeOK' /\ NotesInv' /\ SameNotes' /\ NeverExits'
  <2>1. /\ i \in Processors /\ j \in Jobs /\ j = processes[i] /\ page \in Pages
        /\ timestamps' = [timestamps EXCEPT ![i][page] = tick]
        /\ lastUse' = [lastUse EXCEPT ![j][page] = tick]
    BY <1>3 DEF Serves
  <2>2. tick \in Nat \ {0}
    BY <1>0 DEF LruTypeOK
  <2>3. LruTypeOK' /\ NeverExits'
    BY <1>0, <1>1, <2>1, <2>2 DEF LruTypeOK, NeverExits
  <2>4. \A k \in Processors, p \in Pages :
           timestamps'[k][p] = IF k = i /\ p = page THEN tick
                               ELSE timestamps[k][p]
    BY <1>0, <2>1 DEF LruTypeOK
  <2>5. \A k \in Jobs, p \in Pages :
           lastUse'[k][p] = IF k = j /\ p = page THEN tick ELSE lastUse[k][p]
    BY <1>0, <2>1 DEF LruTypeOK
  <2>6. NotesInv'
    <3>1. ASSUME NEW k \in Processors, NEW p \in Pages
          PROVE  timestamps'[k][p] <= tick'
      <4>1. tick' = tick /\ timestamps[k][p] <= tick
        BY <1>0 DEF NotesInv
      <4>2. timestamps'[k][p] \in {tick, timestamps[k][p]}
        BY <2>4
      <4> QED
        BY <2>2, <4>1, <4>2
    <3> QED
      BY <3>1 DEF NotesInv
  <2>7. ASSUME NEW k \in Jobs, NEW p \in Pages, k # j \/ p # page
        PROVE  Holds(pages'[k][p]) => Holds(pages[k][p])
    <3>1. CASE UNCHANGED <<pages, pagesavail>>
      BY <3>1
    <3>2. CASE Comes(j, page)
      BY <1>0, <2>7, <3>2 DEF Comes, Types
    <3>3. ASSUME NEW r \in Pages, Goes(j, r)
          PROVE  Holds(pages'[k][p]) => Holds(pages[k][p])
      BY <1>0, <3>3 DEF Goes, Holds, Types
    <3> QED
      BY <1>3, <3>1, <3>2, <3>3 DEF Serves
  <2>8. SameNotes'
    <3>1. ASSUME NEW k \in Processors, NEW p \in Pages,
                 processes'[k] # NULL, Holds(pages'[processes'[k]][p])
          PROVE  /\ timestamps'[k][p] = lastUse'[processes'[k]][p]
                 /\ timestamps'[k][p] >= 1
      <4>1. PICK h : h = processes[k]
        OBVIOUS
      <4>2. h \in Jobs /\ processes'[k] = h
        BY <1>0, <3>1, <4>1 DEF Types
      <4>3. h = j <=> k = i
        BY <2>1, <4>1, <4>2 DEF LruGood, Good, JobsRunOnce
      <4>4. CASE h = j /\ p = page
        BY <2>1, <2>2, <2>4, <2>5, <4>2, <4>3, <4>4
      <4>5. CASE ~(h = j /\ p = page)
        <5>1. Holds(pages[h][p])
          BY <2>7, <3>1, <4>2, <4>5
        <5>2. timestamps[k][p] = lastUse[h][p] /\ timestamps[k][p] >= 1
          BY <1>0, <4>1, <4>2, <5>1 DEF SameNotes
        <5> QED
          BY <2>4, <2>5, <4>2, <4>3, <4>5, <5>2
      <4> QED
        BY <4>4, <4>5
    <3> QED
      BY <3>1 DEF SameNotes
  <2> QED
    BY <2>3, <2>6, <2>8
<1> QED
  BY <1>2, <1>3, ServeMoves

\* The program changes no notes, and a job that comes to a processor has no
\* page in a frame.
LEMMA ProgramKeeps ==
    ASSUME LruGood, allstep \/ allage \/ EndTick \/ UNCHANGED vars,
           UNCHANGED <<timestamps, lastUse>>
    PROVE  SameNotes'
<1> USE Sizes
<1>0. Types /\ SameNotes
  BY DEF LruGood, Good
<1>1. ASSUME NEW i \in Processors, NEW p \in Pages,
             processes'[i] # NULL, Holds(pages'[processes'[i]][p])
      PROVE  processes'[i] = processes[i] /\ Holds(pages[processes[i]][p])
  <2>1. CASE UNCHANGED <<processes, pages>>
    BY <1>1, <2>1
  <2>2. CASE allage
    <3>1. PICK j : j = processes[i]
      OBVIOUS
    <3>2. processes' = processes /\ j \in Jobs
      BY <1>0, <1>1, <2>2, <3>1 DEF allage, Types
    <3>3. <<j, p>> \in Held'
      BY <1>1, <3>1, <3>2 DEF Held
    <3>4. <<j, p>> \in Held
      BY <1>0, <2>2, <3>3, HeldAges
    <3> QED
      BY <3>1, <3>2, <3>4 DEF Held
  <2>3. CASE StepIdle(turn) \/ StepExit(turn)
    <3>1. turn \in Processors
      BY <1>0 DEF Types
    <3>2. PICK n \in Jobs \cup {NULL} : Gets(turn, n)
      BY <1>0, <2>3, <3>1, ReloadGets DEF StepIdle, StepExit
    <3>3. Held' \subseteq Held
      <4>1. CASE StepIdle(turn)
        BY <4>1 DEF StepIdle, Held
      <4>2. CASE StepExit(turn)
        BY <1>0, <3>1, <4>2, ExitUnloads, HeldUnloads
      <4> QED
        BY <2>3, <4>1, <4>2
    <3>4. \A k \in Processors : processes'[k] = IF k = turn THEN n ELSE processes[k]
      BY <1>0, <3>1, <3>2 DEF Gets, Types
    <3>5. n # NULL => n \notin Running
      BY <1>0, <3>2 DEF Gets, LruGood, Good, JobsRunOnce, Jobs
    <3>6. PICK j : j = processes'[i]
      OBVIOUS
    <3>7. j \in Jobs
      BY <1>0, <1>1, <3>2, <3>4, <3>6 DEF Types
    <3>8. <<j, p>> \in Held
      BY <1>1, <3>3, <3>6, <3>7 DEF Held
    <3>9. j \in Running
      BY <3>8 DEF LruGood, Good, OnlyRunningHold
    <3>10. i # turn
      BY <1>1, <3>4, <3>5, <3>6, <3>9
    <3> QED
      BY <3>4, <3>6, <3>8, <3>10 DEF Held
  <2> QED
    BY <2>1, <2>2, <2>3 DEF allstep, StepBlocked, StepCompute, EndTick, vars
<1> QED
  BY <1>0, <1>1 DEF SameNotes

\* Every step keeps the invariant.
LEMMA LruGoodStep ==
    LruGood /\ [LruNext]_lruVars => LruGood'
<1> SUFFICES ASSUME LruGood, [LruNext]_lruVars
             PROVE  LruGood'
  OBVIOUS
<1>1. Good'
  BY LruStep, GoodStep DEF LruGood
<1>2. CASE lru_pageit
  BY <1>1, <1>2, ServeKeeps DEF LruGood
<1>3. CASE \/ allstep \/ allage
           \/ UNCHANGED vars
  <2>1. CASE UNCHANGED <<timestamps, tick, proc, exited, lastUse>>
    <3>1. SameNotes'
      BY <1>3, <2>1, ProgramKeeps
    <3>2. LruTypeOK' /\ NotesInv' /\ NeverExits'
      BY <2>1 DEF LruGood, LruTypeOK, NotesInv, NeverExits
    <3> QED
      BY <1>1, <3>1, <3>2 DEF LruGood
  <2>2. CASE lru_pageit \/ LruEndTick
    BY <1>2, <1>3, <2>2 DEF LruEndTick, EndTick, allstep, allage, vars
  <2> QED
    BY <1>3, <2>1, <2>2 DEF LruNext, lruVars
<1>4. CASE LruEndTick
  <2>1. /\ EndTick /\ UNCHANGED <<timestamps, exited, lastUse>>
        /\ tick' = tick + 1 /\ proc' = 0
    BY <1>4 DEF LruEndTick
  <2>2. SameNotes'
    BY <2>1, ProgramKeeps
  <2>3. tick \in Nat \ {0} /\ \A i \in Processors, p \in Pages :
           timestamps[i][p] \in Nat /\ timestamps[i][p] <= tick
    BY DEF LruGood, LruTypeOK, NotesInv
  <2>4. NotesInv'
    BY <2>1, <2>3 DEF NotesInv
  <2>5. LruTypeOK' /\ NeverExits'
    BY <2>1, <2>3, Sizes DEF LruGood, LruTypeOK, NeverExits
  <2> QED
    BY <1>1, <2>2, <2>4, <2>5 DEF LruGood
<1> QED
  BY <1>2, <1>3, <1>4 DEF LruNext, lruVars

\* It holds from the start, and always.
LEMMA AlwaysLruGood ==
    LruSpec => []LruGood
<1>1. LruInit => LruGood
  <2> SUFFICES ASSUME LruInit
               PROVE  LruGood
    OBVIOUS
  <2>1. Good /\ Init
    BY InitGood DEF LruInit
  <2>2. LruTypeOK /\ NeverExits
    <3>1. exited = FALSE
      BY DEF LruInit
    <3>2. exited \in BOOLEAN /\ ~exited
      BY <3>1
    <3>3. proc \in 0 .. procs /\ tick \in Nat \ {0}
      BY Sizes DEF LruInit, FirstTick
    <3>4. timestamps \in [Processors -> [Pages -> Nat]]
      BY DEF LruInit
    <3>5. lastUse \in [Jobs -> [Pages -> Nat]]
      BY DEF LruInit
    <3> QED
      BY <3>2, <3>3, <3>4, <3>5 DEF LruTypeOK, NeverExits
  <2>3. NotesInv
    BY DEF LruInit, FirstTick, NotesInv
  <2>4. SameNotes
    <3>1. ~Holds(OUT)
      BY Sizes DEF Holds, OUT
    <3>2. \A i \in Processors : processes[i] # NULL => processes[i] \in Jobs
      BY <2>1 DEF Good, Types
    <3> QED
      BY <2>1, <3>1, <3>2 DEF SameNotes, Init, initqueue, NoPages
  <2> QED
    BY <2>1, <2>2, <2>3, <2>4 DEF LruGood
<1> QED
  BY <1>1, LruGoodStep, PTL DEF LruSpec

----------------------------------------------------------------------------
(* The theorems *)

\* The LRU pager only does what any pager may do.
THEOREM LruIsAPager ==
    LruSpec => IsAPager
<1>1. LruInit => Init
  BY DEF LruInit
<1> QED
  BY <1>1, LruStep, PTL DEF LruSpec, Spec, IsAPager

\* The variables of pager-lru.c keep their types.
THEOREM LruTypeCorrect ==
    LruSpec => []LruTypeOK
<1>1. LruGood => LruTypeOK
  BY DEF LruGood
<1> QED
  BY <1>1, AlwaysLruGood, PTL

\* The exit(0) of lru_pageit is never reached.
THEOREM LruNeverExits ==
    LruSpec => []NeverExits
<1>1. LruGood => NeverExits
  BY DEF LruGood
<1> QED
  BY <1>1, AlwaysLruGood, PTL

\* What lru_pageit evicts is the least recently used page of the job, whoever
\* ran on the processor before.
THEOREM LruEvictsLeastRecent ==
    LruSpec => EvictsLeastRecent
<1> DEFINE Oldest ==
        \A j \in Jobs, p \in Pages :
          pages[j][p] = 0 /\ pages'[j][p] = -1 =>
              \A r \in Pages : pages[j][r] = 0 => lastUse[j][p] <= lastUse[j][r]
<1>1. LruGood /\ [LruNext]_lruVars => Oldest
  <2> SUFFICES ASSUME LruGood, [LruNext]_lruVars,
                      NEW j \in Jobs, NEW p \in Pages,
                      pages[j][p] = 0, pages'[j][p] = -1,
                      NEW r \in Pages, pages[j][r] = 0
               PROVE  lastUse[j][p] <= lastUse[j][r]
    OBVIOUS
  <2> USE Sizes
  <2>1. Types
    BY DEF LruGood, Good
  <2>2. lru_pageit
    <3>1. ~(pages' = pages)
      OBVIOUS
    <3>2. ~StepExit(turn)
      <4>1. ASSUME StepExit(turn)
            PROVE  FALSE
        <5>1. PICK k \in Jobs : pages' = [pages EXCEPT ![k] = [q \in Pages |-> OUT]]
          BY <2>1, <4>1, ExitUnloads DEF Unloads, Types
        <5> QED
          BY <2>1, <5>1 DEF OUT, Types
      <4> QED
        BY <4>1
    <3>3. ~allage
      BY DEF allage, Aged
    <3> QED
      BY <3>1, <3>2, <3>3 DEF LruNext, allstep, StepIdle, StepBlocked,
           StepCompute, LruEndTick, EndTick, lruVars, vars
  <2>3. PICK i, h, page : Serves(i, h, page)
    BY <2>2, ServeMoves
  <2>4. i \in Processors /\ h \in Jobs /\ h = processes[i]
    BY <2>3 DEF Serves
  <2>5. ~Comes(h, page)
    BY <2>1 DEF Comes, Types
  <2>6. PICK q \in Pages : /\ Goes(h, q)
                           /\ \A s \in Allocated(i) :
                                 timestamps[i][q] <= timestamps[i][s]
    BY <2>3, <2>5 DEF Serves
  <2>7. j = h /\ p = q
    BY <2>1, <2>6 DEF Goes, Types
  <2>8. timestamps[i][p] <= timestamps[i][r]
    BY <2>4, <2>6, <2>7 DEF Allocated
  <2>9. Holds(pages[processes[i]][p]) /\ Holds(pages[processes[i]][r])
    BY <2>4, <2>7 DEF Holds
  <2> QED
    BY <2>4, <2>7, <2>8, <2>9 DEF LruGood, SameNotes
<1> QED
  BY <1>1, AlwaysLruGood, PTL DEF LruSpec, EvictsLeastRecent

----------------------------------------------------------------------------
(* The test of the calls *)

\* No job computes and none ends, so every processor keeps what it began with.
Parked ==
    /\ \A i \in Processors : processes[i] = IF i < QUEUESIZE THEN i ELSE NULL
    /\ queueend = IF procs < QUEUESIZE THEN procs ELSE QUEUESIZE
    /\ \A j \in Jobs : pc[j] = 1 /\ active[j]
    /\ phase # "done"

\* No page but the test's is ever asked for.
OthersOut ==
    \A j \in Jobs, p \in Pages : pages[j][p] # OUT => j = 0 /\ p = testPage

\* What the test remembers is where its page is; in is where it is only
\* between its arrival and the next call of pageit.
TestInv ==
    LET n == pages[0][testPage]
    IN  /\ outTestRun <=> n >= 0
        /\ inTestRun => n < 0
        /\ n = 0 => phase = "pageit" /\ ~tested
        /\ tested => phase = "pageit"
        /\ outTestRun <=> iterations % 2 = 1

TestTypes ==
    /\ tested \in BOOLEAN /\ outTestRun \in BOOLEAN /\ inTestRun \in BOOLEAN
    /\ iterations \in Nat /\ testEnded \in BOOLEAN

ApiGood == Good /\ TestTypes /\ Parked /\ OthersOut /\ TestInv

\* The one call the test makes that may move a page is one any pager can make.
LEMMA TestCalls ==
    test_pageit => Call \/ UNCHANGED vars
<1> SUFFICES ASSUME test_pageit
             PROVE  Call \/ UNCHANGED vars
  OBVIOUS
<1>1. /\ phase = "pageit"
      /\ UNCHANGED <<processes, queueend, walk, pc, active, phase, turn>>
  BY DEF test_pageit
<1>2. testProc \in -1 .. procs /\ testPage \in -1 .. MAXPROCPAGES
  BY Sizes DEF testProc, testPage
<1>3. CASE pagein(testProc, testPage) \/ pageout(testProc, testPage)
  BY <1>1, <1>2, <1>3 DEF Call
<1>4. CASE UNCHANGED <<pages, pagesavail>>
  BY <1>1, <1>4 DEF vars
<1> QED
  BY <1>3, <1>4 DEF test_pageit, InTest, OutTest, Wait

LEMMA ApiStep ==
    [ApiNext]_apiVars => [Next]_vars
  BY TestCalls DEF ApiNext, apiVars, Next, ApiEndTick

\* The program with the test of the calls is a simulator with some pager.
THEOREM ApiIsAPager ==
    ApiSpec => IsAPager
<1>1. ApiInit => Init
  BY DEF ApiInit
<1> QED
  BY <1>1, ApiStep, PTL DEF ApiSpec, Spec, IsAPager

\* The first job is on the first processor, and its first page is the one that
\* is tested.
LEMMA TestedPage ==
    ASSUME ApiGood
    PROVE  /\ 0 \in Jobs /\ 0 \in Pages /\ 0 \in Processors /\ 0 \in Running
           /\ processes[0] = 0
           /\ pages \in [Jobs -> [Pages -> PageState]]
           /\ pages[0][0] \in PageState
           /\ ValidCall(testProc, testPage)
           /\ StateOf(testProc, testPage) = pages[0][0]
<1> USE Sizes
<1>1. 0 \in Jobs /\ 0 \in Pages /\ 0 \in Processors
  BY DEF Jobs, Pages, Processors
<1>2. processes[0] = 0 /\ active[0]
  BY <1>1 DEF ApiGood, Parked
<1>3. pages \in [Jobs -> [Pages -> PageState]]
  BY DEF ApiGood, Good, Types
<1>4. 0 # NULL
  BY <1>1
<1> QED
  BY <1>1, <1>2, <1>3, <1>4 DEF Running, ValidCall, StateOf, testProc, testPage

\* The frame of the tested page is the only one that is ever taken.
LEMMA OneFrame ==
    ASSUME ApiGood
    PROVE  pagesavail = PHYSICALPAGES - (IF Holds(pages[0][0]) THEN 1 ELSE 0)
<1> USE Sizes
<1>1. Held = IF Holds(pages[0][0]) THEN {<<0, 0>>} ELSE {}
  <2>1. \A j \in Jobs, p \in Pages : Holds(pages[j][p]) => j = 0 /\ p = 0
    BY DEF ApiGood, OthersOut, Holds, OUT, testPage
  <2>2. 0 \in Jobs /\ 0 \in Pages
    BY TestedPage
  <2>3. ASSUME NEW jp \in Held
        PROVE  jp = <<0, 0>> /\ Holds(pages[0][0])
    <3>1. jp \in Jobs \X Pages /\ Holds(pages[jp[1]][jp[2]])
      BY DEF Held
    <3>2. jp[1] = 0 /\ jp[2] = 0
      BY <2>1, <3>1
    <3> QED
      BY <3>1, <3>2
  <2>4. Holds(pages[0][0]) => <<0, 0>> \in Held
    BY <2>2 DEF Held
  <2> QED
    BY <2>3, <2>4
<1>2. Cardinality(Held) = IF Holds(pages[0][0]) THEN 1 ELSE 0
  BY <1>1, FS_Singleton, FS_EmptySet
<1>3. pagesavail \in Int
  BY DEF ApiGood, Good, Types
<1> QED
  BY <1>2, <1>3 DEF ApiGood, Good, FramesConserved

\* What a call of pageit does: it waits, or sends the page that is in out, or
\* sends the page that is out in.  A pagein while the page goes out is refused.
LEMMA TestMoves ==
    ASSUME ApiGood, test_pageit
    PROVE  \/ /\ UNCHANGED <<pages, testVars>>
              /\ pages[0][0] # 0
           \/ /\ pages[0][0] = 0
              /\ pages' = [pages EXCEPT ![0][0] = -1]
              /\ outTestRun' = FALSE /\ inTestRun' = TRUE
              /\ outTestRun /\ iterations' = iterations + 1
           \/ /\ pages[0][0] = OUT
              /\ pages' = [pages EXCEPT ![0][0] = PAGEWAIT]
              /\ outTestRun' = TRUE /\ inTestRun' = FALSE
              /\ ~outTestRun /\ iterations' = iterations + 1
<1> USE Sizes
<1>1. PICK n : n = pages[0][0]
  OBVIOUS
<1>2. /\ n \in PageState /\ ValidCall(testProc, testPage)
      /\ StateOf(testProc, testPage) = n
      /\ SwappedIn <=> n = 0
      /\ processes[testProc] = 0 /\ testPage = 0
  BY <1>1, TestedPage DEF SwappedIn, ValidCall, testProc, testPage
<1>3. n \in Int /\ outTestRun <=> n >= 0
  BY <1>1, <1>2 DEF ApiGood, TestInv, testPage, PageState, OUT
<1>4. CASE InTest
  <2>1. n = 0
    BY <1>2, <1>4 DEF InTest
  <2>2. PageoutReturns(testProc, testPage) /\ StartsOut(testProc, testPage)
    BY <1>2, <2>1 DEF PageoutReturns, StartsOut
  <2>3. outTestRun
    BY <1>1, <2>1 DEF ApiGood, TestInv, testPage
  <2> QED
    BY <1>1, <1>2, <1>4, <2>1, <2>2, <2>3 DEF InTest, pageout
<1>5. CASE OutTest
  <2>1. ~outTestRun /\ n < 0
    BY <1>1, <1>2, <1>5 DEF OutTest, ApiGood, TestInv, testPage, PageState, OUT
  <2>2. CASE n = OUT
    <3>1. ~Holds(pages[0][0])
      BY <1>1, <2>2 DEF Holds, OUT
    <3>2. pagesavail # 0
      BY <3>1, OneFrame
    <3>3. StartsIn(testProc, testPage) /\ PageinReturns(testProc, testPage)
      BY <1>2, <2>1, <2>2, <3>2 DEF StartsIn, PageinReturns, OUT
    <3> QED
      BY <1>1, <1>2, <1>5, <2>1, <2>2, <3>3 DEF OutTest, pagein
  <2>3. CASE n # OUT
    <3>1. ~StartsIn(testProc, testPage) /\ ~PageinReturns(testProc, testPage)
      BY <1>2, <2>1, <2>3 DEF StartsIn, PageinReturns, PageState, OUT
    <3> QED
      BY <1>1, <1>5, <2>1, <3>1 DEF OutTest, pagein
  <2> QED
    BY <2>2, <2>3
<1>6. CASE Wait
  <2>1. n # 0
    BY <1>1, <1>2, <1>6 DEF Wait, ApiGood, TestInv, testPage
  <2> QED
    BY <1>1, <1>6, <2>1 DEF Wait
<1> QED
  BY <1>4, <1>5, <1>6 DEF test_pageit

\* Only a job whose page is in goes on, and none is: allstep passes.
LEMMA NoJobMoves ==
    ASSUME ApiGood, allstep
    PROVE  /\ UNCHANGED <<processes, queueend, walk, pc, active, pages, pagesavail>>
           /\ phase = "allstep" /\ phase' \in {"allstep", "allage"}
<1> USE Sizes
<1>1. PICK i : i = turn
  OBVIOUS
<1>2. i \in Processors /\ phase = "allstep" /\ Types
  BY <1>1 DEF ApiGood, Good, Types, allstep
<1>3. phase' \in {"allstep", "allage"}
  BY <1>2 DEF allstep, NextTurn
<1>4. ASSUME processes[i] # NULL
      PROVE  ~Resident(processes[i])
  <2>1. PICK j : j = processes[i]
    OBVIOUS
  <2>2. PICK p : p = Needed(j)
    OBVIOUS
  <2>3. j \in Jobs
    BY <1>2, <1>4, <2>1 DEF Types
  <2>4. p \in Pages
    <3>1. walk[j] \in Seq(Pages) /\ pc[j] \in 1 .. Len(walk[j])
      BY <1>2, <2>3, WalksStart DEF Types
    <3> QED
      BY <2>2, <3>1 DEF Needed
  <2>5. pages[0][0] # 0
    BY <1>2 DEF ApiGood, TestInv, testPage
  <2>6. pages[j][p] # 0
    BY <2>3, <2>4, <2>5 DEF ApiGood, OthersOut, testPage, OUT
  <2> QED
    BY <2>1, <2>2, <2>6 DEF Resident
<1>5. CASE StepIdle(i)
  <2>1. queueend = QUEUESIZE
    <3>1. i \in Nat /\ i < procs /\ (i < QUEUESIZE => i \in Jobs)
      BY <1>2 DEF Processors, Jobs
    <3>2. ~(i < QUEUESIZE)
      BY <1>2, <1>5, <3>1 DEF StepIdle, ApiGood, Parked
    <3> QED
      BY <3>1, <3>2 DEF ApiGood, Parked
  <2>2. processes' = [processes EXCEPT ![i] = NULL] /\ queueend' = queueend
    BY <1>5, <2>1 DEF StepIdle, Reload, empty
  <2>3. processes' = processes
    BY <1>2, <1>5, <2>2 DEF StepIdle, Types
  <2> QED
    BY <1>2, <1>3, <1>5, <2>2, <2>3 DEF StepIdle
<1>6. CASE StepBlocked(i)
  BY <1>2, <1>3, <1>6 DEF StepBlocked
<1>7. CASE StepCompute(i) \/ StepExit(i)
  BY <1>4, <1>7 DEF StepCompute, StepExit
<1> QED
  BY <1>1, <1>5, <1>6, <1>7 DEF allstep

LEMMA ApiGoodInit ==
    ApiInit => ApiGood
<1> SUFFICES ASSUME ApiInit
             PROVE  ApiGood
  OBVIOUS
<1> USE Sizes
<1>1. Init /\ Good
  BY InitGood DEF ApiInit
<1>2. \A j \in Jobs, p \in Pages : pages[j][p] = OUT
  BY <1>1 DEF Init, initqueue, NoPages
<1>3. pages[0][testPage] = OUT
  BY <1>2 DEF Jobs, Pages, testPage
<1>4. Parked
  BY <1>1 DEF Init, initqueue, Parked
<1>5. OthersOut
  BY <1>2 DEF OthersOut
<1>6. TestInv
  BY <1>3 DEF ApiInit, TestInv, OUT
<1> QED
  BY <1>1, <1>4, <1>5, <1>6 DEF ApiInit, ApiGood, TestTypes

\* A tick passes, and the page with it.
LEMMA TestKeeps ==
    ASSUME ApiGood, test_pageit
    PROVE  TestTypes' /\ Parked' /\ OthersOut' /\ TestInv'
<1> USE Sizes
<1>1. /\ phase = "pageit" /\ phase' = phase /\ tested'
      /\ UNCHANGED <<processes, queueend, walk, pc, active>>
  BY DEF test_pageit
<1>2. /\ 0 \in Jobs /\ 0 \in Pages
      /\ pages \in [Jobs -> [Pages -> PageState]]
  BY TestedPage
<1>3. Parked'
  BY <1>1 DEF ApiGood, Parked
<1>4. /\ iterations \in Nat /\ outTestRun \in BOOLEAN
      /\ outTestRun <=> iterations % 2 = 1
      /\ outTestRun <=> pages[0][0] >= 0
      /\ inTestRun => pages[0][0] < 0
      /\ inTestRun \in BOOLEAN
  BY DEF ApiGood, TestTypes, TestInv, testPage
<1>5. tested' \in BOOLEAN /\ testEnded' \in BOOLEAN
  BY DEF test_pageit
<1>6. CASE UNCHANGED <<pages, testVars>> /\ pages[0][0] # 0
  BY <1>1, <1>3, <1>5, <1>6 DEF ApiGood, TestTypes, OthersOut, TestInv, testVars, testPage
<1>7. CASE /\ pages' = [pages EXCEPT ![0][0] = -1]
           /\ outTestRun' = FALSE /\ inTestRun' = TRUE
           /\ outTestRun /\ iterations' = iterations + 1
  <2>1. pages'[0][0] = -1
    BY <1>2, <1>7
  <2>2. \A j \in Jobs, p \in Pages : pages'[j][p] = pages[j][p] \/ (j = 0 /\ p = 0)
    BY <1>2, <1>7
  <2>3. OthersOut'
    BY <2>2 DEF ApiGood, OthersOut, testPage
  <2>4. TestInv'
    BY <1>1, <1>4, <1>7, <2>1 DEF TestInv, testPage
  <2>5. TestTypes'
    <3>1. iterations' \in Nat
      BY <1>4, <1>7
    <3>2. outTestRun' \in BOOLEAN /\ inTestRun' \in BOOLEAN
      BY <1>7
    <3> QED
      BY <1>5, <3>1, <3>2 DEF TestTypes
  <2> QED
    BY <1>3, <2>3, <2>4, <2>5
<1>8. CASE /\ pages' = [pages EXCEPT ![0][0] = PAGEWAIT]
           /\ outTestRun' = TRUE /\ inTestRun' = FALSE
           /\ ~outTestRun /\ iterations' = iterations + 1
  <2>1. pages'[0][0] = PAGEWAIT
    BY <1>2, <1>8
  <2>2. \A j \in Jobs, p \in Pages : pages'[j][p] = pages[j][p] \/ (j = 0 /\ p = 0)
    BY <1>2, <1>8
  <2>3. OthersOut'
    BY <2>2 DEF ApiGood, OthersOut, testPage
  <2>4. TestInv'
    BY <1>1, <1>4, <1>8, <2>1 DEF TestInv, testPage
  <2>5. TestTypes'
    <3>1. iterations' \in Nat
      BY <1>4, <1>8
    <3>2. outTestRun' \in BOOLEAN /\ inTestRun' \in BOOLEAN
      BY <1>8
    <3> QED
      BY <1>5, <3>1, <3>2 DEF TestTypes
  <2> QED
    BY <1>3, <2>3, <2>4, <2>5
<1> QED
  BY <1>6, <1>7, <1>8, TestMoves

LEMMA ApiGoodStep ==
    ApiGood /\ [ApiNext]_apiVars => ApiGood'
<1> SUFFICES ASSUME ApiGood, [ApiNext]_apiVars
             PROVE  ApiGood'
  OBVIOUS
<1> USE Sizes
<1>1. Good'
  BY ApiStep, GoodStep DEF ApiGood
<1>2. /\ 0 \in Jobs /\ 0 \in Pages /\ 0 \in Running
      /\ pages \in [Jobs -> [Pages -> PageState]]
  BY TestedPage
<1>3. ASSUME allstep, UNCHANGED <<tested, testVars, testEnded>>
      PROVE  ApiGood'
  <2>1. /\ UNCHANGED <<processes, queueend, walk, pc, active, pages, pagesavail>>
        /\ phase = "allstep" /\ phase' \in {"allstep", "allage"}
    BY <1>3, NoJobMoves
  <2>2. pages[0][testPage] # 0 /\ ~tested
    BY <2>1 DEF ApiGood, TestInv
  <2> QED
    BY <1>1, <1>3, <2>1, <2>2
       DEF ApiGood, TestTypes, Parked, OthersOut, TestInv, testVars
<1>4. ASSUME allage, UNCHANGED <<tested, testVars, testEnded>>
      PROVE  ApiGood'
  <2>1. /\ phase = "allage" /\ phase' = "pageit"
        /\ UNCHANGED <<processes, queueend, walk, pc, active>>
    BY <1>4 DEF allage
  <2>2. \A j \in Jobs, p \in Pages : pages'[j][p] \in {pages[j][p], Aged(pages[j][p])}
    BY <1>4 DEF allage
  <2>3. pages'[0][0] = Aged(pages[0][0])
    BY <1>2, <1>4 DEF allage
  <2>4. OthersOut'
    <3>1. Aged(OUT) = OUT
      BY DEF Aged, OUT
    <3> QED
      BY <2>2, <3>1 DEF ApiGood, OthersOut
  <2>5. pages[0][0] # 0 /\ ~tested
    BY <2>1 DEF ApiGood, TestInv, testPage
  <2>6. pages'[0][0] >= 0 <=> pages[0][0] >= 0
    BY <1>2, <2>3, <2>5 DEF Aged, PageState, OUT
  <2>7. pages'[0][0] < 0 <=> pages[0][0] < 0
    BY <1>2, <2>3, <2>5 DEF Aged, PageState, OUT
  <2>8. TestInv'
    BY <1>4, <2>1, <2>5, <2>6, <2>7 DEF ApiGood, TestInv, testVars, testPage
  <2> QED
    BY <1>1, <1>4, <2>1, <2>4, <2>8 DEF ApiGood, TestTypes, Parked, testVars
<1>5. ASSUME test_pageit
      PROVE  ApiGood'
  BY <1>1, <1>5, TestKeeps DEF ApiGood
<1>6. ASSUME ApiEndTick, UNCHANGED <<testVars, testEnded>>
      PROVE  ApiGood'
  <2>1. ~alldone
    BY TestedPage DEF alldone, ValidCall, testProc
  <2>2. /\ phase' = "allstep" /\ ~tested' /\ tested' \in BOOLEAN /\ tested
        /\ UNCHANGED <<processes, queueend, walk, pc, active, pages>>
    BY <1>6, <2>1 DEF ApiEndTick, EndTick
  <2>3. pages[0][testPage] # 0
    BY <2>2 DEF ApiGood, TestInv
  <2> QED
    BY <1>1, <1>6, <2>2, <2>3
       DEF ApiGood, TestTypes, Parked, OthersOut, TestInv, testVars
<1>7. ASSUME UNCHANGED apiVars
      PROVE  ApiGood'
  BY <1>1, <1>7 DEF ApiGood, TestTypes, Parked, OthersOut, TestInv, apiVars, testVars, vars
<1> QED
  BY <1>3, <1>4, <1>5, <1>6, <1>7 DEF ApiNext

\* What the test remembers is where its page is, whatever the numbers of the
\* simulator and the jobs in its queue: the page is in while outTestRun, the frames
\* are counted right, and no job gets to execute a statement.
THEOREM TestKnowsItsPage ==
    /\ ApiSpec => []TestTracksPage
    /\ PagersSpec => []ApiTracksPage
<1>1. ApiSpec => []ApiGood
  BY ApiGoodInit, ApiGoodStep, PTL DEF ApiSpec
<1>2. PagersSpec => [](pager = "api" => ApiGood)
  <2>1. PagersInit => (pager = "api" => ApiGood)
    BY ApiGoodInit DEF PagersInit
  <2>2. (pager = "api" => ApiGood) /\ [PagersNext]_pagersVars
          => (pager = "api" => ApiGood)'
    <3>1. ASSUME [PagersNext]_pagersVars, pager' = "api"
          PROVE  pager = "api" /\ [ApiNext]_apiVars
      BY <3>1 DEF PagersNext, pagersVars, apiVars, apiOnly
    <3> QED
      BY <3>1, ApiGoodStep
  <2> QED
    BY <2>1, <2>2, PTL DEF PagersSpec
<1>3. ApiGood => TestTracksPage
  <2> SUFFICES ASSUME ApiGood
               PROVE  TestTracksPage
    OBVIOUS
  <2>1. /\ outTestRun => pages[0][testPage] >= 0
        /\ inTestRun => pages[0][testPage] < 0
        /\ phase = "allstep" => pages[0][testPage] # 0
        /\ outTestRun <=> iterations % 2 = 1
    BY DEF ApiGood, TestInv
  <2>2. ~(outTestRun /\ inTestRun)
    BY <2>1, TestedPage, Sizes DEF PageState, OUT, testPage
  <2>3. \A j \in Jobs : pc[j] = 1 /\ active[j]
    BY DEF ApiGood, Parked
  <2> QED
    BY <2>1, <2>2, <2>3, OneFrame DEF TestTracksPage, testPage
<1>4. (pager = "api" => ApiGood) => ApiTracksPage
  BY <1>3 DEF ApiTracksPage
<1> QED
  BY <1>1, <1>2, <1>3, <1>4, PTL
=============================================================================

---------------------------- MODULE PagerPredict ----------------------------
(***************************************************************************)
(* PA4/pager-predict.c as the pager of the simulator.  It remembers the    *)
(* last accesses of each processor.  A job that faults loses the pages it  *)
(* has not used lately and gets the page it wants; when there are no       *)
(* frames, jobs that fault too much are suspended, and jobs that got       *)
(* nothing lose their least recently used page.  When nobody waits,        *)
(* suspended jobs are resumed.                                             *)
(*                                                                         *)
(* A step makes at most one call of pagein or pageout.  stage is the place *)
(* in pred_pageit, proc the processor its loop is at, and todo the pages   *)
(* its inner loop still has to call for.  The working sets are cleared and *)
(* counted up to MAXPROCESSES, which is MAXPROCPAGES (simulator.h:17).     *)
(***************************************************************************)
EXTENDS Simulator, HistoryRing

CONSTANTS EVICTWAIT,     \* 100: ticks a job without pages waits for its turn
          PAGEINWAIT,    \* 100: a job that got a page lately is not suspended
          SUSPENDWAIT,   \* 500: ticks a suspended job stays so
          THRASHING      \* 2048: faults of a job to be suspended

ASSUME LimitsAssumption ==
    /\ EVICTWAIT \in Nat /\ PAGEINWAIT \in Nat /\ SUSPENDWAIT \in Nat
    /\ THRASHING \in Nat /\ THRASHING >= HSIZE

VARIABLES phist_arr,          \* the history of each processor
          proc_pset,          \* its working set at its last fault
          proc_susp,          \* when it was suspended, or 0
          proc_last_unsat,    \* when it last was refused a page
          proc_last_pagein,   \* when it last was granted one
          timestamps,         \* when it last used each page
          tick,               \* the counter of calls of pageit
          stage, proc, todo,  \* where pred_pageit is, see above
          unsat,              \* the page each processor was refused, or -1
          pages_freed, free_phys,
          exited,             \* exit(0) was called or the assertion failed
          recent              \* history: the last accesses, the newest last

tables == <<phist_arr, proc_pset, proc_susp, proc_last_unsat, proc_last_pagein,
            timestamps, recent>>
locals == <<stage, proc, todo, unsat, pages_freed, free_phys>>
predVars == <<vars, tables, locals, tick, exited>>

PredInit ==
    /\ Init
    /\ phist_arr = [i \in Processors |-> phist_init]
    /\ proc_pset = [i \in Processors |-> {}]
    /\ proc_susp = [i \in Processors |-> 0]
    /\ proc_last_unsat = [i \in Processors |-> 0]
    /\ proc_last_pagein = [i \in Processors |-> 0]
    /\ timestamps = [i \in Processors |-> [p \in Pages |-> 0]]
    /\ recent = [i \in Processors |-> <<>>]
    /\ tick = 1
    /\ stage = "serve" /\ proc = 0 /\ todo = {}
    /\ unsat = [i \in Processors |-> -1]
    /\ pages_freed = 0 /\ free_phys = PHYSICALPAGES
    /\ exited = FALSE

----------------------------------------------------------------------------
(* Reading the copy of the state *)

Job(i) == processes[i]
Page(i) == Needed(Job(i))

\* q[i].pages: the pages that were resident before pageit, which are those
\* that still are and those it started to move out.
Allocated(i) == {p \in Pages : pages[Job(i)][p] \in {0, -1}}
pages_alloc(i) == Cardinality(Allocated(i))

Lowest(S) == CHOOSE p \in S : \A r \in S : p <= r

\* The page with the lowest timestamp, the first of them; the search stops
\* early at a timestamp of 1 or less, and yields -1 when it finds none.
lru_page(i) ==
    LET aged == {p \in Allocated(i) : timestamps[i][p] < tick + 1}
        first == {p \in aged : timestamps[i][p] <= 1}
    IN  IF aged = {} THEN -1
        ELSE IF first # {} THEN Lowest(first)
        ELSE Lowest({p \in aged :
                       \A r \in aged : timestamps[i][p] <= timestamps[i][r]})

Refused == {i \in Processors : unsat[i] # -1}
amount_unsat == Cardinality(Refused)

\* pageit is running and at the named place.
At(place) == phase = "pageit" /\ ~exited /\ stage = place

\* What a step of pred_pageit leaves alone in the simulator.
SameSimulator == UNCHANGED <<processes, queueend, walk, pc, active, phase, turn>>
NoCall == UNCHANGED <<pages, pagesavail>>

----------------------------------------------------------------------------
(* The first loop: every processor records its access *)

Remember(i, fault) ==
    LET record == Record(Page(i), fault)
        all == Append(recent[i], record)
    IN  /\ timestamps' = [timestamps EXCEPT ![i][Page(i)] = tick]
        /\ phist_arr' = [phist_arr EXCEPT ![i] = phist_push(@, record)]
        /\ recent' = [recent EXCEPT ![i] = IF Len(all) < HSIZE THEN all ELSE Tail(all)]

\* A suspended job is passed over, and one that has its page only recorded.
Serve ==
    /\ At("serve") /\ proc < procs
    /\ Job(proc) # NULL => proc_susp[proc] > 0 \/ Page(proc) \in Allocated(proc)
    /\ IF Job(proc) = NULL THEN UNCHANGED free_phys
       ELSE free_phys' = free_phys - pages_alloc(proc)
    /\ IF Job(proc) = NULL \/ proc_susp[proc] > 0
       THEN UNCHANGED <<timestamps, phist_arr, recent>>
       ELSE Remember(proc, FALSE)
    /\ proc' = proc + 1
    /\ SameSimulator /\ NoCall
    /\ UNCHANGED <<proc_pset, proc_susp, proc_last_unsat, proc_last_pagein, tick,
                   stage, todo, unsat, pages_freed, exited>>

\* The pages that are not in the working set just computed.
Unused(i) ==
    IF Cardinality(phist_working_set(phist_arr'[i])) < pages_alloc(i)
    THEN Allocated(i) \ phist_working_set(phist_arr'[i]) ELSE {}

Fault ==
    /\ At("serve") /\ proc < procs
    /\ Job(proc) # NULL /\ proc_susp[proc] = 0 /\ Page(proc) \notin Allocated(proc)
    /\ free_phys' = free_phys - pages_alloc(proc)
    /\ Remember(proc, TRUE)
    /\ proc_pset' = [proc_pset EXCEPT ![proc] = phist_working_set(phist_arr'[proc])]
    /\ todo' = Unused(proc)
    /\ stage' = "trim"
    /\ SameSimulator /\ NoCall
    /\ UNCHANGED <<proc_susp, proc_last_unsat, proc_last_pagein, tick, proc, unsat,
                   pages_freed, exited>>

\* pageout of the next page of the inner loop.
PutOut ==
    /\ todo # {}
    /\ pageout(proc, Lowest(todo))
    /\ todo' = todo \ {Lowest(todo)}
    /\ pages_freed' = pages_freed + 1
    /\ SameSimulator
    /\ UNCHANGED <<tables, tick, stage, proc, unsat, free_phys, exited>>

Trim == At("trim") /\ PutOut

Want ==
    /\ At("trim") /\ todo = {}
    /\ pagein(proc, Page(proc))
    /\ \/ /\ PageinReturns(proc, Page(proc))
          /\ proc_last_pagein' = [proc_last_pagein EXCEPT ![proc] = tick]
          /\ free_phys' = free_phys - 1
          /\ UNCHANGED <<unsat, proc_last_unsat>>
       \/ /\ ~PageinReturns(proc, Page(proc))
          /\ pages_alloc(proc) < 1 /\ tick - proc_last_unsat[proc] < EVICTWAIT
          /\ UNCHANGED <<unsat, proc_last_unsat, proc_last_pagein, free_phys>>
       \/ /\ ~PageinReturns(proc, Page(proc))
          /\ ~(pages_alloc(proc) < 1 /\ tick - proc_last_unsat[proc] < EVICTWAIT)
          /\ unsat' = [unsat EXCEPT ![proc] = Page(proc)]
          /\ proc_last_unsat' = [proc_last_unsat EXCEPT ![proc] = tick]
          /\ UNCHANGED <<proc_last_pagein, free_phys>>
    /\ proc' = proc + 1
    /\ stage' = "serve"
    /\ SameSimulator
    /\ UNCHANGED <<phist_arr, proc_pset, proc_susp, timestamps, recent, tick, todo,
                   pages_freed, exited>>

\* The end of the loop, with its assertion.
Served ==
    /\ At("serve") /\ proc = procs
    /\ exited' = (free_phys < 0)
    /\ stage' = IF amount_unsat > 0
                THEN IF pages_freed >= amount_unsat THEN "return" ELSE "suspend"
                ELSE IF free_phys > 0 THEN "resume" ELSE "return"
    /\ proc' = 0
    /\ SameSimulator /\ NoCall
    /\ UNCHANGED <<tables, tick, todo, unsat, pages_freed, free_phys>>

----------------------------------------------------------------------------
(* Suspending, evicting and resuming *)

\* faults[] is set by a fault only; a job that did not fault in this call
\* is judged by an indeterminate value.
Faulted(i) == Page(i) \notin Allocated(i)

MaySuspend(i) ==
    /\ Job(i) # NULL /\ proc_susp[i] = 0
    /\ tick - proc_last_pagein[i] > PAGEINWAIT
    /\ pages_alloc(i) > 0

Thrashes(i) == Faulted(i) /\ phist_fault_sum(phist_arr[i]) >= THRASHING

\* Mutant: only one page is put out.
SuspendOne(i) ==
    /\ At("suspend")
    /\ MaySuspend(i) /\ (Thrashes(i) \/ ~Faulted(i))
    /\ proc' = i
    /\ todo' = {Lowest(Allocated(i))}
    /\ stage' = "clear"
    /\ SameSimulator /\ NoCall
    /\ UNCHANGED <<tables, tick, unsat, pages_freed, free_phys, exited>>

\* The list is sorted by faults, so indeterminate ones come in any order.
Suspend(i) ==
    /\ At("suspend")
    /\ MaySuspend(i) /\ (Thrashes(i) \/ ~Faulted(i))
    /\ proc' = i
    /\ todo' = Allocated(i)
    /\ stage' = "clear"
    /\ SameSimulator /\ NoCall
    /\ UNCHANGED <<tables, tick, unsat, pages_freed, free_phys, exited>>

Clear == At("clear") /\ PutOut

\* unsat is compared with 1, a page, where it says that there is one.
Cleared ==
    /\ At("clear") /\ todo = {}
    /\ proc_susp' = [proc_susp EXCEPT ![proc] = tick]
    /\ pages_freed' = IF unsat[proc] = 1 THEN pages_freed + 1 ELSE pages_freed
    /\ stage' = IF pages_freed' >= amount_unsat THEN "return" ELSE "suspend"
    /\ SameSimulator /\ NoCall
    /\ UNCHANGED <<phist_arr, proc_pset, proc_last_unsat, proc_last_pagein,
                   timestamps, recent, tick, proc, todo, unsat, free_phys, exited>>

\* The list is at its end.
NoneLeft ==
    /\ At("suspend")
    /\ \A i \in Processors : ~(MaySuspend(i) /\ Thrashes(i))
    /\ stage' = "evict" /\ proc' = 0
    /\ SameSimulator /\ NoCall
    /\ UNCHANGED <<tables, tick, todo, unsat, pages_freed, free_phys, exited>>

\* Mutant: also when it has no page to give.
MustGiveAlways(i) == i \in Refused

\* Mutant: also when it was not refused any.
MustGiveAny(i) == Job(i) # NULL /\ pages_alloc(i) >= 1

\* Each refused job gives one page, until there are enough.
MustGive(i) == i \in Refused /\ pages_alloc(i) >= 1

Evict ==
    /\ At("evict") /\ proc < procs /\ MustGive(proc)
    /\ pageout(proc, lru_page(proc))
    /\ exited' = ~PageoutReturns(proc, lru_page(proc))
    /\ pages_freed' = pages_freed + 1
    /\ proc' = proc + 1
    /\ stage' = IF pages_freed' >= amount_unsat THEN "return" ELSE "evict"
    /\ SameSimulator
    /\ UNCHANGED <<tables, tick, todo, unsat, free_phys>>

\* A suspended job may go on when its working set seems to fit.
MayResume(i) ==
    /\ proc_susp[i] # 0 /\ tick - proc_susp[i] >= SUSPENDWAIT
    /\ free_phys >= 1 /\ Cardinality(proc_pset[i]) <= free_phys

Resume ==
    /\ At("resume") /\ proc < procs /\ MayResume(proc)
    /\ proc_susp' = [proc_susp EXCEPT ![proc] = 0]
    /\ todo' = proc_pset[proc]
    /\ stage' = "restore"
    /\ SameSimulator /\ NoCall
    /\ UNCHANGED <<phist_arr, proc_pset, proc_last_unsat, proc_last_pagein,
                   timestamps, recent, tick, proc, unsat, pages_freed, free_phys, exited>>

Restore ==
    /\ At("restore") /\ todo # {}
    /\ pagein(proc, Lowest(todo))
    /\ free_phys' = IF PageinReturns(proc, Lowest(todo)) THEN free_phys - 1 ELSE -1
    /\ todo' = todo \ {Lowest(todo)}
    /\ SameSimulator
    /\ UNCHANGED <<tables, tick, stage, proc, unsat, pages_freed, exited>>

\* The loops over the processors go on.
Pass ==
    /\ \/ (At("evict") /\ proc < procs /\ ~MustGive(proc))
       \/ (At("resume") /\ proc < procs /\ ~MayResume(proc))
       \/ (At("restore") /\ todo = {})
    /\ proc' = proc + 1
    /\ stage' = IF stage = "restore" THEN "resume" ELSE stage
    /\ SameSimulator /\ NoCall
    /\ UNCHANGED <<tables, tick, todo, unsat, pages_freed, free_phys, exited>>

Return ==
    /\ ~exited
    /\ stage = "return" \/ (stage \in {"evict", "resume"} /\ proc = procs)
    /\ EndTick
    /\ tick' = tick + 1
    /\ stage' = "serve" /\ proc' = 0
    /\ unsat' = [i \in Processors |-> -1]
    /\ pages_freed' = 0 /\ free_phys' = PHYSICALPAGES
    /\ UNCHANGED <<tables, todo, exited>>

pred_pageit ==
    \/ Serve \/ Fault \/ Trim \/ Want \/ Served
    \/ (\E i \in Processors : Suspend(i)) \/ Clear \/ Cleared \/ NoneLeft
    \/ Evict \/ Resume \/ Restore \/ Pass

PredNext ==
    \/ allstep /\ UNCHANGED <<tables, locals, tick, exited>>
    \/ allage /\ UNCHANGED <<tables, locals, tick, exited>>
    \/ pred_pageit
    \/ Return
    \/ (exited \/ phase = "done") /\ UNCHANGED predVars

\* One sequential program, which runs until it stops itself.
PredSpec == PredInit /\ [][PredNext]_predVars /\ WF_predVars(PredNext)

----------------------------------------------------------------------------
\* The types of the pager's variables.
PredTypeOK ==
    /\ phist_arr \in [Processors ->
          [records : [Slots -> [page : Pages, fault : BOOLEAN]], head : Slots, tail : Slots]]
    /\ proc_pset \in [Processors -> SUBSET Pages]
    /\ proc_susp \in [Processors -> Nat]
    /\ proc_last_unsat \in [Processors -> Nat]
    /\ proc_last_pagein \in [Processors -> Nat]
    /\ timestamps \in [Processors -> [Pages -> Nat]]
    /\ tick \in Nat \ {0}
    /\ stage \in {"serve", "trim", "suspend", "clear", "evict", "resume", "restore", "return"}
    /\ proc \in 0 .. procs
    /\ todo \in SUBSET Pages
    /\ unsat \in [Processors -> Pages \cup {-1}]
    /\ pages_freed \in Nat
    /\ free_phys \in Int
    /\ exited \in BOOLEAN
    /\ recent \in [Processors -> Seq([page : Pages, fault : BOOLEAN])]

\* Neither exit(0) nor the assertion on free_phys (pager-predict.c:185, 228)
\* is ever reached.
NeverExits == ~exited

\* The ring holds the last HSIZE - 1 accesses, in order, through its wrap.
HistoryKeepsLast ==
    \A i \in Processors :
        /\ Count(phist_arr[i]) = Len(recent[i])
        /\ \A n \in 1 .. Len(recent[i]) :
              phist_arr[i].records[SlotAt(phist_arr[i], n - 1)] = recent[i][n]

\* "t = 0 -> most recent access, t = 1 -> 2nd most recent access, ..."
\* (predict.h:25-26): phist_at gives the accesses of a processor by their age.
MostRecentFirst ==
    \A i \in Processors : \A t \in 0 .. Len(recent[i]) - 1 :
        phist_at(phist_arr[i], t) = recent[i][Len(recent[i]) - t]

\* The page a job waits for or stands on is only taken from it when it is
\* suspended.
KeepsNeeded ==
    [][\A j \in Jobs : pages[j][Needed(j)] = 0 /\ pages'[j][Needed(j)] = -1 =>
          stage = "clear"]_predVars

\* A suspended job does not run, hence cannot end while its notes say that
\* its processor is suspended.
SuspendedWait ==
    \A i \in Processors : proc_susp[i] > 0 =>
        Job(i) # NULL /\ ~Resident(Job(i))

\* What the pager counts as freed (pages_freed) was really put out.
FreesAsCounted ==
    phase = "pageit" => pages_freed <=
        Cardinality({jp \in Running \X Pages : pages[jp[1]][jp[2]] = -1})
=============================================================================

------------------------- MODULE PagerPredictProofs -------------------------
(***************************************************************************)
(* The predictive pager, for every size of the simulator, of the history   *)
(* and of its limits: the history holds what it should, and neither exit   *)
(* of the pager is ever taken.                                             *)
(***************************************************************************)
EXTENDS PagerPredict, SimulatorProofs, SequenceTheorems

Accesses == [page : Pages, fault : BOOLEAN]
Histories == [records : [Slots -> Accesses], head : Slots, tail : Slots]

----------------------------------------------------------------------------
(* The history *)

\* The loops from tail to head stay in the ring and end.
LEMMA VisitedSlots ==
    ASSUME NEW ph \in Histories
    PROVE  /\ Count(ph) \in 0 .. HSIZE - 1
           /\ \A n \in 0 .. Count(ph) - 1 : SlotAt(ph, n) \in Slots
           /\ Visited(ph) \subseteq Slots
<1>1. HSIZE \in Nat \ {0} /\ ph.head \in 0 .. HSIZE - 1 /\ ph.tail \in 0 .. HSIZE - 1
  BY HsizeAssumption DEF Histories, Slots
<1>2. Count(ph) \in 0 .. HSIZE - 1
  BY <1>1 DEF Count
<1>3. \A n \in 0 .. Count(ph) - 1 : SlotAt(ph, n) \in Slots
  BY <1>1, <1>2 DEF SlotAt, Slots
<1> QED
  BY <1>2, <1>3 DEF Visited

\* Fewer faults are counted than the ring has slots.
LEMMA FewFaults ==
    ASSUME NEW ph \in Histories
    PROVE  ~(phist_fault_sum(ph) >= THRASHING)
<1>1. PICK c : c = Count(ph)
  OBVIOUS
<1>2. c \in Nat /\ c <= HSIZE - 1
  BY <1>1, VisitedSlots, HsizeAssumption
<1>3. PICK D : D = 0 .. c - 1
  OBVIOUS
<1>4. IsFiniteSet(D) /\ Cardinality(D) = c
  <2>1. 0 \in Int /\ c - 1 \in Int
    BY <1>2
  <2>2. IsFiniteSet(0 .. c - 1) /\ Cardinality(0 .. c - 1) = IF 0 > c - 1 THEN 0 ELSE (c - 1) - 0 + 1
    BY <2>1, FS_Interval
  <2> QED
    BY <1>2, <1>3, <2>2
<1>5. PICK f : f = [n \in D |-> SlotAt(ph, n)]
  OBVIOUS
<1>6. PICK V : V = Visited(ph)
  OBVIOUS
<1>7. f \in Surjection(D, V)
  BY <1>1, <1>3, <1>5, <1>6 DEF Surjection, Visited
<1>8. IsFiniteSet(V) /\ Cardinality(V) <= c
  BY <1>4, <1>7, FS_Surjection
<1>9. PICK F : F = {s \in V : ph.records[s].fault}
  OBVIOUS
<1>10. IsFiniteSet(F) /\ Cardinality(F) <= Cardinality(V)
  BY <1>8, <1>9, FS_Subset
<1>11. Cardinality(F) \in Nat /\ Cardinality(V) \in Nat
  BY <1>8, <1>10, FS_CardinalityType
<1>12. phist_fault_sum(ph) = Cardinality(F)
  BY <1>6, <1>9 DEF phist_fault_sum
<1> QED
  BY <1>2, <1>8, <1>10, <1>11, <1>12, LimitsAssumption, HsizeAssumption

\* What the ring ph should hold, the oldest first.  The tail leaves slot 0 only
\* when the ring is full, and from then on it is right behind the head.
Logs(ph, log) ==
    /\ Len(log) < HSIZE
    /\ ph.tail = 0 \/ HPLUS_ONE(ph.head) = ph.tail
    /\ Count(ph) = Len(log)
    /\ \A n \in 1 .. Len(log) : ph.records[SlotAt(ph, n - 1)] = log[n]

\* A push adds the record and drops the oldest of a full ring.
LEMMA PushKeeps ==
    ASSUME NEW ph \in Histories, NEW record \in Accesses,
           NEW log \in Seq(Accesses), Logs(ph, log),
           NEW all, all = Append(log, record),
           NEW next, next = IF Len(all) < HSIZE THEN all ELSE Tail(all)
    PROVE  /\ phist_push(ph, record) \in Histories
           /\ next \in Seq(Accesses)
           /\ Logs(phist_push(ph, record), next)
<1>1. PICK r, h, t : r = ph.records /\ h = ph.head /\ t = ph.tail
  OBVIOUS
<1>2. /\ HSIZE \in Nat \ {0} /\ h \in 0 .. HSIZE - 1 /\ t \in 0 .. HSIZE - 1
      /\ r \in [Slots -> Accesses] /\ Slots = 0 .. HSIZE - 1
  BY <1>1, HsizeAssumption DEF Histories, Slots
<1>3. PICK g : g = HPLUS_ONE(h)
  OBVIOUS
<1>4. PICK u : u = IF g = t THEN HPLUS_ONE(t) ELSE t
  OBVIOUS
<1>5. g \in 0 .. HSIZE - 1 /\ u \in 0 .. HSIZE - 1
  BY <1>2, <1>3, <1>4 DEF HPLUS_ONE
<1>6. PICK q : q = phist_push(ph, record)
  OBVIOUS
<1>7. PICK w : w = [r EXCEPT ![h] = record]
  OBVIOUS
<1>8. q.records = w /\ q.head = g /\ q.tail = u /\ q \in Histories
  <2>1. w \in [Slots -> Accesses]
    BY <1>2, <1>7
  <2>2. ph = [records |-> r, head |-> h, tail |-> t]
    BY <1>1 DEF Histories
  <2>3. q = [records |-> w, head |-> g, tail |-> u]
    BY <1>3, <1>4, <1>6, <1>7, <2>2 DEF phist_push, inc_head
  <2> QED
    BY <1>2, <1>5, <2>1, <2>3 DEF Histories
<1>9. PICK m : m = Len(log)
  OBVIOUS
<1>10. m \in Nat /\ m < HSIZE /\ m = IF t <= h THEN h - t ELSE h - t + HSIZE
  BY <1>1, <1>9 DEF Logs, Count
<1>11. /\ all \in Seq(Accesses) /\ Len(all) = m + 1
       /\ \A n \in 1 .. m : all[n] = log[n]
       /\ all[m + 1] = record
  BY <1>9, AppendProperties
<1>12. \A n \in 1 .. m : r[IF t + (n - 1) < HSIZE THEN t + (n - 1) ELSE t + (n - 1) - HSIZE] = log[n]
  BY <1>1, <1>9 DEF Logs, SlotAt
<1>13. q.tail = 0 \/ HPLUS_ONE(q.head) = q.tail
  <2>1. t = 0 \/ g = t
    BY <1>1, <1>3 DEF Logs
  <2> QED
    BY <1>3, <1>4, <1>8, <2>1
<1>14. CASE m + 1 < HSIZE
  <2>1. g # t /\ u = t
    BY <1>2, <1>3, <1>4, <1>10, <1>14 DEF HPLUS_ONE
  <2>2. next = all /\ Len(next) = m + 1
    BY <1>11, <1>14
  <2>3. Count(q) = m + 1
    BY <1>2, <1>3, <1>8, <1>10, <1>14, <2>1 DEF Count, HPLUS_ONE
  <2>4. ASSUME NEW n \in 1 .. m + 1
        PROVE  q.records[SlotAt(q, n - 1)] = next[n]
    <3>1. PICK s : s = IF t + (n - 1) < HSIZE THEN t + (n - 1) ELSE t + (n - 1) - HSIZE
      OBVIOUS
    <3>2. SlotAt(q, n - 1) = s /\ s \in Slots
      BY <1>2, <1>8, <1>10, <2>1, <3>1 DEF SlotAt
    <3>3. s = h <=> n = m + 1
      BY <1>2, <1>10, <1>14, <3>1
    <3>4. CASE n = m + 1
      BY <1>2, <1>7, <1>8, <1>11, <2>2, <3>2, <3>3, <3>4
    <3>5. CASE n # m + 1
      <4>1. n \in 1 .. m
        BY <1>10, <3>5
      <4>2. r[s] = log[n]
        BY <1>12, <3>1, <4>1
      <4>3. w[s] = r[s]
        BY <1>2, <1>7, <3>2, <3>3, <3>5
      <4> QED
        BY <1>8, <1>11, <2>2, <3>2, <4>1, <4>2, <4>3
    <3> QED
      BY <3>4, <3>5
  <2> QED
    BY <1>6, <1>8, <1>11, <1>14, <1>13, <2>2, <2>3, <2>4 DEF Logs
<1>15. CASE m + 1 >= HSIZE
  <2>1. g = t /\ u = HPLUS_ONE(t) /\ m = HSIZE - 1
    BY <1>2, <1>3, <1>4, <1>10, <1>15 DEF HPLUS_ONE
  <2>2. next = Tail(all) /\ next \in Seq(Accesses) /\ Len(next) = m
        /\ \A n \in 1 .. m : next[n] = all[n + 1]
    <3>1. all # <<>>
      BY AppendProperties
    <3>2. ~(Len(all) < HSIZE)
      BY <1>2, <1>10, <1>11, <1>15
    <3>3. next = Tail(all)
      BY <3>2
    <3> QED
      BY <1>10, <1>11, <3>1, <3>3, HeadTailProperties
  <2>3. Count(q) = m
    BY <1>2, <1>3, <1>8, <2>1 DEF Count, HPLUS_ONE
  <2>4. ASSUME NEW n \in 1 .. m
        PROVE  q.records[SlotAt(q, n - 1)] = next[n]
    <3>1. PICK s : s = IF t + n < HSIZE THEN t + n ELSE t + n - HSIZE
      OBVIOUS
    <3>2. SlotAt(q, n - 1) = s /\ s \in Slots
      BY <1>2, <1>8, <1>10, <2>1, <3>1 DEF SlotAt, HPLUS_ONE
    <3>3. s = h <=> n = m
      BY <1>2, <1>10, <2>1, <3>1
    <3>4. CASE n = m
      BY <1>2, <1>7, <1>8, <1>11, <2>2, <3>2, <3>3, <3>4
    <3>5. CASE n # m
      <4>1. n + 1 \in 1 .. m /\ (n + 1) - 1 = n
        BY <1>10, <3>5
      <4>2. r[s] = log[n + 1]
        BY <1>12, <3>1, <4>1
      <4>3. w[s] = r[s]
        BY <1>2, <1>7, <3>2, <3>3, <3>5
      <4> QED
        BY <1>8, <1>11, <2>2, <3>2, <4>1, <4>2, <4>3
    <3> QED
      BY <3>4, <3>5
  <2> QED
    BY <1>6, <1>8, <1>10, <1>13, <2>2, <2>3, <2>4 DEF Logs
<1> QED
  BY <1>2, <1>10, <1>14, <1>15

\* t steps back from head, which is the function phist_at defines, end at the
\* slot t places before it.
LEMMA StepsBack ==
    ASSUME NEW head \in Slots, NEW t \in 0 .. HSIZE - 1,
           NEW ptr, ptr = [n \in 0 .. t |-> IF n = 0 THEN head ELSE HMINUS_ONE(ptr[n - 1])]
    PROVE  ptr[t] = IF t <= head THEN head - t ELSE head - t + HSIZE
<1> DEFINE Behind(n) == IF n <= head THEN head - n ELSE head - n + HSIZE
           Wrong == {n \in 0 .. t : ptr[n] # Behind(n)}
<1>1. HSIZE \in Nat \ {0} /\ head \in 0 .. HSIZE - 1 /\ t \in Nat /\ t < HSIZE
  BY HsizeAssumption DEF Slots
<1>2. ptr[0] = head
  BY <1>1
<1>3. \A n \in 1 .. t : ptr[n] = HMINUS_ONE(ptr[n - 1])
  BY <1>1
<1>4. \A n \in 1 .. t : HMINUS_ONE(Behind(n - 1)) = Behind(n)
  BY <1>1 DEF HMINUS_ONE
<1>5. ASSUME Wrong # {}
      PROVE  FALSE
  <2>1. Wrong \in SUBSET Nat
    BY <1>1
  <2>2. PICK n \in Wrong : \A m \in Wrong : n <= m
    BY <1>5, <2>1, LeastNat
  <2>3. n \in 0 .. t /\ ptr[n] # Behind(n)
    OBVIOUS
  <2>4. n # 0
    BY <1>1, <1>2, <2>3
  <2>5. n \in 1 .. t /\ n - 1 \in 0 .. t
    BY <1>1, <2>3, <2>4
  <2>6. n - 1 \notin Wrong
    <3>1. ~(n <= n - 1)
      BY <1>1, <2>3
    <3> HIDE DEF Wrong
    <3> QED
      BY <2>2, <3>1
  <2>7. ptr[n - 1] = Behind(n - 1)
    BY <2>5, <2>6
  <2> QED
    BY <1>3, <1>4, <2>3, <2>5, <2>7
<1>6. t \in 0 .. t
  BY <1>1
<1> QED
  BY <1>5, <1>6

\* phist_at reads the slot t places before head: its walk exists, and ends there.
LEMMA ReadsBehind ==
    ASSUME NEW ph \in Histories, NEW t \in 0 .. HSIZE - 1
    PROVE  phist_at(ph, t) =
               ph.records[IF t <= ph.head THEN ph.head - t ELSE ph.head - t + HSIZE]
<1>1. PICK head : head = ph.head
  OBVIOUS
<1>2. HSIZE \in Nat \ {0} /\ head \in 0 .. HSIZE - 1 /\ t \in Nat /\ t < HSIZE
  BY <1>1, HsizeAssumption DEF Histories, Slots
<1> DEFINE Behind(n) == IF n <= head THEN head - n ELSE head - n + HSIZE
           Steps(f) == f = [n \in 0 .. t |-> IF n = 0 THEN head ELSE HMINUS_ONE(f[n - 1])]
           back == [n \in 0 .. t |-> Behind(n)]
           ptr == CHOOSE f : Steps(f)
<1>3. Steps(back)
  <2>1. ASSUME NEW n \in 0 .. t
        PROVE  Behind(n) = IF n = 0 THEN head ELSE HMINUS_ONE(back[n - 1])
    <3>1. CASE n = 0
      BY <1>2, <3>1
    <3>2. CASE n # 0
      <4>1. n - 1 \in 0 .. t
        BY <1>2, <3>2
      <4>2. back[n - 1] = Behind(n - 1)
        BY <4>1
      <4>3. HMINUS_ONE(Behind(n - 1)) = Behind(n)
        BY <1>2, <3>2 DEF HMINUS_ONE
      <4> QED
        BY <3>2, <4>2, <4>3
    <3> QED
      BY <3>1, <3>2
  <2> QED
    BY <2>1
<1>4. Steps(ptr)
  BY <1>3
<1>5. phist_at(ph, t) = ph.records[ptr[t]]
  BY <1>1 DEF phist_at
<1>6. ptr[t] = Behind(t)
  <2> HIDE DEF ptr
  <2>1. ptr = [n \in 0 .. t |-> IF n = 0 THEN head ELSE HMINUS_ONE(ptr[n - 1])]
    BY <1>4
  <2> QED
    BY <1>2, <2>1, StepsBack DEF Slots
<1> QED
  BY <1>1, <1>5, <1>6

----------------------------------------------------------------------------
(* What a step of the pager is in Simulator *)

\* It makes one call, or none.
LEMMA PredCalls ==
    pred_pageit => /\ phase = "pageit" /\ SameSimulator /\ ~exited
                   /\ \/ NoCall
                      \/ \E i, p : pagein(i, p) \/ pageout(i, p)
  BY DEF pred_pageit, At, Serve, Fault, Trim, PutOut, Want, Served, Suspend, Clear,
         Cleared, NoneLeft, Evict, Resume, Restore, Pass

\* Every step is one of Simulator.
LEMMA PredStep ==
    [PredNext]_predVars => [Next]_vars
<1>1. ASSUME pred_pageit
      PROVE  Call \/ UNCHANGED vars
  <2>1. /\ phase = "pageit"
        /\ UNCHANGED <<processes, queueend, walk, pc, active, phase, turn>>
    BY <1>1, PredCalls DEF SameSimulator
  <2>2. ASSUME NEW i, NEW p, pagein(i, p) \/ pageout(i, p)
        PROVE  Call \/ UNCHANGED vars
    <3>1. CASE UNCHANGED <<pages, pagesavail>>
      BY <2>1, <3>1 DEF vars
    <3>2. CASE StartsIn(i, p) \/ StartsOut(i, p)
      <4>1. i \in -1 .. procs /\ p \in -1 .. MAXPROCPAGES
        BY <3>2, Sizes DEF StartsIn, StartsOut, ValidCall, Processors, Pages
      <4> QED
        BY <2>1, <2>2, <4>1 DEF Call
    <3> QED
      BY <2>2, <3>1, <3>2 DEF pagein, pageout
  <2>3. CASE NoCall
    BY <2>1, <2>3 DEF NoCall, vars
  <2> QED
    BY <1>1, <2>2, <2>3, PredCalls
<1> QED
  BY <1>1 DEF PredNext, Return, predVars, Next

\* The predictive pager only does what any pager may do.
THEOREM PredictIsAPager ==
    PredSpec => IsAPager
<1>1. PredInit => Init
  BY DEF PredInit
<1> QED
  BY <1>1, PredStep, PTL DEF PredSpec, Spec, IsAPager

----------------------------------------------------------------------------
(* The invariant *)

\* Every ring is up to date.
Remembers == \A i \in Processors : Logs(phist_arr[i], recent[i])

\* No note is ahead of the counter.
NotesInv == \A i \in Processors, p \in Pages : timestamps[i][p] <= tick

\* What the place in pred_pageit says of the processor the loop is at.
PlaceInv ==
    /\ phase # "pageit" => stage = "serve" /\ proc = 0
    /\ stage \in {"trim", "clear", "restore"} => proc < procs
    /\ stage \in {"trim", "restore"} => proc_susp[proc] = 0
    /\ stage = "trim" => Job(proc) # NULL /\ Page(proc) \notin Allocated(proc)
    /\ stage = "clear" =>
          /\ Job(proc) # NULL
          /\ todo \subseteq Allocated(proc)
          /\ Page(proc) \in todo \/ pages[Job(proc)][Page(proc)] < 0

\* The page a suspended job needs is out or on its way out.
SuspendedInv ==
    \A i \in Processors : proc_susp[i] > 0 =>
        Job(i) # NULL /\ pages[Job(i)][Page(i)] < 0

\* A job is refused a page that it does not have.
RefusedInv ==
    \A i \in Processors : unsat[i] # -1 =>
        phase = "pageit" /\ Job(i) # NULL /\ Page(i) \notin Allocated(i)

\* A page granted in this call is on its way in; the processors still to be
\* served were granted none.
GrantedInv ==
    \A i \in Processors :
        /\ proc_last_pagein[i] <= tick
        /\ stage \in {"serve", "trim"} /\ i >= proc => proc_last_pagein[i] < tick
        /\ proc_last_pagein[i] = tick =>
              phase = "pageit" /\ Job(i) # NULL /\ pages[Job(i)][Page(i)] > 0

\* The processors whose pages are already taken off free_phys, and those
\* pages: what they had before the call, and what they were granted.
Counted(i) == i < proc \/ (stage = "trim" /\ i = proc)
Taken ==
    {jp \in Jobs \X Pages : \E i \in Processors :
        /\ Counted(i) /\ Job(i) = jp[1]
        /\ jp[2] \in Allocated(i) \/ (jp[2] = Page(i) /\ proc_last_pagein[i] = tick)}

AccountsInv ==
    stage \in {"serve", "trim"} => free_phys = PHYSICALPAGES - Cardinality(Taken)

PredGood ==
    /\ Good /\ PredTypeOK /\ Remembers /\ NotesInv /\ PlaceInv /\ SuspendedInv
    /\ RefusedInv /\ GrantedInv /\ AccountsInv /\ NeverExits

----------------------------------------------------------------------------
(* What the steps read and move *)

\* The job of a processor and the page it is on.
LEMMA JobOf ==
    ASSUME Good, NEW i \in Processors, Job(i) # NULL
    PROVE  /\ Job(i) \in Jobs /\ Job(i) \in Running
           /\ active[Job(i)]
           /\ Page(i) \in Pages
<1>1. PICK j : j = Job(i)
  OBVIOUS
<1>2. j \in Jobs /\ j \in Running
  BY <1>1 DEF Good, Types, Running, Job
<1>3. active[j]
  BY <1>2 DEF Good, JobsRunOnce
<1>4. walk[j] \in Seq(Pages) /\ pc[j] \in 1 .. Len(walk[j])
  BY <1>2, WalksStart DEF Good, Types
<1> QED
  BY <1>1, <1>2, <1>3, <1>4 DEF Needed, Page

\* The pages a job had before the call can be counted.
LEMMA CountedPages ==
    ASSUME NEW i
    PROVE  /\ Allocated(i) \in SUBSET Pages /\ IsFiniteSet(Allocated(i))
           /\ pages_alloc(i) \in Nat
           /\ pages_alloc(i) > 0 => Allocated(i) # {}
<1>1. Allocated(i) \in SUBSET Pages
  BY DEF Allocated
<1>2. IsFiniteSet(Allocated(i))
  BY <1>1, FinitePages, FS_Subset
<1> QED
  BY <1>1, <1>2, FS_CardinalityType, FS_EmptySet DEF pages_alloc

\* Pages are numbers, and a set of them has a lowest.
LEMMA LowestOf ==
    ASSUME NEW S \in SUBSET Nat, S # {}
    PROVE  Lowest(S) \in S
  BY LeastNat DEF Lowest

\* lru_page finds one of the pages.
LEMMA LruPage ==
    ASSUME PredTypeOK, NotesInv, NEW i \in Processors, Allocated(i) # {}
    PROVE  lru_page(i) \in Allocated(i)
<1>1. PICK A : A = Allocated(i)
  OBVIOUS
<1>2. A \subseteq Pages /\ A \in SUBSET Nat /\ A # {}
  BY <1>1, Sizes DEF Allocated, Pages
<1>3. \A p \in A : timestamps[i][p] \in Nat /\ timestamps[i][p] < tick + 1
  BY <1>2 DEF PredTypeOK, NotesInv
<1>4. PICK aged : aged = {p \in A : timestamps[i][p] < tick + 1}
  OBVIOUS
<1>5. aged = A
  BY <1>3, <1>4
<1>6. PICK first : first = {p \in aged : timestamps[i][p] <= 1}
  OBVIOUS
<1>7. PICK old : old = {p \in aged : \A r \in aged : timestamps[i][p] <= timestamps[i][r]}
  OBVIOUS
<1>8. lru_page(i) = IF first # {} THEN Lowest(first) ELSE Lowest(old)
  BY <1>1, <1>2, <1>4, <1>5, <1>6, <1>7 DEF lru_page
<1>9. old # {}
  <2>1. PICK T : T = {timestamps[i][p] : p \in A}
    OBVIOUS
  <2>2. T \in SUBSET Nat /\ T # {}
    BY <1>2, <1>3, <2>1
  <2>3. \E n \in T : \A m \in T : n <= m
    BY <2>2, LeastNat
  <2> QED
    BY <1>5, <1>7, <2>1, <2>3
<1>10. first \in SUBSET Nat /\ old \in SUBSET Nat
  BY <1>2, <1>5, <1>6, <1>7
<1>11. lru_page(i) \in first \/ lru_page(i) \in old
  BY <1>8, <1>9, <1>10, LowestOf
<1> QED
  BY <1>1, <1>5, <1>6, <1>7, <1>11

\* At most page p of the job of processor i moves: out from being resident,
\* or in from being out.
MovesOut(i, p) ==
    \A j \in Jobs, q \in Pages :
        \/ pages'[j][q] = pages[j][q]
        \/ j = Job(i) /\ q = p /\ pages[j][q] = 0 /\ pages'[j][q] = -1

MovesIn(i, p) ==
    \A j \in Jobs, q \in Pages :
        \/ pages'[j][q] = pages[j][q]
        \/ j = Job(i) /\ q = p /\ pages[j][q] = OUT /\ pages'[j][q] = PAGEWAIT

\* The calls do no more than that.
LEMMA CallMovesOne ==
    ASSUME Types, NEW i, NEW p
    PROVE  /\ pageout(i, p) => MovesOut(i, p)
           /\ pagein(i, p) => MovesIn(i, p)
           /\ NoCall => MovesOut(i, p)
<1>1. ASSUME pageout(i, p)
      PROVE  MovesOut(i, p)
  <2>1. UNCHANGED pages \/ (StartsOut(i, p) /\ pages' = [pages EXCEPT ![Job(i)][p] = -1])
    BY <1>1 DEF pageout, Job
  <2> QED
    BY <2>1 DEF MovesOut, StartsOut, StateOf, Job, Types
<1>2. ASSUME pagein(i, p)
      PROVE  MovesIn(i, p)
  <2>1. \/ UNCHANGED pages
        \/ Comes(Job(i), p)
    BY <1>2, PageinMoves DEF Job
  <2> QED
    BY <2>1 DEF MovesIn, Comes, Types
<1>3. NoCall => MovesOut(i, p)
  BY DEF NoCall, MovesOut
<1> QED
  BY <1>1, <1>2, <1>3

\* While pred_pageit runs, jobs stay where they are, and the pages they had
\* before it stay the same: one that goes out is still counted, one that
\* comes in not yet.
SameView ==
    /\ processes' = processes /\ phase = "pageit" /\ phase' = phase /\ tick' = tick
    /\ \A i \in Processors : Job(i) # NULL =>
          /\ Page(i)' = Page(i) /\ Allocated(i)' = Allocated(i)
          /\ pages[Job(i)][Page(i)] < 0 =>
                \/ pages'[Job(i)][Page(i)] < 0
                \/ stage \in {"trim", "restore"} /\ i = proc
          /\ pages[Job(i)][Page(i)] > 0 => pages'[Job(i)][Page(i)] > 0

\* Every step of pred_pageit moves at most one page of one job.
LEMMA PagerMoves ==
    ASSUME PredGood, pred_pageit
    PROVE  SameView
<1> USE Sizes
<1>0. Good /\ Types /\ ~exited
  BY DEF PredGood, Good, NeverExits
<1>1. phase = "pageit" /\ SameSimulator /\ tick' = tick
  BY DEF pred_pageit, At, Serve, Fault, Trim, PutOut, Want, Served, Suspend, Clear,
         Cleared, NoneLeft, Evict, Resume, Restore, Pass, tables
<1>2. UNCHANGED <<processes, walk, pc, phase>>
  BY <1>1 DEF SameSimulator
<1>3. PICK p : \/ MovesOut(proc, p)
               \/ stage \in {"trim", "restore"} /\ MovesIn(proc, p)
  <2>1. \/ NoCall
        \/ \E q : pageout(proc, q)
        \/ stage \in {"trim", "restore"} /\ \E q : pagein(proc, q)
    BY DEF pred_pageit, At, Serve, Fault, Trim, PutOut, Want, Served, Suspend, Clear,
           Cleared, NoneLeft, Evict, Resume, Restore, Pass
  <2> QED
    BY <1>0, <2>1, CallMovesOne
<1>4. ASSUME NEW i \in Processors, Job(i) # NULL
      PROVE  /\ Page(i)' = Page(i) /\ Allocated(i)' = Allocated(i)
             /\ pages[Job(i)][Page(i)] < 0 =>
                  \/ pages'[Job(i)][Page(i)] < 0
                  \/ stage \in {"trim", "restore"} /\ i = proc
             /\ pages[Job(i)][Page(i)] > 0 => pages'[Job(i)][Page(i)] > 0
  <2>1. PICK j : j = Job(i)
    OBVIOUS
  <2>2. j \in Jobs /\ Page(i) \in Pages /\ Job(i)' = j
    BY <1>0, <1>2, <1>4, <2>1, JobOf DEF Job
  <2>3. Page(i)' = Page(i)
    BY <1>2, <2>1, <2>2 DEF Page, Needed
  <2>4. \A q \in Pages :
           \/ pages'[j][q] = pages[j][q]
           \/ pages[j][q] = 0 /\ pages'[j][q] = -1
           \/ /\ stage \in {"trim", "restore"} /\ j = Job(proc)
              /\ pages[j][q] = OUT /\ pages'[j][q] = PAGEWAIT
    BY <1>3, <2>2 DEF MovesOut, MovesIn
  <2>5. Allocated(i)' = Allocated(i)
    <3>1. Allocated(i) = {q \in Pages : pages[j][q] \in {0, -1}}
      BY <2>1 DEF Allocated
    <3>2. Allocated(i)' = {q \in Pages : pages'[j][q] \in {0, -1}}
      BY <2>2 DEF Allocated
    <3>3. PAGEWAIT \notin {0, -1} /\ OUT \notin {0, -1}
      BY DEF OUT
    <3>4. \A q \in Pages : pages'[j][q] \in {0, -1} <=> pages[j][q] \in {0, -1}
      BY <2>4, <3>3
    <3> QED
      BY <3>1, <3>2, <3>4
  <2>6. j = Job(proc) /\ stage \in {"trim", "restore"} => i = proc
    <3>1. proc \in Processors \/ stage \notin {"trim", "restore"}
      BY DEF PredGood, PlaceInv, PredTypeOK, Processors
    <3> QED
      BY <1>0, <1>4, <2>1, <3>1 DEF Good, JobsRunOnce, Job
  <2>7. pages[j][Page(i)] \in PageState
    BY <1>0, <2>2 DEF Types
  <2>8. pages[j][Page(i)] < 0 => \/ pages'[j][Page(i)] < 0
                                 \/ stage \in {"trim", "restore"} /\ i = proc
    BY <2>2, <2>4, <2>6, <2>7 DEF PageState, OUT
  <2>9. pages[j][Page(i)] > 0 => pages'[j][Page(i)] > 0
    BY <2>2, <2>4, <2>7 DEF PageState, OUT
  <2> QED
    BY <2>1, <2>3, <2>5, <2>8, <2>9
<1> QED
  BY <1>1, <1>2, <1>4 DEF SameView

----------------------------------------------------------------------------
(* Types and notes *)

\* A push keeps the histories, their types, and the notes.
LEMMA RememberKeeps ==
    ASSUME PredGood, NEW i \in Processors, Job(i) # NULL,
           NEW fault \in BOOLEAN, Remember(i, fault)
    PROVE  /\ timestamps' \in [Processors -> [Pages -> Nat]]
           /\ phist_arr' \in [Processors -> Histories]
           /\ recent' \in [Processors -> Seq(Accesses)]
           /\ Remembers'
           /\ \A k \in Processors, p \in Pages : timestamps'[k][p] <= tick
<1> USE DEF PredGood
<1>0. /\ phist_arr \in [Processors -> Histories]
      /\ recent \in [Processors -> Seq(Accesses)]
      /\ timestamps \in [Processors -> [Pages -> Nat]]
      /\ tick \in Nat /\ Page(i) \in Pages
  BY JobOf DEF PredTypeOK, Histories, Accesses
<1>1. PICK record : record = Record(Page(i), fault)
  OBVIOUS
<1>2. record \in Accesses
  BY <1>0, <1>1 DEF Record, Accesses
<1>3. PICK log : log = recent[i]
  OBVIOUS
<1>4. PICK all : all = Append(log, record)
  OBVIOUS
<1>5. PICK next : next = IF Len(all) < HSIZE THEN all ELSE Tail(all)
  OBVIOUS
<1>6. PICK ph : ph = phist_arr[i]
  OBVIOUS
<1>7. PICK new : new = phist_push(ph, record)
  OBVIOUS
<1>8. phist_arr' = [phist_arr EXCEPT ![i] = new] /\ recent' = [recent EXCEPT ![i] = next]
  BY <1>1, <1>3, <1>4, <1>5, <1>6, <1>7 DEF Remember
<1>9. new \in Histories /\ next \in Seq(Accesses) /\ Logs(new, next)
  <2>1. ph \in Histories /\ log \in Seq(Accesses) /\ Logs(ph, log)
    BY <1>0, <1>3, <1>6 DEF Remembers
  <2> QED
    BY <1>2, <1>4, <1>5, <1>7, <2>1, PushKeeps
<1>10. \A k \in Processors : Logs(phist_arr'[k], recent'[k])
  <2>1. ASSUME NEW k \in Processors
        PROVE  Logs(phist_arr'[k], recent'[k])
    <3>1. CASE k = i
      BY <1>0, <1>8, <1>9, <3>1
    <3>2. CASE k # i
      <4>1. phist_arr'[k] = phist_arr[k] /\ recent'[k] = recent[k]
        BY <1>0, <1>8, <3>2
      <4> QED
        BY <4>1 DEF Remembers
    <3> QED
      BY <3>1, <3>2
  <2> QED
    BY <2>1
<1>11. timestamps' = [timestamps EXCEPT ![i][Page(i)] = tick]
  BY DEF Remember
<1>12. \A k \in Processors, p \in Pages : timestamps'[k][p] <= tick
  BY <1>0, <1>11 DEF NotesInv
<1> QED
  BY <1>0, <1>8, <1>9, <1>10, <1>11, <1>12 DEF Remembers

\* pred_pageit keeps the tables of the histories and of the timestamps.
LEMMA TablesStep ==
    ASSUME PredGood, pred_pageit
    PROVE  /\ timestamps' \in [Processors -> [Pages -> Nat]]
           /\ phist_arr' \in [Processors -> Histories]
           /\ recent' \in [Processors -> Seq(Accesses)]
           /\ Remembers' /\ NotesInv'
<1> USE Sizes
<1>1. CASE UNCHANGED <<timestamps, phist_arr, recent>>
  <2>1. tick' = tick
    BY PagerMoves DEF SameView
  <2> QED
    BY <1>1, <2>1 DEF PredGood, PredTypeOK, Histories, Accesses, Remembers, NotesInv
<1>2. ASSUME NEW fault \in BOOLEAN, Job(proc) # NULL, proc < procs, Remember(proc, fault)
      PROVE  /\ timestamps' \in [Processors -> [Pages -> Nat]]
             /\ phist_arr' \in [Processors -> Histories]
             /\ recent' \in [Processors -> Seq(Accesses)]
             /\ Remembers' /\ NotesInv'
  <2>1. proc \in Processors
    BY <1>2 DEF PredGood, PredTypeOK, Processors
  <2>2. tick' = tick
    BY PagerMoves DEF SameView
  <2> QED
    BY <1>2, <2>1, <2>2, RememberKeeps DEF NotesInv
<1>3. CASE Serve \/ Fault
  <2>1. TRUE \in BOOLEAN /\ FALSE \in BOOLEAN
    OBVIOUS
  <2> QED
    BY <1>1, <1>2, <1>3, <2>1 DEF Serve, Fault
<1> QED
  BY <1>1, <1>3 DEF pred_pageit, Trim, PutOut, Want, Served, Suspend, Clear, Cleared,
       NoneLeft, Evict, Resume, Restore, Pass, tables

\* Pages of working sets are pages.
LEMMA WorkingSets ==
    ASSUME NEW ph \in Histories
    PROVE  phist_working_set(ph) \in SUBSET Pages
<1>1. \A s \in Visited(ph) : ph.records[s] \in Accesses
  BY VisitedSlots DEF Histories
<1> QED
  BY <1>1 DEF phist_working_set, Accesses

\* pred_pageit keeps the types.
LEMMA PredTypeStep ==
    ASSUME PredGood, pred_pageit
    PROVE  PredTypeOK'
<1> USE Sizes
<1>0. PredTypeOK /\ Good /\ ~exited
  BY DEF PredGood, NeverExits
<1>1. /\ phist_arr' \in [Processors -> Histories]
      /\ timestamps' \in [Processors -> [Pages -> Nat]]
      /\ recent' \in [Processors -> Seq(Accesses)]
      /\ tick' = tick
  BY TablesStep, PagerMoves DEF SameView
<1>2. /\ proc' \in 0 .. procs
      /\ stage' \in {"serve", "trim", "suspend", "clear", "evict", "resume", "restore", "return"}
  <2>1. proc \in 0 .. procs
    BY <1>0 DEF PredTypeOK
  <2>2. stage = "trim" => proc < procs
    BY DEF PredGood, PlaceInv
  <2>3. stage = "restore" => proc < procs
    BY DEF PredGood, PlaceInv
  <2>4. \/ proc' \in {proc, 0} \/ proc' \in Processors
        \/ proc' = proc + 1 /\ (proc < procs \/ stage \in {"trim", "restore"})
    BY DEF pred_pageit, At, Serve, Fault, Trim, PutOut, Want, Served,
         Suspend, Clear, Cleared, NoneLeft, Evict, Resume, Restore, Pass
  <2>5. proc' \in 0 .. procs
    BY <2>1, <2>2, <2>3, <2>4 DEF Processors
  <2> QED
    BY <1>0, <2>5 DEF pred_pageit, At, Serve, Fault, Trim, PutOut, Want, Served,
         Suspend, Clear, Cleared, NoneLeft, Evict, Resume, Restore, Pass, PredTypeOK
<1>3. free_phys' \in Int /\ pages_freed' \in Nat
  <2>1. free_phys \in Int /\ pages_freed \in Nat
    BY <1>0 DEF PredTypeOK
  <2>2. pages_alloc(proc) \in Nat
    BY CountedPages
  <2>3. free_phys' \in {free_phys, free_phys - 1, -1, free_phys - pages_alloc(proc)}
    BY DEF pred_pageit, Serve, Fault, Trim, PutOut, Want, Served,
         Suspend, Clear, Cleared, NoneLeft, Evict, Resume, Restore, Pass
  <2>4. pages_freed' \in {pages_freed, pages_freed + 1}
    BY DEF pred_pageit, Serve, Fault, Trim, PutOut, Want, Served,
         Suspend, Clear, Cleared, NoneLeft, Evict, Resume, Restore, Pass
  <2> QED
    BY <2>1, <2>2, <2>3, <2>4
<1>4. proc_pset' \in [Processors -> SUBSET Pages]
  <2>1. CASE Fault
    <3>1. proc \in Processors
      BY <1>0, <2>1 DEF Fault, PredTypeOK, Processors
    <3>2. PICK S : S = phist_working_set(phist_arr'[proc])
      OBVIOUS
    <3>3. S \in SUBSET Pages
      BY <1>1, <3>1, <3>2, WorkingSets
    <3>4. proc_pset' = [proc_pset EXCEPT ![proc] = S]
      BY <2>1, <3>2 DEF Fault
    <3> QED
      BY <1>0, <3>3, <3>4 DEF PredTypeOK
  <2>2. CASE UNCHANGED proc_pset
    BY <1>0, <2>2 DEF PredTypeOK
  <2> QED
    BY <2>1, <2>2 DEF pred_pageit, Serve, Trim, PutOut, Want, Served,
         Suspend, Clear, Cleared, NoneLeft, Evict, Resume, Restore, Pass, tables
<1>5. todo' \in SUBSET Pages
  <2>1. \A i : Allocated(i) \in SUBSET Pages
    BY CountedPages
  <2>2. CASE Fault
    BY <2>1, <2>2 DEF Fault, Unused
  <2>3. CASE Resume
    BY <1>0, <2>3 DEF Resume, PredTypeOK, Processors
  <2>4. todo \in SUBSET Pages
    BY <1>0 DEF PredTypeOK
  <2> QED
    BY <2>1, <2>2, <2>3, <2>4 DEF pred_pageit, Serve, Trim, PutOut, Want, Served,
         Suspend, Clear, Cleared, NoneLeft, Evict, Restore, Pass
<1>6. /\ proc_susp' \in [Processors -> Nat]
      /\ proc_last_unsat' \in [Processors -> Nat]
      /\ proc_last_pagein' \in [Processors -> Nat]
  <2>1. /\ proc_susp \in [Processors -> Nat]
        /\ proc_last_unsat \in [Processors -> Nat]
        /\ proc_last_pagein \in [Processors -> Nat]
        /\ tick \in Nat
    BY <1>0 DEF PredTypeOK
  <2> QED
    BY <2>1 DEF pred_pageit, Serve, Fault, Trim, PutOut, Want, Served,
         Suspend, Clear, Cleared, NoneLeft, Evict, Resume, Restore, Pass, tables
<1>7. unsat' \in [Processors -> Pages \cup {-1}]
  <2>1. CASE Want
    <3>1. stage = "trim"
      BY <2>1 DEF Want, At
    <3>2. proc \in Processors /\ Job(proc) # NULL
      BY <1>0, <3>1 DEF PredGood, PlaceInv, PredTypeOK, Processors
    <3>3. Page(proc) \in Pages
      BY <1>0, <3>2, JobOf
    <3>4. PICK page \in Pages : page = Page(proc)
      BY <3>3
    <3>5. unsat' = unsat \/ unsat' = [unsat EXCEPT ![proc] = page]
      BY <2>1, <3>4 DEF Want
    <3> QED
      BY <1>0, <3>5 DEF PredTypeOK
  <2>2. CASE UNCHANGED unsat
    BY <1>0, <2>2 DEF PredTypeOK
  <2> QED
    BY <2>1, <2>2 DEF pred_pageit, Serve, Fault, Trim, PutOut, Served,
         Suspend, Clear, Cleared, NoneLeft, Evict, Resume, Restore, Pass
<1>8. exited' \in BOOLEAN
  <2>1. CASE UNCHANGED exited
    BY <1>0, <2>1 DEF PredTypeOK
  <2>2. CASE Served
    <3>1. exited' = (free_phys < 0)
      BY <2>2 DEF Served
    <3> QED
      BY <3>1
  <2>3. CASE Evict
    <3>1. exited' = ~PageoutReturns(proc, lru_page(proc))
      BY <2>3 DEF Evict
    <3> QED
      BY <3>1
  <2> QED
    BY <2>1, <2>2, <2>3 DEF pred_pageit, Serve, Fault, Trim, PutOut, Want,
         Suspend, Clear, Cleared, NoneLeft, Resume, Restore, Pass
<1>9. tick' \in Nat \ {0}
  BY <1>0, <1>1 DEF PredTypeOK
<1> QED
  BY <1>1, <1>2, <1>3, <1>4, <1>5, <1>6, <1>7, <1>8, <1>9 DEF PredTypeOK, Histories, Accesses

----------------------------------------------------------------------------
(* What pred_pageit keeps *)

\* The loop is at a processor, or past the last one.
LEMMA PlaceOfLoop ==
    ASSUME PredTypeOK
    PROVE  /\ proc \in Nat /\ proc <= procs
           /\ proc < procs => proc \in Processors
<1>1. proc \in 0 .. procs
  BY DEF PredTypeOK
<1> QED
  BY <1>1, Sizes DEF Processors

\* Which tables the steps change.
LEMMA TableChanges ==
    pred_pageit =>
        /\ unsat' = unsat \/ Want
        /\ proc_last_pagein' = proc_last_pagein \/ Want
        /\ proc_susp' = proc_susp \/ Cleared \/ Resume
  BY DEF pred_pageit, Serve, Fault, Trim, PutOut, Want, Served, Suspend, Clear, Cleared,
         NoneLeft, Evict, Resume, Restore, Pass, tables

\* Putting out the pages of a suspended job takes the one it needs.
LEMMA ClearStep ==
    ASSUME PredGood, Clear
    PROVE  PlaceInv'
<1> USE Sizes
<1>0. /\ Good /\ Types /\ pred_pageit /\ SameView
      /\ stage = "clear" /\ stage' = "clear" /\ proc' = proc
      /\ phase = "pageit" /\ phase' = "pageit"
  BY PagerMoves DEF PredGood, Good, pred_pageit, Clear, At, PutOut, SameView
<1>1. /\ proc < procs /\ Job(proc) # NULL /\ todo \subseteq Allocated(proc)
      /\ Page(proc) \in todo \/ pages[Job(proc)][Page(proc)] < 0
  BY <1>0 DEF PredGood, PlaceInv
<1>2. proc \in Processors
  BY <1>1 DEF PredGood, PredTypeOK, Processors
<1>3. PICK j, page : j = Job(proc) /\ page = Page(proc)
  OBVIOUS
<1>4. /\ j \in Jobs /\ page \in Pages /\ active[j]
      /\ Job(proc)' = j /\ Page(proc)' = page /\ Allocated(proc)' = Allocated(proc)
  BY <1>0, <1>1, <1>2, <1>3, JobOf DEF SameView, Job
<1>5. PICK low : low = Lowest(todo)
  OBVIOUS
<1>6. todo' = todo \ {low} /\ pageout(proc, low)
  BY <1>5 DEF Clear, PutOut
<1>7. page \in todo' \/ pages'[j][page] < 0
  <2>1. CASE page = low /\ page \in todo
    <3>1. pages[j][page] \in {0, -1}
      BY <1>1, <1>3, <2>1 DEF Allocated
    <3>2. CASE pages[j][page] = 0
      <4>1. StartsOut(proc, low)
        BY <1>1, <1>2, <1>3, <1>4, <2>1, <3>2 DEF StartsOut, ValidCall, StateOf, Job
      <4>2. pages' = [pages EXCEPT ![j][page] = -1]
        BY <1>3, <1>6, <2>1, <4>1 DEF pageout, Job
      <4> QED
        BY <1>0, <1>4, <4>2 DEF Types
    <3>3. CASE pages[j][page] = -1
      BY <1>0, <1>1, <1>2, <1>3, <3>3 DEF SameView
    <3> QED
      BY <3>1, <3>2, <3>3
  <2>2. CASE page # low /\ page \in todo
    BY <1>6, <2>2
  <2>3. CASE pages[j][page] < 0
    BY <1>0, <1>1, <1>2, <1>3, <2>3 DEF SameView
  <2> QED
    BY <1>1, <1>3, <2>1, <2>2, <2>3
<1>8. todo' \subseteq Allocated(proc)'
  BY <1>1, <1>4, <1>6
<1>9. Job(proc') = Job(proc) /\ Page(proc') = Page(proc)
  BY <1>0
<1> QED
  BY <1>0, <1>1, <1>3, <1>4, <1>7, <1>8 DEF PlaceInv

\* The place in pred_pageit goes on saying the same.
LEMMA PlaceStep ==
    ASSUME PredGood, pred_pageit
    PROVE  PlaceInv'
<1> USE Sizes
<1>0. /\ SameView /\ phase' = "pageit"
      /\ \A i \in Processors : Job(i) # NULL =>
            /\ Job(i)' = Job(i) /\ Page(i)' = Page(i) /\ Allocated(i)' = Allocated(i)
  BY PagerMoves DEF SameView, Job
<1>1. CASE stage' \notin {"trim", "clear", "restore"}
  BY <1>0, <1>1 DEF PlaceInv
<1>2. CASE Fault \/ Trim
  <2>1. /\ stage' = "trim" /\ proc' = proc /\ proc_susp' = proc_susp
        /\ proc < procs /\ Job(proc) # NULL
        /\ proc_susp[proc] = 0 /\ Page(proc) \notin Allocated(proc)
    BY <1>2 DEF Fault, Trim, PutOut, tables, At, PredGood, PlaceInv
  <2>2. proc \in Processors
    BY <2>1 DEF PredGood, PredTypeOK, Processors
  <2> QED
    BY <1>0, <2>1, <2>2 DEF PlaceInv
<1>3. ASSUME NEW i \in Processors, Suspend(i)
      PROVE  PlaceInv'
  <2>1. /\ stage' = "clear" /\ proc' = i /\ todo' = Allocated(i)
        /\ i < procs /\ Job(i) # NULL
    BY <1>3 DEF Suspend, MaySuspend, Processors
  <2>2. Page(i) \in Allocated(i)
    <3>1. phist_arr[i] \in Histories
      BY DEF PredGood, PredTypeOK, Histories, Accesses
    <3>2. ~Thrashes(i)
      BY <3>1, FewFaults DEF Thrashes
    <3> QED
      BY <1>3, <3>2 DEF Suspend, Faulted
  <2> QED
    BY <1>0, <2>1, <2>2 DEF PlaceInv
<1>4. CASE Resume \/ Restore
  <2>1. /\ stage' = "restore" /\ proc' = proc
        /\ proc < procs
        /\ \/ proc_susp' = proc_susp /\ proc_susp[proc] = 0
           \/ proc_susp' = [proc_susp EXCEPT ![proc] = 0]
    BY <1>4 DEF Resume, Restore, tables, At, PredGood, PlaceInv
  <2>2. proc \in Processors /\ proc_susp \in [Processors -> Nat]
    BY <2>1, PlaceOfLoop DEF PredGood, PredTypeOK
  <2> QED
    BY <1>0, <2>1, <2>2 DEF PlaceInv
<1> QED
  BY <1>1, <1>2, <1>3, <1>4, ClearStep DEF pred_pageit, Serve, Want, Served, Cleared,
       NoneLeft, Evict, Pass, At

\* A suspended job keeps waiting.
LEMMA SuspendedStep ==
    ASSUME PredGood, pred_pageit
    PROVE  SuspendedInv'
<1> USE Sizes
<1>0. SameView
  BY PagerMoves
<1>1. ASSUME NEW i \in Processors, proc_susp'[i] > 0
      PROVE  Job(i)' # NULL /\ pages'[Job(i)'][Page(i)'] < 0
  <2>0. proc_susp \in [Processors -> Nat] /\ processes' = processes
    BY <1>0 DEF PredGood, PredTypeOK, SameView
  <2>1. Job(i)' = Job(i)
    BY <2>0 DEF Job
  <2>2. Job(i) # NULL /\ pages[Job(i)][Page(i)] < 0
    <3>1. CASE proc_susp[i] > 0
      BY <3>1 DEF PredGood, SuspendedInv
    <3>2. CASE ~(proc_susp[i] > 0)
      <4>1. proc_susp' # proc_susp
        BY <1>1, <3>2
      <4>2. ~Resume
        BY <1>1, <2>0, <3>2 DEF Resume
      <4>3. Cleared
        BY <4>1, <4>2, TableChanges
      <4>4. stage = "clear" /\ todo = {} /\ i = proc
        BY <1>1, <2>0, <3>2, <4>3 DEF Cleared, At
      <4> QED
        BY <4>4 DEF PredGood, PlaceInv
    <3> QED
      BY <3>1, <3>2
  <2>3. ~(stage \in {"trim", "restore"} /\ i = proc)
    <3>1. ASSUME stage \in {"trim", "restore"}, i = proc
          PROVE  FALSE
      <4>1. proc_susp[i] = 0
        BY <3>1 DEF PredGood, PlaceInv
      <4>2. ~Resume /\ ~Cleared
        BY <3>1 DEF Resume, Cleared, At
      <4> QED
        BY <1>1, <4>1, <4>2, TableChanges
    <3> QED
      BY <3>1
  <2> QED
    BY <1>0, <2>1, <2>2, <2>3 DEF SameView
<1> QED
  BY <1>1 DEF SuspendedInv

\* What is noted as refused is missing.
LEMMA RefusedStep ==
    ASSUME PredGood, pred_pageit
    PROVE  RefusedInv'
<1> USE Sizes
<1>0. SameView
  BY PagerMoves
<1>1. ASSUME NEW i \in Processors, unsat'[i] # -1
      PROVE  phase' = "pageit" /\ Job(i)' # NULL /\ Page(i)' \notin Allocated(i)'
  <2>0. unsat \in [Processors -> Pages \cup {-1}]
    BY DEF PredGood, PredTypeOK
  <2>1. Job(i) # NULL /\ Page(i) \notin Allocated(i)
    <3>1. CASE unsat[i] # -1
      BY <3>1 DEF PredGood, RefusedInv
    <3>2. CASE unsat[i] = -1
      <4>1. Want /\ i = proc
        BY <1>1, <2>0, <3>2, TableChanges DEF Want
      <4> QED
        BY <4>1 DEF PredGood, PlaceInv, Want, At
    <3> QED
      BY <3>1, <3>2
  <2> QED
    BY <1>0, <2>1 DEF SameView, Job
<1> QED
  BY <1>1 DEF RefusedInv

\* What is granted is on its way in.
LEMMA GrantedStep ==
    ASSUME PredGood, pred_pageit
    PROVE  GrantedInv'
<1> USE Sizes
<1>0. SameView /\ Good /\ Types
  BY PagerMoves DEF PredGood, Good
<1>1. ASSUME NEW i \in Processors
      PROVE  /\ proc_last_pagein'[i] <= tick'
             /\ stage' \in {"serve", "trim"} /\ i >= proc' => proc_last_pagein'[i] < tick'
             /\ proc_last_pagein'[i] = tick' =>
                   phase' = "pageit" /\ Job(i)' # NULL /\ pages'[Job(i)'][Page(i)'] > 0
  <2>0. /\ proc_last_pagein \in [Processors -> Nat] /\ tick \in Nat
        /\ proc \in Nat /\ i \in Nat
    BY PlaceOfLoop, Sizes DEF PredGood, PredTypeOK
  <2>1. /\ proc_last_pagein[i] <= tick
        /\ stage \in {"serve", "trim"} /\ i >= proc => proc_last_pagein[i] < tick
        /\ proc_last_pagein[i] = tick =>
              Job(i) # NULL /\ pages[Job(i)][Page(i)] > 0
    BY DEF PredGood, GrantedInv
  <2>2. tick' = tick /\ phase' = "pageit" /\ Job(i)' = Job(i)
    BY <1>0 DEF SameView, Job
  <2>3. stage' \in {"serve", "trim"} =>
           stage \in {"serve", "trim"} /\ (proc' = proc \/ proc' = proc + 1)
    BY DEF pred_pageit, At, Serve, Fault, Trim, PutOut, Want, Served, Suspend, Clear,
           Cleared, NoneLeft, Evict, Resume, Restore, Pass
  <2>4. CASE proc_last_pagein'[i] = proc_last_pagein[i]
    <3>1. proc_last_pagein[i] = tick => pages'[Job(i)'][Page(i)'] > 0
      BY <1>0, <2>1, <2>2 DEF SameView
    <3> QED
      BY <2>0, <2>1, <2>2, <2>3, <2>4, <3>1
  <2>5. CASE proc_last_pagein'[i] # proc_last_pagein[i]
    <3>1. Want
      BY <2>5, TableChanges
    <3>2. /\ i = proc /\ proc_last_pagein'[i] = tick /\ PageinReturns(proc, Page(proc))
          /\ pagein(proc, Page(proc)) /\ proc' = proc + 1 /\ stage = "trim"
      BY <2>0, <2>5, <3>1 DEF Want, At
    <3>3. Job(i) # NULL /\ Page(i) \notin Allocated(i)
      BY <3>2 DEF PredGood, PlaceInv
    <3>4. PICK j, page : j = Job(i) /\ page = Page(i)
      OBVIOUS
    <3>5. j \in Jobs /\ page \in Pages
      BY <1>0, <3>3, <3>4, JobOf
    <3>6. pages[j][page] \in Int /\ pages[j][page] # 0
      BY <1>0, <3>3, <3>4, <3>5 DEF Allocated, Types, PageState, OUT
    <3>7. pages'[j][page] > 0
      <4>1. CASE StartsIn(i, page)
        <5>1. pages' = [pages EXCEPT ![j][page] = PAGEWAIT]
          BY <3>2, <3>4, <4>1 DEF pagein, Job
        <5> QED
          BY <1>0, <3>5, <5>1 DEF Types
      <4>2. CASE ~StartsIn(i, page)
        <5>1. pages' = pages
          BY <3>2, <3>4, <4>2 DEF pagein
        <5>2. pages[j][page] >= 0
          BY <3>2, <3>4, <4>2 DEF PageinReturns, StateOf, Job
        <5> QED
          BY <3>6, <5>1, <5>2
      <4> QED
        BY <4>1, <4>2
    <3>8. Page(i)' = page /\ Job(i)' = j
      BY <1>0, <2>2, <3>3, <3>4 DEF SameView
    <3> QED
      BY <2>0, <2>2, <3>2, <3>3, <3>4, <3>7, <3>8
  <2> QED
    BY <2>4, <2>5
<1> QED
  BY <1>1 DEF GrantedInv

----------------------------------------------------------------------------
(* The frames pred_pageit counts *)

\* Whether page p is taken off for processor i.
TakenOf(i, p) == p \in Allocated(i) \/ (p = Page(i) /\ proc_last_pagein[i] = tick)

\* The pages taken off, one by one; they can be counted.
LEMMA TakenFacts ==
    /\ Taken \in SUBSET (Jobs \X Pages) /\ IsFiniteSet(Taken) /\ Cardinality(Taken) \in Nat
    /\ \A j \in Jobs, p \in Pages :
          <<j, p>> \in Taken <=>
              \E i \in Processors : Counted(i) /\ Job(i) = j /\ TakenOf(i, p)
<1>1. Taken \in SUBSET (Jobs \X Pages)
  BY DEF Taken
<1>2. \A j \in Jobs, p \in Pages :
          <<j, p>> \in Taken <=>
              \E i \in Processors : Counted(i) /\ Job(i) = j /\ TakenOf(i, p)
  BY DEF Taken, TakenOf
<1> QED
  BY <1>1, <1>2, FinitePages, FS_Subset, FS_CardinalityType

\* Sets of pages of jobs are compared page by page.
LEMMA SamePages ==
    ASSUME NEW S \in SUBSET (Jobs \X Pages), NEW T \in SUBSET (Jobs \X Pages),
           \A j \in Jobs, p \in Pages : <<j, p>> \in S => <<j, p>> \in T
    PROVE  S \subseteq T
<1>1. ASSUME NEW jp \in S
      PROVE  jp \in T
  <2>1. PICK j \in Jobs, p \in Pages : jp = <<j, p>>
    OBVIOUS
  <2> QED
    BY <2>1
<1> QED
  BY <1>1

\* All of them are in frames.
LEMMA TakenAreHeld ==
    ASSUME PredGood
    PROVE  Cardinality(Taken) <= Cardinality(Held)
<1> USE Sizes
<1>1. ASSUME NEW j \in Jobs, NEW p \in Pages, <<j, p>> \in Taken
      PROVE  <<j, p>> \in Held
  <2>1. PICK i \in Processors : Job(i) = j /\ TakenOf(i, p)
    BY <1>1, TakenFacts
  <2>2. pages[j][p] \in {0, -1} \/ pages[j][p] > 0
    BY <2>1 DEF TakenOf, Allocated, PredGood, GrantedInv
  <2>3. pages[j][p] \in PageState
    BY DEF PredGood, Good, Types
  <2>4. Holds(pages[j][p])
    BY <2>2, <2>3 DEF Holds, PageState, OUT
  <2> QED
    BY <2>4 DEF Held
<1>2. Held \in SUBSET (Jobs \X Pages)
  BY DEF Held
<1>3. Taken \subseteq Held
  BY <1>1, <1>2, TakenFacts, SamePages
<1> QED
  BY <1>3, FiniteHeld, FS_Subset

\* A step that takes off the pages N of the processor the loop is at counts
\* that many more.
LEMMA TakenGrows ==
    ASSUME PredGood, SameView, proc \in Processors, NEW N \in SUBSET Pages,
           N # {} => Job(proc) # NULL,
           \A p \in N : ~(Counted(proc) /\ TakenOf(proc, p)),
           \A i \in Processors, p \in Pages : Job(i) # NULL =>
              (Counted(i)' /\ TakenOf(i, p)' <=>
                 \/ Counted(i) /\ TakenOf(i, p)
                 \/ i = proc /\ p \in N)
    PROVE  /\ Cardinality(Taken') = Cardinality(Taken) + Cardinality(N)
           /\ Cardinality(N) \in Nat /\ Cardinality(Taken) \in Nat
<1> USE Sizes
<1>0. Good /\ \A i : Job(i)' = Job(i)
  BY DEF SameView, Job, PredGood
<1>1. PICK T, T1 : T = Taken /\ T1 = Taken'
  OBVIOUS
<1>2. T \in SUBSET (Jobs \X Pages) /\ IsFiniteSet(T) /\ Cardinality(T) \in Nat
  BY <1>1, TakenFacts
<1>3. T1 \in SUBSET (Jobs \X Pages)
  BY <1>1 DEF Taken
<1>4. \A j \in Jobs, p \in Pages :
         <<j, p>> \in T <=>
             \E i \in Processors : Counted(i) /\ Job(i) = j /\ TakenOf(i, p)
  BY <1>1, TakenFacts
<1>5. \A j \in Jobs, p \in Pages :
         <<j, p>> \in T1 <=>
             \E i \in Processors : Counted(i)' /\ Job(i)' = j /\ TakenOf(i, p)'
  BY <1>1 DEF Taken, TakenOf
<1>6. ASSUME NEW j \in Jobs, NEW p \in Pages
      PROVE  <<j, p>> \in T1 <=> <<j, p>> \in T \/ (j = Job(proc) /\ p \in N)
  <2>1. ASSUME <<j, p>> \in T1
        PROVE  <<j, p>> \in T \/ (j = Job(proc) /\ p \in N)
    <3>1. PICK i \in Processors : Counted(i)' /\ Job(i) = j /\ TakenOf(i, p)'
      BY <1>0, <1>5, <2>1
    <3>2. Job(i) # NULL
      BY <3>1
    <3>3. \/ Counted(i) /\ TakenOf(i, p)
          \/ i = proc /\ p \in N
      BY <3>1, <3>2
    <3> QED
      BY <1>4, <3>1, <3>3
  <2>2. ASSUME <<j, p>> \in T
        PROVE  <<j, p>> \in T1
    <3>1. PICK i \in Processors : Counted(i) /\ Job(i) = j /\ TakenOf(i, p)
      BY <1>4, <2>2
    <3>2. Job(i) # NULL
      BY <3>1
    <3>3. Counted(i)' /\ TakenOf(i, p)'
      BY <3>1, <3>2
    <3> QED
      BY <1>0, <1>5, <3>1, <3>3
  <2>3. ASSUME j = Job(proc), p \in N
        PROVE  <<j, p>> \in T1
    <3>1. PICK i \in Processors : i = proc
      OBVIOUS
    <3>2. Job(i) = j /\ Job(i) # NULL
      BY <2>3, <3>1
    <3>3. Counted(i)' /\ TakenOf(i, p)'
      BY <2>3, <3>1, <3>2
    <3> QED
      BY <1>0, <1>5, <3>2, <3>3
  <2> QED
    BY <2>1, <2>2, <2>3
<1>7. IsFiniteSet(N) /\ Cardinality(N) \in Nat
  BY FinitePages, FS_Subset, FS_CardinalityType
<1>8. CASE N = {}
  <2>1. T1 \subseteq T /\ T \subseteq T1
    BY <1>2, <1>3, <1>6, <1>8, SamePages
  <2>2. Cardinality(N) = 0
    BY <1>8, FS_EmptySet
  <2> QED
    BY <1>1, <1>2, <1>7, <2>1, <2>2
<1>9. CASE N # {}
  <2>1. PICK j : j = Job(proc)
    OBVIOUS
  <2>2. j \in Jobs /\ Job(proc) # NULL
    BY <1>0, <1>9, <2>1, JobOf
  <2>3. PICK X : X = {j} \X N
    OBVIOUS
  <2>4. X \in SUBSET (Jobs \X Pages)
    BY <2>2, <2>3
  <2>5. IsFiniteSet(X) /\ Cardinality(X) = Cardinality(N)
    <3>1. Cardinality(X) = Cardinality(N)
      BY <1>7, <2>3, FramesOfJob
    <3> QED
      BY <2>4, <3>1, FinitePages, FS_Subset
  <2>6. PICK U : U = T \cup X
    OBVIOUS
  <2>7. U \in SUBSET (Jobs \X Pages)
    BY <1>2, <2>4, <2>6
  <2>8. \A k \in Jobs, p \in Pages : <<k, p>> \in T1 <=> <<k, p>> \in U
    BY <1>6, <2>1, <2>3, <2>6
  <2>9. T1 = U
    <3>1. T1 \subseteq U
      BY <1>3, <2>7, <2>8, SamePages
    <3>2. U \subseteq T1
      BY <1>3, <2>7, <2>8, SamePages
    <3> QED
      BY <3>1, <3>2
  <2>10. T \cap X = {}
    <3>1. ASSUME NEW p \in N, <<j, p>> \in T
          PROVE  FALSE
      <4>1. PICK i \in Processors : Counted(i) /\ Job(i) = j /\ TakenOf(i, p)
        BY <1>4, <2>2, <3>1
      <4>2. i = proc
        BY <1>0, <2>1, <2>2, <4>1 DEF Good, JobsRunOnce, Job
      <4> QED
        BY <4>1, <4>2
    <3> QED
      BY <2>3, <3>1
  <2>11. Cardinality(U) = Cardinality(T) + Cardinality(X) - Cardinality(T \cap X)
    BY <1>2, <2>5, <2>6, FS_Union
  <2>12. Cardinality(T \cap X) = 0
    BY <2>10, FS_EmptySet
  <2>13. Cardinality(T1) = Cardinality(T) + Cardinality(N)
    BY <1>2, <1>7, <2>5, <2>9, <2>11, <2>12
  <2> QED
    BY <1>1, <1>2, <1>7, <2>13
<1> QED
  BY <1>8, <1>9

\* Where pages are taken off, the loop is at a processor.
LEMMA TakenNow ==
    ASSUME PredGood, Serve \/ Fault \/ Trim \/ Want
    PROVE  /\ SameView /\ proc \in Processors /\ proc \in Nat /\ tick' = tick
           /\ free_phys \in Int
           /\ free_phys = PHYSICALPAGES - Cardinality(Taken)
           /\ proc_last_pagein \in [Processors -> Nat] /\ tick \in Nat
           /\ proc_last_pagein[proc] < tick
<1>1. SameView /\ stage \in {"serve", "trim"} /\ proc < procs
  BY PagerMoves DEF PredGood, pred_pageit, Serve, Fault, Trim, Want, At, PlaceInv
<1>2. proc \in Processors /\ proc \in Nat
  BY <1>1, PlaceOfLoop DEF PredGood
<1>3. tick' = tick
  BY <1>1 DEF SameView
<1>4. free_phys = PHYSICALPAGES - Cardinality(Taken)
  BY <1>1 DEF PredGood, AccountsInv
<1>5. /\ proc_last_pagein \in [Processors -> Nat] /\ tick \in Nat /\ free_phys \in Int
  BY DEF PredGood, PredTypeOK
<1>6. proc_last_pagein[proc] < tick
  BY <1>1, <1>2 DEF PredGood, GrantedInv
<1> QED
  BY <1>1, <1>2, <1>3, <1>4, <1>5, <1>6

\* A served processor's pages are taken off.
LEMMA AccountsServed ==
    ASSUME PredGood, Serve \/ Fault
    PROVE  AccountsInv'
<1> USE Sizes
<1>0. /\ stage = "serve" /\ UNCHANGED proc_last_pagein
      /\ \/ stage' = "serve" /\ proc' = proc + 1
         \/ stage' = "trim" /\ proc' = proc
  BY DEF Serve, Fault, At
<1>1. \A i \in Processors : Counted(i)' <=> Counted(i) \/ i = proc
  BY <1>0, TakenNow DEF Counted, Processors
<1>2. ~Counted(proc)
  BY <1>0, TakenNow DEF Counted
<1>3. \A i \in Processors : Job(i) # NULL =>
         \A p \in Pages : TakenOf(i, p)' <=> TakenOf(i, p)
  BY <1>0, TakenNow DEF SameView, TakenOf
<1>4. \A p \in Pages : TakenOf(proc, p) <=> p \in Allocated(proc)
  BY TakenNow DEF TakenOf
<1>5. PICK N : N = IF Job(proc) = NULL THEN {} ELSE Allocated(proc)
  OBVIOUS
<1>6. N \in SUBSET Pages
  BY <1>5, CountedPages
<1>7. \A i \in Processors, p \in Pages : Job(i) # NULL =>
         (Counted(i)' /\ TakenOf(i, p)' <=>
            \/ Counted(i) /\ TakenOf(i, p)
            \/ i = proc /\ p \in N)
  BY <1>1, <1>2, <1>3, <1>4, <1>5
<1>8. /\ Cardinality(Taken') = Cardinality(Taken) + Cardinality(N)
      /\ Cardinality(N) \in Nat /\ Cardinality(Taken) \in Nat
  BY <1>2, <1>5, <1>6, <1>7, TakenNow, TakenGrows
<1>9. free_phys' = free_phys - Cardinality(N)
  <2>1. CASE Job(proc) = NULL
    <3>1. Cardinality(N) = 0
      BY <1>5, <2>1, FS_EmptySet
    <3>2. free_phys' = free_phys
      BY <2>1 DEF Serve, Fault
    <3> QED
      BY <3>1, <3>2, TakenNow
  <2>2. CASE Job(proc) # NULL
    BY <1>5, <2>2 DEF Serve, Fault, pages_alloc
  <2> QED
    BY <2>1, <2>2
<1> QED
  BY <1>8, <1>9, TakenNow DEF AccountsInv

\* So is a page it is granted.
LEMMA AccountsWant ==
    ASSUME PredGood, Want
    PROVE  AccountsInv'
<1> USE Sizes
<1>0. /\ stage = "trim" /\ stage' = "serve" /\ proc' = proc + 1
      /\ Job(proc) # NULL /\ Page(proc) \notin Allocated(proc)
  BY DEF PredGood, Want, At, PlaceInv
<1>1. /\ \A i \in Processors : Counted(i)' <=> Counted(i)
      /\ Counted(proc)
  BY <1>0, TakenNow DEF Counted, Processors
<1>2. \A i \in Processors : Job(i) # NULL =>
         Allocated(i)' = Allocated(i) /\ Page(i)' = Page(i)
  BY TakenNow DEF SameView
<1>3. CASE UNCHANGED <<proc_last_pagein, free_phys>>
  <2>1. \A i \in Processors, p \in Pages : Job(i) # NULL =>
           (Counted(i)' /\ TakenOf(i, p)' <=>
              \/ Counted(i) /\ TakenOf(i, p)
              \/ i = proc /\ p \in {})
    BY <1>1, <1>2, <1>3, TakenNow DEF TakenOf
  <2>2. PICK N : N = {}
    OBVIOUS
  <2>3. Cardinality(Taken') = Cardinality(Taken) + Cardinality(N) /\ Cardinality(Taken) \in Nat
    BY <2>1, <2>2, TakenNow, TakenGrows
  <2>4. Cardinality(N) = 0
    BY <2>2, FS_EmptySet
  <2> QED
    BY <1>3, <2>3, <2>4, TakenNow DEF AccountsInv
<1>4. CASE /\ proc_last_pagein' = [proc_last_pagein EXCEPT ![proc] = tick]
           /\ free_phys' = free_phys - 1
  <2>1. PICK page : page = Page(proc)
    OBVIOUS
  <2>2. page \in Pages
    BY <1>0, <2>1, TakenNow, JobOf DEF PredGood
  <2>3. PICK N : N = {page}
    OBVIOUS
  <2>4. ASSUME NEW i \in Processors, Job(i) # NULL, NEW p \in Pages
        PROVE  TakenOf(i, p)' <=> TakenOf(i, p) \/ (i = proc /\ p \in N)
    <3>1. CASE i = proc
      <4>1. proc_last_pagein'[i] = tick
        BY <1>4, <3>1, TakenNow
      <4> QED
        BY <1>2, <2>1, <2>3, <2>4, <3>1, <4>1, TakenNow DEF TakenOf
    <3>2. CASE i # proc
      <4>1. proc_last_pagein'[i] = proc_last_pagein[i]
        BY <1>4, <3>2, TakenNow
      <4> QED
        BY <1>2, <2>4, <3>2, <4>1, TakenNow DEF TakenOf
    <3> QED
      BY <3>1, <3>2
  <2>5. \A i \in Processors, p \in Pages : Job(i) # NULL =>
           (Counted(i)' /\ TakenOf(i, p)' <=>
              \/ Counted(i) /\ TakenOf(i, p)
              \/ i = proc /\ p \in N)
    BY <1>1, <2>4
  <2>6. \A p \in N : ~(Counted(proc) /\ TakenOf(proc, p))
    BY <1>0, <2>1, <2>3, TakenNow DEF TakenOf
  <2>7. Cardinality(Taken') = Cardinality(Taken) + Cardinality(N) /\ Cardinality(Taken) \in Nat
    BY <1>0, <2>2, <2>3, <2>5, <2>6, TakenNow, TakenGrows
  <2>8. Cardinality(N) = 1
    BY <2>3, FS_Singleton
  <2> QED
    BY <1>4, <2>7, <2>8, TakenNow DEF AccountsInv
<1> QED
  BY <1>3, <1>4 DEF Want

\* free_phys goes on counting the frames that are left.
LEMMA AccountsStep ==
    ASSUME PredGood, pred_pageit
    PROVE  AccountsInv'
<1> USE Sizes
<1>1. CASE stage' \notin {"serve", "trim"}
  BY <1>1 DEF AccountsInv
<1>2. CASE Trim
  <2>0. stage' = stage /\ proc' = proc /\ UNCHANGED <<proc_last_pagein, free_phys>>
    BY <1>2 DEF Trim, PutOut, tables
  <2>1. \A i \in Processors, p \in Pages : Job(i) # NULL =>
           (Counted(i)' /\ TakenOf(i, p)' <=>
              \/ Counted(i) /\ TakenOf(i, p)
              \/ i = proc /\ p \in {})
    BY <1>2, <2>0, TakenNow DEF TakenOf, Counted, SameView
  <2>2. PICK N : N = {}
    OBVIOUS
  <2>3. Cardinality(Taken') = Cardinality(Taken) + Cardinality(N) /\ Cardinality(Taken) \in Nat
    BY <1>2, <2>1, <2>2, TakenNow, TakenGrows
  <2>4. Cardinality(N) = 0
    BY <2>2, FS_EmptySet
  <2> QED
    BY <1>2, <2>0, <2>3, <2>4, TakenNow DEF AccountsInv
<1> QED
  BY <1>1, <1>2, AccountsServed, AccountsWant DEF pred_pageit, Served, Suspend, Clear,
       PutOut, Cleared, NoneLeft, Evict, Resume, Restore, Pass, At

\* Neither exit is taken.
LEMMA ExitStep ==
    ASSUME PredGood, pred_pageit
    PROVE  NeverExits'
<1> USE Sizes
<1>0. ~exited /\ Good
  BY DEF PredGood, NeverExits
<1>1. CASE UNCHANGED exited
  BY <1>0, <1>1 DEF NeverExits
<1>2. CASE Served
  <2>1. free_phys = PHYSICALPAGES - Cardinality(Taken)
    BY <1>2 DEF Served, At, PredGood, AccountsInv
  <2>2. Cardinality(Taken) <= Cardinality(Held) /\ Cardinality(Taken) \in Nat
    BY TakenAreHeld, TakenFacts
  <2>3. /\ pagesavail \in Nat /\ Cardinality(Held) \in Nat
        /\ pagesavail + Cardinality(Held) = PHYSICALPAGES
    BY <1>0, FiniteHeld DEF Good, Types, FramesConserved
  <2>4. ~(free_phys < 0)
    BY <2>1, <2>2, <2>3
  <2>5. exited' = (free_phys < 0)
    BY <1>2 DEF Served
  <2> QED
    BY <2>4, <2>5 DEF NeverExits
<1>3. CASE Evict
  <2>1. proc < procs /\ unsat[proc] # -1 /\ pages_alloc(proc) >= 1
    BY <1>3 DEF Evict, MustGive, Refused
  <2>2. proc \in Processors
    BY <2>1, PlaceOfLoop DEF PredGood
  <2>3. Job(proc) # NULL
    BY <2>1, <2>2 DEF PredGood, RefusedInv
  <2>4. PICK j, low : j = Job(proc) /\ low = lru_page(proc)
    OBVIOUS
  <2>5. Allocated(proc) # {}
    BY <2>1, CountedPages
  <2>6. low \in Allocated(proc)
    BY <2>2, <2>4, <2>5, LruPage DEF PredGood
  <2>7. low \in Pages /\ pages[j][low] \in {0, -1} /\ active[j]
    BY <1>0, <2>2, <2>3, <2>4, <2>6, JobOf DEF Allocated
  <2>8. PageoutReturns(proc, low)
    BY <2>2, <2>3, <2>4, <2>7 DEF PageoutReturns, ValidCall, StateOf, Job
  <2>9. exited' = ~PageoutReturns(proc, low)
    BY <1>3, <2>4 DEF Evict
  <2> QED
    BY <2>8, <2>9 DEF NeverExits
<1> QED
  BY <1>1, <1>2, <1>3 DEF pred_pageit, Serve, Fault, Trim, PutOut, Want, Suspend, Clear,
       Cleared, NoneLeft, Resume, Restore, Pass

----------------------------------------------------------------------------
(* Every step *)

\* pred_pageit keeps the invariant.
LEMMA PagerKeeps ==
    ASSUME PredGood, pred_pageit
    PROVE  PredGood'
<1>1. Good'
  <2>1. [Next]_vars
    BY PredStep DEF PredNext
  <2> QED
    BY <2>1, GoodStep DEF PredGood
<1>2. Remembers' /\ NotesInv'
  BY TablesStep
<1> QED
  BY <1>1, <1>2, PredTypeStep, PlaceStep, SuspendedStep, RefusedStep, GrantedStep,
     AccountsStep, ExitStep DEF PredGood

\* A page that is out or on its way out stays so while allstep and allage run.
LEMMA ProgramWaits ==
    ASSUME Good, allstep \/ allage,
           NEW i \in Processors, Job(i) # NULL, pages[Job(i)][Page(i)] < 0
    PROVE  Job(i)' # NULL /\ pages'[Job(i)'][Page(i)'] < 0
<1> USE Sizes
<1>0. Types
  BY DEF Good
<1>1. PICK j, page : j = Job(i) /\ page = Page(i)
  OBVIOUS
<1>2. j \in Jobs /\ page \in Pages /\ page = walk[j][pc[j]] /\ pages[j][page] \in PageState
  BY <1>0, <1>1, JobOf DEF Types, Page, Needed
<1>3. CASE allage
  <2>1. pages'[j][page] = pages[j][page] \/ pages'[j][page] = Aged(pages[j][page])
    BY <1>2, <1>3 DEF allage
  <2>2. Job(i)' = j /\ Page(i)' = page
    BY <1>1, <1>2, <1>3 DEF allage, Job, Page, Needed
  <2>3. pages[j][page] \in Int /\ pages[j][page] < 0
    BY <1>1, <1>2 DEF PageState, OUT
  <2>4. pages'[j][page] < 0
    BY <2>1, <2>3 DEF Aged
  <2> QED
    BY <1>1, <1>2, <2>2, <2>4
<1>4. CASE allstep
  <2>1. turn \in Processors
    BY <1>0 DEF Types
  <2>2. CASE StepBlocked(turn)
    BY <1>1, <1>2, <2>2 DEF StepBlocked, Job, Page, Needed
  <2>3. CASE StepIdle(turn)
    <3>1. turn # i
      BY <1>1, <1>2, <2>3 DEF StepIdle, Job
    <3>2. processes'[i] = j
      BY <1>0, <1>1, <2>1, <2>3, <3>1 DEF StepIdle, Reload, empty, Types, Job
    <3> QED
      BY <1>1, <1>2, <2>3, <3>2 DEF StepIdle, Job, Page, Needed
  <2>4. CASE StepCompute(turn)
    <3>1. processes[turn] # j
      BY <1>1, <1>2, <2>4 DEF StepCompute, Resident, Needed
    <3>2. processes' = processes /\ walk' = walk /\ pages' = pages /\ pc'[j] = pc[j]
      BY <1>0, <1>2, <2>4, <3>1 DEF StepCompute, Types
    <3> QED
      BY <1>1, <1>2, <3>2 DEF Job, Page, Needed
  <2>5. CASE StepExit(turn)
    <3>1. processes[turn] # j
      BY <1>1, <1>2, <2>5 DEF StepExit, Resident, Needed
    <3>2. turn # i
      BY <1>1, <3>1 DEF Job
    <3>3. processes'[i] = j
      BY <1>0, <1>1, <2>1, <2>5, <3>2 DEF StepExit, Reload, empty, Types, Job
    <3>4. pages'[j] = pages[j] /\ walk' = walk /\ pc' = pc
      <4>1. PICK k : k = processes[turn]
        OBVIOUS
      <4>2. Unloads(k) /\ walk' = walk /\ pc' = pc
        BY <1>0, <2>1, <2>5, <4>1, ExitUnloads
      <4> QED
        BY <1>0, <1>2, <3>1, <4>1, <4>2 DEF Unloads, Types
    <3> QED
      BY <1>1, <1>2, <3>3, <3>4 DEF Job, Page, Needed
  <2> QED
    BY <1>4, <2>2, <2>3, <2>4, <2>5 DEF allstep
<1> QED
  BY <1>3, <1>4

\* Before the first processor is served nothing is taken off.
LEMMA TakenNone ==
    stage = "serve" /\ proc = 0 => Cardinality(Taken) = 0
<1>1. ASSUME stage = "serve", proc = 0
      PROVE  Taken = {}
  BY <1>1, Sizes DEF Taken, Counted
<1> QED
  BY <1>1, FS_EmptySet

\* The program does not touch what the pager keeps.
LEMMA ProgramKeeps ==
    ASSUME PredGood, allstep \/ allage, UNCHANGED <<tables, locals, tick, exited>>
    PROVE  PredGood'
<1> USE Sizes
<1>0. /\ UNCHANGED <<phist_arr, proc_pset, proc_susp, proc_last_unsat, proc_last_pagein,
                     timestamps, recent, stage, proc, todo, unsat, pages_freed, free_phys,
                     tick, exited>>
      /\ phase # "pageit"
  BY DEF tables, locals, allstep, allage
<1>1. Good'
  BY GoodStep DEF PredGood, Next
<1>2. PredTypeOK' /\ Remembers' /\ NotesInv' /\ NeverExits'
  <2>1. PredTypeOK'
    BY <1>0 DEF PredGood, PredTypeOK
  <2>2. Remembers' /\ NotesInv' /\ NeverExits'
    BY <1>0 DEF PredGood, Remembers, NotesInv, NeverExits
  <2> QED
    BY <2>1, <2>2
<1>3. stage = "serve" /\ proc = 0
  BY <1>0 DEF PredGood, PlaceInv
<1>4. PlaceInv'
  BY <1>0, <1>3 DEF PlaceInv
<1>5. SuspendedInv'
  <2>1. ASSUME NEW i \in Processors, proc_susp[i] > 0
        PROVE  Job(i)' # NULL /\ pages'[Job(i)'][Page(i)'] < 0
    BY <2>1, ProgramWaits DEF PredGood, SuspendedInv
  <2> QED
    BY <1>0, <2>1 DEF SuspendedInv
<1>6. RefusedInv'
  BY <1>0 DEF PredGood, RefusedInv
<1>7. GrantedInv'
  <2>1. \A i \in Processors : proc_last_pagein[i] <= tick /\ proc_last_pagein[i] # tick
    BY <1>0 DEF PredGood, GrantedInv
  <2>2. \A i \in Processors : proc_last_pagein[i] < tick
    BY <2>1 DEF PredGood, PredTypeOK
  <2> QED
    BY <1>0, <2>1, <2>2 DEF GrantedInv
<1>8. AccountsInv'
  <2>1. free_phys = PHYSICALPAGES
    BY <1>3, TakenNone DEF PredGood, AccountsInv
  <2>2. Cardinality(Taken') = 0
    <3>1. Taken' = {}
      BY <1>0, <1>3 DEF Taken, Counted
    <3> QED
      BY <3>1, FS_EmptySet
  <2> QED
    BY <1>0, <2>1, <2>2 DEF AccountsInv
<1> QED
  BY <1>1, <1>2, <1>4, <1>5, <1>6, <1>7, <1>8 DEF PredGood

\* Nor does the end of the call, which starts the next from the beginning.
LEMMA ReturnKeeps ==
    ASSUME PredGood, Return
    PROVE  PredGood'
<1> USE Sizes
<1>0. /\ UNCHANGED <<phist_arr, proc_pset, proc_susp, proc_last_unsat, proc_last_pagein,
                     timestamps, recent, todo, exited, processes, walk, pc, pages>>
      /\ tick' = tick + 1 /\ stage' = "serve" /\ proc' = 0
      /\ unsat' = [i \in Processors |-> -1]
      /\ pages_freed' = 0 /\ free_phys' = PHYSICALPAGES
  BY DEF Return, EndTick, tables
<1>1. Good'
  BY GoodStep DEF PredGood, Next, Return
<1>2. tick \in Nat \ {0}
  BY DEF PredGood, PredTypeOK
<1>3. PredTypeOK'
  <2>1. PredTypeOK /\ 0 \in 0 .. procs
    BY DEF PredGood
  <2>2. unsat' \in [Processors -> Pages \cup {-1}] /\ tick' \in Nat \ {0}
    BY <1>0, <1>2
  <2>3. PHYSICALPAGES \in Int /\ 0 \in Nat
    OBVIOUS
  <2> QED
    BY <1>0, <2>1, <2>2, <2>3 DEF PredTypeOK
<1>4. Remembers' /\ NeverExits'
  BY <1>0 DEF PredGood, Remembers, NeverExits
<1>5. NotesInv'
  <2>1. \A i \in Processors, p \in Pages :
           timestamps[i][p] \in Nat /\ timestamps[i][p] <= tick
    BY DEF PredGood, PredTypeOK, NotesInv
  <2> QED
    BY <1>0, <1>2, <2>1 DEF NotesInv
<1>6. PlaceInv'
  BY <1>0 DEF PlaceInv
<1>7. SuspendedInv'
  BY <1>0 DEF PredGood, SuspendedInv, Job, Page, Needed
<1>8. RefusedInv'
  BY <1>0 DEF RefusedInv
<1>9. GrantedInv'
  <2>1. \A i \in Processors :
           proc_last_pagein[i] \in Nat /\ proc_last_pagein[i] <= tick
    BY DEF PredGood, PredTypeOK, GrantedInv
  <2>2. \A i \in Processors : proc_last_pagein[i] < tick + 1
    BY <1>2, <2>1
  <2>3. ASSUME NEW i \in Processors
        PROVE  /\ proc_last_pagein'[i] < tick' /\ proc_last_pagein'[i] <= tick'
               /\ proc_last_pagein'[i] # tick'
    BY <1>0, <1>2, <2>1, <2>2
  <2> QED
    BY <2>3 DEF GrantedInv
<1>10. AccountsInv'
  <2>1. Taken' = {}
    BY <1>0 DEF Taken, Counted
  <2>2. Cardinality(Taken') = 0
    BY <2>1, FS_EmptySet
  <2> QED
    BY <1>0, <2>2 DEF AccountsInv
<1> QED
  BY <1>1, <1>3, <1>4, <1>5, <1>6, <1>7, <1>8, <1>9, <1>10 DEF PredGood

\* What a stuttering step leaves alone.
LEMMA PredStutters ==
    ASSUME PredGood, UNCHANGED predVars
    PROVE  PredGood'
<1>1. UNCHANGED vars
  BY DEF predVars
<1>2. UNCHANGED <<phist_arr, proc_pset, proc_susp, proc_last_unsat, proc_last_pagein,
                  timestamps, recent, stage, proc, todo, unsat, pages_freed, free_phys,
                  tick, exited, processes, walk, pc, pages, phase>>
  BY DEF predVars, vars, tables, locals
<1>3. Good'
  BY <1>1, GoodStep DEF PredGood
<1>4. PredTypeOK' /\ Remembers' /\ NotesInv' /\ NeverExits'
  BY <1>2 DEF PredGood, PredTypeOK, Remembers, NotesInv, NeverExits
<1>5. PlaceInv' /\ SuspendedInv'
  BY <1>2 DEF PredGood, PlaceInv, SuspendedInv, Job, Page, Needed, Allocated
<1>6. RefusedInv' /\ GrantedInv'
  BY <1>2 DEF PredGood, RefusedInv, GrantedInv, Job, Page, Needed, Allocated
<1>7. AccountsInv'
  BY <1>2 DEF PredGood, AccountsInv, Taken, Counted, Job, Page, Needed, Allocated
<1> QED
  BY <1>3, <1>4, <1>5, <1>6, <1>7 DEF PredGood

\* It holds from the start.
LEMMA PredInitGood ==
    PredInit => PredGood
<1> SUFFICES ASSUME PredInit
             PROVE  PredGood
  OBVIOUS
<1> USE Sizes
<1>1. Good /\ phase = "allstep"
  BY InitGood DEF PredInit, Init, initqueue, NoPages
<1>2. HSIZE \in Nat \ {0} /\ 0 \in Slots
  BY HsizeAssumption DEF Slots
<1>3. 0 \in Pages /\ <<>> \in Seq(Accesses)
  BY DEF Pages
<1>4. PICK ring : ring = phist_init
  OBVIOUS
<1>5. ring \in Histories
  BY <1>2, <1>3, <1>4 DEF phist_init, Histories, Accesses, Record
<1>6. /\ phist_arr = [i \in Processors |-> ring]
      /\ recent = [i \in Processors |-> <<>>]
  BY <1>4 DEF PredInit
<1>7. PredTypeOK
  <2>1. phist_arr \in [Processors -> Histories]
    BY <1>5, <1>6
  <2>2. recent \in [Processors -> Seq(Accesses)]
    BY <1>3, <1>6
  <2>3. /\ proc_pset \in [Processors -> SUBSET Pages]
        /\ proc_susp \in [Processors -> Nat]
        /\ proc_last_unsat \in [Processors -> Nat]
        /\ proc_last_pagein \in [Processors -> Nat]
        /\ timestamps \in [Processors -> [Pages -> Nat]]
    BY DEF PredInit
  <2>4. /\ tick \in Nat \ {0} /\ stage = "serve" /\ proc \in 0 .. procs
        /\ todo \in SUBSET Pages /\ pages_freed \in Nat /\ free_phys \in Int
        /\ unsat \in [Processors -> Pages \cup {-1}]
    BY DEF PredInit
  <2>5. exited = FALSE
    BY DEF PredInit
  <2>6. exited \in BOOLEAN
    BY <2>5
  <2> QED
    BY <2>1, <2>2, <2>3, <2>4, <2>6 DEF PredTypeOK, Histories, Accesses
<1>8. Remembers
  <2>1. Logs(ring, <<>>)
    <3>1. ring.head = 0 /\ ring.tail = 0
      BY <1>4 DEF phist_init
    <3>2. Count(ring) = 0
      BY <3>1 DEF Count
    <3>3. Len(<<>>) = 0 /\ 1 .. 0 = {}
      OBVIOUS
    <3> QED
      BY <1>2, <3>1, <3>2, <3>3 DEF Logs
  <2> QED
    BY <1>6, <2>1 DEF Remembers
<1>9. NotesInv /\ PlaceInv /\ SuspendedInv /\ RefusedInv /\ GrantedInv
  BY DEF PredInit, NotesInv, PlaceInv, SuspendedInv, RefusedInv, GrantedInv, Processors
<1>10. AccountsInv
  BY TakenNone DEF PredInit, AccountsInv
<1>11. NeverExits
  BY DEF PredInit, NeverExits
<1> QED
  BY <1>1, <1>7, <1>8, <1>9, <1>10, <1>11 DEF PredGood

\* So it always holds.
LEMMA AlwaysPredGood ==
    PredSpec => []PredGood
<1>1. PredGood /\ [PredNext]_predVars => PredGood'
  BY PagerKeeps, ProgramKeeps, ReturnKeeps, PredStutters DEF PredNext
<1> QED
  BY <1>1, PredInitGood, PTL DEF PredSpec

----------------------------------------------------------------------------
(* The theorems *)

\* The variables of pager-predict.c keep their types: no index leaves its
\* array, the ring's included.
THEOREM PredictTypeCorrect ==
    PredSpec => []PredTypeOK
<1>1. PredGood => PredTypeOK
  BY DEF PredGood
<1> QED
  BY <1>1, AlwaysPredGood, PTL

\* phist_push keeps the last HSIZE - 1 accesses of every processor, in order.
THEOREM HistoryIsTheLast ==
    PredSpec => []HistoryKeepsLast
<1>1. PredGood => HistoryKeepsLast
  BY DEF PredGood, Remembers, Logs, HistoryKeepsLast
<1> QED
  BY <1>1, AlwaysPredGood, PTL

\* What phist_len and phist_at really give: one slot too many, and each access one
\* place later than predict.h:25-26 has it.  MostRecentFirst, the promise, is false.
HistoryOneBehind ==
    \A i \in Processors :
        LET held == Len(recent[i])
        IN  /\ phist_len(phist_arr[i]) = held + 1
            /\ \A t \in 1 .. held : phist_at(phist_arr[i], t) = recent[i][held + 1 - t]

\* The disagreement with predict.h is an offset of one, at every fill of the ring
\* and through its wrap: the accesses are there, in order, from 1 on.
THEOREM HistoryIsOneBehind ==
    PredSpec => []HistoryOneBehind
<1>1. PredGood => HistoryOneBehind
  <2> SUFFICES ASSUME PredGood, NEW i \in Processors
               PROVE  /\ phist_len(phist_arr[i]) = Len(recent[i]) + 1
                      /\ \A t \in 1 .. Len(recent[i]) :
                            phist_at(phist_arr[i], t) = recent[i][Len(recent[i]) + 1 - t]
    BY DEF HistoryOneBehind
  <2>1. PICK ph, log : ph = phist_arr[i] /\ log = recent[i]
    OBVIOUS
  <2>2. ph \in Histories /\ log \in Seq(Accesses) /\ Logs(ph, log)
    BY <2>1 DEF PredGood, PredTypeOK, Histories, Accesses, Remembers
  <2>3. PICK held : held = Len(log)
    OBVIOUS
  <2>4. /\ HSIZE \in Nat \ {0} /\ held \in Nat /\ held < HSIZE
        /\ ph.head \in 0 .. HSIZE - 1 /\ ph.tail \in 0 .. HSIZE - 1
        /\ held = IF ph.tail <= ph.head THEN ph.head - ph.tail ELSE ph.head - ph.tail + HSIZE
        /\ ph.tail = 0 \/ HPLUS_ONE(ph.head) = ph.tail
    BY <2>2, <2>3, HsizeAssumption DEF Logs, Histories, Slots, Count
  <2>5. phist_len(ph) = held + 1
    BY <2>4 DEF phist_len, HPLUS_ONE
  <2>6. ASSUME NEW t \in 1 .. held
        PROVE  phist_at(ph, t) = log[held + 1 - t]
    <3>1. t \in 0 .. HSIZE - 1
      BY <2>4
    <3>2. PICK s : s = IF t <= ph.head THEN ph.head - t ELSE ph.head - t + HSIZE
      OBVIOUS
    <3>3. phist_at(ph, t) = ph.records[s]
      BY <2>2, <3>1, <3>2, ReadsBehind
    <3>4. PICK n : n = held + 1 - t
      OBVIOUS
    <3>5. n \in 1 .. held
      BY <2>4, <3>4
    <3>6. SlotAt(ph, n - 1) = s
      BY <2>4, <3>2, <3>4 DEF SlotAt
    <3> QED
      BY <2>2, <2>3, <3>3, <3>4, <3>5, <3>6 DEF Logs
  <2> QED
    BY <2>1, <2>3, <2>5, <2>6
<1> QED
  BY <1>1, AlwaysPredGood, PTL

\* Neither the exit(0) nor the assertion of pred_pageit is reached: what it
\* takes off free_phys is in frames, and what it puts out it may put out.
THEOREM PredictNeverExits ==
    PredSpec => []NeverExits
<1>1. PredGood => NeverExits
  BY DEF PredGood
<1> QED
  BY <1>1, AlwaysPredGood, PTL

\* A job that pred_pageit suspended does not run, and so cannot end, until
\* it is resumed.
THEOREM SuspendedJobsWait ==
    PredSpec => []SuspendedWait
<1>1. PredGood => SuspendedWait
  BY DEF PredGood, SuspendedInv, SuspendedWait, Resident, Page
<1> QED
  BY <1>1, AlwaysPredGood, PTL

\* pred_pageit takes the page a job stands on only to suspend the job.
THEOREM NeededPagesStay ==
    PredSpec => KeepsNeeded
<1> DEFINE Kept ==
        \A j \in Jobs : pages[j][Needed(j)] = 0 /\ pages'[j][Needed(j)] = -1 =>
            stage = "clear"
<1>1. PredGood /\ [PredNext]_predVars => Kept
  <2> SUFFICES ASSUME PredGood, [PredNext]_predVars, NEW j \in Jobs,
                      pages[j][Needed(j)] = 0, pages'[j][Needed(j)] = -1
               PROVE  stage = "clear"
    OBVIOUS
  <2> USE Sizes
  <2>0. Good /\ Types
    BY DEF PredGood, Good
  <2>1. PICK page : page = Needed(j)
    OBVIOUS
  <2>2. page \in Pages
    <3>1. walk[j] \in Seq(Pages) /\ pc[j] \in 1 .. Len(walk[j])
      BY <2>0, WalksStart DEF Types
    <3> QED
      BY <2>1, <3>1 DEF Needed
  <2>3. pages' # pages
    BY <2>1
  <2>4. ~allage
    BY <2>1, <2>2 DEF allage, Aged
  <2>5. ~allstep
    <3>1. ~StepExit(turn)
      <4>1. ASSUME StepExit(turn)
            PROVE  FALSE
        <5>1. PICK k \in Jobs : pages' = [pages EXCEPT ![k] = [q \in Pages |-> OUT]]
          BY <2>0, <4>1, ExitUnloads DEF Unloads, Types
        <5> QED
          BY <2>0, <2>1, <2>2, <5>1 DEF OUT, Types
      <4> QED
        BY <4>1
    <3> QED
      BY <2>3, <3>1 DEF allstep, StepIdle, StepBlocked, StepCompute
  <2>6. pred_pageit
    BY <2>3, <2>4, <2>5 DEF PredNext, Return, EndTick, predVars, vars
  <2>7. Trim \/ Clear \/ Evict
    <3>1. ~Want /\ ~Restore
      <4>1. ASSUME NEW i, NEW p, pagein(i, p)
            PROVE  FALSE
        BY <2>0, <2>1, <2>2, <4>1, CallMovesOne DEF MovesIn
      <4> QED
        BY <4>1 DEF Want, Restore
    <3> QED
      BY <2>3, <2>6, <3>1 DEF pred_pageit, Serve, Fault, Served, Suspend, Cleared,
           NoneLeft, Resume, Pass, NoCall
  <2>8. Job(proc) = j
    <3>1. ASSUME NEW p, pageout(proc, p)
          PROVE  Job(proc) = j
      BY <2>0, <2>1, <2>2, <3>1, CallMovesOne DEF MovesOut
    <3> QED
      BY <2>7, <3>1 DEF Trim, Clear, PutOut, Evict
  <2>9. page \in Allocated(proc) /\ Page(proc) = page
    BY <2>1, <2>2, <2>8 DEF Allocated, Page
  <2>10. ~Trim
    BY <2>9 DEF Trim, At, PredGood, PlaceInv
  <2>11. ~Evict
    BY <2>9 DEF Evict, MustGive, Refused, PredGood, RefusedInv
  <2> QED
    BY <2>7, <2>10, <2>11 DEF Clear, At
<1> QED
  BY <1>1, AlwaysPredGood, PTL DEF PredSpec, KeepsNeeded

=============================================================================

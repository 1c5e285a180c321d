------------------------- MODULE MultiLookupProofs -------------------------
(***************************************************************************)
(* multi-lookup.c for any number of threads, files, names and slots: the   *)
(* mutexes and the ring first, then what becomes of the names.             *)
(***************************************************************************)
EXTENDS MultiLookup, RingProofs, FiniteSetTheorems

\* A mutex is held by the thread that is between its lock and its unlock.
LockInv ==
    /\ \A t \in Threads : pc[t] = "advance" <=> buffmutex = t
    /\ \A t \in Threads : pc[t] \in {"logging", "writing"} <=> outmutex = t

\* A thread has a name in hand only where its code has set domain.
HandInv ==
    /\ \A i \in Requesters : domain[i] # NULL <=> pc[i] = "push"
    /\ \A v \in Resolvers :
          domain[v] # NULL => pc[v] \in {"advance", "write", "writing"}

\* What main has joined is done.
JoinInv ==
    /\ main \in {"resolvers", "returned"} => Joined(Requesters)
    /\ main = "returned" => Joined(Resolvers)

\* The inductive invariant of the queue.
Good == TypeOK /\ LockInv /\ HandInv /\ JoinInv /\ RingInv

\* A thread has one role, and NULL is no thread.
LEMMA Roles ==
    /\ Requesters \subseteq Threads
    /\ Resolvers \subseteq Threads
    /\ \A t \in Threads : t \in Requesters \/ t \in Resolvers
    /\ \A t \in Threads : ~(t \in Requesters /\ t \in Resolvers)
    /\ \A t \in Threads : t # NULL
  BY ThreadAssumption DEF Threads

\* The name a requester reads is a payload (line 45).
LEMMA ScannedName ==
    ASSUME TypeOK, NEW i \in Requesters, scanned[i] < nameCount[i]
    PROVE  /\ <<i, scanned[i] + 1>> \in Payloads
           /\ <<i, scanned[i] + 1>> # NULL
<1>1. i \in DOMAIN nameCount /\ nameCount[i] \in Nat
  BY InputAssumption, ThreadAssumption DEF Requesters
<1>2. scanned[i] \in Nat
  BY DEF TypeOK
<1>3. scanned[i] + 1 \in 1 .. nameCount[i]
  BY <1>1, <1>2
<1>4. <<i, scanned[i] + 1>> \in {i} \X (1 .. nameCount[i])
  BY <1>3
<1> QED
  BY <1>1, <1>4, InputAssumption, NullAssumption

\* No step takes a variable out of its type.
LEMMA TypeStep ==
    Good /\ [Next]_vars => TypeOK'
<1> SUFFICES ASSUME Good, [Next]_vars
             PROVE  TypeOK'
  OBVIOUS
<1> USE Roles DEF queue, history, Goto
<1>0. TypeOK /\ HandInv
  BY DEF Good
<1>1. ASSUME NEW i \in Requesters, request(i)
      PROVE  TypeOK'
  <2>1. CASE Scan(i)
    BY <1>0, <2>1, ScannedName DEF Scan, TypeOK
  <2>2. CASE ScanCrash(i)
    BY <1>0, <2>2 DEF ScanCrash, TypeOK
  <2>3. CASE PushStore(i)
    BY <1>0, <2>3 DEF PushStore, TypeOK, HandInv
  <2>4. CASE PushAdvance(i)
    BY <1>0, <2>4, SuccSlot DEF PushAdvance, TypeOK
  <2>5. CASE LockLog(i)
    BY <1>0, <2>5 DEF LockLog, TypeOK
  <2>6. CASE WriteLog(i)
    BY <1>0, <2>6 DEF WriteLog, TypeOK
  <2> QED
    BY <1>1, <2>1, <2>2, <2>3, <2>4, <2>5, <2>6 DEF request
<1>2. ASSUME NEW v \in Resolvers, resolve(v)
      PROVE  TypeOK'
  <2>1. CASE LoadFront(v)
    BY <1>0, <2>1 DEF LoadFront, TypeOK
  <2>2. CASE CompareRear(v)
    BY <1>0, <2>2 DEF CompareRear, TypeOK
  <2>3. CASE LoadIndex(v)
    BY <1>0, <2>3 DEF LoadIndex, TypeOK
  <2>4. CASE LoadPayload(v)
    BY <1>0, <2>4 DEF LoadPayload, TypeOK
  <2>5. CASE LoadExist(v)
    BY <1>0, <2>5 DEF LoadExist, TypeOK
  <2>6. CASE PopTake(v)
    BY <1>0, <2>6 DEF PopTake, TypeOK
  <2>7. CASE PopAdvance(v)
    BY <1>0, <2>7, SuccSlot DEF PopAdvance, TypeOK
  <2>8. CASE LockOutput(v)
    BY <1>0, <2>8 DEF LockOutput, TypeOK
  <2>9. CASE WriteOutput(v)
    <3>1. lines' \in [Payloads -> Nat]
      <4>1. lines \in [Payloads -> Nat]
        BY <1>0 DEF TypeOK
      <4>2. CASE domain[v] = NULL
        BY <4>1, <4>2, <2>9 DEF WriteOutput
      <4>3. CASE domain[v] # NULL
        <5>1. lines' = [lines EXCEPT ![domain[v]] = @ + 1]
          BY <4>3, <2>9 DEF WriteOutput
        <5>2. \A p \in Payloads : lines[p] \in Nat /\ lines[p] + 1 \in Nat
          BY <4>1
        <5> QED
          BY <4>1, <5>1, <5>2
      <4> QED
        BY <4>2, <4>3
    <3>2. domain' \in [Threads -> Payloads \cup {NULL}]
      BY <1>0, <2>9 DEF WriteOutput, TypeOK
    <3> QED
      BY <1>0, <2>9, <3>1, <3>2 DEF WriteOutput, TypeOK
  <2> QED
    BY <1>2, <2>1, <2>2, <2>3, <2>4, <2>5, <2>6, <2>7, <2>8, <2>9 DEF resolve
<1>3. CASE JoinRequesters
  BY <1>0, <1>3 DEF JoinRequesters, TypeOK
<1>4. CASE JoinResolvers
  <2>1. EmptyArray \in [Slots -> Payloads \cup {NULL}]
    BY DEF EmptyArray
  <2>2. {array[s] : s \in Slots} \ {NULL} \subseteq Payloads
    BY <1>0 DEF TypeOK
  <2> QED
    BY <1>0, <1>4, <2>1, <2>2 DEF JoinResolvers, TypeOK
<1>5. CASE UNCHANGED vars
  BY <1>0, <1>5 DEF vars, TypeOK
<1> QED
  BY <1>1, <1>2, <1>3, <1>4, <1>5 DEF Next, Ended

\* The mutexes exclude: only the thread that takes or frees one moves in or
\* out of the code it protects.
LEMMA LockStep ==
    Good /\ [Next]_vars => LockInv'
<1> SUFFICES ASSUME Good, [Next]_vars
             PROVE  LockInv'
  OBVIOUS
<1> USE Roles DEF Goto, Unlocked
<1>0. TypeOK /\ LockInv
  BY DEF Good
<1>1. ASSUME NEW i \in Requesters, request(i)
      PROVE  LockInv'
  <2>1. CASE Scan(i)
    BY <1>0, <2>1 DEF Scan, TypeOK, LockInv
  <2>2. CASE ScanCrash(i)
    BY <1>0, <2>2 DEF ScanCrash, TypeOK, LockInv
  <2>3. CASE PushStore(i)
    BY <1>0, <2>3 DEF PushStore, TypeOK, LockInv
  <2>4. CASE PushAdvance(i)
    BY <1>0, <2>4 DEF PushAdvance, TypeOK, LockInv
  <2>5. CASE LockLog(i)
    BY <1>0, <2>5 DEF LockLog, TypeOK, LockInv
  <2>6. CASE WriteLog(i)
    BY <1>0, <2>6 DEF WriteLog, TypeOK, LockInv
  <2> QED
    BY <1>1, <2>1, <2>2, <2>3, <2>4, <2>5, <2>6 DEF request
<1>2. ASSUME NEW v \in Resolvers, resolve(v)
      PROVE  LockInv'
  <2>1. CASE LoadFront(v)
    BY <1>0, <2>1 DEF LoadFront, TypeOK, LockInv
  <2>2. CASE CompareRear(v)
    BY <1>0, <2>2 DEF CompareRear, TypeOK, LockInv
  <2>3. CASE LoadIndex(v)
    BY <1>0, <2>3 DEF LoadIndex, TypeOK, LockInv
  <2>4. CASE LoadPayload(v)
    BY <1>0, <2>4 DEF LoadPayload, TypeOK, LockInv
  <2>5. CASE LoadExist(v)
    BY <1>0, <2>5 DEF LoadExist, TypeOK, LockInv
  <2>6. CASE PopTake(v)
    BY <1>0, <2>6 DEF PopTake, TypeOK, LockInv
  <2>7. CASE PopAdvance(v)
    BY <1>0, <2>7 DEF PopAdvance, TypeOK, LockInv
  <2>8. CASE LockOutput(v)
    BY <1>0, <2>8 DEF LockOutput, TypeOK, LockInv
  <2>9. CASE WriteOutput(v)
    BY <1>0, <2>9 DEF WriteOutput, TypeOK, LockInv
  <2> QED
    BY <1>2, <2>1, <2>2, <2>3, <2>4, <2>5, <2>6, <2>7, <2>8, <2>9 DEF resolve
<1>3. CASE JoinRequesters
  BY <1>0, <1>3 DEF JoinRequesters, LockInv
<1>4. CASE JoinResolvers
  BY <1>0, <1>4 DEF JoinResolvers, LockInv
<1>5. CASE UNCHANGED vars
  BY <1>0, <1>5 DEF vars, LockInv
<1> QED
  BY <1>1, <1>2, <1>3, <1>4, <1>5 DEF Next, Ended

\* A thread picks a name up and lays it down where HandInv says.
LEMMA HandStep ==
    Good /\ [Next]_vars => HandInv'
<1> SUFFICES ASSUME Good, [Next]_vars
             PROVE  HandInv'
  OBVIOUS
<1> USE Roles DEF Goto
<1>0. TypeOK /\ HandInv
  BY DEF Good
<1>1. ASSUME NEW i \in Requesters, request(i)
      PROVE  HandInv'
  <2>1. CASE Scan(i)
    BY <1>0, <2>1, ScannedName DEF Scan, TypeOK, HandInv
  <2>2. CASE ScanCrash(i)
    BY <1>0, <2>2 DEF ScanCrash, HandInv
  <2>3. CASE PushStore(i)
    BY <1>0, <2>3 DEF PushStore, TypeOK, HandInv
  <2>4. CASE PushAdvance(i)
    BY <1>0, <2>4 DEF PushAdvance, TypeOK, HandInv
  <2>5. CASE LockLog(i)
    BY <1>0, <2>5 DEF LockLog, TypeOK, HandInv
  <2>6. CASE WriteLog(i)
    BY <1>0, <2>6 DEF WriteLog, TypeOK, HandInv
  <2> QED
    BY <1>1, <2>1, <2>2, <2>3, <2>4, <2>5, <2>6 DEF request
<1>2. ASSUME NEW v \in Resolvers, resolve(v)
      PROVE  HandInv'
  <2>1. CASE LoadFront(v)
    BY <1>0, <2>1 DEF LoadFront, TypeOK, HandInv
  <2>2. CASE CompareRear(v)
    BY <1>0, <2>2 DEF CompareRear, TypeOK, HandInv
  <2>3. CASE LoadIndex(v)
    BY <1>0, <2>3 DEF LoadIndex, TypeOK, HandInv
  <2>4. CASE LoadPayload(v)
    BY <1>0, <2>4 DEF LoadPayload, TypeOK, HandInv
  <2>5. CASE LoadExist(v)
    BY <1>0, <2>5 DEF LoadExist, TypeOK, HandInv
  <2>6. CASE PopTake(v)
    BY <1>0, <2>6 DEF PopTake, TypeOK, HandInv
  <2>7. CASE PopAdvance(v)
    BY <1>0, <2>7 DEF PopAdvance, TypeOK, HandInv
  <2>8. CASE LockOutput(v)
    BY <1>0, <2>8 DEF LockOutput, TypeOK, HandInv
  <2>9. CASE WriteOutput(v)
    BY <1>0, <2>9 DEF WriteOutput, TypeOK, HandInv
  <2> QED
    BY <1>2, <2>1, <2>2, <2>3, <2>4, <2>5, <2>6, <2>7, <2>8, <2>9 DEF resolve
<1>3. CASE JoinRequesters
  BY <1>0, <1>3 DEF JoinRequesters, HandInv
<1>4. CASE JoinResolvers
  BY <1>0, <1>4 DEF JoinResolvers, HandInv
<1>5. CASE UNCHANGED vars
  BY <1>0, <1>5 DEF vars, HandInv
<1> QED
  BY <1>1, <1>2, <1>3, <1>4, <1>5 DEF Next, Ended

\* A thread that is done takes no step, so what was joined stays done.
LEMMA JoinStep ==
    Good /\ [Next]_vars => JoinInv'
<1> SUFFICES ASSUME Good, [Next]_vars
             PROVE  JoinInv'
  OBVIOUS
<1> USE Roles DEF Goto, Joined
<1>0. TypeOK /\ JoinInv
  BY DEF Good
<1>1. ASSUME NEW i \in Requesters, request(i)
      PROVE  JoinInv'
  <2>1. pc[i] # "done"
    BY <1>1 DEF request, Scan, ScanCrash, PushStore, PushAdvance, LockLog,
                WriteLog
  <2>2. main' \in {main, "crashed"}
    BY <1>1 DEF request, Scan, ScanCrash, PushStore, PushAdvance, LockLog,
                WriteLog
  <2> QED
    BY <1>0, <2>1, <2>2 DEF JoinInv
<1>2. ASSUME NEW v \in Resolvers, resolve(v)
      PROVE  JoinInv'
  <2>1. pc[v] # "done"
    BY <1>2 DEF resolve, LoadFront, CompareRear, LoadIndex, LoadPayload,
                LoadExist, PopTake, PopAdvance, LockOutput, WriteOutput
  <2>2. /\ main' = main
        /\ \E label : pc' = [pc EXCEPT ![v] = label]
    BY <1>2 DEF resolve, LoadFront, CompareRear, LoadIndex, LoadPayload,
                LoadExist, PopTake, PopAdvance, LockOutput, WriteOutput
  <2>3. \A t \in Requesters : pc'[t] = pc[t]
    BY <1>0, <2>2 DEF TypeOK
  <2> QED
    BY <1>0, <2>1, <2>2, <2>3 DEF JoinInv
<1>3. CASE JoinRequesters
  BY <1>0, <1>3 DEF JoinRequesters, JoinInv
<1>4. CASE JoinResolvers
  BY <1>0, <1>4 DEF JoinResolvers, JoinInv
<1>5. CASE UNCHANGED vars
  BY <1>0, <1>5 DEF vars, JoinInv
<1> QED
  BY <1>1, <1>2, <1>3, <1>4, <1>5 DEF Next, Ended

----------------------------------------------------------------------------
(* The queue.  Of the threads only the one that holds buffmutex matters.   *)

\* The owner of buffmutex tells which call is between its two stores.
LEMMA CallUnderWay ==
    TypeOK /\ LockInv =>
        /\ PushedRear = IF buffmutex \in Requesters THEN Succ(rear) ELSE rear
        /\ PoppedFront = IF buffmutex \in Resolvers THEN Succ(front) ELSE front
<1> SUFFICES ASSUME TypeOK, LockInv
             PROVE  (Pushing <=> buffmutex \in Requesters)
                 /\ (Popping <=> buffmutex \in Resolvers)
  BY DEF PushedRear, PoppedFront
<1> QED
  BY Roles DEF Pushing, Popping, LockInv

\* Between the steps the variables form a ring as RingProofs assumes it.
LEMMA GoodIsGoodRing ==
    TypeOK /\ LockInv /\ RingInv => GoodRing(array, PoppedFront, PushedRear)
  BY CallUnderWay, SuccSlot DEF TypeOK, RingInv, GoodRing

\* The ring before and after a step, by the owner of buffmutex.
LEMMA RingView ==
    ASSUME Good, [Next]_vars
    PROVE  /\ GoodRing(array, PoppedFront, PushedRear)
           /\ PushedRear = IF buffmutex \in Requesters THEN Succ(rear) ELSE rear
           /\ PoppedFront = IF buffmutex \in Resolvers THEN Succ(front) ELSE front
           /\ PushedRear' = IF buffmutex' \in Requesters THEN Succ(rear') ELSE rear'
           /\ PoppedFront' = IF buffmutex' \in Resolvers THEN Succ(front') ELSE front'
<1>1. TypeOK /\ LockInv /\ RingInv
  BY DEF Good
<1>2. (TypeOK /\ LockInv)'
  BY TypeStep, LockStep
<1>3. /\ PushedRear' = IF buffmutex' \in Requesters THEN Succ(rear') ELSE rear'
      /\ PoppedFront' = IF buffmutex' \in Resolvers THEN Succ(front') ELSE front'
  BY <1>2, Roles DEF PushedRear, PoppedFront, Pushing, Popping, LockInv
<1> QED
  BY <1>1, <1>3, GoodIsGoodRing, CallUnderWay

\* A step that leaves the ring alone leaves the queue alone.
LEMMA QueueSame ==
    ASSUME Good, [Next]_vars, UNCHANGED <<array, front, rear, buffmutex>>
    PROVE  RingInv' /\ Queued' = Queued
  BY RingView DEF Queued, RingInv, GoodRing

\* The first store of a push appends; a push on a full queue does nothing.
LEMMA QueuePush ==
    ASSUME Good, [Next]_vars, NEW i \in Requesters, PushStore(i)
    PROVE  /\ RingInv'
           /\ domain[i] \in Payloads
           /\ IF IsFull(array, front, rear)
              THEN Queued' = Queued
              ELSE Len(Queued) < maxSize /\ Queued' = Append(Queued, domain[i])
<1>1. domain[i] \in Payloads
  BY Roles DEF PushStore, Good, HandInv, TypeOK
<1>2. CASE IsFull(array, front, rear)
  <2>1. UNCHANGED <<array, front, rear, buffmutex>>
    BY <1>2 DEF PushStore
  <2> QED
    BY <1>1, <1>2, <2>1, QueueSame
<1>3. CASE ~IsFull(array, front, rear)
  <2>1. /\ buffmutex = NULL /\ buffmutex' = i
        /\ array' = [array EXCEPT ![rear] = domain[i]]
        /\ front' = front /\ rear' = rear
    BY <1>3 DEF PushStore, Unlocked
  <2>2. PushedRear = rear /\ PoppedFront = front
    BY <2>1, Roles, RingView
  <2>3. PushedRear' = Succ(rear) /\ PoppedFront' = front
    BY <2>1, Roles, RingView
  <2>4. GoodRing(array, front, rear)
    BY <2>2, RingView
  <2>5. /\ GoodRing(array', front, Succ(rear))
        /\ Pushes(Contents(array, front, rear), domain[i],
                  Contents(array', front, Succ(rear)))
    BY <1>1, <1>3, <2>1, <2>4, PushRing
  <2>6. Len(Contents(array, front, rear)) < maxSize
    BY <1>3, <2>4, TestsByCount, ContentsAt, SizeAssumption
  <2>7. RingInv'
    BY <2>3, <2>5 DEF GoodRing, RingInv
  <2> QED
    BY <1>1, <1>3, <2>2, <2>3, <2>5, <2>6, <2>7 DEF Queued, Pushes
<1> QED
  BY <1>2, <1>3

\* The first store of a pop removes the head; a pop of an empty queue does
\* nothing.
LEMMA QueuePop ==
    ASSUME Good, [Next]_vars, NEW v \in Resolvers, PopTake(v)
    PROVE  /\ RingInv'
           /\ IF IsEmpty(array, front, rear)
              THEN Queued' = Queued
              ELSE /\ Queued # <<>>
                   /\ domain'[v] = Head(Queued)
                   /\ Queued' = Tail(Queued)
<1>1. CASE IsEmpty(array, front, rear)
  <2>1. UNCHANGED <<array, front, rear, buffmutex>>
    BY <1>1 DEF PopTake
  <2> QED
    BY <1>1, <2>1, QueueSame
<1>2. CASE ~IsEmpty(array, front, rear)
  <2>1. /\ buffmutex = NULL /\ buffmutex' = v
        /\ array' = [array EXCEPT ![front] = NULL]
        /\ front' = front /\ rear' = rear
    BY <1>2 DEF PopTake, Unlocked
  <2>2. PushedRear = rear /\ PoppedFront = front
    BY <2>1, Roles, RingView
  <2>3. PushedRear' = rear /\ PoppedFront' = Succ(front)
    BY <2>1, Roles, RingView
  <2>4. domain'[v] = array[front]
    BY <1>2, Roles DEF PopTake, Good, TypeOK
  <2>5. GoodRing(array, front, rear)
    BY <2>2, RingView
  <2>6. /\ GoodRing(array', Succ(front), rear)
        /\ Contents(array, front, rear) # <<>>
        /\ array[front] = Head(Contents(array, front, rear))
        /\ Contents(array', Succ(front), rear) = Tail(Contents(array, front, rear))
    <3>1. PICK next : next = [array EXCEPT ![front] = NULL]
      OBVIOUS
    <3>2. array' = next
      BY <2>1, <3>1
    <3> QED
      BY <1>2, <2>5, <3>1, <3>2, PopRing
  <2>7. RingInv'
    BY <2>3, <2>6 DEF GoodRing, RingInv
  <2> QED
    BY <1>2, <2>2, <2>3, <2>4, <2>6, <2>7 DEF Queued
<1> QED
  BY <1>1, <1>2

\* The second store of a call changes nothing that counts.
LEMMA QueueAdvance ==
    ASSUME Good, [Next]_vars,
           \/ \E i \in Requesters : PushAdvance(i)
           \/ \E v \in Resolvers : PopAdvance(v)
    PROVE  RingInv' /\ Queued' = Queued
<1>0. LockInv
  BY DEF Good
<1>1. ASSUME NEW i \in Requesters, PushAdvance(i)
      PROVE  RingInv' /\ Queued' = Queued
  <2>1. /\ buffmutex = i /\ buffmutex' = NULL
        /\ array' = array /\ front' = front /\ rear' = Succ(rear)
    BY <1>0, <1>1, Roles DEF PushAdvance, LockInv
  <2> QED
    BY <2>1, Roles, RingView DEF Queued, RingInv, GoodRing
<1>2. ASSUME NEW v \in Resolvers, PopAdvance(v)
      PROVE  RingInv' /\ Queued' = Queued
  <2>1. /\ buffmutex = v /\ buffmutex' = NULL
        /\ array' = array /\ front' = Succ(front) /\ rear' = rear
    BY <1>0, <1>2, Roles DEF PopAdvance, LockInv
  <2> QED
    BY <2>1, Roles, RingView DEF Queued, RingInv, GoodRing
<1> QED
  BY <1>1, <1>2

\* queue_cleanup runs when every thread is done, and leaves nothing.
LEMMA QueueDrop ==
    ASSUME Good, [Next]_vars, JoinResolvers
    PROVE  /\ RingInv' /\ Queued' = <<>>
           /\ PoppedFront = front /\ PushedRear = rear
<1>1. \A t \in Threads : pc[t] = "done"
  BY Roles DEF JoinResolvers, Joined, Good, JoinInv
<1>2. buffmutex \notin Threads
  BY <1>1 DEF Good, LockInv
<1>3. /\ buffmutex' = buffmutex
      /\ array' = EmptyArray /\ front' = rear /\ rear' = rear
  BY DEF JoinResolvers
<1>4. /\ PushedRear' = rear /\ PoppedFront' = rear
      /\ PushedRear = rear /\ PoppedFront = front
  BY <1>2, <1>3, Roles, RingView
<1>5. rear \in Slots
  BY DEF Good, TypeOK
<1>6. GoodRing(EmptyArray, rear, rear) /\ Contents(EmptyArray, rear, rear) = <<>>
  BY <1>5, EmptyRing
<1> QED
  BY <1>3, <1>4, <1>6 DEF Queued, RingInv, GoodRing

\* What a step does to the queue.
LEMMA QueueStep ==
    ASSUME Good, [Next]_vars
    PROVE  /\ RingInv'
           /\ \/ Queued' = Queued
              \/ \E i \in Requesters :
                    /\ PushStore(i)
                    /\ Len(Queued) < maxSize
                    /\ Queued' = Append(Queued, domain[i])
              \/ \E v \in Resolvers :
                    /\ PopTake(v)
                    /\ Queued # <<>>
                    /\ domain'[v] = Head(Queued)
                    /\ Queued' = Tail(Queued)
              \/ JoinResolvers /\ Queued' = <<>>
<1>1. ASSUME NEW i \in Requesters,
             Scan(i) \/ ScanCrash(i) \/ LockLog(i) \/ WriteLog(i)
      PROVE  UNCHANGED <<array, front, rear, buffmutex>>
  BY <1>1 DEF Scan, ScanCrash, LockLog, WriteLog, queue
<1>2. ASSUME NEW v \in Resolvers,
             \/ LoadFront(v) \/ CompareRear(v) \/ LoadIndex(v) \/ LoadPayload(v)
             \/ LoadExist(v) \/ LockOutput(v) \/ WriteOutput(v)
      PROVE  UNCHANGED <<array, front, rear, buffmutex>>
  BY <1>2 DEF LoadFront, CompareRear, LoadIndex, LoadPayload, LoadExist,
              LockOutput, WriteOutput, queue
<1>3. CASE JoinRequesters \/ UNCHANGED vars
  <2>1. UNCHANGED <<array, front, rear, buffmutex>>
    BY <1>3 DEF JoinRequesters, vars, queue
  <2> QED
    BY <2>1, QueueSame
<1>4. CASE \E i \in Requesters : request(i)
  BY <1>1, <1>4, QueueSame, QueuePush, QueueAdvance DEF request
<1>5. CASE \E v \in Resolvers : resolve(v)
  BY <1>2, <1>5, QueueSame, QueuePop, QueueAdvance DEF resolve
<1> QED
  BY <1>3, <1>4, <1>5, QueueDrop DEF Next, Ended

\* Before any thread has run, the queue is empty and nobody holds anything.
LEMMA InitGood ==
    Init => Good /\ Queued = <<>>
<1> SUFFICES ASSUME Init
             PROVE  Good /\ Queued = <<>>
  OBVIOUS
<1> USE Roles DEF Init
<1>1. 0 \in Slots
  BY SizeAssumption DEF Slots
<1>2. GoodRing(EmptyArray, 0, 0) /\ Contents(EmptyArray, 0, 0) = <<>>
  BY <1>1, EmptyRing
<1>3. EmptyArray \in [Slots -> Payloads \cup {NULL}]
  BY DEF EmptyArray
<1>4. /\ \A i \in Requesters : pc[i] = "scan"
      /\ \A v \in Resolvers : pc[v] = "front"
  OBVIOUS
<1>5. TypeOK
  BY <1>1, <1>3, <1>4 DEF TypeOK
<1>6. LockInv
  BY <1>4 DEF LockInv
<1>7. HandInv /\ JoinInv
  BY DEF HandInv, JoinInv
<1>8. PushedRear = 0 /\ PoppedFront = 0
  BY <1>4 DEF PushedRear, PoppedFront, Pushing, Popping
<1> QED
  BY <1>2, <1>5, <1>6, <1>7, <1>8 DEF Good, RingInv, GoodRing, Queued

\* The invariant is inductive.
LEMMA StepGood ==
    Good /\ [Next]_vars => Good'
  BY TypeStep, LockStep, HandStep, JoinStep, QueueStep DEF Good

\* It holds throughout.
LEMMA AlwaysGood ==
    Spec => []Good
<1>1. Init => Good
  BY InitGood
<1> QED
  BY <1>1, StepGood, PTL DEF Spec

\* The variables of multi-lookup.c keep their types, for every number of
\* threads, files, names and slots.
THEOREM TypeCorrect ==
    Spec => []TypeOK
<1>1. Good => TypeOK
  BY DEF Good
<1> QED
  BY <1>1, AlwaysGood, PTL

\* buffmutex protects the ring: whatever the unlocked tests of line 82 do and
\* see, the occupied slots are those from front to rear.
THEOREM RingStaysWellFormed ==
    Spec => []RingInv
<1>1. Good => RingInv
  BY DEF Good
<1> QED
  BY <1>1, AlwaysGood, PTL

\* The threads together use queue.c as one bounded first-in first-out queue.
THEOREM LookupImplementsFifo ==
    Spec => ImplementsFifo
<1>1. Init => Fifo!Init
  BY InitGood DEF Fifo!Init
<1>2. Good /\ [Next]_vars => [Fifo!Next]_Queued
  <2> SUFFICES ASSUME Good, [Next]_vars
               PROVE  Fifo!Next \/ Queued' = Queued
    OBVIOUS
  <2>1. ASSUME NEW i \in Requesters, PushStore(i), Len(Queued) < maxSize,
               Queued' = Append(Queued, domain[i])
        PROVE  Fifo!Next
    <3>1. domain[i] \in Payloads
      BY <2>1, Roles DEF PushStore, Good, HandInv, TypeOK
    <3> QED
      BY <2>1, <3>1 DEF Fifo!Next, Fifo!Push
  <2>2. ASSUME Queued # <<>>, Queued' = Tail(Queued)
        PROVE  Fifo!Next
    BY <2>2 DEF Fifo!Next, Fifo!Pop
  <2>3. ASSUME Queued' = <<>>
        PROVE  Fifo!Next
    BY <2>3 DEF Fifo!Next, Fifo!Discard
  <2> QED
    BY <2>1, <2>2, <2>3, QueueStep
<1> QED
  BY <1>1, <1>2, AlwaysGood, PTL DEF Spec, ImplementsFifo, Fifo!Spec

----------------------------------------------------------------------------
(* The test without the mutex (multi-lookup.c:82) *)

AllPushed == \A i \in Requesters : DonePushing(i)

\* Resolvers that will test again, or whose test, if nothing more is popped,
\* will find a queued name.
StaysToPop(v) ==
    \/ pc[v] \in {"front", "pop", "advance", "write", "writing"}
    \/ pc[v] = "rear" /\ peek[v] = front
    \/ pc[v] = "index" /\ front = rear
    \/ pc[v] = "payload" /\ front = rear /\ peek[v] = front

\* Whoever makes the test of another come out wrong by popping will itself
\* test again.
LateInv ==
    late => /\ AllPushed
            /\ Queued = <<>> \/ \E v \in Resolvers : StaysToPop(v)

\* Requesters that have ended push no more.
LEMMA PushesEnd ==
    Good /\ [Next]_vars /\ AllPushed => AllPushed'
<1> SUFFICES ASSUME Good, [Next]_vars, AllPushed
             PROVE  AllPushed'
  OBVIOUS
<1> USE Roles DEF Goto, AllPushed, DonePushing
<1>0. TypeOK
  BY DEF Good
<1>1. ASSUME NEW i \in Requesters, request(i)
      PROVE  AllPushed'
  <2>1. LockLog(i) \/ WriteLog(i)
    BY <1>1 DEF request, Scan, ScanCrash, PushStore, PushAdvance
  <2> QED
    BY <1>0, <2>1 DEF LockLog, WriteLog, TypeOK
<1>2. ASSUME NEW v \in Resolvers, resolve(v)
      PROVE  AllPushed'
  <2>1. \E label : pc' = [pc EXCEPT ![v] = label]
    BY <1>2 DEF resolve, LoadFront, CompareRear, LoadIndex, LoadPayload,
                LoadExist, PopTake, PopAdvance, LockOutput, WriteOutput
  <2>2. \A i \in Requesters : pc'[i] = pc[i]
    BY <1>0, <2>1 DEF TypeOK
  <2> QED
    BY <2>2
<1>3. CASE JoinRequesters \/ JoinResolvers \/ UNCHANGED vars
  BY <1>3 DEF JoinRequesters, JoinResolvers, vars
<1> QED
  BY <1>1, <1>2, <1>3 DEF Next, Ended

\* When no call is under way, an empty-looking ring holds nothing.
LEMMA EmptyMeansDrained ==
    ASSUME Good, AllPushed, \A u \in Resolvers : pc[u] # "advance",
           IsEmpty(array, front, rear)
    PROVE  Queued = <<>>
<1>1. GoodRing(array, PoppedFront, PushedRear)
  BY GoodIsGoodRing DEF Good
<1>2. PoppedFront = front /\ PushedRear = rear
  BY DEF PoppedFront, PushedRear, Popping, Pushing, AllPushed, DonePushing
<1>3. GoodRing(array, front, rear)
  BY <1>1, <1>2
<1>4. /\ Contents(array, front, rear) \in Seq(Payloads)
      /\ Len(Contents(array, front, rear)) = 0
  BY <1>3, ContentsAt, TestsByCount
<1> QED
  BY <1>2, <1>4 DEF Queued

\* A step of a resolver, when all names were pushed and the queue still holds
\* some, leaves one that stays.
LEMMA ResolverStays ==
    ASSUME Good, [Next]_vars, AllPushed, Queued # <<>>,
           NEW v \in Resolvers, resolve(v),
           NEW w \in Resolvers, StaysToPop(w)
    PROVE  \E u \in Resolvers : StaysToPop(u)'
<1> USE Roles DEF Goto
<1>0. TypeOK
  BY DEF Good
<1>1. /\ \E label : pc' = [pc EXCEPT ![v] = label]
      /\ rear' = rear
  BY DEF resolve, LoadFront, CompareRear, LoadIndex, LoadPayload,
         LoadExist, PopTake, PopAdvance, LockOutput, WriteOutput, queue
<1>2. ASSUME NEW t \in Resolvers, t # v
      PROVE  pc'[t] = pc[t]
  BY <1>0, <1>1, <1>2 DEF TypeOK
<1>3. CASE LoadFront(v) \/ PopTake(v) \/ PopAdvance(v) \/ LockOutput(v)
             \/ WriteOutput(v)
  <2>1. CASE LoadFront(v)
    <3>1. pc'[v] = "rear" /\ peek'[v] = front /\ front' = front
      BY <1>0, <2>1 DEF LoadFront, TypeOK, queue
    <3> QED
      BY <3>1 DEF StaysToPop
  <2>2. CASE PopTake(v) \/ PopAdvance(v) \/ LockOutput(v) \/ WriteOutput(v)
    <3>1. pc'[v] \in {"advance", "write", "writing", "front"}
      BY <1>0, <2>2 DEF PopTake, PopAdvance, LockOutput, WriteOutput, TypeOK
    <3> QED
      BY <3>1 DEF StaysToPop
  <2> QED
    BY <1>3, <2>1, <2>2
<1>4. CASE CompareRear(v) \/ LoadIndex(v) \/ LoadPayload(v) \/ LoadExist(v)
  <2>1. front' = front
    BY <1>4 DEF CompareRear, LoadIndex, LoadPayload, LoadExist, queue
  <2>2. CASE w # v
    <3>1. pc'[w] = pc[w] /\ peek'[w] = peek[w]
      BY <1>0, <1>2, <1>4, <2>2
         DEF CompareRear, LoadIndex, LoadPayload, LoadExist, TypeOK
    <3> QED
      BY <1>1, <2>1, <3>1 DEF StaysToPop
  <2>3. CASE w = v /\ CompareRear(v)
    <3>1. /\ peek[v] = front
          /\ pc'[v] = IF peek[v] = rear THEN "index" ELSE "pop"
      BY <1>0, <2>3 DEF CompareRear, StaysToPop, TypeOK
    <3> QED
      BY <1>1, <2>1, <3>1 DEF StaysToPop
  <2>4. CASE w = v /\ LoadIndex(v)
    <3>1. front = rear /\ peek'[v] = front /\ pc'[v] = "payload"
      BY <1>0, <2>4 DEF LoadIndex, StaysToPop, TypeOK
    <3> QED
      BY <1>1, <2>1, <3>1 DEF StaysToPop
  <2>5. CASE w = v /\ LoadPayload(v)
    <3>1. /\ front = rear /\ peek[v] = front
          /\ pc'[v] = IF array[front] = NULL THEN "exist" ELSE "pop"
          /\ pc[v] = "payload"
      BY <1>0, <2>5 DEF LoadPayload, StaysToPop, TypeOK
    <3>2. CASE array[front] # NULL
      BY <3>1, <3>2 DEF StaysToPop
    <3>3. CASE array[front] = NULL
      <4>1. PICK u \in Resolvers : pc[u] = "advance"
        BY <3>1, <3>3, EmptyMeansDrained DEF IsEmpty
      <4>2. pc'[u] = "advance"
        BY <1>2, <3>1, <4>1
      <4> QED
        BY <4>2 DEF StaysToPop
    <3> QED
      BY <3>2, <3>3
  <2>6. CASE w = v /\ LoadExist(v)
    BY <2>6 DEF LoadExist, StaysToPop
  <2> QED
    BY <1>4, <2>2, <2>3, <2>4, <2>5, <2>6
<1> QED
  BY <1>3, <1>4 DEF resolve

\* LateInv is inductive together with Good.
LEMMA LateStep ==
    Good /\ LateInv /\ [Next]_vars => LateInv'
<1> SUFFICES ASSUME Good, LateInv, [Next]_vars, late'
             PROVE  /\ AllPushed'
                    /\ Queued' = <<>> \/ \E v \in Resolvers : StaysToPop(v)'
  BY DEF LateInv
<1> USE Roles DEF Goto
<1>0. TypeOK
  BY DEF Good
<1>1. CASE late
  <2>1. AllPushed /\ AllPushed'
    BY <1>1, PushesEnd DEF LateInv
  <2>2. \A i \in Requesters : ~PushStore(i)
    BY <2>1 DEF AllPushed, DonePushing, PushStore
  <2>3. CASE Queued = <<>>
    BY <2>1, <2>2, <2>3, QueueStep
  <2>4. ASSUME NEW w \in Resolvers, StaysToPop(w), Queued # <<>>
        PROVE  Queued' = <<>> \/ \E v \in Resolvers : StaysToPop(v)'
    <3>1. ASSUME NEW i \in Requesters, request(i)
          PROVE  StaysToPop(w)'
      <4>1. LockLog(i) \/ WriteLog(i)
        BY <2>1, <3>1 DEF request, Scan, ScanCrash, PushStore, PushAdvance,
                          AllPushed, DonePushing
      <4>2. /\ pc'[w] = pc[w] /\ peek' = peek /\ front' = front /\ rear' = rear
        BY <1>0, <4>1 DEF LockLog, WriteLog, TypeOK, queue
      <4> QED
        BY <2>4, <4>2 DEF StaysToPop
    <3>2. ASSUME NEW v \in Resolvers, resolve(v)
          PROVE  \E u \in Resolvers : StaysToPop(u)'
      BY <2>1, <2>4, <3>2, ResolverStays
    <3>3. CASE JoinResolvers
      <4>1. \A t \in Threads : pc[t] = "done"
        BY <3>3 DEF JoinResolvers, Joined, Good, JoinInv
      <4> QED
        BY <2>4, <4>1 DEF StaysToPop
    <3>4. CASE JoinRequesters \/ UNCHANGED vars
      <4>1. UNCHANGED <<pc, peek, front, rear>>
        BY <3>4 DEF JoinRequesters, vars, queue
      <4> QED
        BY <2>4, <4>1 DEF StaysToPop
    <3> QED
      BY <2>4, <3>1, <3>2, <3>3, <3>4 DEF Next, Ended
  <2> QED
    BY <1>1, <2>1, <2>3, <2>4 DEF LateInv
<1>2. CASE ~late
  <2>1. PICK v \in Resolvers : resolve(v) /\ LoadFront(v) /\ AllPushed
    <3>1. late' # late
      BY <1>2
    <3>2. ASSUME NEW i \in Requesters, request(i)
          PROVE  FALSE
      BY <3>1, <3>2 DEF request, Scan, ScanCrash, PushStore, PushAdvance,
                        LockLog, WriteLog, history
    <3>3. ~(JoinRequesters \/ JoinResolvers \/ UNCHANGED vars)
      BY <3>1 DEF JoinRequesters, JoinResolvers, vars, history
    <3>4. ASSUME NEW v \in Resolvers, resolve(v)
          PROVE  LoadFront(v) /\ AllPushed
      BY <1>2, <3>1, <3>4 DEF resolve, LoadFront, CompareRear, LoadIndex,
            LoadPayload, LoadExist, PopTake, PopAdvance, LockOutput,
            WriteOutput, history, AllPushed
    <3> QED
      BY <3>2, <3>3, <3>4 DEF Next, Ended
  <2>2. AllPushed'
    BY <2>1, PushesEnd
  <2>3. pc'[v] = "rear" /\ peek'[v] = front /\ front' = front
    BY <1>0, <2>1 DEF LoadFront, TypeOK, queue
  <2> QED
    BY <2>2, <2>3 DEF StaysToPop
<1> QED
  BY <1>1, <1>2

----------------------------------------------------------------------------
(* Sequences without repetition *)

Elems(q) == {q[k] : k \in DOMAIN q}
Distinct(q) == \A k, m \in DOMAIN q : q[k] = q[m] => k = m

\* Appending a new element adds it.
LEMMA AppendDistinct ==
    ASSUME NEW q \in Seq(Payloads), NEW x \in Payloads,
           Distinct(q), x \notin Elems(q), NEW r, r = Append(q, x)
    PROVE  Distinct(r) /\ Elems(r) = Elems(q) \cup {x}
<1>1. /\ DOMAIN r = DOMAIN q \cup {Len(q) + 1}
      /\ r[Len(q) + 1] = x
      /\ \A k \in DOMAIN q : r[k] = q[k]
  OBVIOUS
<1> QED
  BY <1>1 DEF Distinct, Elems

\* Taking the head removes it, as it occurs nowhere else.
LEMMA TailDistinct ==
    ASSUME NEW q \in Seq(Payloads), q # <<>>, Distinct(q),
           NEW r, r = Tail(q)
    PROVE  /\ Distinct(r) /\ Elems(r) = Elems(q) \ {Head(q)}
           /\ Head(q) \in Elems(q)
<1>1. /\ DOMAIN q = 1 .. Len(q) /\ Len(q) \in Nat \ {0}
      /\ DOMAIN r = 1 .. Len(q) - 1
      /\ \A k \in DOMAIN r : r[k] = q[k + 1]
      /\ Head(q) = q[1]
  OBVIOUS
<1>2. Distinct(r)
  BY <1>1 DEF Distinct
<1>3. Elems(r) \subseteq Elems(q) \ {Head(q)}
  <2> SUFFICES ASSUME NEW k \in DOMAIN r
               PROVE  r[k] \in Elems(q) \ {Head(q)}
    BY DEF Elems
  <2>1. k + 1 \in DOMAIN q /\ k + 1 # 1 /\ 1 \in DOMAIN q
    BY <1>1
  <2> QED
    BY <1>1, <2>1 DEF Elems, Distinct
<1>4. Elems(q) \ {Head(q)} \subseteq Elems(r)
  <2> SUFFICES ASSUME NEW k \in DOMAIN q, q[k] # Head(q)
               PROVE  q[k] \in Elems(r)
    BY DEF Elems
  <2>1. k - 1 \in DOMAIN r /\ (k - 1) + 1 = k
    BY <1>1
  <2>2. PICK m \in DOMAIN r : m + 1 = k
    BY <2>1
  <2> QED
    BY <1>1, <2>2 DEF Elems
<1>5. Head(q) \in Elems(q)
  BY <1>1 DEF Elems
<1> QED
  BY <1>2, <1>3, <1>4, <1>5

----------------------------------------------------------------------------
(* One place for each name *)

\* EachNameInOnePlace, in parts the provers handle well.
OnePlace(P) ==
    \A p \in Payloads : \E n \in 1 .. 6 : \A m \in 1 .. 6 : p \in P[m] <=> m = n

HandsDiffer ==
    \A t, u \in Threads : domain[t] = domain[u] /\ t # u => domain[t] = NULL

LinesOnce == \A p \in Payloads : lines[p] <= 1

NamesInv ==
    OnePlace(Places) /\ HandsDiffer /\ Distinct(Queued) /\ LinesOnce

\* The parts are the property.
LEMMA NamesInvIs ==
    NamesInv <=> EachNameInOnePlace
<1>1. DOMAIN Places = 1 .. 6
  BY DEF Places
<1>2. OnePlace(Places) <=>
        \A p \in Payloads :
           \E n \in DOMAIN Places : {m \in DOMAIN Places : p \in Places[m]} = {n}
  BY <1>1 DEF OnePlace
<1> QED
  BY <1>2 DEF NamesInv, EachNameInOnePlace, HandsDiffer, Distinct, LinesOnce

\* Moving names that are in one place to another keeps each in one place.
LEMMA Moved ==
    ASSUME NEW P, NEW Q, OnePlace(P), NEW from \in 1 .. 6, NEW to \in 1 .. 6,
           from # to, NEW S, S \subseteq P[from],
           Q[from] = P[from] \ S, Q[to] = P[to] \cup S,
           \A m \in 1 .. 6 : m # from /\ m # to => Q[m] = P[m]
    PROVE  OnePlace(Q)
<1> SUFFICES ASSUME NEW p \in Payloads
             PROVE  \E n \in 1 .. 6 : \A m \in 1 .. 6 : p \in Q[m] <=> m = n
  BY DEF OnePlace
<1>1. PICK n \in 1 .. 6 : \A m \in 1 .. 6 : p \in P[m] <=> m = n
  BY DEF OnePlace
<1>2. CASE p \in S
  <2>1. n = from
    BY <1>1, <1>2
  <2>2. \A m \in 1 .. 6 : p \in Q[m] <=> m = to
    BY <1>1, <1>2, <2>1
  <2> QED
    BY <2>2
<1>3. CASE p \notin S
  <2>1. \A m \in 1 .. 6 : p \in Q[m] <=> m = n
    BY <1>1, <1>3
  <2> QED
    BY <2>1
<1> QED
  BY <1>2, <1>3

\* In particular a single name.
LEMMA MovedOne ==
    ASSUME NEW P, NEW Q, OnePlace(P), NEW from \in 1 .. 6, NEW to \in 1 .. 6,
           from # to, NEW x, x \in P[from],
           Q[from] = P[from] \ {x}, Q[to] = P[to] \cup {x},
           \A m \in 1 .. 6 : m # from /\ m # to => Q[m] = P[m]
    PROVE  OnePlace(Q)
<1>1. PICK S : S = {x}
  OBVIOUS
<1>2. S \subseteq P[from] /\ Q[from] = P[from] \ S /\ Q[to] = P[to] \cup S
  BY <1>1
<1> QED
  BY <1>2, Moved

\* The contents are a sequence of names, and InQueue its elements.
LEMMA QueuedNames ==
    Good => Queued \in Seq(Payloads) /\ InQueue = Elems(Queued)
  BY GoodIsGoodRing, ContentsAt DEF Good, Queued, InQueue, Elems

\* A name is in no second place.
LEMMA OnlyThere ==
    ASSUME NEW P, OnePlace(P), NEW p \in Payloads,
           NEW n \in 1 .. 6, NEW m \in 1 .. 6, p \in P[n], n # m
    PROVE  p \notin P[m]
  BY DEF OnePlace

\* Only queue_cleanup discards, and it leaves nothing.
DiscardInv ==
    /\ main \in {"requesters", "resolvers"} => discarded = {}
    /\ main = "returned" => Queued = <<>>

\* A step that moves no name.
LEMMA NamesStay ==
    ASSUME NamesInv, Queued' = Queued,
           UNCHANGED <<scanned, domain, lines, refused, discarded>>
    PROVE  NamesInv'
  BY DEF NamesInv, OnePlace, Places, Unread, InHand, InQueue, Written,
         HandsDiffer, LinesOnce

\* fscanf takes the next name of the file in hand.
LEMMA NamesScan ==
    ASSUME Good, NamesInv, [Next]_vars, NEW i \in Requesters, Scan(i)
    PROVE  NamesInv'
<1> USE Roles
<1>0. /\ TypeOK /\ OnePlace(Places) /\ HandsDiffer
      /\ Distinct(Queued) /\ LinesOnce
  BY DEF Good, NamesInv
<1>1. Queued' = Queued
  BY QueueSame DEF Scan, queue
<1>2. /\ lines' = lines /\ refused' = refused /\ discarded' = discarded
  BY DEF Scan, history
<1>3. CASE scanned[i] = nameCount[i]
  <2>1. UNCHANGED <<scanned, domain>>
    BY <1>0, <1>3, InputAssumption, ThreadAssumption DEF Scan, TypeOK, Requesters
  <2> QED
    BY <1>1, <1>2, <2>1, NamesStay
<1>4. CASE scanned[i] # nameCount[i]
  <2>1. /\ scanned[i] < nameCount[i]
        /\ scanned' = [scanned EXCEPT ![i] = @ + 1]
        /\ domain' = [domain EXCEPT ![i] = <<i, scanned[i] + 1>>]
    BY <1>4 DEF Scan
  <2>2. PICK x \in Payloads : x = <<i, scanned[i] + 1>> /\ x # NULL
    BY <1>0, <2>1, ScannedName
  <2>3. domain[i] = NULL
    BY DEF Scan, Good, HandInv
  <2>4. x \in Unread
    BY <1>0, <2>2 DEF Unread, TypeOK
  <2>5. x \notin InHand
    <3>1. Places[1] = Unread /\ Places[2] = InHand
      BY DEF Places
    <3> QED
      BY <1>0, <2>4, <3>1, OnlyThere
  <2>6. InHand' = InHand \cup {x}
    BY <1>0, <2>1, <2>2, <2>3 DEF InHand, TypeOK
  <2>7. HandsDiffer'
    BY <1>0, <2>1, <2>2, <2>5 DEF HandsDiffer, InHand, TypeOK
  <2>8. Unread' = Unread \ {x}
    <3>1. ASSUME NEW p \in Payloads
          PROVE  p \in Unread' <=> p \in Unread /\ p # x
      <4>1. /\ p = <<p[1], p[2]>> /\ p[2] \in Nat
        BY InputAssumption
      <4>2. CASE p[1] = i
        <5>1. p # x <=> p[2] # scanned[i] + 1
          BY <2>2, <4>1, <4>2
        <5>2. scanned'[i] = scanned[i] + 1 /\ scanned[i] \in Nat
          BY <1>0, <2>1 DEF TypeOK
        <5> QED
          BY <4>1, <4>2, <5>1, <5>2 DEF Unread
      <4>3. CASE p[1] # i
        <5>1. p # x
          BY <2>2, <4>3
        <5>2. p[1] \in Requesters => scanned'[p[1]] = scanned[p[1]]
          BY <1>0, <2>1, <4>3 DEF TypeOK
        <5> QED
          BY <5>1, <5>2 DEF Unread
      <4> QED
        BY <4>2, <4>3
    <3> QED
      BY <3>1 DEF Unread
  <2>9. OnePlace(Places')
    <3>1. /\ Places[1] = Unread /\ Places'[1] = Unread'
          /\ Places[2] = InHand /\ Places'[2] = InHand'
          /\ \A m \in 1 .. 6 : m # 1 /\ m # 2 => Places'[m] = Places[m]
      BY <1>1, <1>2 DEF Places, InQueue, Written
    <3>2. /\ x \in Places[1]
          /\ Places'[1] = Places[1] \ {x}
          /\ Places'[2] = Places[2] \cup {x}
      BY <2>4, <2>6, <2>8, <3>1
    <3> QED
      BY <1>0, <3>1, <3>2, MovedOne
  <2> QED
    BY <1>0, <1>1, <1>2, <2>7, <2>9 DEF NamesInv, LinesOnce
<1> QED
  BY <1>3, <1>4

\* queue_push takes the name out of the requester's hand, into the queue or
\* into nowhere.
LEMMA NamesPush ==
    ASSUME Good, NamesInv, [Next]_vars, NEW i \in Requesters, PushStore(i)
    PROVE  NamesInv'
<1> USE Roles
<1>0. /\ TypeOK /\ OnePlace(Places) /\ HandsDiffer
      /\ Distinct(Queued) /\ LinesOnce
  BY DEF Good, NamesInv
<1>1. PICK x \in Payloads : x = domain[i] /\ x # NULL
  BY QueuePush, NullAssumption
<1>2. /\ domain' = [domain EXCEPT ![i] = NULL]
      /\ UNCHANGED <<scanned, lines, discarded>>
  BY DEF PushStore
<1>3. InHand' = InHand \ {x} /\ x \in InHand
  BY <1>0, <1>1, <1>2 DEF InHand, HandsDiffer, TypeOK
<1>4. HandsDiffer'
  BY <1>0, <1>2 DEF HandsDiffer, TypeOK
<1>5. /\ Places[2] = InHand /\ Places'[2] = InHand'
      /\ Places[3] = InQueue /\ Places'[3] = InQueue'
      /\ Places[5] = refused /\ Places'[5] = refused'
      /\ \A m \in {1, 4, 6} : Places'[m] = Places[m]
  BY <1>2 DEF Places, Unread, Written
<1>6. x \in Places[2]
  BY <1>3, <1>5
<1>7. CASE IsFull(array, front, rear)
  <2>1. refused' = refused \cup {x} /\ Queued' = Queued
    BY <1>1, <1>7, QueuePush DEF PushStore
  <2>2. InQueue' = InQueue
    BY <2>1 DEF InQueue
  <2>3. /\ Places'[2] = Places[2] \ {x} /\ Places'[5] = Places[5] \cup {x}
        /\ \A m \in 1 .. 6 : m # 2 /\ m # 5 => Places'[m] = Places[m]
    BY <1>3, <1>5, <2>1, <2>2
  <2>4. OnePlace(Places')
    BY <1>0, <1>6, <2>3, MovedOne
  <2> QED
    BY <1>0, <1>2, <1>4, <2>1, <2>4 DEF NamesInv, LinesOnce
<1>8. CASE ~IsFull(array, front, rear)
  <2>1. refused' = refused /\ Queued' = Append(Queued, x)
    BY <1>1, <1>8, QueuePush DEF PushStore
  <2>2. x \notin InQueue
    BY <1>0, <1>3, <1>5, OnlyThere
  <2>3. Distinct(Queued') /\ InQueue' = InQueue \cup {x}
    <3>1. Queued \in Seq(Payloads) /\ InQueue = Elems(Queued)
      BY QueuedNames
    <3>2. Distinct(Queued') /\ Elems(Queued') = Elems(Queued) \cup {x}
      BY <1>0, <2>1, <2>2, <3>1, AppendDistinct
    <3> QED
      BY <3>1, <3>2 DEF InQueue, Elems
  <2>4. /\ Places'[2] = Places[2] \ {x} /\ Places'[3] = Places[3] \cup {x}
        /\ \A m \in 1 .. 6 : m # 2 /\ m # 3 => Places'[m] = Places[m]
    BY <1>3, <1>5, <2>1, <2>3
  <2>5. OnePlace(Places')
    BY <1>0, <1>6, <2>4, MovedOne
  <2> QED
    BY <1>0, <1>2, <1>4, <2>3, <2>5 DEF NamesInv, LinesOnce
<1> QED
  BY <1>7, <1>8

\* queue_pop puts the name into the resolver's hand, which is empty.
LEMMA NamesPop ==
    ASSUME Good, NamesInv, [Next]_vars, NEW v \in Resolvers, PopTake(v)
    PROVE  NamesInv'
<1> USE Roles
<1>0. /\ TypeOK /\ OnePlace(Places) /\ HandsDiffer
      /\ Distinct(Queued) /\ LinesOnce
  BY DEF Good, NamesInv
<1>1. UNCHANGED <<scanned, lines, refused, discarded>>
  BY DEF PopTake, history
<1>2. CASE IsEmpty(array, front, rear)
  <2>1. domain' = domain /\ Queued' = Queued
    BY <1>2, QueuePop DEF PopTake
  <2> QED
    BY <1>1, <2>1, NamesStay
<1>3. CASE ~IsEmpty(array, front, rear)
  <2>1. /\ Queued # <<>> /\ Queued' = Tail(Queued)
        /\ domain'[v] = Head(Queued)
        /\ domain' = [domain EXCEPT ![v] = array[front]]
    BY <1>3, QueuePop DEF PopTake
  <2>2. Queued \in Seq(Payloads) /\ InQueue = Elems(Queued)
    BY QueuedNames
  <2>3. PICK x \in Payloads : x = Head(Queued) /\ x # NULL
    BY <2>1, <2>2, NullAssumption
  <2>4. domain' = [domain EXCEPT ![v] = x]
    BY <1>0, <2>1, <2>3 DEF TypeOK
  <2>5. domain[v] = NULL
    BY DEF PopTake, Good, HandInv
  <2>6. /\ Distinct(Queued') /\ Elems(Queued') = Elems(Queued) \ {x}
        /\ x \in Elems(Queued)
    BY <1>0, <2>1, <2>2, <2>3, TailDistinct
  <2>7. InQueue' = InQueue \ {x} /\ x \in InQueue
    BY <2>2, <2>6 DEF InQueue, Elems
  <2>8. /\ Places[2] = InHand /\ Places'[2] = InHand'
        /\ Places[3] = InQueue /\ Places'[3] = InQueue'
        /\ \A m \in {1, 4, 5, 6} : Places'[m] = Places[m]
    BY <1>1 DEF Places, Unread, Written
  <2>9. x \notin InHand
    BY <1>0, <2>7, <2>8, OnlyThere
  <2>10. InHand' = InHand \cup {x}
    BY <1>0, <2>3, <2>4, <2>5 DEF InHand, TypeOK
  <2>11. HandsDiffer'
    BY <1>0, <2>4, <2>9 DEF HandsDiffer, InHand, TypeOK
  <2>12. /\ Places'[3] = Places[3] \ {x} /\ Places'[2] = Places[2] \cup {x}
         /\ \A m \in 1 .. 6 : m # 3 /\ m # 2 => Places'[m] = Places[m]
         /\ x \in Places[3]
    BY <2>7, <2>8, <2>10
  <2>13. OnePlace(Places')
    BY <1>0, <2>12, MovedOne
  <2> QED
    BY <1>0, <1>1, <2>6, <2>11, <2>13 DEF NamesInv, LinesOnce
<1> QED
  BY <1>2, <1>3

\* The line of a name is written by the one thread that has it in hand.
LEMMA NamesWrite ==
    ASSUME Good, NamesInv, [Next]_vars, NEW v \in Resolvers, WriteOutput(v)
    PROVE  NamesInv'
<1> USE Roles
<1>0. /\ TypeOK /\ OnePlace(Places) /\ HandsDiffer
      /\ Distinct(Queued) /\ LinesOnce
  BY DEF Good, NamesInv
<1>1. /\ UNCHANGED <<scanned, refused, discarded>>
      /\ domain' = [domain EXCEPT ![v] = NULL]
      /\ Queued' = Queued
  BY QueueSame DEF WriteOutput, queue
<1>2. CASE domain[v] = NULL
  <2>1. domain' = domain /\ lines' = lines
    BY <1>0, <1>1, <1>2 DEF WriteOutput, TypeOK
  <2> QED
    BY <1>1, <2>1, NamesStay
<1>3. CASE domain[v] # NULL
  <2>1. PICK x \in Payloads : x = domain[v] /\ x # NULL
    BY <1>0, <1>3 DEF TypeOK
  <2>2. lines' = [lines EXCEPT ![x] = @ + 1]
    BY <1>3, <2>1 DEF WriteOutput
  <2>3. InHand' = InHand \ {x} /\ x \in InHand
    BY <1>0, <1>1, <2>1 DEF InHand, HandsDiffer, TypeOK
  <2>4. HandsDiffer'
    BY <1>0, <1>1 DEF HandsDiffer, TypeOK
  <2>5. /\ Places[2] = InHand /\ Places'[2] = InHand'
        /\ Places[4] = Written /\ Places'[4] = Written'
        /\ \A m \in {1, 3, 5, 6} : Places'[m] = Places[m]
    BY <1>1 DEF Places, Unread, InQueue
  <2>6. x \notin Written
    BY <1>0, <2>3, <2>5, OnlyThere
  <2>7. lines \in [Payloads -> Nat]
    BY <1>0 DEF TypeOK
  <2>8. lines[x] = 0
    BY <2>6, <2>7 DEF Written
  <2>9. /\ lines'[x] = 1
        /\ \A p \in Payloads : p # x => lines'[p] = lines[p]
    BY <2>2, <2>7, <2>8
  <2>10. Written' = Written \cup {x} /\ LinesOnce'
    BY <1>0, <2>9 DEF Written, LinesOnce
  <2>11. /\ Places'[2] = Places[2] \ {x} /\ Places'[4] = Places[4] \cup {x}
         /\ \A m \in 1 .. 6 : m # 2 /\ m # 4 => Places'[m] = Places[m]
         /\ x \in Places[2]
    BY <2>3, <2>5, <2>10
  <2>12. OnePlace(Places')
    BY <1>0, <2>11, MovedOne
  <2> QED
    BY <1>0, <1>1, <2>4, <2>10, <2>12 DEF NamesInv
<1> QED
  BY <1>2, <1>3

\* queue_cleanup drops what is in the queue, and nothing else.
LEMMA DropIsQueue ==
    ASSUME Good, [Next]_vars, JoinResolvers
    PROVE  discarded' = InQueue
<1>1. Queued = Contents(array, front, rear)
  BY QueueDrop DEF Queued
<1>2. GoodRing(array, front, rear)
  BY QueueDrop, RingView
<1>3. {array[s] : s \in Slots} \ {NULL}
        = {Contents(array, front, rear)[k] : k \in DOMAIN Contents(array, front, rear)}
  BY <1>2, ContentsRange
<1> QED
  BY <1>1, <1>3 DEF JoinResolvers, InQueue

\* So what was in the queue is now discarded.
LEMMA NamesDrop ==
    ASSUME Good, NamesInv, DiscardInv, [Next]_vars, JoinResolvers
    PROVE  NamesInv'
<1>0. OnePlace(Places) /\ HandsDiffer /\ LinesOnce
  BY DEF NamesInv
<1>1. /\ discarded' = InQueue /\ discarded = {}
      /\ Queued' = <<>>
      /\ UNCHANGED <<scanned, domain, lines, refused>>
  BY DropIsQueue, QueueDrop DEF JoinResolvers, DiscardInv
<1>2. InQueue' = {} /\ Distinct(Queued')
  BY <1>1 DEF InQueue, Distinct
<1>3. /\ Places[3] = InQueue /\ Places'[3] = InQueue'
      /\ Places[6] = discarded /\ Places'[6] = discarded'
      /\ \A m \in {1, 2, 4, 5} : Places'[m] = Places[m]
  BY <1>1 DEF Places, Unread, InHand, Written
<1>4. PICK S : S = InQueue
  OBVIOUS
<1>5. /\ S \subseteq Places[3]
      /\ Places'[3] = Places[3] \ S /\ Places'[6] = Places[6] \cup S
      /\ \A m \in 1 .. 6 : m # 3 /\ m # 6 => Places'[m] = Places[m]
  BY <1>1, <1>2, <1>3, <1>4
<1>6. OnePlace(Places')
  BY <1>0, <1>5, Moved
<1> QED
  BY <1>0, <1>1, <1>2, <1>6 DEF NamesInv, HandsDiffer, LinesOnce

\* No step drops or doubles a name.
LEMMA NamesStep ==
    Good /\ DiscardInv /\ NamesInv /\ [Next]_vars => NamesInv'
<1> SUFFICES ASSUME Good, DiscardInv, NamesInv, [Next]_vars
             PROVE  NamesInv'
  OBVIOUS
<1>1. ASSUME NEW i \in Requesters, request(i)
      PROVE  NamesInv'
  <2>1. CASE ScanCrash(i) \/ PushAdvance(i) \/ LockLog(i) \/ WriteLog(i)
    <3>1. UNCHANGED <<scanned, domain, lines, refused, discarded>>
      BY <2>1 DEF ScanCrash, PushAdvance, LockLog, WriteLog, history
    <3>2. Queued' = Queued
      BY <2>1, QueueSame, QueueAdvance DEF ScanCrash, LockLog, WriteLog, queue
    <3> QED
      BY <3>1, <3>2, NamesStay
  <2> QED
    BY <1>1, <2>1, NamesScan, NamesPush DEF request
<1>2. ASSUME NEW v \in Resolvers, resolve(v)
      PROVE  NamesInv'
  <2>1. CASE \/ LoadFront(v) \/ CompareRear(v) \/ LoadIndex(v) \/ LoadPayload(v)
             \/ LoadExist(v) \/ PopAdvance(v) \/ LockOutput(v)
    <3>1. UNCHANGED <<scanned, domain, lines, refused, discarded>>
      BY <2>1 DEF LoadFront, CompareRear, LoadIndex, LoadPayload, LoadExist,
                  PopAdvance, LockOutput, history
    <3>2. Queued' = Queued
      BY <2>1, QueueSame, QueueAdvance
         DEF LoadFront, CompareRear, LoadIndex, LoadPayload, LoadExist,
             LockOutput, queue
    <3> QED
      BY <3>1, <3>2, NamesStay
  <2> QED
    BY <1>2, <2>1, NamesPop, NamesWrite DEF resolve
<1>3. CASE JoinRequesters \/ UNCHANGED vars
  <2>1. UNCHANGED <<array, front, rear, buffmutex, scanned, domain, lines, refused,
                    discarded>>
    BY <1>3 DEF JoinRequesters, vars, queue, history
  <2> QED
    BY <2>1, QueueSame, NamesStay
<1> QED
  BY <1>1, <1>2, <1>3, NamesDrop DEF Next, Ended

----------------------------------------------------------------------------
(* The end *)

\* A requester that got past its loop has read its whole file.
ScanInv ==
    \A i \in Requesters :
        /\ scanned[i] <= nameCount[i]
        /\ DonePushing(i) => scanned[i] = nameCount[i]

\* ScanInv is inductive.
LEMMA ScanStep ==
    Good /\ ScanInv /\ [Next]_vars => ScanInv'
<1> SUFFICES ASSUME Good, ScanInv, [Next]_vars
             PROVE  ScanInv'
  OBVIOUS
<1> USE Roles DEF Goto, DonePushing
<1>0. TypeOK
  BY DEF Good
<1>1. ASSUME NEW i \in Requesters, request(i)
      PROVE  ScanInv'
  <2>1. CASE Scan(i)
    <3>1. i \in DOMAIN nameCount /\ nameCount[i] \in Nat /\ scanned[i] \in Nat
      BY <1>0, InputAssumption, ThreadAssumption DEF Requesters, TypeOK
    <3>2. CASE scanned[i] < nameCount[i]
      <4>1. /\ scanned' = [scanned EXCEPT ![i] = @ + 1]
            /\ pc' = [pc EXCEPT ![i] = "push"]
        BY <2>1, <3>1, <3>2 DEF Scan
      <4> QED
        BY <1>0, <3>1, <3>2, <4>1 DEF ScanInv, TypeOK
    <3>3. CASE ~(scanned[i] < nameCount[i])
      <4>1. /\ scanned[i] = nameCount[i] /\ scanned' = scanned
            /\ pc' = [pc EXCEPT ![i] = "log"]
        BY <2>1, <3>3 DEF Scan
      <4> QED
        BY <1>0, <3>1, <4>1 DEF ScanInv, TypeOK
    <3> QED
      BY <3>2, <3>3
  <2>2. CASE ScanCrash(i)
    BY <2>2 DEF ScanCrash, ScanInv
  <2>3. CASE PushStore(i) \/ PushAdvance(i)
    <3>1. scanned' = scanned
      BY <2>3 DEF PushStore, PushAdvance
    <3>2. pc'[i] \in {"scan", "advance"}
      BY <1>0, <2>3 DEF PushStore, PushAdvance, TypeOK
    <3>3. \A k \in Requesters : k # i => pc'[k] = pc[k]
      BY <1>0, <2>3 DEF PushStore, PushAdvance, TypeOK
    <3> QED
      BY <3>1, <3>2, <3>3 DEF ScanInv
  <2>4. CASE LockLog(i) \/ WriteLog(i)
    <3>1. scanned' = scanned /\ DonePushing(i)
      BY <2>4 DEF LockLog, WriteLog
    <3>2. \A k \in Requesters : k # i => pc'[k] = pc[k]
      BY <1>0, <2>4 DEF LockLog, WriteLog, TypeOK
    <3> QED
      BY <3>1, <3>2 DEF ScanInv
  <2> QED
    BY <1>1, <2>1, <2>2, <2>3, <2>4 DEF request
<1>2. ASSUME NEW v \in Resolvers, resolve(v)
      PROVE  ScanInv'
  <2>1. /\ \E label : pc' = [pc EXCEPT ![v] = label]
        /\ scanned' = scanned
    BY <1>2 DEF resolve, LoadFront, CompareRear, LoadIndex, LoadPayload,
                LoadExist, PopTake, PopAdvance, LockOutput, WriteOutput
  <2>2. \A i \in Requesters : pc'[i] = pc[i]
    BY <1>0, <2>1 DEF TypeOK
  <2> QED
    BY <2>1, <2>2 DEF ScanInv
<1>3. CASE JoinRequesters \/ JoinResolvers \/ UNCHANGED vars
  BY <1>3 DEF JoinRequesters, JoinResolvers, vars, ScanInv
<1> QED
  BY <1>1, <1>2, <1>3 DEF Next, Ended

\* Once main has returned, every thread is done and nothing changes.
LEMMA ReturnedStays ==
    ASSUME Good, [Next]_vars, main = "returned"
    PROVE  UNCHANGED vars
<1>1. \A t \in Threads : pc[t] = "done"
  BY Roles DEF Good, JoinInv, Joined
<1>2. ASSUME NEW i \in Requesters, request(i)
      PROVE  FALSE
  BY <1>1, <1>2, Roles DEF request, Scan, ScanCrash, PushStore, PushAdvance,
                           LockLog, WriteLog
<1>3. ASSUME NEW v \in Resolvers, resolve(v)
      PROVE  FALSE
  BY <1>1, <1>3, Roles DEF resolve, LoadFront, CompareRear, LoadIndex,
       LoadPayload, LoadExist, PopTake, PopAdvance, LockOutput, WriteOutput
<1> QED
  BY <1>2, <1>3 DEF Next, Ended, JoinRequesters, JoinResolvers

\* DiscardInv is inductive.
LEMMA DiscardStep ==
    Good /\ DiscardInv /\ [Next]_vars => DiscardInv'
<1> SUFFICES ASSUME Good, DiscardInv, [Next]_vars
             PROVE  DiscardInv'
  OBVIOUS
<1>1. CASE main = "returned"
  <2>1. Queued' = Queued /\ main' = main
    BY <1>1, ReturnedStays, QueueSame DEF vars, queue
  <2> QED
    BY <1>1, <2>1 DEF DiscardInv
<1>2. CASE JoinResolvers
  BY <1>2, QueueDrop DEF JoinResolvers, DiscardInv
<1>3. CASE main # "returned" /\ ~JoinResolvers
  <2>1. discarded' = discarded /\ main' \in {main, "crashed", "resolvers"}
    <3>1. ASSUME NEW i \in Requesters, request(i)
          PROVE  discarded' = discarded /\ main' \in {main, "crashed"}
      BY <3>1 DEF request, Scan, ScanCrash, PushStore, PushAdvance, LockLog,
                  WriteLog, history
    <3>2. ASSUME NEW v \in Resolvers, resolve(v)
          PROVE  discarded' = discarded /\ main' = main
      BY <3>2 DEF resolve, LoadFront, CompareRear, LoadIndex, LoadPayload,
           LoadExist, PopTake, PopAdvance, LockOutput, WriteOutput, history
    <3>3. CASE JoinRequesters \/ UNCHANGED vars
      BY <3>3 DEF JoinRequesters, vars, history
    <3> QED
      BY <1>3, <3>1, <3>2, <3>3 DEF Next, Ended
  <2>2. main' = "resolvers" => main \in {"requesters", "resolvers"}
    <3>1. ASSUME NEW i \in Requesters, request(i)
          PROVE  main # "crashed" /\ main' \in {main, "crashed"}
      BY <3>1 DEF request, Scan, ScanCrash, PushStore, PushAdvance, LockLog,
                  WriteLog
    <3>2. ASSUME NEW v \in Resolvers, resolve(v)
          PROVE  main' = main
      BY <3>2 DEF resolve, LoadFront, CompareRear, LoadIndex, LoadPayload,
           LoadExist, PopTake, PopAdvance, LockOutput, WriteOutput
    <3>3. CASE JoinRequesters \/ UNCHANGED vars
      BY <3>3 DEF JoinRequesters, vars
    <3> QED
      BY <1>3, <3>1, <3>2, <3>3 DEF Next, Ended
  <2> QED
    BY <1>3, <2>1, <2>2 DEF DiscardInv
<1> QED
  BY <1>1, <1>2, <1>3

\* The files hold finitely many names.
LEMMA FinitelyManyNames ==
    IsFiniteSet(Payloads)
<1> DEFINE File(i) == {i} \X (1 .. nameCount[i])
           Files == {File(i) : i \in DOMAIN nameCount}
<1>1. IsFiniteSet(DOMAIN nameCount)
  <2>1. DOMAIN nameCount = 1 .. Len(nameCount) /\ Len(nameCount) \in Nat
    BY InputAssumption
  <2> QED
    BY <2>1, FS_Interval
<1>2. ASSUME NEW i \in DOMAIN nameCount
      PROVE  IsFiniteSet(File(i))
  <2>1. nameCount[i] \in Nat
    BY InputAssumption
  <2>2. IsFiniteSet(1 .. nameCount[i]) /\ IsFiniteSet({i})
    <3>1. IsFiniteSet(1 .. nameCount[i])
      BY <2>1, FS_Interval, 1 \in Int
    <3>2. IsFiniteSet({i})
      BY ONLY FS_Singleton
    <3> QED
      BY <3>1, <3>2
  <2>3. PICK S, T : S = {i} /\ T = 1 .. nameCount[i]
    OBVIOUS
  <2>4. IsFiniteSet(S \X T)
    BY <2>2, <2>3, FS_Product
  <2>5. S \X T = File(i)
    BY <2>3
  <2> QED
    BY <2>4, <2>5
<1> HIDE DEF File
<1>3. IsFiniteSet(Files)
  <2> DEFINE f == [i \in DOMAIN nameCount |-> File(i)]
  <2>1. f \in Surjection(DOMAIN nameCount, Files)
    BY DEF Surjection
  <2> QED
    BY <1>1, <2>1, FS_Surjection
<1>4. IsFiniteSet(UNION Files)
  BY <1>2, <1>3, FS_UNION
<1> QED
  BY <1>4, InputAssumption DEF File

\* A queue of different names has as many names as places.
LEMMA DistinctCount ==
    ASSUME NEW q \in Seq(Payloads), Distinct(q)
    PROVE  Cardinality(Elems(q)) = Len(q)
<1>1. /\ DOMAIN q = 1 .. Len(q) /\ Len(q) \in Nat
      /\ q \in [1 .. Len(q) -> Elems(q)]
  BY DEF Elems
<1>2. q \in Bijection(1 .. Len(q), Elems(q))
  BY <1>1 DEF Bijection, Injection, Surjection, IsInjective, Distinct, Elems
<1> QED
  BY <1>1, <1>2, FS_CountingElements DEF ExistsBijection

\* A full queue, the names refused before and the name refused now are
\* different names.
LEMMA RefuseStep ==
    Good /\ NamesInv /\ DiscardInv /\ RefusesOnlyExcess /\ [Next]_vars => RefusesOnlyExcess'
<1> SUFFICES ASSUME Good, NamesInv, DiscardInv, RefusesOnlyExcess, [Next]_vars
             PROVE  RefusesOnlyExcess'
  OBVIOUS
<1>1. CASE refused' = refused
  BY <1>1 DEF RefusesOnlyExcess
<1>2. CASE refused' # refused
  <2>1. PICK i \in Requesters : PushStore(i) /\ IsFull(array, front, rear)
    <3>1. ASSUME NEW i \in Requesters, request(i)
          PROVE  PushStore(i) /\ IsFull(array, front, rear)
      BY <1>2, <3>1 DEF request, Scan, ScanCrash, PushStore, PushAdvance, LockLog,
                  WriteLog, history
    <3>2. ASSUME NEW v \in Resolvers, resolve(v)
          PROVE  FALSE
      BY <1>2, <3>2 DEF resolve, LoadFront, CompareRear, LoadIndex, LoadPayload,
           LoadExist, PopTake, PopAdvance, LockOutput, WriteOutput, history
    <3>3. ~(JoinRequesters \/ JoinResolvers \/ UNCHANGED vars)
      BY <1>2 DEF JoinRequesters, JoinResolvers, vars, history
    <3> QED
      BY <3>1, <3>2, <3>3 DEF Next, Ended
  <2>2. Queued' = Queued
    BY <2>1, QueuePush
  <2>3. NamesInv' /\ (Good)'
    BY NamesStep, StepGood
  <2>4. Cardinality(InQueue) = maxSize
    <3>1. buffmutex = NULL
      BY <2>1 DEF PushStore, Unlocked
    <3>2. PoppedFront = front /\ PushedRear = rear
      BY <3>1, RingView, Roles
    <3>3. GoodRing(array, front, rear)
      BY <3>2, RingView
    <3>4. Queued \in Seq(Payloads) /\ Len(Queued) = maxSize
      BY <2>1, <3>2, <3>3, ContentsAt, TestsByCount DEF Queued
    <3> QED
      BY <3>4, DistinctCount, QueuedNames DEF NamesInv
  <2>5. InQueue \subseteq Payloads /\ refused' \subseteq Payloads
    <3>1. InQueue \subseteq Payloads
      BY QueuedNames DEF Elems
    <3> QED
      BY <2>3, <3>1 DEF Good, TypeOK
  <2>6. InQueue \cap refused' = {}
    <3>1. Places'[3] = InQueue /\ Places'[5] = refused'
      BY <2>2 DEF Places, InQueue
    <3>2. OnePlace(Places')
      BY <2>3 DEF NamesInv, OnePlace
    <3>3. \A p \in Payloads : p \in Places'[3] => p \notin Places'[5]
      BY <3>2, OnlyThere
    <3> QED
      BY <2>5, <3>1, <3>3
  <2>7. Cardinality(InQueue) + Cardinality(refused') <= Cardinality(Payloads)
    <3>1. ~(Cardinality(InQueue) + Cardinality(refused') > Cardinality(Payloads))
      BY <2>5, <2>6, FinitelyManyNames, FS_MajoritiesIntersect
    <3>2. /\ Cardinality(InQueue) \in Nat /\ Cardinality(refused') \in Nat
          /\ Cardinality(Payloads) \in Nat
      BY <2>5, FinitelyManyNames, FS_Subset, FS_CardinalityType
    <3> QED
      BY <3>1, <3>2
  <2> QED
    BY <2>4, <2>7, SizeAssumption, FinitelyManyNames, FS_Subset, FS_CardinalityType, <2>5
       DEF RefusesOnlyExcess
<1> QED
  BY <1>1, <1>2

\* When a test began late, every name was popped before the resolvers ended.
LEMMA DrainStep ==
    Good /\ LateInv /\ DrainedByLateTest /\ [Next]_vars => DrainedByLateTest'
<1> SUFFICES ASSUME Good, LateInv, DrainedByLateTest, [Next]_vars,
                    main' = "returned", late'
             PROVE  discarded' = {}
  BY DEF DrainedByLateTest
<1>1. CASE main = "returned"
  BY <1>1, ReturnedStays DEF vars, history, DrainedByLateTest
<1>2. CASE main # "returned"
  <2>1. JoinResolvers
    <3>1. ASSUME NEW i \in Requesters, request(i)
          PROVE  main' \in {main, "crashed"}
      BY <3>1 DEF request, Scan, ScanCrash, PushStore, PushAdvance, LockLog,
                  WriteLog
    <3>2. ASSUME NEW v \in Resolvers, resolve(v)
          PROVE  main' = main
      BY <3>2 DEF resolve, LoadFront, CompareRear, LoadIndex, LoadPayload,
           LoadExist, PopTake, PopAdvance, LockOutput, WriteOutput
    <3>3. CASE JoinRequesters \/ UNCHANGED vars
      BY <1>2, <3>3 DEF JoinRequesters, vars
    <3> QED
      BY <1>2, <3>1, <3>2, <3>3 DEF Next, Ended
  <2>2. late
    BY <2>1 DEF JoinResolvers
  <2>3. \A v \in Resolvers : pc[v] = "done"
    BY <2>1 DEF JoinResolvers, Joined
  <2>4. Queued = <<>>
    BY <2>2, <2>3 DEF LateInv, StaysToPop
  <2>5. InQueue = {}
    BY <2>4 DEF InQueue
  <2> QED
    BY <2>1, <2>5, DropIsQueue
<1> QED
  BY <1>1, <1>2

\* Everything together.
NamesGood ==
    /\ Good /\ LateInv /\ DiscardInv /\ ScanInv /\ NamesInv
    /\ RefusesOnlyExcess /\ DrainedByLateTest

\* At first every name is unread.
LEMMA InitNames ==
    Init => NamesGood
<1> SUFFICES ASSUME Init
             PROVE  NamesGood
  OBVIOUS
<1>1. Good /\ Queued = <<>>
  BY InitGood
<1>2. LateInv /\ DiscardInv /\ RefusesOnlyExcess /\ DrainedByLateTest
  BY DEF Init, LateInv, DiscardInv, RefusesOnlyExcess, DrainedByLateTest
<1>3. ScanInv
  BY InputAssumption, ThreadAssumption, Roles
     DEF Init, ScanInv, Requesters, DonePushing
<1>4. NamesInv
  <2>1. InHand = {} /\ InQueue = {} /\ Written = {} /\ refused = {} /\ discarded = {}
    BY <1>1 DEF Init, InHand, InQueue, Written
  <2>2. Unread = Payloads
    <3>1. ASSUME NEW p \in Payloads
          PROVE  p[1] \in Requesters => p[2] > scanned[p[1]]
      <4>1. p[2] \in Nat \ {0}
        BY InputAssumption
      <4> QED
        BY <4>1 DEF Init
    <3> QED
      BY <3>1 DEF Unread
  <2>3. OnePlace(Places)
    <3>1. /\ Places[1] = Payloads
          /\ \A m \in 1 .. 6 : m # 1 => Places[m] = {}
      BY <2>1, <2>2 DEF Places
    <3> QED
      BY <3>1 DEF OnePlace
  <2>4. HandsDiffer /\ Distinct(Queued) /\ LinesOnce
    BY <1>1 DEF Init, HandsDiffer, Distinct, LinesOnce
  <2> QED
    BY <2>3, <2>4 DEF NamesInv
<1> QED
  BY <1>1, <1>2, <1>3, <1>4 DEF NamesGood

\* And it stays so.
LEMMA AlwaysNamesGood ==
    Spec => []NamesGood
<1>1. Init => NamesGood
  BY InitNames
<1>2. NamesGood /\ [Next]_vars => NamesGood'
  BY StepGood, LateStep, DiscardStep, ScanStep, NamesStep, RefuseStep, DrainStep
     DEF NamesGood
<1> QED
  BY <1>1, <1>2, PTL DEF Spec

\* No name is dropped or doubled on its way through the threads: there is no
\* double free and no use of a name by two threads.
THEOREM NamesStayInOnePlace ==
    Spec => []EachNameInOnePlace
<1>1. NamesGood => EachNameInOnePlace
  BY NamesInvIs DEF NamesGood
<1> QED
  BY <1>1, AlwaysNamesGood, PTL

\* main returns only when every name of the serviced files is accounted for.
THEOREM ReturnAccounts ==
    Spec => []ReturnsComplete
<1>1. NamesGood => ReturnsComplete
  <2> SUFFICES ASSUME NamesGood, main = "returned",
                      NEW p \in Payloads, p[1] \in Requesters
               PROVE  p \in Written \cup refused \cup discarded
    BY DEF ReturnsComplete
  <2> USE DEF NamesGood
  <2>1. \A t \in Threads : pc[t] = "done"
    BY Roles DEF Good, JoinInv, Joined
  <2>2. p \notin Unread
    <3>1. scanned[p[1]] = nameCount[p[1]]
      BY <2>1, Roles DEF ScanInv, DonePushing
    <3>2. p[2] \in 1 .. nameCount[p[1]] /\ nameCount[p[1]] \in Nat
      BY InputAssumption
    <3> QED
      BY <3>1, <3>2 DEF Unread
  <2>3. p \notin InHand
    <3>1. \A t \in Threads : domain[t] = NULL
      BY <2>1, Roles DEF Good, HandInv
    <3> QED
      BY <3>1 DEF InHand
  <2>4. p \notin InQueue
    BY DEF DiscardInv, InQueue
  <2>5. PICK n \in 1 .. 6 : p \in Places[n]
    BY DEF NamesInv, OnePlace
  <2> QED
    BY <2>2, <2>3, <2>4, <2>5 DEF Places
<1> QED
  BY <1>1, AlwaysNamesGood, PTL

\* One test that begins after the last push is enough to drain the queue.
THEOREM LateTestDrains ==
    Spec => []DrainedByLateTest
<1>1. NamesGood => DrainedByLateTest
  BY DEF NamesGood
<1> QED
  BY <1>1, AlwaysNamesGood, PTL

\* With at most as many names as slots, no push is refused.
THEOREM RefusalsAreExcess ==
    Spec => []RefusesOnlyExcess
<1>1. NamesGood => RefusesOnlyExcess
  BY DEF NamesGood
<1> QED
  BY <1>1, AlwaysNamesGood, PTL

\* What thread t does next asks for no mutex that another thread has, and a
\* requester has not read beyond its file.
CanGo(t) ==
    /\ pc[t] # "done"
    /\ pc[t] = "scan" => t \in unopened \/ scanned[t] <= nameCount[t]
    /\ pc[t] \in {"push", "pop"} => Unlocked(buffmutex)
    /\ pc[t] \in {"log", "write"} => Unlocked(outmutex)

\* What main waits for has happened, or a thread can go on: there is no state
\* in which all wait for each other.
SomeoneCanGo ==
    \/ main \in {"returned", "crashed"}
    \/ main = "requesters" /\ Joined(Requesters)
    \/ main = "resolvers" /\ Joined(Resolvers)
    \/ \E t \in Threads : CanGo(t)

\* Requesters and resolvers share two mutexes, and any number of them never
\* come to wait for each other: who holds one mutex does not wait for the
\* other, as LockInv says where he is.
THEOREM NoMutualWait ==
    Spec => []SomeoneCanGo
<1>1. NamesGood => SomeoneCanGo
  <2> SUFFICES ASSUME NamesGood, main \in {"requesters", "resolvers"},
                      NEW t \in Threads, pc[t] # "done"
               PROVE  \E u \in Threads : CanGo(u)
    BY Roles DEF SomeoneCanGo, Joined, NamesGood, Good, TypeOK
  <2>1. TypeOK /\ LockInv /\ ScanInv
    BY DEF NamesGood, Good
  <2>2. CASE buffmutex # NULL
    <3>1. PICK u \in Threads : u = buffmutex
      BY <2>1, <2>2 DEF TypeOK
    <3>2. pc[u] = "advance"
      BY <2>1, <3>1 DEF LockInv
    <3> QED
      BY <3>2 DEF CanGo
  <2>3. CASE outmutex # NULL
    <3>1. PICK u \in Threads : u = outmutex
      BY <2>1, <2>3 DEF TypeOK
    <3>2. pc[u] \in {"logging", "writing"}
      BY <2>1, <3>1 DEF LockInv
    <3> QED
      BY <3>2 DEF CanGo
  <2>4. CASE buffmutex = NULL /\ outmutex = NULL
    <3>1. pc[t] = "scan" => scanned[t] <= nameCount[t]
      BY <2>1, Roles DEF TypeOK, ScanInv
    <3> QED
      BY <2>4, <3>1 DEF CanGo, Unlocked
  <2> QED
    BY <2>2, <2>3, <2>4
<1> QED
  BY <1>1, AlwaysNamesGood, PTL
=============================================================================

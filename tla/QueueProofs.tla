---------------------------- MODULE QueueProofs ----------------------------
(***************************************************************************)
(* queue.c for every number of slots and every set of payloads: the ring   *)
(* stays well formed, and through Contents it implements BoundedFifo.      *)
(* And cbuf.c for every size: through Kept it implements SlidingFifo.      *)
(***************************************************************************)
EXTENDS Queue, CircularBuf, RingProofs

\* The inductive invariant.
Good == TypeOK /\ RingInv

\* The invariant says of the variables what RingProofs assumes of a ring.
LEMMA GoodIsGoodRing ==
    Good => GoodRing(array, front, rear)
  BY DEF Good, TypeOK, RingInv, GoodRing

\* A freshly initialised queue is empty and well formed.
LEMMA InitGood ==
    Init => Good
<1> SUFFICES ASSUME Init
             PROVE  Good
  OBVIOUS
<1>1. 0 \in Slots
  BY SizeAssumption DEF Slots
<1>2. GoodRing(EmptyArray, 0, 0)
  BY <1>1, EmptyRing
<1> QED
  BY <1>1, <1>2, SizeAssumption DEF Init, Good, TypeOK, RingInv, GoodRing

\* No call of queue.c breaks the ring.
LEMMA StepGood ==
    Good /\ [Next]_vars => Good'
<1> SUFFICES ASSUME Good, [Next]_vars
             PROVE  Good'
  OBVIOUS
<1> USE DEF Good, TypeOK, RingInv
<1>0. GoodRing(array, front, rear)
  BY GoodIsGoodRing
<1>1. CASE queue_init
  <2>1. 0 \in Slots
    BY SizeAssumption DEF Slots
  <2>2. GoodRing(EmptyArray, 0, 0)
    BY <2>1, EmptyRing
  <2>3. CASE ret' = maxSize /\ array' = EmptyArray /\ front' = 0 /\ rear' = 0 /\ live'
    BY <2>1, <2>2, <2>3, SizeAssumption, <1>1 DEF queue_init, GoodRing
  <2>4. CASE ret' = QUEUE_FAILURE /\ UNCHANGED <<array, front, rear, live>>
    BY <2>4 DEF QUEUE_FAILURE
  <2> QED
    BY <1>1, <2>3, <2>4 DEF queue_init
<1>2. ASSUME NEW x \in Payloads, queue_push(x)
      PROVE  Good'
  <2>1. CASE IsFull(array, front, rear)
    BY <2>1, <1>2 DEF queue_push, QUEUE_FAILURE
  <2>2. CASE ~IsFull(array, front, rear)
    <3>1. GoodRing(array', front, rear')
      BY <2>2, <1>0, <1>2, PushRing DEF queue_push
    <3> QED
      BY <3>1, <2>2, <1>2 DEF queue_push, QUEUE_SUCCESS, GoodRing
  <2> QED
    BY <2>1, <2>2
<1>3. CASE queue_pop
  <2>1. CASE IsEmpty(array, front, rear)
    BY <2>1, <1>3 DEF queue_pop
  <2>2. CASE ~IsEmpty(array, front, rear)
    <3>1. GoodRing(array', front', rear)
      BY <2>2, <1>0, <1>3, PopRing DEF queue_pop
    <3>2. ret' \in Payloads \cup {NULL}
      BY <2>2, <1>3 DEF queue_pop
    <3> QED
      BY <3>1, <3>2, <1>3 DEF queue_pop, GoodRing
  <2> QED
    BY <2>1, <2>2
<1>4. CASE queue_cleanup
  <2>1. GoodRing(EmptyArray, rear, rear)
    BY EmptyRing
  <2> QED
    BY <2>1, <1>4 DEF queue_cleanup, GoodRing
<1>5. CASE UNCHANGED vars
  BY <1>5 DEF vars
<1> QED
  BY <1>1, <1>2, <1>3, <1>4, <1>5 DEF Next

\* The variables of Queue keep their types.
THEOREM TypeCorrect == Spec => []TypeOK
<1>1. Good => TypeOK
  BY DEF Good
<1> QED
  BY InitGood, StepGood, <1>1, PTL DEF Spec

\* queue.c never leaves a hole between front and rear, whatever the calls,
\* so that its two one-slot tests stay right.
THEOREM RingStaysWellFormed == Spec => []RingInv
<1>1. Good => RingInv
  BY DEF Good
<1> QED
  BY InitGood, StepGood, <1>1, PTL DEF Spec

\* A step of the ring is a step of the queue it stands for, or none.
LEMMA StepImplements ==
    Good /\ [Next]_vars => [Fifo!Next]_Queued
<1> SUFFICES ASSUME Good, [Next]_vars
             PROVE  Fifo!Next \/ Queued' = Queued
  BY DEF Fifo!Next
<1>0. GoodRing(array, front, rear)
  BY GoodIsGoodRing
<1>1. CASE queue_init
  <2>1. CASE array' = EmptyArray /\ front' = 0 /\ rear' = 0
    <3>1. 0 \in Slots
      BY SizeAssumption DEF Slots
    <3>2. Queued' = <<>>
      BY <2>1, <3>1, EmptyRing DEF Queued
    <3> QED
      BY <3>2 DEF Fifo!Next, Fifo!Discard
  <2>2. CASE UNCHANGED <<array, front, rear>>
    BY <2>2 DEF Queued
  <2> QED
    BY <1>1, <2>1, <2>2 DEF queue_init
<1>2. ASSUME NEW x \in Payloads, queue_push(x)
      PROVE  Fifo!Next \/ Queued' = Queued
  <2>1. CASE IsFull(array, front, rear)
    BY <2>1, <1>2 DEF queue_push, Queued
  <2>2. CASE ~IsFull(array, front, rear)
    <3>1. Pushes(Queued, x, Queued')
      BY <2>2, <1>0, <1>2, PushRing DEF queue_push, Queued
    <3>2. Len(Queued) < maxSize
      BY <2>2, <1>0, TestsByCount, ContentsAt, SizeAssumption DEF Queued
    <3> QED
      BY <3>1, <3>2 DEF Pushes, Fifo!Next, Fifo!Push
  <2> QED
    BY <2>1, <2>2
<1>3. CASE queue_pop
  <2>1. CASE IsEmpty(array, front, rear)
    BY <2>1, <1>3 DEF queue_pop, Queued
  <2>2. CASE ~IsEmpty(array, front, rear)
    <3>1. /\ array' = [array EXCEPT ![front] = NULL]
          /\ front' = Succ(front)
          /\ rear' = rear
      BY <2>2, <1>3 DEF queue_pop
    <3>2. /\ Contents(array, front, rear) # <<>>
          /\ Contents(array', front', rear) = Tail(Contents(array, front, rear))
      BY <3>1, <2>2, <1>0, PopRing
    <3> QED
      BY <3>1, <3>2 DEF Queued, Fifo!Next, Fifo!Pop
  <2> QED
    BY <2>1, <2>2
<1>4. CASE queue_cleanup
  <2>1. Queued' = <<>>
    BY <1>4, EmptyRing DEF queue_cleanup, Queued, Good, TypeOK
  <2> QED
    BY <2>1 DEF Fifo!Next, Fifo!Discard
<1>5. CASE UNCHANGED vars
  BY <1>5 DEF vars, Queued
<1> QED
  BY <1>1, <1>2, <1>3, <1>4, <1>5 DEF Next

\* Every behaviour of queue.c is a behaviour of a bounded FIFO queue.
THEOREM QueueImplementsFifo == Spec => ImplementsFifo
<1>1. Init => Fifo!Init
  <2>1. 0 \in Slots
    BY SizeAssumption DEF Slots
  <2> QED
    BY <2>1, EmptyRing DEF Init, Queued, Fifo!Init
<1> QED
  BY InitGood, StepGood, StepImplements, <1>1, PTL
     DEF Spec, ImplementsFifo, Fifo!Spec

\* What a call returns is what the abstract queue holds at that moment.
THEOREM ReturnsReport == Spec => CallsReport
<1> DEFINE Reports ==
      /\ queue_pop => ret' = IF Queued = <<>> THEN NULL ELSE Head(Queued)
      /\ \A x \in Payloads :
           queue_push(x) => (ret' = QUEUE_FAILURE <=> Len(Queued) = maxSize)
<1>1. Good => Reports
  <2> SUFFICES ASSUME Good
               PROVE  Reports
    OBVIOUS
  <2>0. GoodRing(array, front, rear)
    BY GoodIsGoodRing
  <2>1. /\ Queued \in Seq(Payloads)
        /\ Len(Queued) = Count(array, front, rear)
    BY <2>0, ContentsAt DEF Queued
  <2>2. ASSUME queue_pop
        PROVE  ret' = IF Queued = <<>> THEN NULL ELSE Head(Queued)
    <3>1. CASE IsEmpty(array, front, rear)
      <4>1. Queued = <<>>
        BY <3>1, <2>0, <2>1, TestsByCount
      <4> QED
        BY <3>1, <4>1, <2>2 DEF queue_pop
    <3>2. CASE ~IsEmpty(array, front, rear)
      <4>1. Queued # <<>> /\ array[front] = Head(Queued)
        BY <3>2, <2>0, PopRing DEF Queued
      <4> QED
        BY <3>2, <4>1, <2>2 DEF queue_pop
    <3> QED
      BY <3>1, <3>2
  <2>3. ASSUME NEW x \in Payloads, queue_push(x)
        PROVE  ret' = QUEUE_FAILURE <=> Len(Queued) = maxSize
    <3>1. IsFull(array, front, rear) <=> Len(Queued) = maxSize
      BY <2>0, <2>1, TestsByCount
    <3> QED
      BY <3>1, <2>3 DEF queue_push, QUEUE_FAILURE, QUEUE_SUCCESS
  <2> QED
    BY <2>2, <2>3
<1>2. CallsReport <=> [][Reports]_vars
  BY DEF CallsReport
<1> HIDE DEF Reports
<1> QED
  BY InitGood, StepGood, <1>1, <1>2, PTL DEF Spec

----------------------------------------------------------------------------
(* cbuf.c *)

\* The n values from place t on.
Held(b, t, n) == [k \in 1 .. n |-> b[(t + k - 1) % max]]

\* The remainder of a place that has passed the end of the buffer once at most.
LEMMA ModPlaces ==
    ASSUME NEW x \in 0 .. 2 * max - 1
    PROVE  /\ x % max = IF x < max THEN x ELSE x - max
           /\ x % max \in Places
<1>1. max \in Nat \ {0}
  BY CbufAssumption
<1>2. CASE x < max
  <2>1. x \in 0 .. max - 1
    BY <1>1, <1>2
  <2>2. x % max = x
    BY <1>1, <2>1
  <2> QED
    BY <1>1, <1>2, <2>2 DEF Places
<1>3. CASE x >= max
  <2>1. x \in max .. 2 * max - 1
    BY <1>1, <1>3
  <2>2. x % max = x - max
    BY <1>1, <2>1
  <2> QED
    BY <1>1, <1>3, <2>2 DEF Places
<1> QED
  BY <1>1, <1>2, <1>3

\* The place k behind t.
LEMMA PlaceAt ==
    ASSUME NEW t \in Places, NEW k \in 0 .. max
    PROVE  /\ (t + k) % max = IF t + k < max THEN t + k ELSE t + k - max
           /\ (t + k) % max \in Places
<1>1. PICK x : x = t + k
  OBVIOUS
<1>2. x \in 0 .. 2 * max - 1
  BY <1>1, CbufAssumption DEF Places
<1>3. x % max = IF x < max THEN x ELSE x - max
  BY <1>2, ModPlaces
<1>4. (t + k) % max = IF t + k < max THEN t + k ELSE t + k - max
  BY <1>1, <1>3, CbufAssumption DEF Places
<1>5. (t + k) % max \in Places
  BY <1>4, CbufAssumption DEF Places
<1> QED
  BY <1>4, <1>5

\* The values from a place on are a sequence of data.
LEMMA HeldIs ==
    ASSUME NEW b \in [Places -> Data], NEW t \in Places, NEW n \in 0 .. max
    PROVE  /\ Held(b, t, n) \in Seq(Data)
           /\ Len(Held(b, t, n)) = n
           /\ DOMAIN Held(b, t, n) = 1 .. n
           /\ \A k \in 1 .. n : Held(b, t, n)[k] = b[(t + k - 1) % max]
<1>1. n \in Nat
  BY CbufAssumption
<1>2. ASSUME NEW k \in 1 .. n
      PROVE  b[(t + k - 1) % max] \in Data
  <2>1. k - 1 \in 0 .. max
    BY <1>1, CbufAssumption
  <2>2. (t + (k - 1)) % max \in Places
    BY <2>1, PlaceAt
  <2>3. t + (k - 1) = t + k - 1
    BY <2>1, CbufAssumption DEF Places
  <2> QED
    BY <2>2, <2>3
<1>3. Held(b, t, n) \in [1 .. n -> Data]
  BY <1>2 DEF Held
<1> QED
  BY <1>1, <1>3 DEF Held

\* Without values there is the empty sequence.
LEMMA HeldNone ==
    ASSUME NEW b \in [Places -> Data], NEW t \in Places
    PROVE  Held(b, t, 0) = <<>>
<1>1. 0 \in 0 .. max
  BY CbufAssumption
<1>2. Held(b, t, 0) \in Seq(Data) /\ Len(Held(b, t, 0)) = 0
  BY <1>1, HeldIs
<1> QED
  BY <1>2

\* A value at the place behind n others.
LEMMA HeldPut ==
    ASSUME NEW b \in [Places -> Data], NEW t \in Places, NEW n \in 0 .. max - 1,
           NEW x \in Data, NEW h, h = (t + n) % max
    PROVE  Held([b EXCEPT ![h] = x], t, n + 1) = Append(Held(b, t, n), x)
<1> DEFINE next == [b EXCEPT ![h] = x]
           p == Held(b, t, n)
           q == Held(next, t, n + 1)
<1>1. n \in Nat /\ n \in 0 .. max /\ n + 1 \in 0 .. max
  BY CbufAssumption
<1>2. h \in Places /\ h = IF t + n < max THEN t + n ELSE t + n - max
  BY <1>1, PlaceAt
<1>3. next \in [Places -> Data] /\ next[h] = x
      /\ \A i \in Places : i # h => next[i] = b[i]
  BY <1>2
<1> HIDE DEF next
<1>4. /\ q \in Seq(Data) /\ Len(q) = n + 1
      /\ \A k \in 1 .. n + 1 : q[k] = next[(t + k - 1) % max]
  BY <1>1, <1>3, HeldIs
<1>5. /\ p \in Seq(Data) /\ Len(p) = n
      /\ \A k \in 1 .. n : p[k] = b[(t + k - 1) % max]
  BY <1>1, HeldIs
<1>6. ASSUME NEW k \in 1 .. n
      PROVE  q[k] = p[k]
  <2>1. k - 1 \in 0 .. max /\ t + (k - 1) = t + k - 1 /\ k \in 1 .. n + 1
    BY <1>1, CbufAssumption DEF Places
  <2>2. /\ (t + k - 1) % max \in Places
        /\ (t + k - 1) % max = IF t + k - 1 < max THEN t + k - 1 ELSE t + k - 1 - max
    BY <2>1, PlaceAt
  <2>3. (t + k - 1) % max # h
    BY <1>1, <1>2, <2>2, CbufAssumption DEF Places
  <2> QED
    BY <1>3, <1>4, <1>5, <2>1, <2>2, <2>3
<1>7. q[n + 1] = x
  <2>1. n + 1 \in 1 .. n + 1 /\ t + (n + 1) - 1 = t + n
    BY <1>1, CbufAssumption DEF Places
  <2> QED
    BY <1>3, <1>4, <2>1
<1> HIDE DEF p, q
<1>8. q = Append(p, x)
  BY <1>1, <1>4, <1>5, <1>6, <1>7
<1> QED
  BY <1>8 DEF p, q, next

\* Without the first of n values.
LEMMA HeldGet ==
    ASSUME NEW b \in [Places -> Data], NEW t \in Places, NEW n \in 1 .. max,
           NEW s, s = (t + 1) % max
    PROVE  /\ s \in Places
           /\ Held(b, t, n) # <<>>
           /\ Head(Held(b, t, n)) = b[t]
           /\ Held(b, s, n - 1) = Tail(Held(b, t, n))
<1> DEFINE p == Held(b, t, n)
           q == Held(b, s, n - 1)
<1>1. n \in Nat \ {0} /\ n \in 0 .. max /\ n - 1 \in 0 .. max /\ 1 \in 0 .. max
  BY CbufAssumption
<1>2. s \in Places /\ s = IF t + 1 < max THEN t + 1 ELSE t + 1 - max
  BY <1>1, PlaceAt
<1>3. /\ p \in Seq(Data) /\ Len(p) = n
      /\ \A k \in 1 .. n : p[k] = b[(t + k - 1) % max]
  BY <1>1, HeldIs
<1>4. /\ q \in Seq(Data) /\ Len(q) = n - 1
      /\ \A k \in 1 .. n - 1 : q[k] = b[(s + k - 1) % max]
  BY <1>1, <1>2, HeldIs
<1>5. ASSUME NEW k \in 1 .. n - 1
      PROVE  q[k] = p[k + 1]
  <2>1. /\ k - 1 \in 0 .. max /\ k \in 0 .. max /\ k + 1 \in 1 .. n
        /\ s + (k - 1) = s + k - 1 /\ t + (k + 1) - 1 = t + k
    BY <1>1, <1>2, CbufAssumption DEF Places
  <2>2. (s + k - 1) % max = IF s + k - 1 < max THEN s + k - 1 ELSE s + k - 1 - max
    BY <1>2, <2>1, PlaceAt
  <2>3. (t + k) % max = IF t + k < max THEN t + k ELSE t + k - max
    BY <2>1, PlaceAt
  <2>4. max \in Nat /\ t \in 0 .. max - 1 /\ k \in 1 .. max - 1
    BY <1>1, CbufAssumption DEF Places
  <2>5. (s + k - 1) % max = (t + k) % max
    <3>1. CASE t + 1 < max
      <4>1. s + k - 1 = t + k
        BY <1>2, <2>4, <3>1
      <4> QED
        BY <4>1
    <3>2. CASE t + 1 = max
      <4>1. s + k - 1 = t + k - max /\ s + k - 1 < max /\ ~(t + k < max)
        BY <1>2, <2>4, <3>2
      <4> QED
        BY <2>2, <2>3, <4>1
    <3> QED
      BY <2>4, <3>1, <3>2
  <2>6. p[k + 1] = b[(t + k) % max]
    <3>1. p[k + 1] = b[(t + (k + 1) - 1) % max]
      BY <1>3, <2>1
    <3> QED
      BY <2>1, <3>1
  <2>7. q[k] = b[(s + k - 1) % max]
    BY <1>4
  <2> QED
    BY <2>5, <2>6, <2>7
<1>6. p[1] = b[t]
  <2>1. 0 \in 0 .. max /\ t + 0 = t /\ t + 1 - 1 = t /\ 1 \in 1 .. n /\ t < max
    BY <1>1, CbufAssumption DEF Places
  <2>2. t % max = t
    BY <2>1, PlaceAt
  <2> QED
    BY <1>3, <2>1, <2>2
<1> HIDE DEF p, q
<1>7. p # <<>> /\ Head(p) = p[1]
  BY <1>1, <1>3
<1>8. /\ Tail(p) \in Seq(Data) /\ Len(Tail(p)) = n - 1
      /\ \A k \in 1 .. n - 1 : Tail(p)[k] = p[k + 1]
  BY <1>1, <1>3
<1>9. q = Tail(p)
  BY <1>1, <1>4, <1>5, <1>8
<1> QED
  BY <1>2, <1>6, <1>7, <1>9 DEF p, q

\* How many values there are, and what the two tests make of it.
LEMMA SizeIs ==
    CbufTypeOK => /\ circular_buf_size \in 0 .. max
                  /\ circular_buf_empty <=> circular_buf_size = 0
                  /\ circular_buf_full <=> circular_buf_size = max
                  /\ head = (tail + circular_buf_size) % max
<1> SUFFICES ASSUME CbufTypeOK
             PROVE  /\ circular_buf_size \in 0 .. max
                    /\ circular_buf_empty <=> circular_buf_size = 0
                    /\ circular_buf_full <=> circular_buf_size = max
                    /\ head = (tail + circular_buf_size) % max
  OBVIOUS
<1>1. /\ max \in Nat \ {0} /\ head \in 0 .. max - 1 /\ tail \in 0 .. max - 1
      /\ full \in BOOLEAN /\ (full => head = tail)
  BY CbufAssumption DEF CbufTypeOK, Places
<1>2. CASE full
  <2>1. circular_buf_size = max
    BY <1>2 DEF circular_buf_size
  <2>2. /\ circular_buf_size \in 0 .. max /\ circular_buf_size # 0
        /\ circular_buf_full /\ ~circular_buf_empty
    BY <1>1, <1>2, <2>1 DEF circular_buf_full, circular_buf_empty
  <2>3. (tail + max) % max = IF tail + max < max THEN tail + max ELSE tail + max - max
    BY <1>1, PlaceAt DEF Places
  <2>4. (tail + max) % max = tail
    BY <1>1, <2>3
  <2> QED
    BY <1>1, <1>2, <2>1, <2>2, <2>4
<1>3. CASE ~full /\ head >= tail
  <2>1. circular_buf_size = head - tail
    BY <1>1, <1>3 DEF circular_buf_size
  <2>2. /\ circular_buf_size \in 0 .. max /\ circular_buf_size # max
        /\ ~circular_buf_full /\ (circular_buf_empty <=> circular_buf_size = 0)
    BY <1>1, <1>3, <2>1 DEF circular_buf_full, circular_buf_empty
  <2>3. (tail + circular_buf_size) % max = IF tail + circular_buf_size < max
           THEN tail + circular_buf_size ELSE tail + circular_buf_size - max
    BY <1>1, <2>2, PlaceAt DEF Places
  <2>4. tail + circular_buf_size = head
    BY <1>1, <2>1
  <2> QED
    BY <1>1, <2>2, <2>3, <2>4
<1>4. CASE ~full /\ head < tail
  <2>1. circular_buf_size = max + head - tail
    BY <1>1, <1>4 DEF circular_buf_size
  <2>2. /\ circular_buf_size \in 0 .. max /\ circular_buf_size # max
        /\ ~circular_buf_full /\ ~circular_buf_empty /\ circular_buf_size # 0
    BY <1>1, <1>4, <2>1 DEF circular_buf_full, circular_buf_empty
  <2>3. (tail + circular_buf_size) % max = IF tail + circular_buf_size < max
           THEN tail + circular_buf_size ELSE tail + circular_buf_size - max
    BY <1>1, <2>2, PlaceAt DEF Places
  <2>4. tail + circular_buf_size = max + head
    BY <1>1, <2>1
  <2> QED
    BY <1>1, <2>2, <2>3, <2>4
<1> QED
  BY <1>1, <1>2, <1>3, <1>4

\* What the buffer holds, in the terms of the lemmas.
LEMMA KeptIsHeld ==
    CbufTypeOK => /\ Kept = Held(buffer, tail, circular_buf_size)
                  /\ Len(Kept) = circular_buf_size
                  /\ Kept = <<>> <=> circular_buf_empty
<1> SUFFICES ASSUME CbufTypeOK
             PROVE  /\ Kept = Held(buffer, tail, circular_buf_size)
                    /\ Len(Kept) = circular_buf_size
                    /\ Kept = <<>> <=> circular_buf_empty
  OBVIOUS
<1>1. Kept = Held(buffer, tail, circular_buf_size)
  BY DEF Kept, Held
<1>2. circular_buf_size \in 0 .. max /\ (circular_buf_empty <=> circular_buf_size = 0)
  BY SizeIs
<1>3. Held(buffer, tail, circular_buf_size) \in Seq(Data)
      /\ Len(Held(buffer, tail, circular_buf_size)) = circular_buf_size
  BY <1>2, HeldIs DEF CbufTypeOK
<1> QED
  BY <1>1, <1>2, <1>3

\* A put to a buffer with room.
LEMMA PutAppends ==
    ASSUME CbufTypeOK, ~circular_buf_full, NEW x \in Data,
           buffer' = [buffer EXCEPT ![head] = x], advance_pointer
    PROVE  /\ buffer' \in [Places -> Data] /\ head' \in Places /\ tail' \in Places
           /\ full' \in BOOLEAN /\ (full' => head' = tail')
           /\ circular_buf_size' = circular_buf_size + 1
           /\ Kept' = Append(Kept, x) /\ Len(Kept) < max
<1> DEFINE n == circular_buf_size
<1>1. /\ n \in 0 .. max /\ n # max /\ head = (tail + n) % max /\ ~full
  BY SizeIs DEF circular_buf_full
<1>2. /\ max \in Nat \ {0} /\ head \in 0 .. max - 1 /\ tail \in 0 .. max - 1
  BY CbufAssumption DEF CbufTypeOK, Places
<1>3. tail' = tail /\ head' = (head + 1) % max /\ full' = (head' = tail')
  BY <1>1 DEF advance_pointer
<1>4. (head + 1) % max = IF head + 1 < max THEN head + 1 ELSE head + 1 - max
  BY <1>2, PlaceAt DEF Places
<1>5. head' \in 0 .. max - 1
  BY <1>2, <1>3, <1>4
<1>6. circular_buf_size' = n + 1
  <2>1. n = IF head >= tail THEN head - tail ELSE max + head - tail
    BY <1>1, <1>2 DEF circular_buf_size
  <2>2. CASE head' = tail
    <3>1. circular_buf_size' = max
      BY <1>3, <2>2 DEF circular_buf_size
    <3> QED
      BY <1>2, <1>3, <1>4, <2>1, <2>2, <3>1
  <2>3. CASE head' # tail
    <3>1. ~full'
      BY <1>3, <2>3
    <3>2. circular_buf_size' = IF head' >= tail THEN head' - tail ELSE max + head' - tail
      BY <1>2, <1>3, <1>5, <3>1 DEF circular_buf_size
    <3> QED
      BY <1>2, <1>3, <1>4, <2>1, <2>3, <3>2
  <2> QED
    BY <2>2, <2>3
<1>7. Kept = Held(buffer, tail, n) /\ Kept' = Held(buffer', tail', circular_buf_size')
      /\ Len(Kept) = n
  BY KeptIsHeld DEF Kept, Held
<1> HIDE DEF n
<1>8. n \in 0 .. max - 1
  BY <1>1, <1>2
<1>9. Held([buffer EXCEPT ![head] = x], tail, n + 1) = Append(Held(buffer, tail, n), x)
  <2>1. buffer \in [Places -> Data] /\ tail \in Places
    BY DEF CbufTypeOK
  <2> QED
    BY <1>1, <1>8, <2>1, HeldPut, ZenonT(60)
<1>10. Kept' = Append(Kept, x) /\ Len(Kept) < max
  <2>1. Kept' = Held([buffer EXCEPT ![head] = x], tail, n + 1)
    BY <1>3, <1>6, <1>7, Zenon
  <2>2. Kept' = Append(Kept, x)
    BY <1>7, <1>9, <2>1, Zenon
  <2>3. Len(Kept) < max
    BY <1>2, <1>7, <1>8
  <2> QED
    BY <2>2, <2>3
<1>11. buffer' \in [Places -> Data]
  BY DEF CbufTypeOK
<1> QED
  BY <1>2, <1>3, <1>5, <1>6, <1>10, <1>11 DEF Places, n

\* A put to a full buffer.
LEMMA PutSlides ==
    ASSUME CbufTypeOK, circular_buf_full, NEW x \in Data,
           buffer' = [buffer EXCEPT ![head] = x], advance_pointer
    PROVE  /\ buffer' \in [Places -> Data] /\ head' \in Places /\ tail' \in Places
           /\ full' \in BOOLEAN /\ (full' => head' = tail')
           /\ Kept' = Append(Tail(Kept), x) /\ Len(Kept) = max
<1>1. /\ max \in Nat \ {0} /\ head \in Places /\ tail \in Places /\ full /\ head = tail
      /\ buffer \in [Places -> Data] /\ max - 1 \in 0 .. max - 1 /\ max \in 1 .. max
      /\ tail \in 0 .. max - 1 /\ 1 \in 0 .. max
  BY CbufAssumption DEF CbufTypeOK, Places, circular_buf_full
<1>2. /\ tail' = (tail + 1) % max /\ head' = tail' /\ full'
  BY <1>1 DEF advance_pointer
<1>3. circular_buf_size = max /\ circular_buf_size' = max
  BY <1>1, <1>2 DEF circular_buf_size
<1>4. Kept = Held(buffer, tail, max) /\ Kept' = Held(buffer', tail', max)
      /\ Len(Kept) = max
  BY <1>3, KeptIsHeld DEF Kept, Held
<1>5. tail' \in Places /\ Held(buffer, tail', max - 1) = Tail(Held(buffer, tail, max))
  BY <1>1, <1>2, HeldGet
<1>6. PICK k, s : k = max - 1 /\ s = tail'
  OBVIOUS
<1>7. k \in 0 .. max - 1 /\ k \in 0 .. max /\ k + 1 = max /\ s \in Places
  BY <1>1, <1>5, <1>6
<1>8. head = (s + k) % max
  <2>1. (tail + 1) % max = IF tail + 1 < max THEN tail + 1 ELSE tail + 1 - max
    BY <1>1, PlaceAt
  <2>2. (s + k) % max = IF s + k < max THEN s + k ELSE s + k - max
    BY <1>7, PlaceAt
  <2> QED
    BY <1>1, <1>2, <1>6, <2>1, <2>2
<1>9. Held([buffer EXCEPT ![head] = x], s, k + 1) = Append(Held(buffer, s, k), x)
  <2>1. buffer \in [Places -> Data]
    BY <1>1
  <2> QED
    BY <1>7, <1>8, <2>1, HeldPut, ZenonT(60)
<1>10. Kept' = Append(Tail(Kept), x)
  BY <1>4, <1>5, <1>6, <1>7, <1>9
<1>11. buffer' \in [Places -> Data]
  BY <1>1
<1> QED
  BY <1>2, <1>4, <1>5, <1>10, <1>11

\* A get from a buffer with values.
LEMMA GetTakesOldest ==
    ASSUME CbufTypeOK, ~circular_buf_empty, buffer' = buffer, retreat_pointer
    PROVE  /\ tail' \in Places /\ head' = head /\ full' = FALSE
           /\ Kept # <<>> /\ buffer[tail] = Head(Kept) /\ Kept' = Tail(Kept)
<1> DEFINE n == circular_buf_size
<1>1. n \in 0 .. max /\ n # 0
  BY SizeIs
<1>2. /\ max \in Nat \ {0} /\ head \in 0 .. max - 1 /\ tail \in 0 .. max - 1
      /\ full \in BOOLEAN /\ (full => head = tail)
      /\ tail \in Places /\ buffer \in [Places -> Data]
  BY CbufAssumption DEF CbufTypeOK, Places
<1>3. tail' = (tail + 1) % max /\ head' = head /\ full' = FALSE
  BY DEF retreat_pointer
<1>4. (tail + 1) % max = IF tail + 1 < max THEN tail + 1 ELSE tail + 1 - max
  BY <1>2, PlaceAt
<1>5. circular_buf_size' = n - 1
  <2>1. n = IF full THEN max ELSE IF head >= tail THEN head - tail ELSE max + head - tail
    BY <1>2 DEF circular_buf_size
  <2>2. tail' \in 0 .. max - 1
    BY <1>2, <1>3, <1>4
  <2>3. circular_buf_size' = IF head >= tail' THEN head - tail' ELSE max + head - tail'
    BY <1>2, <1>3, <2>2 DEF circular_buf_size
  <2>4. ~full => head # tail
    BY DEF circular_buf_empty
  <2> QED
    BY <1>2, <1>3, <1>4, <2>1, <2>3, <2>4
<1>6. Kept = Held(buffer, tail, n) /\ Kept' = Held(buffer', tail', circular_buf_size')
  BY DEF Kept, Held
<1> HIDE DEF n
<1>7. n \in 1 .. max
  BY <1>1, <1>2
<1>8. /\ tail' \in Places /\ Held(buffer, tail, n) # <<>>
      /\ Head(Held(buffer, tail, n)) = buffer[tail]
      /\ Held(buffer, tail', n - 1) = Tail(Held(buffer, tail, n))
  BY <1>2, <1>3, <1>7, HeldGet
<1> QED
  BY <1>3, <1>5, <1>6, <1>8

\* After a reset the buffer holds nothing.
LEMMA ResetEmpties ==
    ASSUME CbufTypeOK, Reset, buffer' = buffer
    PROVE  Kept' = <<>> /\ head' \in Places /\ tail' \in Places /\ full' = FALSE
<1>1. 0 \in Places /\ buffer \in [Places -> Data] /\ 0 \in 0 .. max
  BY CbufAssumption DEF CbufTypeOK, Places
<1>2. head' = 0 /\ tail' = 0 /\ full' = FALSE
  BY DEF Reset
<1>3. circular_buf_size' = 0
  BY <1>2 DEF circular_buf_size
<1>4. Kept' = Held(buffer, 0, 0)
  BY <1>2, <1>3 DEF Kept, Held
<1> QED
  BY <1>1, <1>2, <1>4, HeldNone

\* The first values are none.
LEMMA CbufStarts ==
    CbufInit => CbufTypeOK /\ Kept = <<>>
<1> SUFFICES ASSUME CbufInit
             PROVE  CbufTypeOK /\ Kept = <<>>
  OBVIOUS
<1>1. 0 \in Places
  BY CbufAssumption DEF Places
<1>2. CbufTypeOK
  BY <1>1 DEF CbufInit, CbufTypeOK
<1>3. circular_buf_empty
  BY DEF CbufInit, circular_buf_empty
<1> QED
  BY <1>2, <1>3, KeptIsHeld

\* No call of cbuf.c breaks the types or the meaning of the full flag.
LEMMA CbufStepTyped ==
    CbufTypeOK /\ [CbufNext]_cbufVars => CbufTypeOK'
<1> SUFFICES ASSUME CbufTypeOK, [CbufNext]_cbufVars
             PROVE  CbufTypeOK'
  OBVIOUS
<1>1. ASSUME NEW x \in Data, buffer' = [buffer EXCEPT ![head] = x], advance_pointer
      PROVE  /\ buffer' \in [Places -> Data] /\ head' \in Places /\ tail' \in Places
             /\ full' \in BOOLEAN /\ (full' => head' = tail')
  <2>1. CASE circular_buf_full
    BY <1>1, <2>1, PutSlides
  <2>2. CASE ~circular_buf_full
    BY <1>1, <2>2, PutAppends
  <2> QED
    BY <2>1, <2>2
<1>2. ASSUME NEW x \in Data, circular_buf_put(x)
      PROVE  CbufTypeOK'
  BY <1>1, <1>2 DEF circular_buf_put, CbufTypeOK
<1>3. ASSUME NEW x \in Data, circular_buf_put2(x)
      PROVE  CbufTypeOK'
  <2>1. CASE circular_buf_full
    BY <1>3, <2>1 DEF circular_buf_put2, CbufTypeOK
  <2>2. CASE ~circular_buf_full
    BY <1>1, <1>3, <2>2 DEF circular_buf_put2, CbufTypeOK
  <2> QED
    BY <2>1, <2>2
<1>4. CASE circular_buf_get
  <2>1. CASE circular_buf_empty
    BY <1>4, <2>1 DEF circular_buf_get, CbufTypeOK
  <2>2. CASE ~circular_buf_empty
    <3>1. buffer' = buffer /\ retreat_pointer /\ last' = buffer[tail] /\ valid' = valid
      BY <1>4, <2>2 DEF circular_buf_get
    <3>2. tail' \in Places /\ head' = head /\ full' = FALSE
      BY <2>2, <3>1, GetTakesOldest
    <3> QED
      BY <3>1, <3>2 DEF CbufTypeOK
  <2> QED
    BY <2>1, <2>2
<1>5. CASE circular_buf_reset
  BY <1>5, ResetEmpties DEF circular_buf_reset, CbufTypeOK
<1>6. CASE circular_buf_free
  BY <1>6 DEF circular_buf_free, CbufTypeOK
<1>7. CASE circular_buf_init
  BY <1>7, ResetEmpties DEF circular_buf_init, CbufTypeOK
<1>8. CASE UNCHANGED cbufVars
  BY <1>8 DEF cbufVars, CbufTypeOK
<1> QED
  BY <1>2, <1>3, <1>4, <1>5, <1>6, <1>7, <1>8 DEF CbufNext

\* The variables of the circular buffer keep their types, and its full flag is
\* set only when head and tail meet.
THEOREM CbufTypeCorrect == CbufSpec => []CbufTypeOK
<1>1. CbufInit => CbufTypeOK
  BY CbufStarts
<1> QED
  BY <1>1, CbufStepTyped, PTL DEF CbufSpec

\* A step of the circular buffer is one of the window it stands for, or none.
LEMMA CbufStepImplements ==
    CbufTypeOK /\ [CbufNext]_cbufVars => [Window!SlidingNext]_Kept
<1> SUFFICES ASSUME CbufTypeOK, [CbufNext]_cbufVars
             PROVE  Window!SlidingNext \/ Kept' = Kept
  OBVIOUS
<1>1. ASSUME NEW x \in Data, buffer' = [buffer EXCEPT ![head] = x], advance_pointer
      PROVE  Window!SlidingNext
  <2>1. CASE circular_buf_full
    <3>1. Kept' = Append(Tail(Kept), x) /\ Len(Kept) = max
      BY <1>1, <2>1, PutSlides
    <3> QED
      BY <3>1 DEF Window!SlidingNext, Window!Slide, circular_buf_capacity
  <2>2. CASE ~circular_buf_full
    <3>1. Kept' = Append(Kept, x) /\ Len(Kept) < max
      BY <1>1, <2>2, PutAppends
    <3> QED
      BY <3>1 DEF Window!SlidingNext, Window!Next, Window!Push, circular_buf_capacity
  <2> QED
    BY <2>1, <2>2
<1>2. UNCHANGED <<buffer, head, tail, full>> => Kept' = Kept
  BY DEF Kept, circular_buf_size
<1>3. CASE \E x \in Data : circular_buf_put(x) \/ circular_buf_put2(x)
  BY <1>1, <1>2, <1>3 DEF circular_buf_put, circular_buf_put2
<1>4. CASE circular_buf_get
  <2>1. CASE circular_buf_empty
    BY <1>2, <1>4, <2>1 DEF circular_buf_get
  <2>2. CASE ~circular_buf_empty
    <3>1. Kept # <<>> /\ Kept' = Tail(Kept)
      BY <1>4, <2>2, GetTakesOldest DEF circular_buf_get
    <3> QED
      BY <3>1 DEF Window!SlidingNext, Window!Next, Window!Pop
  <2> QED
    BY <2>1, <2>2
<1>5. CASE circular_buf_reset \/ circular_buf_init
  <2>1. Kept' = <<>>
    BY <1>5, ResetEmpties DEF circular_buf_reset, circular_buf_init
  <2> QED
    BY <2>1 DEF Window!SlidingNext, Window!Next, Window!Discard
<1>6. CASE circular_buf_free \/ UNCHANGED cbufVars
  BY <1>2, <1>6 DEF circular_buf_free, cbufVars
<1> QED
  BY <1>3, <1>4, <1>5, <1>6 DEF CbufNext

\* Every behaviour of cbuf.c is one of a FIFO queue that slides over its oldest
\* value when it is full.
THEOREM CbufImplementsWindow == CbufSpec => ImplementsWindow
<1>1. CbufInit => CbufTypeOK /\ Window!Init
  BY CbufStarts DEF Window!Init
<1> QED
  BY <1>1, CbufStepTyped, CbufStepImplements, PTL
     DEF CbufSpec, ImplementsWindow, Window!SlidingSpec

\* What circular_buf_get and circular_buf_put2 return is what the window holds.
THEOREM CbufReturnsReport == CbufSpec => CbufReports
<1> DEFINE Reports ==
      /\ circular_buf_get => last' = IF Kept = <<>> THEN -1 ELSE Head(Kept)
      /\ \A x \in Data : circular_buf_put2(x) =>
            /\ last' = -1 <=> Len(Kept) = circular_buf_capacity
            /\ last' = 0 => circular_buf_size' = circular_buf_size + 1
<1>1. CbufTypeOK => Reports
  <2> SUFFICES ASSUME CbufTypeOK
               PROVE  Reports
    OBVIOUS
  <2>1. ASSUME circular_buf_get
        PROVE  last' = IF Kept = <<>> THEN -1 ELSE Head(Kept)
    <3>1. CASE circular_buf_empty
      <4>1. Kept = <<>> /\ last' = -1
        BY <2>1, <3>1, KeptIsHeld DEF circular_buf_get
      <4> QED
        BY <4>1
    <3>2. CASE ~circular_buf_empty
      <4>1. Kept # <<>> /\ buffer[tail] = Head(Kept) /\ last' = buffer[tail]
        BY <2>1, <3>2, GetTakesOldest DEF circular_buf_get
      <4> QED
        BY <4>1
    <3> QED
      BY <3>1, <3>2
  <2>2. ASSUME NEW x \in Data, circular_buf_put2(x)
        PROVE  /\ last' = -1 <=> Len(Kept) = circular_buf_capacity
               /\ last' = 0 => circular_buf_size' = circular_buf_size + 1
    <3>1. circular_buf_full <=> Len(Kept) = circular_buf_capacity
      BY KeptIsHeld, SizeIs DEF circular_buf_capacity
    <3>2. CASE circular_buf_full
      <4>1. last' = -1
        BY <2>2, <3>2 DEF circular_buf_put2
      <4> QED
        BY <3>1, <3>2, <4>1
    <3>3. CASE ~circular_buf_full
      <4>1. last' = 0 /\ buffer' = [buffer EXCEPT ![head] = x] /\ advance_pointer
        BY <2>2, <3>3 DEF circular_buf_put2
      <4>2. circular_buf_size' = circular_buf_size + 1
        BY <3>3, <4>1, PutAppends
      <4> QED
        BY <3>1, <3>3, <4>1, <4>2
    <3> QED
      BY <3>2, <3>3
  <2> QED
    BY <2>1, <2>2
<1>2. CbufReports <=> [][Reports]_cbufVars
  BY DEF CbufReports
<1>3. CbufInit => CbufTypeOK
  BY CbufStarts
<1> HIDE DEF Reports
<1> QED
  BY <1>1, <1>2, <1>3, CbufStepTyped, PTL DEF CbufSpec
=============================================================================

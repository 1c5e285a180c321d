----------------------------- MODULE RingProofs -----------------------------
(***************************************************************************)
(* Facts about the ring of queue.c for every number of slots: what the two *)
(* tests return, and what storing at rear and clearing at front do to the  *)
(* queue the ring stands for.                                              *)
(***************************************************************************)
EXTENDS Ring, TLAPS

\* A triple that queue.c can be in: well typed and filled from front to rear.
GoodRing(array, front, rear) ==
    /\ array \in [Slots -> Payloads \cup {NULL}]
    /\ front \in Slots
    /\ rear \in Slots
    /\ WellFormed(array, front, rear)

\* The queue q is p with x behind it.
Pushes(p, x, q) == q = Append(p, x)

\* The remainder of an index that has passed the end of the array once at
\* most, as in (q->rear+1) % q->maxSize.
LEMMA ModSlots ==
    ASSUME NEW x \in 0 .. 2 * maxSize - 1
    PROVE  x % maxSize = IF x < maxSize THEN x ELSE x - maxSize
<1>1. maxSize \in Nat \ {0}
  BY SizeAssumption
<1>2. CASE x < maxSize
  <2>1. x \in 0 .. maxSize - 1
    BY <1>1, <1>2
  <2>2. x % maxSize = x
    BY <1>1, <2>1
  <2> QED
    BY <1>2, <2>2
<1>3. CASE x >= maxSize
  <2>1. x \in maxSize .. 2 * maxSize - 1
    BY <1>1, <1>3
  <2>2. x % maxSize = x - maxSize
    BY <1>1, <2>1
  <2> QED
    BY <1>1, <1>3, <2>2
<1> QED
  BY <1>1, <1>2, <1>3

\* The next slot, without the remainder.
LEMMA SuccSlot ==
    ASSUME NEW i \in Slots
    PROVE  /\ Succ(i) = IF i + 1 = maxSize THEN 0 ELSE i + 1
           /\ Succ(i) \in Slots
<1> DEFINE x == i + 1
<1>1. x \in 0 .. 2 * maxSize - 1
  BY SizeAssumption DEF Slots
<1>2. Succ(i) = x % maxSize
  BY DEF Succ
<1> HIDE DEF x
<1>3. Succ(i) = IF x < maxSize THEN x ELSE x - maxSize
  BY <1>1, <1>2, ModSlots
<1> QED
  BY <1>3, SizeAssumption DEF Slots, x

\* The slot k places after front, without the remainder.
LEMMA SlotAt ==
    ASSUME NEW front \in Slots, NEW k \in 1 .. maxSize
    PROVE  /\ (front + k - 1) % maxSize =
                IF front + k - 1 < maxSize THEN front + k - 1
                                           ELSE front + k - 1 - maxSize
           /\ (front + k - 1) % maxSize \in Slots
           /\ Dist(front, (front + k - 1) % maxSize) = k - 1
<1>0. PICK x : x = front + k - 1
  OBVIOUS
<1>1. x \in 0 .. 2 * maxSize - 1
  BY <1>0, SizeAssumption DEF Slots
<1>2. (front + k - 1) % maxSize =
        IF front + k - 1 < maxSize THEN front + k - 1
                                   ELSE front + k - 1 - maxSize
  <2>1. x % maxSize = IF x < maxSize THEN x ELSE x - maxSize
    BY <1>1, ModSlots
  <2> QED
    BY <1>0, <2>1, SizeAssumption DEF Slots
<1>3. (front + k - 1) % maxSize \in Slots
  BY <1>2, SizeAssumption DEF Slots
<1>4. Dist(front, (front + k - 1) % maxSize) = k - 1
  BY <1>2, SizeAssumption DEF Slots, Dist
<1> QED
  BY <1>2, <1>3, <1>4

\* Distances stay below the number of slots, and only front is at 0.
LEMMA DistRange ==
    ASSUME NEW front \in Slots, NEW i \in Slots
    PROVE  /\ Dist(front, i) \in 0 .. maxSize - 1
           /\ Dist(front, i) = 0 <=> i = front
  BY SizeAssumption DEF Slots, Dist

\* Two slots are not at the same distance.
LEMMA DistOnce ==
    ASSUME NEW front \in Slots, NEW i \in Slots, NEW j \in Slots,
           Dist(front, i) = Dist(front, j)
    PROVE  i = j
  BY SizeAssumption DEF Slots, Dist

\* The number of queued payloads, and the two tests of queue.c:50-66.
LEMMA TestsByCount ==
    ASSUME NEW array, NEW front, NEW rear, GoodRing(array, front, rear)
    PROVE  /\ Count(array, front, rear) \in 0 .. maxSize
           /\ IsEmpty(array, front, rear) <=> Count(array, front, rear) = 0
           /\ IsFull(array, front, rear) <=> Count(array, front, rear) = maxSize
  BY SizeAssumption, DistRange DEF GoodRing, Count, IsEmpty, IsFull

\* The queue a ring stands for, one place at a time.
LEMMA ContentsAt ==
    ASSUME NEW array, NEW front, NEW rear, GoodRing(array, front, rear)
    PROVE  LET q == Contents(array, front, rear)
           IN  /\ q \in Seq(Payloads)
               /\ Len(q) = Count(array, front, rear)
               /\ \A k \in 1 .. Count(array, front, rear) :
                    q[k] = array[(front + k - 1) % maxSize]
<1> DEFINE c == Count(array, front, rear)
           at(k) == (front + k - 1) % maxSize
<1>1. c \in 0 .. maxSize
  BY TestsByCount
<1>2. ASSUME NEW k \in 1 .. c
      PROVE  array[at(k)] \in Payloads
  <2>1. k \in 1 .. maxSize
    BY <1>1, <1>2, SizeAssumption
  <2>2. at(k) \in Slots /\ Dist(front, at(k)) = k - 1
    BY <2>1, SlotAt DEF GoodRing
  <2>3. Dist(front, at(k)) < c
    BY <2>2, <1>1, <1>2
  <2>4. array[at(k)] # NULL
    BY <2>2, <2>3 DEF GoodRing, WellFormed
  <2> QED
    BY <2>2, <2>4 DEF GoodRing
<1>3. Contents(array, front, rear) = [k \in 1 .. c |-> array[at(k)]]
  BY DEF Contents
<1> HIDE DEF c, at
<1>4. Contents(array, front, rear) \in [1 .. c -> Payloads]
  BY <1>2, <1>3
<1>5. c \in Nat
  BY <1>1, SizeAssumption
<1>6. /\ Contents(array, front, rear) \in Seq(Payloads)
      /\ Len(Contents(array, front, rear)) = c
  BY <1>4, <1>5
<1>7. \A k \in 1 .. c : Contents(array, front, rear)[k] = array[at(k)]
  BY <1>3
<1> QED
  BY <1>6, <1>7 DEF c, at

\* queue.c:88-90 appends to the queue and keeps the ring well formed.
LEMMA PushRing ==
    ASSUME NEW array, NEW front, NEW rear, GoodRing(array, front, rear),
           ~IsFull(array, front, rear),
           NEW x \in Payloads
    PROVE  LET next == [array EXCEPT ![rear] = x]
           IN  /\ GoodRing(next, front, Succ(rear))
               /\ Pushes(Contents(array, front, rear), x,
                         Contents(next, front, Succ(rear)))
<1> DEFINE next == [array EXCEPT ![rear] = x]
           c == Count(array, front, rear)
<1>1. /\ front \in Slots /\ rear \in Slots
      /\ array \in [Slots -> Payloads \cup {NULL}]
      /\ \A i \in Slots : array[i] # NULL <=> Dist(front, i) < c
  BY DEF GoodRing, WellFormed
<1>2. c = Dist(front, rear) /\ c \in 0 .. maxSize - 1
  BY <1>1, DistRange DEF Count
<1>3. Succ(rear) \in Slots
  BY <1>1, SuccSlot
<1>4. /\ next \in [Slots -> Payloads \cup {NULL}]
      /\ \A i \in Slots : next[i] = IF i = rear THEN x ELSE array[i]
  BY <1>1
<1> HIDE DEF c, next
<1>5. x # NULL
  BY NullAssumption
<1>6. Count(next, front, Succ(rear)) = c + 1
  <2>1. CASE c + 1 = maxSize
    <3>1. Succ(rear) = front
      <4>1. front \in 0 .. maxSize - 1 /\ rear \in 0 .. maxSize - 1
        BY <1>1 DEF Slots
      <4>2. Dist(front, rear) = maxSize - 1
        BY <1>2, <2>1, SizeAssumption
      <4>3. rear + 1 = front \/ (front = 0 /\ rear + 1 = maxSize)
        BY <4>1, <4>2, SizeAssumption DEF Dist
      <4> QED
        BY <1>1, <4>1, <4>3, SuccSlot, SizeAssumption
    <3>2. next[front] # NULL
      <4>1. CASE front = rear
        BY <4>1, <1>1, <1>4, <1>5
      <4>2. CASE front # rear
        <5>1. Dist(front, front) < c
          BY <4>2, <1>1, <1>2, DistRange, SizeAssumption
        <5> QED
          BY <5>1, <4>2, <1>1, <1>4
      <4> QED
        BY <4>1, <4>2
    <3> QED
      BY <3>1, <3>2, <2>1 DEF Count, IsFull
  <2>2. CASE c + 1 < maxSize
    <3>1. Succ(rear) = IF rear + 1 = maxSize THEN 0 ELSE rear + 1
      BY <1>1, SuccSlot
    <3>2. Dist(front, Succ(rear)) = c + 1 /\ Succ(rear) # front
      BY <3>1, <2>2, <1>1, <1>2, SizeAssumption DEF Slots, Dist
    <3> QED
      BY <3>2 DEF Count, IsFull
  <2> QED
    BY <2>1, <2>2, <1>2, SizeAssumption
<1>7. WellFormed(next, front, Succ(rear))
  <2> SUFFICES ASSUME NEW i \in Slots
               PROVE  next[i] # NULL <=> Dist(front, i) < c + 1
    BY <1>6 DEF WellFormed
  <2>1. CASE i = rear
    BY <2>1, <1>2, <1>4, <1>5, SizeAssumption
  <2>2. CASE i # rear
    <3>1. Dist(front, i) # c
      BY <2>2, <1>1, <1>2, SizeAssumption DEF Slots, Dist
    <3>2. Dist(front, i) \in 0 .. maxSize - 1
      BY <1>1, DistRange
    <3> QED
      BY <3>1, <3>2, <2>2, <1>1, <1>2, <1>4, SizeAssumption
  <2> QED
    BY <2>1, <2>2
<1>8. GoodRing(next, front, Succ(rear))
  BY <1>1, <1>3, <1>4, <1>7 DEF GoodRing
<1>9. Contents(next, front, Succ(rear)) = Append(Contents(array, front, rear), x)
  <2> DEFINE q == Contents(array, front, rear)
             p == Contents(next, front, Succ(rear))
             at(k) == (front + k - 1) % maxSize
  <2>0. \A k : at(k) = (front + k - 1) % maxSize
    OBVIOUS
  <2> HIDE DEF at
  <2>1. /\ q \in Seq(Payloads) /\ Len(q) = c
        /\ \A k \in 1 .. c : q[k] = array[at(k)]
    BY <2>0, ContentsAt DEF c
  <2>2. /\ p \in Seq(Payloads) /\ Len(p) = c + 1
        /\ \A k \in 1 .. c + 1 : p[k] = next[at(k)]
    BY <2>0, <1>6, <1>8, ContentsAt
  <2>3. \A k \in 1 .. c + 1 : /\ at(k) \in Slots
                              /\ at(k) = rear <=> k = c + 1
    <3> SUFFICES ASSUME NEW k \in 1 .. c + 1
                 PROVE  at(k) \in Slots /\ (at(k) = rear <=> k = c + 1)
      OBVIOUS
    <3>1. k \in 1 .. maxSize
      BY <1>2, SizeAssumption
    <3>2. at(k) \in Slots /\ Dist(front, at(k)) = k - 1
      BY <2>0, <3>1, <1>1, SlotAt
    <3>3. at(k) = rear <=> Dist(front, at(k)) = c
      BY <3>2, <1>1, <1>2, SizeAssumption DEF Slots, Dist
    <3> QED
      BY <3>1, <3>2, <3>3, <1>2, SizeAssumption
  <2> HIDE DEF q, p
  <2>4. ASSUME NEW k \in 1 .. c
        PROVE  p[k] = q[k]
    <3>1. k \in 1 .. c + 1 /\ k # c + 1
      BY <1>2, SizeAssumption
    <3>2. p[k] = next[at(k)]
      BY <3>1, <2>2
    <3>5. at(k) \in Slots /\ at(k) # rear
      BY <3>1, <2>3
    <3>3. next[at(k)] = array[at(k)]
      BY <3>5, <1>4
    <3>4. q[k] = array[at(k)]
      BY <2>1, <2>4
    <3> QED
      BY <3>2, <3>3, <3>4
  <2>5. p[c + 1] = x
    BY <2>2, <2>3, <1>2, <1>4, SizeAssumption
  <2>6. p = Append(q, x)
    BY <2>1, <2>2, <2>4, <2>5, <1>2, SizeAssumption
  <2> QED
    BY <2>6 DEF q, p, next
<1> QED
  BY <1>8, <1>9 DEF next, Pushes

\* queue.c:75-77 takes the oldest payload off the queue.
LEMMA PopRing ==
    ASSUME NEW array, NEW front, NEW rear, GoodRing(array, front, rear),
           ~IsEmpty(array, front, rear)
    PROVE  LET next == [array EXCEPT ![front] = NULL]
           IN  /\ GoodRing(next, Succ(front), rear)
               /\ Contents(array, front, rear) # <<>>
               /\ array[front] = Head(Contents(array, front, rear))
               /\ Contents(next, Succ(front), rear) =
                    Tail(Contents(array, front, rear))
<1> DEFINE next == [array EXCEPT ![front] = NULL]
           c == Count(array, front, rear)
<1>1. /\ front \in Slots /\ rear \in Slots
      /\ array \in [Slots -> Payloads \cup {NULL}]
      /\ \A i \in Slots : array[i] # NULL <=> Dist(front, i) < c
  BY DEF GoodRing, WellFormed
<1>2. /\ c \in 1 .. maxSize
      /\ c = IF front = rear THEN maxSize ELSE Dist(front, rear)
  <2>1. c \in 0 .. maxSize /\ c # 0
    BY TestsByCount
  <2>2. front = rear => IsFull(array, front, rear)
    BY DEF IsEmpty, IsFull
  <2>3. front # rear => ~IsFull(array, front, rear)
    BY DEF IsFull
  <2> QED
    BY <2>1, <2>2, <2>3, SizeAssumption DEF Count
<1>3. Succ(front) \in Slots
  BY <1>1, SuccSlot
<1>4. /\ next \in [Slots -> Payloads \cup {NULL}]
      /\ \A i \in Slots : next[i] = IF i = front THEN NULL ELSE array[i]
  BY <1>1
<1> HIDE DEF c, next
<1>5. \A i \in Slots : Dist(Succ(front), i) =
                         IF i = front THEN maxSize - 1 ELSE Dist(front, i) - 1
  <2>1. Succ(front) = IF front + 1 = maxSize THEN 0 ELSE front + 1
    BY <1>1, SuccSlot
  <2> QED
    BY <2>1, <1>1, SizeAssumption DEF Slots, Dist
<1>6. Count(next, Succ(front), rear) = c - 1
  <2>1. CASE front = rear
    <3>1. Dist(Succ(front), rear) = c - 1
      BY <2>1, <1>1, <1>2, <1>5
    <3>2. ~IsFull(next, Succ(front), rear)
      BY <2>1, <1>1, <1>4 DEF IsFull
    <3> QED
      BY <3>1, <3>2 DEF Count
  <2>2. CASE front # rear
    <3>1. Dist(Succ(front), rear) = c - 1
      BY <2>2, <1>1, <1>2, <1>5
    <3>2. next[rear] = array[rear]
      BY <2>2, <1>1, <1>4
    <3>3. next[rear] = NULL
      BY <3>2, <2>2, <1>1, <1>2, SizeAssumption
    <3>4. ~IsFull(next, Succ(front), rear)
      BY <3>3 DEF IsFull
    <3> QED
      BY <3>1, <3>4 DEF Count
  <2> QED
    BY <2>1, <2>2
<1>7. WellFormed(next, Succ(front), rear)
  <2> SUFFICES ASSUME NEW i \in Slots
               PROVE  next[i] # NULL <=> Dist(Succ(front), i) < c - 1
    BY <1>6 DEF WellFormed
  <2>1. CASE i = front
    BY <2>1, <1>1, <1>2, <1>4, <1>5, SizeAssumption
  <2>2. CASE i # front
    <3>1. Dist(front, i) \in 0 .. maxSize - 1
      BY <1>1, DistRange
    <3> QED
      BY <3>1, <2>2, <1>1, <1>2, <1>4, <1>5, SizeAssumption
  <2> QED
    BY <2>1, <2>2
<1>8. GoodRing(next, Succ(front), rear)
  BY <1>1, <1>3, <1>4, <1>7 DEF GoodRing
<1>9. /\ Contents(array, front, rear) # <<>>
      /\ array[front] = Head(Contents(array, front, rear))
      /\ Contents(next, Succ(front), rear) = Tail(Contents(array, front, rear))
  <2> DEFINE q == Contents(array, front, rear)
             p == Contents(next, Succ(front), rear)
             at(k) == (front + k - 1) % maxSize
             bt(k) == (Succ(front) + k - 1) % maxSize
  <2>0. \A k : /\ at(k) = (front + k - 1) % maxSize
               /\ bt(k) = (Succ(front) + k - 1) % maxSize
    OBVIOUS
  <2> HIDE DEF at, bt
  <2>1. /\ q \in Seq(Payloads) /\ Len(q) = c
        /\ \A k \in 1 .. c : q[k] = array[at(k)]
    BY <2>0, ContentsAt DEF c
  <2>2. /\ p \in Seq(Payloads) /\ Len(p) = c - 1
        /\ \A k \in 1 .. c - 1 : p[k] = next[bt(k)]
    BY <2>0, <1>6, <1>8, ContentsAt
  <2>3. at(1) = front
    <3>1. 1 \in 1 .. maxSize
      BY SizeAssumption
    <3>2. at(1) \in Slots /\ Dist(front, at(1)) = 0
      BY <3>1, <2>0, <1>1, SlotAt
    <3> QED
      BY <3>2, <1>1, DistRange
  <2>4. \A k \in 1 .. c - 1 : bt(k) = at(k + 1) /\ bt(k) \in Slots /\ bt(k) # front
    <3> SUFFICES ASSUME NEW k \in 1 .. c - 1
                 PROVE  bt(k) = at(k + 1) /\ bt(k) \in Slots /\ bt(k) # front
      OBVIOUS
    <3>1. PICK j : j = k + 1
      OBVIOUS
    <3>2. k \in 1 .. maxSize /\ j \in 1 .. maxSize
      BY <3>1, <1>2, SizeAssumption
    <3>3. at(j) \in Slots /\ Dist(front, at(j)) = k
      BY <2>0, <3>1, <3>2, <1>1, SlotAt
    <3>4. bt(k) \in Slots /\ Dist(Succ(front), bt(k)) = k - 1
      BY <2>0, <3>2, <1>3, SlotAt
    <3>5. bt(k) # front
      BY <3>4, <1>1, <1>2, <1>5, SizeAssumption
    <3>6. Dist(front, bt(k)) = k
      BY <3>4, <3>5, <1>1, <1>5, <3>2, DistRange, SizeAssumption
    <3>7. bt(k) = at(j)
      <4>1. PICK a, b : a = bt(k) /\ b = at(j)
        OBVIOUS
      <4>2. /\ a \in Slots /\ b \in Slots /\ front \in Slots
            /\ Dist(front, a) = Dist(front, b)
        BY <1>1, <3>3, <3>4, <3>6, <4>1
      <4>3. a = b
        BY <4>2, DistOnce
      <4> QED
        BY <4>1, <4>3
    <3> QED
      BY <3>1, <3>4, <3>5, <3>7
  <2> HIDE DEF q, p
  <2>5. q # <<>> /\ Head(q) = array[front]
    BY <2>1, <2>3, <1>2, SizeAssumption
  <2>6. ASSUME NEW k \in 1 .. c - 1
        PROVE  p[k] = q[k + 1]
    <3>1. p[k] = next[bt(k)]
      BY <2>2
    <3>2. next[bt(k)] = array[bt(k)]
      BY <2>4, <1>4
    <3>3. bt(k) = at(k + 1)
      BY <2>4
    <3>4. k + 1 \in 1 .. c
      BY <1>2, SizeAssumption
    <3>5. q[k + 1] = array[at(k + 1)]
      BY <3>4, <2>1
    <3> QED
      BY <3>1, <3>2, <3>3, <3>5
  <2>7. p = Tail(q)
    BY <2>1, <2>2, <2>5, <2>6, <1>2, SizeAssumption
  <2> QED
    BY <2>5, <2>7 DEF q, p, next
<1> QED
  BY <1>8, <1>9 DEF next

\* queue.c:39-45 and the end of queue_cleanup: no slot is occupied.
LEMMA EmptyRing ==
    ASSUME NEW i \in Slots
    PROVE  /\ GoodRing(EmptyArray, i, i)
           /\ Contents(EmptyArray, i, i) = <<>>
<1>1. EmptyArray \in [Slots -> Payloads \cup {NULL}]
  BY DEF EmptyArray
<1>2. \A j \in Slots : EmptyArray[j] = NULL
  BY DEF EmptyArray
<1>3. Count(EmptyArray, i, i) = 0
  BY <1>2, SizeAssumption DEF Count, IsFull, Dist, Slots
<1>4. \A j \in Slots : ~(Dist(i, j) < 0)
  BY DistRange, SizeAssumption
<1>5. GoodRing(EmptyArray, i, i)
  BY <1>1, <1>2, <1>3, <1>4 DEF GoodRing, WellFormed
<1>6. Contents(EmptyArray, i, i) \in Seq(Payloads) /\ Len(Contents(EmptyArray, i, i)) = 0
  BY <1>3, <1>5, ContentsAt
<1> QED
  BY <1>5, <1>6

\* The queued payloads are those that the array holds in any slot.
LEMMA ContentsRange ==
    ASSUME NEW array, NEW front, NEW rear, GoodRing(array, front, rear)
    PROVE  LET q == Contents(array, front, rear)
           IN  {array[i] : i \in Slots} \ {NULL} = {q[k] : k \in DOMAIN q}
<1> DEFINE q == Contents(array, front, rear)
           c == Count(array, front, rear)
           at(k) == (front + k - 1) % maxSize
<1>1. /\ q \in Seq(Payloads) /\ Len(q) = c
      /\ \A k \in 1 .. c : q[k] = array[at(k)]
  BY ContentsAt
<1>2. c \in 0 .. maxSize
  BY TestsByCount
<1>3. /\ front \in Slots
      /\ \A i \in Slots : array[i] # NULL <=> Dist(front, i) < c
  BY DEF GoodRing, WellFormed
<1>4. \A k \in 1 .. c : at(k) \in Slots
  BY <1>2, <1>3, SlotAt, SizeAssumption
<1> HIDE DEF q, c
<1>5. DOMAIN q = 1 .. c
  BY <1>1, <1>2
<1>6. ASSUME NEW k \in 1 .. c
      PROVE  q[k] \in {array[i] : i \in Slots} \ {NULL}
  <2>1. q[k] \in Payloads
    BY <1>1, <1>5
  <2>2. q[k] = array[at(k)] /\ at(k) \in Slots
    BY <1>1, <1>4
  <2> QED
    BY <2>1, <2>2, NullAssumption
<1>7. ASSUME NEW i \in Slots, array[i] # NULL
      PROVE  \E k \in 1 .. c : q[k] = array[i]
  <2>1. PICK d : d = Dist(front, i)
    OBVIOUS
  <2>2. d < c /\ d \in 0 .. maxSize - 1
    BY <2>1, <1>3, <1>7, DistRange
  <2>3. d + 1 \in 1 .. c /\ d + 1 \in 1 .. maxSize
    BY <2>2, <1>2, SizeAssumption
  <2>4. PICK k : k = d + 1
    OBVIOUS
  <2>5. at(k) \in Slots /\ Dist(front, at(k)) = d
    BY <2>2, <2>3, <2>4, <1>3, SlotAt
  <2>6. at(k) = i
    <3> HIDE DEF at
    <3> QED
      BY <2>1, <2>5, <1>3, SizeAssumption DEF Dist, Slots
  <2> QED
    BY <1>1, <2>3, <2>4, <2>6
<1>8. {array[i] : i \in Slots} \ {NULL} = {q[k] : k \in DOMAIN q}
  BY <1>5, <1>6, <1>7
<1> QED
  BY <1>8 DEF q
=============================================================================

-------------------------------- MODULE Ring --------------------------------
(***************************************************************************)
(* The circular array of queue.c: slots 0 .. maxSize-1, the index front of *)
(* the oldest payload, the index rear of the slot the next payload goes    *)
(* to.  No count is kept: front = rear means empty or full, and the        *)
(* payload at front tells which.                                           *)
(***************************************************************************)
EXTENDS Integers, Sequences

CONSTANTS maxSize,    \* number of slots
          Payloads,   \* the pointers that may be pushed
          NULL        \* the null pointer

ASSUME SizeAssumption == maxSize \in Nat \ {0}
ASSUME NullAssumption == NULL \notin Payloads

Slots == 0 .. maxSize - 1

EmptyArray == [i \in Slots |-> NULL]

\* Mutant: the index wraps one slot early.
SuccShort(i) == (i + 1) % (maxSize - 1)

Succ(i) == (i + 1) % maxSize

\* Mutants: a test that compares the indices and forgets the payload.
SameIndex(array, front, rear) == front = rear

IsEmpty(array, front, rear) == front = rear /\ array[front] = NULL

IsFull(array, front, rear) == front = rear /\ array[front] # NULL

(***************************************************************************)
(* The refinement mapping: how many payloads the ring holds and which      *)
(* queue of payloads it stands for.                                        *)
(***************************************************************************)
Dist(front, i) == IF i >= front THEN i - front ELSE i - front + maxSize

Count(array, front, rear) ==
    IF IsFull(array, front, rear) THEN maxSize ELSE Dist(front, rear)

Contents(array, front, rear) ==
    [k \in 1 .. Count(array, front, rear) |-> array[(front + k - 1) % maxSize]]

(***************************************************************************)
(* Exactly the slots from front up to rear hold a payload.                 *)
(***************************************************************************)
WellFormed(array, front, rear) ==
    \A i \in Slots :
        array[i] # NULL <=> Dist(front, i) < Count(array, front, rear)
=============================================================================

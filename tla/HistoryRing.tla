---------------------------- MODULE HistoryRing ----------------------------
(***************************************************************************)
(* PA4/predict.h: the last accesses of a processor in a ring of HSIZE      *)
(* slots.  head is the slot to be written next, so that the ring keeps     *)
(* HSIZE - 1 records; tail is the oldest of them.  phist_len and phist_at  *)
(* count and read the slot at head as well, the other functions do not.    *)
(***************************************************************************)
EXTENDS Integers, FiniteSets

CONSTANT HSIZE   \* slots of the ring

ASSUME HsizeAssumption == HSIZE \in Nat \ {0}

Slots == 0 .. HSIZE - 1

Record(page, fault) == [page |-> page, fault |-> fault]

HPLUS_ONE(slot) == IF slot < HSIZE - 1 THEN slot + 1 ELSE 0

HMINUS_ONE(slot) == IF slot = 0 THEN HSIZE - 1 ELSE slot - 1

\* A ring in static memory: records are 0 until they are pushed.
phist_init == [records |-> [s \in Slots |-> Record(0, FALSE)], head |-> 0, tail |-> 0]

\* Mutant: a full ring leaves the tail where it is.
inc_headOnly(ph) == [ph EXCEPT !.head = HPLUS_ONE(ph.head)]

\* A full ring drops its oldest record.
inc_head(ph) ==
    [ph EXCEPT !.head = HPLUS_ONE(ph.head),
               !.tail = IF HPLUS_ONE(ph.head) = ph.tail THEN HPLUS_ONE(ph.tail) ELSE @]

phist_push(ph, record) == inc_head([ph EXCEPT !.records[ph.head] = record])

\* How many slots the loops from tail to head visit, and which.
Count(ph) == IF ph.tail <= ph.head THEN ph.head - ph.tail ELSE ph.head - ph.tail + HSIZE
SlotAt(ph, n) == IF ph.tail + n < HSIZE THEN ph.tail + n ELSE ph.tail + n - HSIZE
Visited(ph) == {SlotAt(ph, n) : n \in 0 .. Count(ph) - 1}

phist_working_set(ph) == {ph.records[s].page : s \in Visited(ph)}
phist_fault_sum(ph) == Cardinality({s \in Visited(ph) : ph.records[s].fault})

\* The slots from tail to head, the one to be written next included.
phist_len(ph) == IF HPLUS_ONE(ph.head) = ph.tail THEN HSIZE ELSE ph.head - ph.tail + 1

\* The record t slots before head, for t below phist_len: at 0 that is the slot
\* to be written next.
phist_at(ph, t) ==
    LET ptr[n \in 0 .. t] == IF n = 0 THEN ph.head ELSE HMINUS_ONE(ptr[n - 1])
    IN  ph.records[ptr[t]]
=============================================================================

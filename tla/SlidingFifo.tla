---------------------------- MODULE SlidingFifo ----------------------------
(***************************************************************************)
(* What cbuf.h promises of the circular buffer: a bounded FIFO queue that  *)
(* can also be made to take a value when it is full, which costs the       *)
(* oldest one.  CircularBuf is shown to implement it.                      *)
(***************************************************************************)
EXTENDS BoundedFifo

\* circular_buf_put: "continues to add data if the buffer is full; old data is
\* overwritten".
Slide(x) ==
    /\ Len(contents) = Capacity
    /\ contents' = Append(Tail(contents), x)

SlidingNext == Next \/ \E x \in Payloads : Slide(x)

SlidingSpec == Init /\ [][SlidingNext]_contents
=============================================================================

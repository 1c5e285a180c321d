---------------------------- MODULE BoundedFifo ----------------------------
(***************************************************************************)
(* What queue.h promises of the shared buffer, without its representation: *)
(* a first-in first-out queue of at most Capacity payloads.  A push on a   *)
(* full queue and a pop of an empty one change nothing, so both are        *)
(* stuttering steps here.  Queue and MultiLookup are shown to implement    *)
(* this specification.                                                     *)
(***************************************************************************)
EXTENDS Naturals, Sequences

CONSTANTS Payloads,   \* what may be pushed
          Capacity    \* the most payloads the queue can hold

VARIABLE contents     \* the queued payloads, the oldest first

Init == contents = <<>>

\* queue_push: "add payload to end of FIFO queue".
Push(x) ==
    /\ Len(contents) < Capacity
    /\ contents' = Append(contents, x)

\* queue_pop: "return element from queue in FIFO order".
Pop ==
    /\ contents # <<>>
    /\ contents' = Tail(contents)

\* queue_cleanup: whatever is still queued is discarded.
Discard == contents' = <<>>

Next == (\E x \in Payloads : Push(x)) \/ Pop \/ Discard

Spec == Init /\ [][Next]_contents
=============================================================================

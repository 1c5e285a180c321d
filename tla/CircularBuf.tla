---------------------------- MODULE CircularBuf ----------------------------
(***************************************************************************)
(* PA3/cbuf.c: a ring with a full flag, the other buffer that PA3 builds.  *)
(* No program uses it: multi-lookup.c has all its calls commented out, the *)
(* one that would make the buffer included.  So its callers are any that   *)
(* cbuf.h allows, one thread at a time, and every call is one step.  A     *)
(* call needs a handle that is valid, which is up to the caller.           *)
(***************************************************************************)
EXTENDS Integers, Sequences

CONSTANTS max,       \* size of the buffer
          Data       \* what it can hold

ASSUME CbufAssumption == max \in Nat \ {0}

VARIABLES buffer,    \* cbuf->buffer
          head,      \* cbuf->head, the place of the next put
          tail,      \* cbuf->tail, the place of the next get
          full,      \* cbuf->full
          valid,     \* whether circular_buf_init made the handle
          last       \* what the last call returned, or stored in *data

cbufVars == <<buffer, head, tail, full, valid, last>>

Places == 0 .. max - 1

circular_buf_empty == ~full /\ head = tail
circular_buf_full == full
circular_buf_capacity == max

\* Mutant: what the full flag says is left out.
circular_buf_sizeUnflagged ==
    IF head >= tail THEN head - tail ELSE max + head - tail

circular_buf_size ==
    CASE full                  -> max
      [] ~full /\ head >= tail -> head - tail
      [] ~full /\ head < tail  -> max + head - tail

\* The buffer belongs to the caller and has any contents.  malloc is asserted
\* to succeed.
CbufInit ==
    /\ buffer \in [Places -> Data]
    /\ head = 0 /\ tail = 0 /\ full = FALSE
    /\ valid = TRUE
    /\ last = 0

Reset == head' = 0 /\ tail' = 0 /\ full' = FALSE

circular_buf_init ==
    /\ ~valid
    /\ Reset
    /\ valid' = TRUE
    /\ UNCHANGED <<buffer, last>>

\* Only the structure is freed: the caller may use the buffer for another one.
circular_buf_free ==
    /\ valid
    /\ valid' = FALSE
    /\ UNCHANGED <<buffer, head, tail, full, last>>

circular_buf_reset ==
    /\ valid
    /\ Reset
    /\ UNCHANGED <<buffer, valid, last>>

\* Mutant: a full buffer keeps its tail.
advance_pointerOnly ==
    /\ head' = (head + 1) % max
    /\ full' = (head' = tail)
    /\ UNCHANGED tail

\* The place after the one put to becomes the oldest when the buffer was full.
advance_pointer ==
    /\ tail' = IF full THEN (tail + 1) % max ELSE tail
    /\ head' = (head + 1) % max
    /\ full' = (head' = tail')

retreat_pointer ==
    /\ full' = FALSE
    /\ tail' = (tail + 1) % max
    /\ UNCHANGED head

circular_buf_put(x) ==
    /\ valid
    /\ buffer' = [buffer EXCEPT ![head] = x]
    /\ advance_pointer
    /\ UNCHANGED <<valid, last>>

circular_buf_put2(x) ==
    /\ valid
    /\ \/ /\ ~circular_buf_full
          /\ buffer' = [buffer EXCEPT ![head] = x]
          /\ advance_pointer
          /\ last' = 0
       \/ /\ circular_buf_full
          /\ last' = -1
          /\ UNCHANGED <<buffer, head, tail, full>>
    /\ UNCHANGED valid

circular_buf_get ==
    /\ valid
    /\ \/ /\ ~circular_buf_empty
          /\ last' = buffer[tail]
          /\ retreat_pointer
       \/ /\ circular_buf_empty
          /\ last' = -1
          /\ UNCHANGED <<head, tail, full>>
    /\ UNCHANGED <<buffer, valid>>

CbufNext ==
    \/ \E x \in Data : circular_buf_put(x) \/ circular_buf_put2(x)
    \/ circular_buf_get
    \/ circular_buf_reset
    \/ circular_buf_free
    \/ circular_buf_init

CbufSpec == CbufInit /\ [][CbufNext]_cbufVars

----------------------------------------------------------------------------
\* The types of the variables, and what the full flag means.
CbufTypeOK ==
    /\ buffer \in [Places -> Data]
    /\ head \in Places /\ tail \in Places
    /\ full \in BOOLEAN /\ (full => head = tail)
    /\ valid \in BOOLEAN
    /\ last \in Data \cup {0, -1}

\* What the buffer holds: circular_buf_size values, from tail on.
Kept == [k \in 1 .. circular_buf_size |-> buffer[(tail + k - 1) % max]]

\* Through any wrap-around the buffer is a FIFO queue that, when it is full,
\* slides over its oldest value: the full flag, which alone tells an empty
\* buffer from a full one, is right after every call, also after an overwrite.
Window == INSTANCE SlidingFifo
              WITH contents <- Kept, Payloads <- Data,
                   Capacity <- circular_buf_capacity

ImplementsWindow == Window!SlidingSpec

\* The results are right: get returns the oldest value or -1 when there is
\* none, put2 fails exactly when the buffer is full, as cbuf.h says, and
\* circular_buf_size counts the puts that were taken and not yet got.
CbufReports ==
    [][ /\ circular_buf_get => last' = IF Kept = <<>> THEN -1 ELSE Head(Kept)
        /\ \A x \in Data : circular_buf_put2(x) =>
              /\ last' = -1 <=> Len(Kept) = circular_buf_capacity
              /\ last' = 0 => circular_buf_size' = circular_buf_size + 1
      ]_cbufVars
=============================================================================

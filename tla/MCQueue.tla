------------------------------ MODULE MCQueue ------------------------------
(* The two buffers of PA3, one of which a user takes.  A queue of three    *)
(* slots and four payloads: every slot is reused after a wrap-around, and  *)
(* more payloads than slots exist; and a circular buffer of three places.  *)
EXTENDS Queue, CircularBuf

CONSTANTS a, b, c, d
MCPayloads == {a, b, c, d}
MCData == {a, b, c}

VARIABLE user   \* of which buffer

MCInit ==
    /\ Init /\ CbufInit
    /\ user \in {"queue", "cbuf"}
    /\ user = "queue" => buffer = [p \in Places |-> a]

MCNext ==
    \/ user = "queue" /\ Next /\ UNCHANGED <<cbufVars, user>>
    \/ user = "cbuf" /\ CbufNext /\ UNCHANGED <<vars, user>>

MCSpec == MCInit /\ [][MCNext]_<<vars, cbufVars, user>>
=============================================================================

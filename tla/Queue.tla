------------------------------- MODULE Queue -------------------------------
(***************************************************************************)
(* PA3/queue.c used by one thread at a time: every call is one step.  The  *)
(* word-by-word interleaving with an unlocked queue_is_empty is the        *)
(* business of MultiLookup.                                                *)
(***************************************************************************)
EXTENDS Ring

VARIABLES array,   \* q->array[i].payload
          front,   \* q->front
          rear,    \* q->rear
          live,    \* whether q->array is allocated
          ret      \* what the last call returned

vars == <<array, front, rear, live, ret>>

QUEUE_FAILURE == -1
QUEUE_SUCCESS == 0

\* A queue its owner has just initialised.
Init ==
    /\ array = EmptyArray
    /\ front = 0
    /\ rear = 0
    /\ live = TRUE
    /\ ret = maxSize

\* The allocation may fail; the queue is then unusable and nothing is set.
queue_init ==
    /\ ~live
    /\ \/ /\ array' = EmptyArray
          /\ front' = 0
          /\ rear' = 0
          /\ live' = TRUE
          /\ ret' = maxSize
       \/ /\ ret' = QUEUE_FAILURE
          /\ UNCHANGED <<array, front, rear, live>>

queue_push(x) ==
    /\ live
    /\ \/ /\ IsFull(array, front, rear)
          /\ ret' = QUEUE_FAILURE
          /\ UNCHANGED <<array, rear>>
       \/ /\ ~IsFull(array, front, rear)
          /\ array' = [array EXCEPT ![rear] = x]
          /\ rear' = Succ(rear)
          /\ ret' = QUEUE_SUCCESS
    /\ UNCHANGED <<front, live>>

queue_pop ==
    /\ live
    /\ \/ /\ IsEmpty(array, front, rear)
          /\ ret' = NULL
          /\ UNCHANGED <<array, front>>
       \/ /\ ~IsEmpty(array, front, rear)
          /\ ret' = array[front]
          /\ array' = [array EXCEPT ![front] = NULL]
          /\ front' = Succ(front)
    /\ UNCHANGED <<rear, live>>

\* Pops until the queue is empty, which front reaches at rear, and frees.
queue_cleanup ==
    /\ live
    /\ array' = EmptyArray
    /\ front' = rear
    /\ live' = FALSE
    /\ UNCHANGED <<rear, ret>>

Next == \/ queue_init
        \/ \E x \in Payloads : queue_push(x)
        \/ queue_pop
        \/ queue_cleanup

Spec == Init /\ [][Next]_vars

----------------------------------------------------------------------------
Queued == Contents(array, front, rear)

\* The types of the variables.
TypeOK ==
    /\ array \in [Slots -> Payloads \cup {NULL}]
    /\ front \in Slots
    /\ rear \in Slots
    /\ live \in BOOLEAN
    /\ ret \in Payloads \cup {NULL} \cup Int

\* Without a counter, queue_is_empty and queue_is_full (queue.c:50-66) judge
\* by one slot: they are right as long as the occupied slots are exactly the
\* ones from front to rear, wrapped around.
RingInv == WellFormed(array, front, rear)

\* queue_push and queue_pop implement a bounded FIFO queue through any
\* wrap-around: no payload is overwritten, skipped or returned twice.
Fifo == INSTANCE BoundedFifo
            WITH contents <- Queued, Capacity <- maxSize

ImplementsFifo == Fifo!Spec

\* A call reports what it did: a pop returns the oldest payload or NULL when
\* there is none, a push fails exactly when maxSize payloads are queued.
CallsReport ==
    [][ /\ queue_pop => ret' = IF Queued = <<>> THEN NULL ELSE Head(Queued)
        /\ \A x \in Payloads :
             queue_push(x) => (ret' = QUEUE_FAILURE <=> Len(Queued) = maxSize)
      ]_vars
=============================================================================

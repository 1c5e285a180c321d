---------------------------- MODULE MultiLookup ----------------------------
(***************************************************************************)
(* PA3/multi-lookup.c: requester threads read names from files and push    *)
(* them on a shared queue, resolver threads pop them, look them up and     *)
(* write one line each.  buffmutex protects the queue, except that a       *)
(* resolver decides whether to go on by calling queue_is_empty without it: *)
(* those loads are steps of their own, and so are the stores of a push and *)
(* of a pop that they can fall between.                                    *)
(*                                                                         *)
(* An unlock only frees the mutex, so it is one step with the last         *)
(* access it protects.  A lookup and the address it yields are not told    *)
(* apart: dnslookup of no name fails, and a failure still gets a line.     *)
(***************************************************************************)
EXTENDS Ring, FiniteSets

CONSTANTS numRequests,   \* requester threads, argv[1]
          Resolvers,     \* resolver threads, argv[2]
          nameCount      \* the number of names in each input file

Requesters == 1 .. numRequests
Threads == Requesters \cup Resolvers

\* A payload is the copy of name j of file i that line 45 allocates.
ASSUME InputAssumption ==
    /\ nameCount \in Seq(Nat)
    /\ Payloads = UNION {{i} \X (1 .. nameCount[i]) : i \in DOMAIN nameCount}

\* A requester without an input file would read an indeterminate stream.
ASSUME ThreadAssumption ==
    /\ numRequests \in 0 .. Len(nameCount)
    /\ Requesters \cap Resolvers = {}
    /\ NULL \notin Threads

VARIABLES array, front, rear,   \* the shared queue
          buffmutex,            \* the thread holding it, or NULL
          outmutex,             \* the thread holding it, or NULL
          requests_exist,       \* the flag of multi-lookup.h:14
          pc,                   \* where each thread is
          domain,               \* the name each thread has in hand
          scanned,              \* names read from each requester's file
          peek,                 \* the index a resolver's test last loaded
          main,                 \* what main waits for, or how the process ended
          unopened,             \* the input files that fopen could not open
          lines,                \* history: lines written for each name
          refused,              \* history: names whose push failed
          discarded,            \* history: names left to queue_cleanup
          late                  \* history: a test began after the last push

queue == <<array, front, rear>>
history == <<lines, refused, discarded, late>>
vars == <<queue, buffmutex, outmutex, requests_exist, pc, domain, scanned,
          peek, main, unopened, history>>

\* Every thread has been created; one that has yet to run is at its start.
Init ==
    /\ array = EmptyArray /\ front = 0 /\ rear = 0
    /\ buffmutex = NULL /\ outmutex = NULL
    /\ requests_exist = TRUE
    /\ pc = [t \in Threads |-> IF t \in Requesters THEN "scan" ELSE "front"]
    /\ domain = [t \in Threads |-> NULL]
    /\ scanned = [i \in Requesters |-> 0]
    /\ peek = [v \in Resolvers |-> 0]
    /\ main = "requesters"
    /\ unopened \in SUBSET DOMAIN nameCount
    /\ lines = [p \in Payloads |-> 0]
    /\ refused = {} /\ discarded = {}
    /\ late = FALSE

Goto(t, label) == pc' = [pc EXCEPT ![t] = label]

\* pthread_mutex_lock returns, and the mutants' lock that does not exclude.
UnlockedAlways(mutex) == TRUE
Unlocked(mutex) == mutex = NULL

\* pthread_join has returned for every one of the threads.
JoinedNone(threads) == TRUE
Joined(threads) == \A t \in threads : pc[t] = "done"

\* This requester will push no more names.
DonePushing(i) == pc[i] \in {"log", "logging", "done"}

----------------------------------------------------------------------------
(* request *)

\* fscanf of the next name and its copy, or the end of the file.
Scan(i) ==
    /\ pc[i] = "scan"
    /\ i \notin unopened
    /\ \/ /\ scanned[i] < nameCount[i]
          /\ scanned' = [scanned EXCEPT ![i] = @ + 1]
          /\ domain' = [domain EXCEPT ![i] = <<i, scanned[i] + 1>>]
          /\ Goto(i, "push")
       \/ /\ scanned[i] = nameCount[i]
          /\ Goto(i, "log")
          /\ UNCHANGED <<scanned, domain>>
    /\ UNCHANGED <<queue, buffmutex, outmutex, requests_exist, peek, main,
                   unopened, history>>

\* fopen returned NULL, which nobody checked, and fscanf uses the stream.
ScanCrash(i) ==
    /\ pc[i] = "scan"
    /\ i \in unopened
    /\ main' = "crashed"
    /\ UNCHANGED <<queue, buffmutex, outmutex, requests_exist, pc, domain,
                   scanned, peek, unopened, history>>

\* Lock buffmutex, and queue_push up to its store into the array; when the
\* queue is full it fails, request ignores that, and the name is lost.
\* Either way request does not use its pointer again.
PushStore(i) ==
    /\ pc[i] = "push"
    /\ Unlocked(buffmutex)
    /\ domain' = [domain EXCEPT ![i] = NULL]
    /\ \/ /\ IsFull(array, front, rear)
          /\ refused' = refused \cup {domain[i]}
          /\ Goto(i, "scan")
          /\ UNCHANGED <<array, buffmutex>>
       \/ /\ ~IsFull(array, front, rear)
          /\ array' = [array EXCEPT ![rear] = domain[i]]
          /\ buffmutex' = i
          /\ Goto(i, "advance")
          /\ UNCHANGED refused
    /\ UNCHANGED <<front, rear, outmutex, requests_exist, scanned, peek, main,
                   unopened, lines, discarded, late>>

\* The end of queue_push, and the unlock.
PushAdvance(i) ==
    /\ pc[i] = "advance"
    /\ rear' = Succ(rear)
    /\ buffmutex' = NULL
    /\ Goto(i, "scan")
    /\ UNCHANGED <<array, front, outmutex, requests_exist, domain, scanned,
                   peek, main, unopened, history>>

LockLog(i) ==
    /\ pc[i] = "log"
    /\ Unlocked(outmutex)
    /\ outmutex' = i
    /\ Goto(i, "logging")
    /\ UNCHANGED <<queue, buffmutex, requests_exist, domain, scanned, peek,
                   main, unopened, history>>

\* Mutant: the unlock of outmutex is missing.
WriteLogKeepsMutex(i) ==
    /\ pc[i] = "logging"
    /\ Goto(i, "done")
    /\ UNCHANGED <<queue, buffmutex, outmutex, requests_exist, domain, scanned,
                   peek, main, unopened, history>>

\* The line of the serviced file, the unlock and the return.
WriteLog(i) ==
    /\ pc[i] = "logging"
    /\ outmutex' = NULL
    /\ Goto(i, "done")
    /\ UNCHANGED <<queue, buffmutex, requests_exist, domain, scanned, peek,
                   main, unopened, history>>

request(i) ==
    /\ main # "crashed"
    /\ \/ Scan(i) \/ ScanCrash(i) \/ PushStore(i) \/ PushAdvance(i)
       \/ LockLog(i) \/ WriteLog(i)

----------------------------------------------------------------------------
(* resolve *)

\* The four loads of queue_is_empty, without the mutex: q->front, q->rear,
\* q->front again as an index, and the payload there.
LoadFront(v) ==
    /\ pc[v] = "front"
    /\ peek' = [peek EXCEPT ![v] = front]
    /\ late' = (late \/ \A i \in Requesters : DonePushing(i))
    /\ Goto(v, "rear")
    /\ UNCHANGED <<queue, buffmutex, outmutex, requests_exist, domain, scanned,
                   main, unopened, lines, refused, discarded>>

\* Mutant: equal indices are taken for an empty queue, without a look at the
\* payload.
CompareRearOnly(v) ==
    /\ pc[v] = "rear"
    /\ Goto(v, IF peek[v] = rear THEN "exist" ELSE "pop")
    /\ UNCHANGED <<queue, buffmutex, outmutex, requests_exist, domain, scanned,
                   peek, main, unopened, history>>

CompareRear(v) ==
    /\ pc[v] = "rear"
    /\ Goto(v, IF peek[v] = rear THEN "index" ELSE "pop")
    /\ UNCHANGED <<queue, buffmutex, outmutex, requests_exist, domain, scanned,
                   peek, main, unopened, history>>

LoadIndex(v) ==
    /\ pc[v] = "index"
    /\ peek' = [peek EXCEPT ![v] = front]
    /\ Goto(v, "payload")
    /\ UNCHANGED <<queue, buffmutex, outmutex, requests_exist, domain, scanned,
                   main, unopened, history>>

LoadPayload(v) ==
    /\ pc[v] = "payload"
    /\ Goto(v, IF array[peek[v]] = NULL THEN "exist" ELSE "pop")
    /\ UNCHANGED <<queue, buffmutex, outmutex, requests_exist, domain, scanned,
                   peek, main, unopened, history>>

\* The right operand of ||, loaded only when the queue looked empty.
LoadExist(v) ==
    /\ pc[v] = "exist"
    /\ Goto(v, IF requests_exist THEN "pop" ELSE "done")
    /\ UNCHANGED <<queue, buffmutex, outmutex, requests_exist, domain, scanned,
                   peek, main, unopened, history>>

\* Lock buffmutex, and queue_pop up to its store into the array; with an
\* empty queue it returns NULL, and resolve goes on with that.
PopTake(v) ==
    /\ pc[v] = "pop"
    /\ Unlocked(buffmutex)
    /\ \/ /\ IsEmpty(array, front, rear)
          /\ Goto(v, "write")
          /\ UNCHANGED <<array, buffmutex, domain>>
       \/ /\ ~IsEmpty(array, front, rear)
          /\ domain' = [domain EXCEPT ![v] = array[front]]
          /\ array' = [array EXCEPT ![front] = NULL]
          /\ buffmutex' = v
          /\ Goto(v, "advance")
    /\ UNCHANGED <<front, rear, outmutex, requests_exist, scanned, peek, main,
                   unopened, history>>

PopAdvance(v) ==
    /\ pc[v] = "advance"
    /\ front' = Succ(front)
    /\ buffmutex' = NULL
    /\ Goto(v, "write")
    /\ UNCHANGED <<array, rear, outmutex, requests_exist, domain, scanned,
                   peek, main, unopened, history>>

\* dnslookup, and the lock of outmutex.
LockOutput(v) ==
    /\ pc[v] = "write"
    /\ Unlocked(outmutex)
    /\ outmutex' = v
    /\ Goto(v, "writing")
    /\ UNCHANGED <<queue, buffmutex, requests_exist, domain, scanned, peek,
                   main, unopened, history>>

\* The line of the results file, which has no name when the queue was empty, the
\* unlock and the free.
WriteOutput(v) ==
    /\ pc[v] = "writing"
    /\ IF domain[v] = NULL
       THEN UNCHANGED lines
       ELSE lines' = [lines EXCEPT ![domain[v]] = @ + 1]
    /\ domain' = [domain EXCEPT ![v] = NULL]
    /\ outmutex' = NULL
    /\ Goto(v, "front")
    /\ UNCHANGED <<queue, buffmutex, requests_exist, scanned, peek, main,
                   unopened, refused, discarded, late>>

resolve(v) ==
    /\ main # "crashed"
    /\ \/ LoadFront(v) \/ CompareRear(v) \/ LoadIndex(v) \/ LoadPayload(v)
       \/ LoadExist(v) \/ PopTake(v) \/ PopAdvance(v)
       \/ LockOutput(v) \/ WriteOutput(v)

----------------------------------------------------------------------------
(* main, from its first join on *)

JoinRequesters ==
    /\ main = "requesters"
    /\ Joined(Requesters)
    /\ requests_exist' = FALSE
    /\ main' = "resolvers"
    /\ UNCHANGED <<queue, buffmutex, outmutex, pc, domain, scanned, peek,
                   unopened, history>>

\* The last joins, queue_cleanup, and the fclose of every input file, which
\* is a crash for one that was never opened.
JoinResolvers ==
    /\ main = "resolvers"
    /\ Joined(Resolvers)
    /\ array' = EmptyArray
    /\ front' = rear
    /\ discarded' = {array[s] : s \in Slots} \ {NULL}
    /\ main' = IF unopened = {} THEN "returned" ELSE "crashed"
    /\ UNCHANGED <<rear, buffmutex, outmutex, requests_exist, pc, domain,
                   scanned, peek, unopened, lines, refused, late>>

\* The process is over.
Ended == main \in {"returned", "crashed"} /\ UNCHANGED vars

Next ==
    \/ \E i \in Requesters : request(i)
    \/ \E v \in Resolvers : resolve(v)
    \/ JoinRequesters
    \/ JoinResolvers
    \/ Ended

Spec == Init /\ [][Next]_vars

\* The kernel runs every thread that can run.  Resolvers spin through both
\* mutexes while the queue is empty, so a requester must also get a mutex
\* that is free again and again, as it does when a lookup takes time.
Fairness ==
    /\ \A i \in Requesters : /\ WF_vars(request(i))
                             /\ SF_vars(main # "crashed" /\ PushStore(i))
                             /\ SF_vars(main # "crashed" /\ LockLog(i))
    /\ \A v \in Resolvers : WF_vars(resolve(v))
    /\ WF_vars(JoinRequesters)
    /\ WF_vars(JoinResolvers)

FairSpec == Spec /\ Fairness

----------------------------------------------------------------------------
\* The types of the variables.
TypeOK ==
    /\ array \in [Slots -> Payloads \cup {NULL}]
    /\ front \in Slots /\ rear \in Slots
    /\ buffmutex \in Threads \cup {NULL} /\ outmutex \in Threads \cup {NULL}
    /\ requests_exist \in BOOLEAN
    /\ \A i \in Requesters :
          pc[i] \in {"scan", "push", "advance", "log", "logging", "done"}
    /\ \A v \in Resolvers :
          pc[v] \in {"front", "rear", "index", "payload", "exist", "pop",
                     "advance", "write", "writing", "done"}
    /\ DOMAIN pc = Threads
    /\ domain \in [Threads -> Payloads \cup {NULL}]
    /\ scanned \in [Requesters -> Nat]
    /\ peek \in [Resolvers -> Slots]
    /\ main \in {"requesters", "resolvers", "returned", "crashed"}
    /\ unopened \subseteq DOMAIN nameCount
    /\ lines \in [Payloads -> Nat]
    /\ refused \subseteq Payloads
    /\ discarded \subseteq Payloads
    /\ late \in BOOLEAN

(***************************************************************************)
(* The queue between the two stores of a call: a push counts from its      *)
(* store into the array on, and so does a pop.                             *)
(***************************************************************************)
Pushing == \E i \in Requesters : pc[i] = "advance"
Popping == \E v \in Resolvers : pc[v] = "advance"

PushedRear == IF Pushing THEN Succ(rear) ELSE rear
PoppedFront == IF Popping THEN Succ(front) ELSE front

Queued == Contents(array, PoppedFront, PushedRear)

\* buffmutex keeps the ring whole although queue.c itself has no lock: the
\* occupied slots are those from front to rear, counting the one call that
\* may be under way.
RingInv == WellFormed(array, PoppedFront, PushedRear)

\* The threads use the array as one bounded first-in first-out queue, so the
\* names of one file are looked up in the order they have in it.
Fifo == INSTANCE BoundedFifo WITH contents <- Queued, Capacity <- maxSize

ImplementsFifo == Fifo!Spec

(***************************************************************************)
(* Where a name can be.                                                    *)
(***************************************************************************)
Unread == {p \in Payloads : p[1] \in Requesters => p[2] > scanned[p[1]]}
InHand == {domain[t] : t \in Threads} \ {NULL}
InQueue == {Queued[k] : k \in DOMAIN Queued}
Written == {p \in Payloads : lines[p] > 0}

Places == <<Unread, InHand, InQueue, Written, refused, discarded>>

\* No name is dropped or duplicated on its way: each is in exactly one place,
\* in the hands of one thread, in one slot, with one line.  Its pointer is
\* therefore freed once and never used by two threads.
EachNameInOnePlace ==
    /\ LET place == Places
       IN  \A p \in Payloads :
              \E n \in DOMAIN place : {m \in DOMAIN place : p \in place[m]} = {n}
    /\ \A t, u \in Threads : domain[t] = domain[u] /\ t # u => domain[t] = NULL
    /\ \A k, m \in DOMAIN Queued : Queued[k] = Queued[m] => k = m
    /\ \A p \in Payloads : lines[p] <= 1

\* When main returns, every name of the files that were given a requester got
\* its line, except those a full queue refused and those left in the queue.  It
\* does not say that none is left there (see NothingLeftBehind), nor that every
\* file has a requester.
ReturnsComplete ==
    main = "returned" =>
        \A p \in Payloads :
            p[1] \in Requesters => p \in Written \cup refused \cup discarded

\* The test without the mutex can be wrong, but never for every resolver: if
\* one of them begins its test (line 82) after the last push, nothing is left
\* in the queue when main returns.
DrainedByLateTest ==
    main = "returned" /\ late => discarded = {}

\* The queue refuses no more names than exceed its size, so it refuses none
\* when there are at most maxSize names in all.
RefusesOnlyExcess ==
    refused # {} => Cardinality(refused) + maxSize <= Cardinality(Payloads)

\* The program ends: no thread waits forever for a mutex, and the resolvers
\* leave their loop once the requesters are gone.  The crash on a file that could
\* not be opened is an end as well.
Termination == <>(main \in {"returned", "crashed"})

(***************************************************************************)
(* What the comments and the assignment say and the code does not do.      *)
(***************************************************************************)

\* "loop while shared buffer is not empty or if requester threads still
\* exist" (multi-lookup.c:81): no name is left in the buffer at the end.
NothingLeftBehind == discarded = {}
=============================================================================

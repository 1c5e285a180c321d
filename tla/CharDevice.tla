----------------------------- MODULE CharDevice -----------------------------
(***************************************************************************)
(* PA2/simple_char_driver.c: a kernel module with one buffer behind a      *)
(* character device.  Every open file has a position of its own, several   *)
(* tasks may share an open file, and nothing in the module is locked.      *)
(*                                                                         *)
(* A call is split where other tasks can come between: the system call     *)
(* takes a copy of the position, the handler moves one byte after the      *)
(* other, and the system call stores the position back.  The kernel takes  *)
(* a reference of the module for an open file, fetches and stores the      *)
(* position of a character device without a lock, stores it only if the    *)
(* handler returned no error, and releases a file after its last call;     *)
(* that part is external.                                                  *)
(***************************************************************************)
EXTENDS Integers, Sequences, FiniteSets

CONSTANTS Tasks,         \* the tasks that make system calls
          Files,         \* the open files there can be
          Chars,         \* what a byte can be
          BEYOND,        \* a byte from behind the buffer
          BUFFER_SIZE,   \* bytes in the buffer
          Strings,       \* what tasks write
          Lengths,       \* how much tasks ask to read
          Offsets,       \* where tasks seek to
          MaxOpens,      \* bound on the opens of one load of the module
          NULL           \* no file

ASSUME DeviceAssumption ==
    /\ BUFFER_SIZE \in Nat \ {0}
    /\ Strings \subseteq Seq(Chars) /\ Lengths \subseteq Nat
    /\ Offsets \subseteq Int /\ MaxOpens \in Nat
    /\ BEYOND \notin Chars /\ NULL \notin Files

VARIABLES loaded,          \* "no", "yes", or "leaving" when the buffer is freed
          registered,      \* whether register_chrdev succeeded
          device_buffer,   \* the bytes of the buffer
          opened, closed,  \* the counters of the module
          open,            \* the files that are open
          f_pos,           \* the position of each file
          call,            \* the call each task is in, see Idle
          opens, closes,   \* history: opens and closes since the module was loaded
          raced,           \* history: counters that two tasks changed at a time
          crossed,         \* history: tasks whose file was moved by another call
          dirty            \* history: the bytes others wrote during a task's call

history == <<opens, closes, raced, crossed, dirty>>
vars == <<loaded, registered, device_buffer, opened, closed, open, f_pos, call,
          opens, closes, raced, crossed, dirty>>

Bytes == 0 .. BUFFER_SIZE - 1
Positions == 0 .. BUFFER_SIZE

\* The call of a task that makes none.
Idle == [op |-> "none", file |-> NULL, offset |-> 0, length |-> 0, data |-> <<>>,
         copied |-> 0, seen |-> 0]

Init ==
    /\ loaded = "no" /\ registered = FALSE
    /\ device_buffer \in [Bytes -> Chars]
    /\ opened = 0 /\ closed = 0
    /\ open = {}
    /\ f_pos = [f \in Files |-> 0]
    /\ call = [t \in Tasks |-> Idle]
    /\ opens = 0 /\ closes = 0 /\ raced = {} /\ crossed = {}
    /\ dirty = [t \in Tasks |-> {}]

Doing(t, op) == call[t].op = op
Users(f) == {t \in Tasks : call[t].file = f}

\* Mutant: the file operations do not name their owner, so that the kernel
\* counts no references of the module.
UnusedAlways == TRUE

\* Nothing refers to the module that file_operations names as its owner.
Unused == open = {} /\ \A t \in Tasks : Doing(t, "none")

\* A new call of a task: what came between concerns earlier calls.
Begin(t, c) ==
    /\ Doing(t, "none")
    /\ call' = [call EXCEPT ![t] = c]
    /\ crossed' = crossed \ {t}
    /\ dirty' = [dirty EXCEPT ![t] = {}]

Finish(t) == call' = [call EXCEPT ![t] = Idle]

----------------------------------------------------------------------------
(* Loading and unloading *)

\* The buffer has any contents, as kmalloc clears nothing.  The result of
\* register_chrdev is not looked at: without a device there is nothing to open.
simple_char_driver_init ==
    /\ loaded = "no"
    /\ loaded' = "yes"
    /\ registered' \in BOOLEAN
    /\ device_buffer' \in [Bytes -> Chars]
    /\ opened' = 0 /\ closed' = 0
    /\ opens' = 0 /\ closes' = 0 /\ raced' = {}
    /\ UNCHANGED <<open, f_pos, call, crossed, dirty>>

\* The buffer is freed first and the device removed after it.
FreeBuffer ==
    /\ loaded = "yes" /\ Unused
    /\ loaded' = "leaving"
    /\ UNCHANGED <<registered, device_buffer, opened, closed, open, f_pos, call, history>>

Unregister ==
    /\ loaded = "leaving"
    /\ loaded' = "no" /\ registered' = FALSE
    /\ UNCHANGED <<device_buffer, opened, closed, open, f_pos, call, history>>

simple_char_driver_exit == FreeBuffer \/ Unregister

----------------------------------------------------------------------------
(* open and close *)

\* opened++ and closed++ load the counter and store it again.
LoadOpened(t, f) ==
    /\ loaded = "yes" /\ registered
    /\ f \notin open /\ Users(f) = {} /\ opens < MaxOpens
    /\ Begin(t, [Idle EXCEPT !.op = "open", !.file = f, !.seen = opened])
    /\ raced' = IF \E u \in Tasks : Doing(u, "open") THEN raced \cup {"open"} ELSE raced
    /\ UNCHANGED <<loaded, registered, device_buffer, opened, closed, open, f_pos,
                   opens, closes>>

simple_char_driver_open(t) ==
    /\ Doing(t, "open")
    /\ opened' = call[t].seen + 1
    /\ opens' = opens + 1
    /\ open' = open \cup {call[t].file}
    /\ f_pos' = [f_pos EXCEPT ![call[t].file] = 0]
    /\ Finish(t)
    /\ UNCHANGED <<loaded, registered, device_buffer, closed, closes, raced, crossed, dirty>>

LoadClosed(t, f) ==
    /\ f \in open /\ Users(f) = {}
    /\ Begin(t, [Idle EXCEPT !.op = "close", !.file = f, !.seen = closed])
    /\ raced' = IF \E u \in Tasks : Doing(u, "close") THEN raced \cup {"close"} ELSE raced
    /\ UNCHANGED <<loaded, registered, device_buffer, opened, closed, open, f_pos,
                   opens, closes>>

\* Mutant: the counter of the opens is set.
simple_char_driver_closeOpened(t) ==
    /\ Doing(t, "close")
    /\ opened' = call[t].seen + 1
    /\ closes' = closes + 1
    /\ open' = open \ {call[t].file}
    /\ Finish(t)
    /\ UNCHANGED <<loaded, registered, device_buffer, closed, f_pos, opens, raced, crossed, dirty>>

simple_char_driver_close(t) ==
    /\ Doing(t, "close")
    /\ closed' = call[t].seen + 1
    /\ closes' = closes + 1
    /\ open' = open \ {call[t].file}
    /\ Finish(t)
    /\ UNCHANGED <<loaded, registered, device_buffer, opened, f_pos, opens, raced, crossed, dirty>>

----------------------------------------------------------------------------
(* read and write *)

Usable(f) == f \in open /\ \A t \in Users(f) : ~Doing(t, "close")

\* The system call copies the position, and the handler starts.
BeginRead(t, f, length) ==
    /\ Usable(f)
    /\ Begin(t, [Idle EXCEPT !.op = "read", !.file = f, !.offset = f_pos[f],
                             !.length = length])
    /\ UNCHANGED <<loaded, registered, device_buffer, opened, closed, open, f_pos,
                   opens, closes, raced>>

BeginWrite(t, f, string) ==
    /\ Usable(f)
    /\ Begin(t, [Idle EXCEPT !.op = "write", !.file = f, !.offset = f_pos[f],
                             !.length = Len(string), !.data = string])
    /\ UNCHANGED <<loaded, registered, device_buffer, opened, closed, open, f_pos,
                   opens, closes, raced>>

\* bytes_to_read and bytes_to_write: no more than up to the end of the buffer.
BytesToMove(c) ==
    IF BUFFER_SIZE - c.offset > c.length THEN c.length ELSE BUFFER_SIZE - c.offset

\* A read passes the whole length to copy_to_user, a write only what fits to
\* copy_from_user.
CopyLength(c) == IF c.op = "read" THEN c.length ELSE BytesToMove(c)

\* The next byte of the buffer for a call.
At(c) == c.offset + c.copied

\* Mutant: the offset is left out.
CopyToUserFromStart(t) ==
    LET c == call[t]
    IN  /\ c.op = "read" /\ c.copied < CopyLength(c)
        /\ call' = [call EXCEPT ![t].copied = @ + 1,
                                ![t].data = Append(@, IF c.copied \in Bytes
                                                      THEN device_buffer[c.copied]
                                                      ELSE BEYOND)]
        /\ UNCHANGED <<loaded, registered, device_buffer, opened, closed, open, f_pos, history>>

CopyToUser(t) ==
    LET c == call[t]
    IN  /\ c.op = "read" /\ c.copied < CopyLength(c)
        /\ call' = [call EXCEPT ![t].copied = @ + 1,
                                ![t].data = Append(@, IF At(c) \in Bytes
                                                      THEN device_buffer[At(c)]
                                                      ELSE BEYOND)]
        /\ UNCHANGED <<loaded, registered, device_buffer, opened, closed, open, f_pos, history>>

CopyFromUser(t) ==
    LET c == call[t]
    IN  /\ c.op = "write" /\ c.copied < CopyLength(c)
        /\ device_buffer' = [device_buffer EXCEPT ![At(c)] = c.data[c.copied + 1]]
        /\ call' = [call EXCEPT ![t].copied = @ + 1]
        /\ dirty' = [u \in Tasks |-> IF u = t THEN dirty[t] ELSE dirty[u] \cup {At(c)}]
        /\ UNCHANGED <<loaded, registered, opened, closed, open, f_pos,
                       opens, closes, raced, crossed>>

\* Mutant: what could not be copied is not taken off.
ResultOptimistic(c) == BytesToMove(c)

\* bytes_read or bytes_written: copy_to_user and copy_from_user return how many
\* bytes they left, which is more than none when the user's page is missing.
Result(c) == BytesToMove(c) - (CopyLength(c) - c.copied)

\* The position of a file is stored; calls that copied it before are crossed.
StorePosition(t, pos) ==
    /\ f_pos' = [f_pos EXCEPT ![call[t].file] = pos]
    /\ crossed' = crossed \cup (Users(call[t].file) \ {t})

\* The handler returns after all bytes or at a fault; a negative result is an
\* error and the position stays.
Return(t) ==
    /\ Doing(t, "read") \/ Doing(t, "write")
    /\ \/ /\ Result(call[t]) >= 0
          /\ StorePosition(t, call[t].offset + Result(call[t]))
       \/ /\ Result(call[t]) < 0
          /\ UNCHANGED <<f_pos, crossed>>
    /\ Finish(t)
    /\ UNCHANGED <<loaded, registered, device_buffer, opened, closed, open,
                   opens, closes, raced, dirty>>

simple_char_driver_read(t) == CopyToUser(t) \/ Return(t)
simple_char_driver_write(t) == CopyFromUser(t) \/ Return(t)

----------------------------------------------------------------------------
(* seek *)

SEEK_SET == 0
SEEK_CUR == 1
SEEK_END == 2

\* Mutant: the end of the buffer is not a limit.
ClampedBelow(pos) == IF pos < 0 THEN 0 ELSE pos

Clamped(pos) ==
    IF pos > BUFFER_SIZE THEN BUFFER_SIZE ELSE IF pos < 0 THEN 0 ELSE pos

\* Any other whence goes to the start.
newpos(f, offset, whence) ==
    CASE whence = SEEK_SET -> offset
      [] whence = SEEK_CUR -> f_pos[f] + offset
      [] whence = SEEK_END -> BUFFER_SIZE - offset
      [] OTHER -> 0

BeginSeek(t, f, offset, whence) ==
    /\ Usable(f)
    /\ Begin(t, [Idle EXCEPT !.op = "seek", !.file = f,
                             !.offset = Clamped(newpos(f, offset, whence))])
    /\ UNCHANGED <<loaded, registered, device_buffer, opened, closed, open, f_pos,
                   opens, closes, raced>>

simple_char_driver_seek(t) ==
    /\ Doing(t, "seek")
    /\ StorePosition(t, call[t].offset)
    /\ Finish(t)
    /\ UNCHANGED <<loaded, registered, device_buffer, opened, closed, open,
                   opens, closes, raced, dirty>>

----------------------------------------------------------------------------
\* What a task may ask for.
SystemCall(t) ==
    \E f \in Files :
        \/ LoadOpened(t, f)
        \/ LoadClosed(t, f)
        \/ \E length \in Lengths : BeginRead(t, f, length)
        \/ \E string \in Strings : BeginWrite(t, f, string)
        \/ \E offset \in Offsets, whence \in {SEEK_SET, SEEK_CUR, SEEK_END, 3} :
              BeginSeek(t, f, offset, whence)

Handler(t) ==
    \/ simple_char_driver_open(t)
    \/ simple_char_driver_close(t)
    \/ simple_char_driver_read(t)
    \/ simple_char_driver_write(t)
    \/ simple_char_driver_seek(t)

Next ==
    \/ simple_char_driver_init
    \/ simple_char_driver_exit
    \/ \E t \in Tasks : SystemCall(t) \/ Handler(t)

Spec == Init /\ [][Next]_vars

----------------------------------------------------------------------------
Moving(t) == call[t].op \in {"read", "write"}

\* The types of the variables.  Every position is in the buffer or at its end,
\* whatever the calls on one file do to each other: the handlers compute with
\* positions and lengths of different types and rely on that.
TypeOK ==
    /\ loaded \in {"no", "yes", "leaving"} /\ registered \in BOOLEAN
    /\ device_buffer \in [Bytes -> Chars]
    /\ opened \in Nat /\ closed \in Nat /\ opens \in Nat /\ closes \in Nat
    /\ open \subseteq Files
    /\ f_pos \in [Files -> Positions]
    /\ call \in [Tasks -> [op : {"none", "open", "close", "read", "write", "seek"},
                           file : Files \cup {NULL}, offset : Positions,
                           length : Nat, data : Seq(Chars \cup {BEYOND}),
                           copied : Nat, seen : Nat]]
    /\ raced \subseteq {"open", "close"} /\ crossed \subseteq Tasks
    /\ dirty \in [Tasks -> SUBSET Bytes]

\* The buffer is there as long as a file is open or a task is in the module: it
\* is freed before the device is removed (driver.c:158-160), and only .owner
\* (driver.c:133) keeps the module from leaving in the middle of a call.
BufferLives ==
    (open # {} \/ \E t \in Tasks : ~Doing(t, "none")) => loaded = "yes"

\* A byte that was copied from or to a place in the buffer agrees with the buffer
\* there, except where another task wrote since the call began; and a write puts no
\* byte behind the buffer.  Of the bytes that a read copies from behind the buffer
\* (driver.c:48) this says nothing: see ReadsStayInBuffer.
CallsMoveBytes ==
    \A t \in Tasks : Moving(t) =>
        \A k \in 1 .. call[t].copied :
            LET at == call[t].offset + k - 1
            IN  /\ at \in Bytes \ dirty[t] => call[t].data[k] = device_buffer[at]
                /\ Doing(t, "write") => at \in Bytes

\* A read hands out no more than "max bytes that can be read in the device buffer"
\* (driver.c:33), the bytes from its offset to the end of the buffer.
ReadsStayInBuffer ==
    \A t \in Tasks : Doing(t, "read") => call[t].copied <= BUFFER_SIZE - call[t].offset

\* A call that returns a number of bytes moved at least as many, also when it
\* ended in a fault, and that many are in the buffer; a read may have moved more
\* than it reports.  Unless its file was moved meanwhile, the position is as many
\* bytes further as the call reports.
ReportsHold ==
    [][\A t \in Tasks : Moving(t) /\ call'[t].op = "none" /\ Result(call[t]) >= 0 =>
          LET c == call[t]
          IN  /\ Result(c) <= c.copied
              /\ c.offset + Result(c) <= BUFFER_SIZE
              /\ t \notin crossed => f_pos'[c.file] = f_pos[c.file] + Result(c)
      ]_vars

\* The counters lose an open or a close only when two tasks are between the load
\* and the store of the same counter, and never count one too many.
CountsUnlessRaced ==
    /\ opened <= opens /\ ("open" \notin raced => opened = opens)
    /\ closed <= closes /\ ("close" \notin raced => closed = closes)
=============================================================================

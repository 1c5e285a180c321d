-------------------------- MODULE CharDeviceProofs --------------------------
(***************************************************************************)
(* The character device for any number of tasks and open files, any size   *)
(* of the buffer, and whatever the tasks read, write and seek.             *)
(***************************************************************************)
EXTENDS CharDevice, TLAPS

\* What a call is, from its beginning on.
Calls == [op : {"none", "open", "close", "read", "write", "seek"},
          file : Files \cup {NULL}, offset : Positions,
          length : Nat, data : Seq(Chars \cup {BEYOND}),
          copied : Nat, seen : Nat]

\* A call has a file; one that moves bytes has moved no more than it copies, and
\* has in hand what it read up to now or all it writes.
CallInv ==
    \A t \in Tasks :
        /\ ~Doing(t, "none") => call[t].file \in Files
        /\ Moving(t) => call[t].copied <= CopyLength(call[t])
        /\ Doing(t, "read") => Len(call[t].data) = call[t].copied
        /\ Doing(t, "write") => /\ call[t].data \in Seq(Chars)
                                /\ Len(call[t].data) = call[t].length

Typed == TypeOK /\ CallInv

LEMMA TypeOKCalls ==
    TypeOK => call \in [Tasks -> Calls]
  BY DEF TypeOK, Calls

\* What is moved ends with the buffer and is no more than what is copied.
LEMMA MoveBounds ==
    ASSUME NEW c \in Calls
    PROVE  /\ BytesToMove(c) \in Nat /\ CopyLength(c) \in Nat
           /\ BytesToMove(c) <= c.length
           /\ c.offset + BytesToMove(c) <= BUFFER_SIZE
           /\ BytesToMove(c) <= CopyLength(c)
  BY DeviceAssumption DEF Calls, Positions, BytesToMove, CopyLength

\* The result of a call that has not copied too much.
LEMMA ResultBounds ==
    ASSUME NEW c \in Calls, c.copied <= CopyLength(c)
    PROVE  /\ Result(c) \in Int
           /\ Result(c) <= c.copied
           /\ c.offset + Result(c) <= BUFFER_SIZE
           /\ Result(c) >= 0 => c.offset + Result(c) \in Positions
<1>1. /\ c.copied \in Nat /\ c.offset \in 0 .. BUFFER_SIZE
      /\ BUFFER_SIZE \in Nat
  BY DeviceAssumption DEF Calls, Positions
<1> QED
  BY <1>1, MoveBounds DEF Result, Positions

\* A seek stays in the buffer.
LEMMA SeekBounds ==
    ASSUME f_pos \in [Files -> Positions],
           NEW f \in Files, NEW offset \in Offsets,
           NEW whence \in {SEEK_SET, SEEK_CUR, SEEK_END, 3}
    PROVE  Clamped(newpos(f, offset, whence)) \in Positions
<1>1. offset \in Int /\ f_pos[f] \in Int /\ BUFFER_SIZE \in Nat
  BY DeviceAssumption DEF Positions
<1>2. newpos(f, offset, whence) \in Int
  BY <1>1 DEF newpos, SEEK_SET, SEEK_CUR, SEEK_END
<1> QED
  BY <1>1, <1>2 DEF Clamped, Positions

\* The records that a call begins and ends with.
LEMMA NewCalls ==
    ASSUME NEW f \in Files, NEW n \in Nat, NEW pos \in Positions
    PROVE  /\ Idle \in Calls
           /\ [Idle EXCEPT !.op = "open", !.file = f, !.seen = n] \in Calls
           /\ [Idle EXCEPT !.op = "close", !.file = f, !.seen = n] \in Calls
           /\ [Idle EXCEPT !.op = "seek", !.file = f, !.offset = pos] \in Calls
           /\ [Idle EXCEPT !.op = "read", !.file = f, !.offset = pos,
                           !.length = n] \in Calls
           /\ \A s \in Seq(Chars) :
                 [Idle EXCEPT !.op = "write", !.file = f, !.offset = pos,
                              !.length = Len(s), !.data = s] \in Calls
<1>1. 0 \in Positions /\ <<>> \in Seq(Chars \cup {BEYOND})
  BY DeviceAssumption DEF Positions
<1>2. \A s \in Seq(Chars) : s \in Seq(Chars \cup {BEYOND}) /\ Len(s) \in Nat
  OBVIOUS
<1> QED
  BY <1>1, <1>2 DEF Calls, Idle

----------------------------------------------------------------------------
LEMMA InitTyped ==
    Init => Typed
<1> SUFFICES ASSUME Init
             PROVE  Typed
  OBVIOUS
<1>1. 0 \in Positions /\ Idle \in Calls
  BY DeviceAssumption DEF Calls, Idle, Positions
<1>2. call \in [Tasks -> Calls] /\ f_pos \in [Files -> Positions]
  BY <1>1 DEF Init
<1>3. TypeOK
  BY <1>2 DEF Init, TypeOK, Calls
<1>4. CallInv
  BY DEF Init, CallInv, Idle, Doing, Moving
<1> QED
  BY <1>3, <1>4 DEF Typed

\* A new call of a task.
LEMMA BeginTyped ==
    ASSUME Typed, NEW t \in Tasks, NEW c \in Calls, Begin(t, c),
           c.file \in Files, c.copied = 0,
           c.op = "read" => c.data = <<>>,
           c.op = "write" => c.data \in Seq(Chars) /\ Len(c.data) = c.length
    PROVE  call' \in [Tasks -> Calls] /\ CallInv' /\ crossed' \subseteq Tasks
           /\ dirty' \in [Tasks -> SUBSET Bytes]
<1> USE DEF Typed
<1>1. call' = [call EXCEPT ![t] = c] /\ call \in [Tasks -> Calls]
  BY TypeOKCalls DEF Begin
<1>2. CopyLength(c) \in Nat
  BY MoveBounds
<1>3. CallInv'
  BY <1>1, <1>2 DEF CallInv, Doing, Moving, CopyLength, BytesToMove
<1> QED
  BY <1>1, <1>3 DEF Begin, TypeOK

\* The end of a call.
LEMMA FinishTyped ==
    ASSUME Typed, NEW t \in Tasks, Finish(t)
    PROVE  call' \in [Tasks -> Calls] /\ CallInv'
<1>1. call' = [call EXCEPT ![t] = Idle] /\ call \in [Tasks -> Calls]
  BY TypeOKCalls DEF Finish, Typed
<1>2. Idle \in Calls
  BY DeviceAssumption DEF Calls, Idle, Positions
<1>3. CallInv'
  BY <1>1 DEF Typed, CallInv, Doing, Moving, CopyLength, BytesToMove, Idle
<1> QED
  BY <1>1, <1>2, <1>3

\* A step of a task that only moves a byte.
LEMMA CopyTyped ==
    ASSUME Typed, NEW t \in Tasks, CopyToUser(t) \/ CopyFromUser(t)
    PROVE  Typed'
<1> DEFINE c == call[t]
<1> USE DEF Typed
<1>1. call \in [Tasks -> Calls] /\ c \in Calls
  BY TypeOKCalls
<1>2. /\ c.copied \in Nat /\ c.offset \in Nat /\ c.length \in Nat
      /\ c.data \in Seq(Chars \cup {BEYOND})
  BY <1>1 DEF Calls, Positions
<1>3. CopyLength(c) \in Nat /\ c.copied + 1 \in Nat
  BY <1>1, <1>2, MoveBounds
<1>4. CASE CopyToUser(t)
  <2> DEFINE x == IF At(c) \in Bytes THEN device_buffer[At(c)] ELSE BEYOND
             d == [c EXCEPT !.copied = @ + 1, !.data = Append(@, x)]
  <2>1. call' = [call EXCEPT ![t] = d]
    BY <1>1, <1>4 DEF CopyToUser, Calls
  <2>2. x \in Chars \cup {BEYOND}
    BY DEF TypeOK
  <2>3. /\ Append(c.data, x) \in Seq(Chars \cup {BEYOND})
        /\ Len(Append(c.data, x)) = Len(c.data) + 1
    BY <1>2, <2>2
  <2>4. /\ d \in Calls /\ d.op = c.op /\ d.file = c.file /\ d.copied = c.copied + 1
        /\ d.offset = c.offset /\ d.length = c.length /\ d.data = Append(c.data, x)
    <3> HIDE DEF x
    <3> QED
      BY <1>1, <1>3, <2>3 DEF Calls
  <2> HIDE DEF d
  <2>5. CopyLength(d) = CopyLength(c)
    BY <2>4 DEF CopyLength, BytesToMove
  <2>6. CallInv'
    <3>1. c.op = "read" /\ c.copied < CopyLength(c) /\ Len(c.data) = c.copied
      BY <1>4 DEF CopyToUser, CallInv, Doing
    <3>2. d.copied <= CopyLength(d) /\ Len(d.data) = d.copied /\ d.op = "read"
      BY <1>2, <1>3, <2>3, <2>4, <2>5, <3>1
    <3>3. d.file \in Files
      BY <2>4, <3>1 DEF CallInv, Doing
    <3>4. call'[t] = d /\ \A u \in Tasks \ {t} : call'[u] = call[u]
      BY <1>1, <2>1
    <3> HIDE DEF c
    <3> QED
      BY <3>2, <3>3, <3>4 DEF CallInv, Doing, Moving
  <2>7. TypeOK'
    BY <1>1, <1>4, <2>1, <2>4 DEF TypeOK, CopyToUser, history, Calls
  <2> QED
    BY <2>6, <2>7
<1>5. CASE CopyFromUser(t)
  <2> DEFINE d == [c EXCEPT !.copied = @ + 1]
  <2>1. call' = [call EXCEPT ![t] = d]
    BY <1>1, <1>5 DEF CopyFromUser, Calls
  <2>2. /\ d \in Calls /\ d.op = c.op /\ d.file = c.file /\ d.copied = c.copied + 1
        /\ d.offset = c.offset /\ d.length = c.length /\ d.data = c.data
    BY <1>1, <1>3 DEF Calls
  <2> HIDE DEF d
  <2>3. CopyLength(d) = CopyLength(c)
    BY <2>2 DEF CopyLength, BytesToMove
  <2>4. CallInv'
    BY <1>1, <1>2, <1>3, <1>5, <2>1, <2>2, <2>3 DEF CallInv, CopyFromUser, Doing, Moving
  <2>5. At(c) \in Bytes /\ c.data[c.copied + 1] \in Chars
    <3>1. c.copied < BytesToMove(c) /\ c.op = "write"
      BY <1>5 DEF CopyFromUser, CopyLength
    <3>2. At(c) \in Bytes
      BY <1>1, <1>2, <3>1, MoveBounds, DeviceAssumption DEF At, Bytes
    <3>3. c.data \in Seq(Chars) /\ Len(c.data) = c.length
      BY <3>1 DEF CallInv, Doing
    <3>4. c.copied + 1 \in 1 .. Len(c.data)
      BY <1>1, <1>2, <3>1, <3>3, MoveBounds
    <3> QED
      BY <3>2, <3>3, <3>4
  <2>6. /\ device_buffer' \in [Bytes -> Chars]
        /\ dirty' \in [Tasks -> SUBSET Bytes]
    <3>1. device_buffer' = [device_buffer EXCEPT ![At(c)] = c.data[c.copied + 1]]
      BY <1>5 DEF CopyFromUser
    <3>2. dirty' = [u \in Tasks |-> IF u = t THEN dirty[t] ELSE dirty[u] \cup {At(c)}]
      BY <1>5 DEF CopyFromUser
    <3> HIDE DEF c
    <3>3. device_buffer' \in [Bytes -> Chars]
      BY <2>5, <3>1 DEF TypeOK
    <3>4. \A u \in Tasks : dirty[u] \subseteq Bytes
      BY DEF TypeOK
    <3> QED
      BY <2>5, <3>2, <3>3, <3>4
  <2>7. TypeOK'
    <3>1. UNCHANGED <<loaded, registered, opened, closed, open, f_pos, opens, closes,
                      raced, crossed>>
      BY <1>5 DEF CopyFromUser
    <3>2. call' \in [Tasks -> Calls]
      BY <1>1, <2>1, <2>2
    <3> QED
      BY <2>6, <3>1, <3>2 DEF TypeOK, Calls
  <2> QED
    BY <2>4, <2>7
<1> QED
  BY <1>4, <1>5

\* The position that a call stores is in the buffer.
LEMMA StoreTyped ==
    ASSUME Typed, NEW t \in Tasks, ~Doing(t, "none"), NEW pos \in Positions,
           StorePosition(t, pos)
    PROVE  f_pos' \in [Files -> Positions] /\ crossed' \subseteq Tasks
  BY DEF Typed, TypeOK, CallInv, StorePosition, Users

LEMMA StepTyped ==
    Typed /\ [Next]_vars => Typed'
<1> SUFFICES ASSUME Typed, [Next]_vars
             PROVE  Typed'
  OBVIOUS
<1> USE DEF Typed
<1>0. call \in [Tasks -> Calls] /\ f_pos \in [Files -> Positions]
  BY TypeOKCalls DEF TypeOK
<1>1. CASE simple_char_driver_init
  BY <1>1 DEF simple_char_driver_init, TypeOK, CallInv, Doing, Moving
<1>2. CASE simple_char_driver_exit
  BY <1>2 DEF simple_char_driver_exit, FreeBuffer, Unregister, history, TypeOK, CallInv,
              Doing, Moving
<1>3. ASSUME NEW t \in Tasks, NEW f \in Files, LoadOpened(t, f)
      PROVE  Typed'
  <2> DEFINE c == [Idle EXCEPT !.op = "open", !.file = f, !.seen = opened]
  <2>1. opened \in Nat /\ 0 \in Positions
    BY DeviceAssumption DEF TypeOK, Positions
  <2>2. c \in Calls
    BY <2>1, NewCalls
  <2>3. call' \in [Tasks -> Calls] /\ CallInv' /\ crossed' \subseteq Tasks
        /\ dirty' \in [Tasks -> SUBSET Bytes]
    <3>1. Begin(t, c) /\ c.file = f /\ c.copied = 0 /\ c.op = "open"
      BY <1>3 DEF LoadOpened, Idle
    <3> HIDE DEF c
    <3> QED
      BY <2>2, <3>1, BeginTyped
  <2> QED
    BY <1>3, <2>3 DEF LoadOpened, TypeOK, Calls
<1>4. ASSUME NEW t \in Tasks, NEW f \in Files, LoadClosed(t, f)
      PROVE  Typed'
  <2> DEFINE c == [Idle EXCEPT !.op = "close", !.file = f, !.seen = closed]
  <2>1. closed \in Nat /\ 0 \in Positions
    BY DeviceAssumption DEF TypeOK, Positions
  <2>2. c \in Calls
    BY <2>1, NewCalls
  <2>3. call' \in [Tasks -> Calls] /\ CallInv' /\ crossed' \subseteq Tasks
        /\ dirty' \in [Tasks -> SUBSET Bytes]
    <3>1. Begin(t, c) /\ c.file = f /\ c.copied = 0 /\ c.op = "close"
      BY <1>4 DEF LoadClosed, Idle
    <3> HIDE DEF c
    <3> QED
      BY <2>2, <3>1, BeginTyped
  <2> QED
    BY <1>4, <2>3 DEF LoadClosed, TypeOK, Calls
<1>5. ASSUME NEW t \in Tasks, NEW f \in Files, NEW length \in Lengths,
             BeginRead(t, f, length)
      PROVE  Typed'
  <2> DEFINE c == [Idle EXCEPT !.op = "read", !.file = f, !.offset = f_pos[f],
                               !.length = length]
  <2>1. f_pos[f] \in Positions /\ length \in Nat
    BY <1>0, DeviceAssumption
  <2>2. c \in Calls
    BY <2>1, NewCalls
  <2>3. call' \in [Tasks -> Calls] /\ CallInv' /\ crossed' \subseteq Tasks
        /\ dirty' \in [Tasks -> SUBSET Bytes]
    <3>1. Begin(t, c) /\ c.file = f /\ c.copied = 0 /\ c.op = "read" /\ c.data = <<>>
      BY <1>5 DEF BeginRead, Idle
    <3> HIDE DEF c
    <3> QED
      BY <2>2, <3>1, BeginTyped
  <2> QED
    BY <1>5, <2>3 DEF BeginRead, TypeOK, Calls
<1>6. ASSUME NEW t \in Tasks, NEW f \in Files, NEW string \in Strings,
             BeginWrite(t, f, string)
      PROVE  Typed'
  <2> DEFINE c == [Idle EXCEPT !.op = "write", !.file = f, !.offset = f_pos[f],
                               !.length = Len(string), !.data = string]
  <2>1. f_pos[f] \in Positions /\ string \in Seq(Chars) /\ Len(string) \in Nat
    BY <1>0, DeviceAssumption
  <2>2. c \in Calls
    BY <2>1, NewCalls
  <2>3. call' \in [Tasks -> Calls] /\ CallInv' /\ crossed' \subseteq Tasks
        /\ dirty' \in [Tasks -> SUBSET Bytes]
    <3>1. /\ Begin(t, c) /\ c.file = f /\ c.copied = 0 /\ c.op = "write"
          /\ c.data = string /\ c.length = Len(string)
      BY <1>6 DEF BeginWrite, Idle
    <3> HIDE DEF c
    <3> QED
      BY <2>1, <2>2, <3>1, BeginTyped
  <2> QED
    BY <1>6, <2>3 DEF BeginWrite, TypeOK, Calls
<1>7. ASSUME NEW t \in Tasks, NEW f \in Files, NEW offset \in Offsets,
             NEW whence \in {SEEK_SET, SEEK_CUR, SEEK_END, 3},
             BeginSeek(t, f, offset, whence)
      PROVE  Typed'
  <2>1. PICK pos : pos = Clamped(newpos(f, offset, whence))
    OBVIOUS
  <2> DEFINE c == [Idle EXCEPT !.op = "seek", !.file = f, !.offset = pos]
  <2>2. pos \in Positions
    BY <1>0, <2>1, SeekBounds
  <2>3. c \in Calls
    BY <2>2, NewCalls
  <2>4. call' \in [Tasks -> Calls] /\ CallInv' /\ crossed' \subseteq Tasks
        /\ dirty' \in [Tasks -> SUBSET Bytes]
    <3>1. Begin(t, c) /\ c.file = f /\ c.copied = 0 /\ c.op = "seek"
      BY <1>7, <2>1 DEF BeginSeek, Idle
    <3> HIDE DEF c
    <3> QED
      BY <2>3, <3>1, BeginTyped
  <2> QED
    BY <1>7, <2>4 DEF BeginSeek, TypeOK, Calls
<1>8. ASSUME NEW t \in Tasks, simple_char_driver_open(t)
      PROVE  Typed'
  <2>1. call' \in [Tasks -> Calls] /\ CallInv'
    BY <1>8, FinishTyped DEF simple_char_driver_open
  <2>2. call[t].file \in Files /\ call[t].seen \in Nat /\ 0 \in Positions
    BY <1>0, <1>8, DeviceAssumption DEF CallInv, Doing, simple_char_driver_open, Calls,
                                        Positions
  <2>3. opened' \in Nat /\ opens' \in Nat
    BY <1>8, <2>2 DEF simple_char_driver_open, TypeOK
  <2>4. f_pos' \in [Files -> Positions] /\ open' \subseteq Files
    BY <1>0, <1>8, <2>2 DEF simple_char_driver_open, TypeOK
  <2> QED
    BY <1>8, <2>1, <2>3, <2>4 DEF simple_char_driver_open, TypeOK, Calls
<1>9. ASSUME NEW t \in Tasks, simple_char_driver_close(t)
      PROVE  Typed'
  <2>1. call' \in [Tasks -> Calls] /\ CallInv'
    BY <1>9, FinishTyped DEF simple_char_driver_close
  <2>2. call[t].seen \in Nat
    BY <1>0 DEF Calls
  <2>3. closed' \in Nat /\ closes' \in Nat /\ open' \subseteq Files
    BY <1>9, <2>2 DEF simple_char_driver_close, TypeOK
  <2> QED
    BY <1>9, <2>1, <2>3 DEF simple_char_driver_close, TypeOK, Calls
<1>10. ASSUME NEW t \in Tasks, CopyToUser(t) \/ CopyFromUser(t)
       PROVE  Typed'
  BY <1>10, CopyTyped
<1>11. ASSUME NEW t \in Tasks, Return(t)
       PROVE  Typed'
  <2>1. call' \in [Tasks -> Calls] /\ CallInv'
    BY <1>11, FinishTyped DEF Return
  <2>2. Moving(t) /\ ~Doing(t, "none")
    BY <1>11 DEF Return, Doing, Moving
  <2>3. call[t] \in Calls /\ call[t].copied <= CopyLength(call[t])
    BY <1>0, <2>2 DEF CallInv
  <2>4. f_pos' \in [Files -> Positions] /\ crossed' \subseteq Tasks
    <3>1. CASE Result(call[t]) >= 0 /\ StorePosition(t, call[t].offset + Result(call[t]))
      BY <2>2, <2>3, <3>1, ResultBounds, StoreTyped
    <3>2. CASE UNCHANGED <<f_pos, crossed>>
      BY <3>2 DEF TypeOK
    <3> QED
      BY <1>11, <3>1, <3>2 DEF Return
  <2> QED
    BY <1>11, <2>1, <2>4 DEF Return, TypeOK, Calls
<1>12. ASSUME NEW t \in Tasks, simple_char_driver_seek(t)
       PROVE  Typed'
  <2>1. call' \in [Tasks -> Calls] /\ CallInv'
    BY <1>12, FinishTyped DEF simple_char_driver_seek
  <2>2. ~Doing(t, "none") /\ call[t].offset \in Positions
    BY <1>0, <1>12 DEF simple_char_driver_seek, Doing, Calls
  <2>3. f_pos' \in [Files -> Positions] /\ crossed' \subseteq Tasks
    BY <1>12, <2>2, StoreTyped DEF simple_char_driver_seek
  <2> QED
    BY <1>12, <2>1, <2>3 DEF simple_char_driver_seek, TypeOK, Calls
<1>13. CASE UNCHANGED vars
  BY <1>13 DEF vars, TypeOK, CallInv, Doing, Moving
<1> QED
  BY <1>1, <1>2, <1>3, <1>4, <1>5, <1>6, <1>7, <1>8, <1>9, <1>10, <1>11, <1>12, <1>13
     DEF Next, SystemCall, Handler, simple_char_driver_read, simple_char_driver_write

\* The variables keep their types, and every position is in the buffer.
THEOREM TypeCorrect ==
    Spec => []TypeOK
<1>1. Typed /\ [Next]_vars => Typed'
  BY StepTyped
<1>2. Typed => TypeOK
  BY DEF Typed
<1> QED
  BY <1>1, <1>2, InitTyped, PTL DEF Spec

----------------------------------------------------------------------------
(* What tasks do, as far as other tasks can see it *)

\* A task begins a call on a file that is open.
Enters(t, f) ==
    \/ LoadClosed(t, f)
    \/ \E length \in Lengths : BeginRead(t, f, length)
    \/ \E string \in Strings : BeginWrite(t, f, string)
    \/ \E offset \in Offsets, whence \in {SEEK_SET, SEEK_CUR, SEEK_END, 3} :
          BeginSeek(t, f, offset, whence)

\* A task ends a call that stores a position.
Settles(t) == Return(t) \/ simple_char_driver_seek(t)

Copies(t) == CopyToUser(t) \/ CopyFromUser(t)

LEMMA Cases ==
    ASSUME [Next]_vars
    PROVE  \/ simple_char_driver_init
           \/ FreeBuffer
           \/ Unregister
           \/ \E t \in Tasks, f \in Files : LoadOpened(t, f)
           \/ \E t \in Tasks, f \in Files : Enters(t, f)
           \/ \E t \in Tasks : simple_char_driver_open(t)
           \/ \E t \in Tasks : simple_char_driver_close(t)
           \/ \E t \in Tasks : Copies(t)
           \/ \E t \in Tasks : Settles(t)
           \/ UNCHANGED vars
  BY DEF Next, SystemCall, Handler, simple_char_driver_read, simple_char_driver_write,
         simple_char_driver_exit, Enters, Settles, Copies

\* What a call is when it begins.
Entered(t, f, c) ==
    /\ f \in open /\ Doing(t, "none")
    /\ call' = [call EXCEPT ![t] = c]
    /\ c.op \in {"close", "read", "write", "seek"}
    /\ c.file = f /\ c.copied = 0
    /\ c.op \in {"read", "write"} => c.offset = f_pos[f] /\ raced' = raced
    /\ c.op = "seek" => raced' = raced
    /\ c.op = "close" =>
          /\ c.seen = closed
          /\ raced' = IF \E u \in Tasks : Doing(u, "close") THEN raced \cup {"close"}
                                                            ELSE raced
    /\ crossed' = crossed \ {t}
    /\ dirty' = [dirty EXCEPT ![t] = {}]
    /\ UNCHANGED <<loaded, device_buffer, opened, closed, open, f_pos, opens, closes>>

LEMMA Entering ==
    ASSUME NEW t \in Tasks, NEW f \in Files, Enters(t, f)
    PROVE  \E c : Entered(t, f, c)
<1>1. CASE LoadClosed(t, f)
  <2> DEFINE c == [Idle EXCEPT !.op = "close", !.file = f, !.seen = closed]
  <2>1. c.op = "close" /\ c.file = f /\ c.copied = 0 /\ c.seen = closed
    BY DEF Idle
  <2>2. Begin(t, c)
    BY <1>1 DEF LoadClosed
  <2> HIDE DEF c
  <2>3. Entered(t, f, c)
    BY <1>1, <2>1, <2>2 DEF LoadClosed, Entered, Begin
  <2> QED
    BY <2>3
<1>2. ASSUME NEW length \in Lengths, BeginRead(t, f, length)
      PROVE  \E c : Entered(t, f, c)
  <2> DEFINE c == [Idle EXCEPT !.op = "read", !.file = f, !.offset = f_pos[f],
                               !.length = length]
  <2>1. c.op = "read" /\ c.file = f /\ c.copied = 0 /\ c.offset = f_pos[f]
    BY DEF Idle
  <2>2. Begin(t, c)
    BY <1>2 DEF BeginRead
  <2> HIDE DEF c
  <2>3. Entered(t, f, c)
    BY <1>2, <2>1, <2>2 DEF BeginRead, Entered, Begin, Usable
  <2> QED
    BY <2>3
<1>3. ASSUME NEW string \in Strings, BeginWrite(t, f, string)
      PROVE  \E c : Entered(t, f, c)
  <2> DEFINE c == [Idle EXCEPT !.op = "write", !.file = f, !.offset = f_pos[f],
                               !.length = Len(string), !.data = string]
  <2>1. c.op = "write" /\ c.file = f /\ c.copied = 0 /\ c.offset = f_pos[f]
    BY DEF Idle
  <2>2. Begin(t, c)
    BY <1>3 DEF BeginWrite
  <2> HIDE DEF c
  <2>3. Entered(t, f, c)
    BY <1>3, <2>1, <2>2 DEF BeginWrite, Entered, Begin, Usable
  <2> QED
    BY <2>3
<1>4. ASSUME NEW offset \in Offsets, NEW whence \in {SEEK_SET, SEEK_CUR, SEEK_END, 3},
             BeginSeek(t, f, offset, whence)
      PROVE  \E c : Entered(t, f, c)
  <2> DEFINE c == [Idle EXCEPT !.op = "seek", !.file = f,
                               !.offset = Clamped(newpos(f, offset, whence))]
  <2>1. c.op = "seek" /\ c.file = f /\ c.copied = 0
    BY DEF Idle
  <2>2. Begin(t, c)
    BY <1>4 DEF BeginSeek
  <2> HIDE DEF c
  <2>3. Entered(t, f, c)
    BY <1>4, <2>1, <2>2 DEF BeginSeek, Entered, Begin, Usable
  <2> QED
    BY <2>3
<1> QED
  BY <1>1, <1>2, <1>3, <1>4 DEF Enters

\* Another task's byte, position or call is not the business of a task.
LEMMA Copying ==
    ASSUME Typed, NEW t \in Tasks, Copies(t)
    PROVE  /\ \A u \in Tasks \ {t} : call'[u] = call[u]
           /\ call'[t].op = call[t].op /\ call'[t].file = call[t].file
           /\ call'[t].offset = call[t].offset /\ call'[t].seen = call[t].seen
           /\ call'[t].copied = call[t].copied + 1
           /\ Moving(t)
           /\ UNCHANGED <<loaded, registered, opened, closed, open, f_pos, opens, closes,
                          raced, crossed>>
<1>1. call \in [Tasks -> Calls]
  BY TypeOKCalls DEF Typed
<1> QED
  BY <1>1 DEF Copies, CopyToUser, CopyFromUser, Calls, Moving, history

LEMMA Settling ==
    ASSUME Typed, NEW t \in Tasks, Settles(t)
    PROVE  /\ \A u \in Tasks \ {t} : call'[u] = call[u]
           /\ call'[t] = Idle
           /\ ~Doing(t, "none") /\ ~Doing(t, "open") /\ ~Doing(t, "close")
           /\ \/ \E pos : StorePosition(t, pos)
              \/ UNCHANGED <<f_pos, crossed>>
           /\ UNCHANGED <<loaded, registered, device_buffer, opened, closed, open, opens,
                          closes, raced, dirty>>
<1>1. call \in [Tasks -> Calls]
  BY TypeOKCalls DEF Typed
<1> QED
  BY <1>1 DEF Settles, Return, simple_char_driver_seek, Finish, Doing

----------------------------------------------------------------------------
(* The buffer *)

LEMMA StepLives ==
    ASSUME Typed, BufferLives, [Next]_vars
    PROVE  BufferLives'
<1>0. call \in [Tasks -> Calls]
  BY TypeOKCalls DEF Typed
<1>1. CASE simple_char_driver_init
  BY <1>1 DEF simple_char_driver_init, BufferLives, Doing
<1>2. CASE FreeBuffer
  BY <1>2 DEF FreeBuffer, Unused, BufferLives, Doing
<1>3. CASE Unregister
  BY <1>3 DEF Unregister, BufferLives, Doing
<1>4. ASSUME NEW t \in Tasks, NEW f \in Files, LoadOpened(t, f)
      PROVE  BufferLives'
  BY <1>4 DEF LoadOpened, BufferLives
<1>5. ASSUME NEW t \in Tasks, NEW f \in Files, Enters(t, f)
      PROVE  BufferLives'
  <2>1. PICK c : Entered(t, f, c)
    BY <1>5, Entering
  <2> QED
    BY <2>1 DEF Entered, BufferLives
<1>6. ASSUME NEW t \in Tasks, simple_char_driver_open(t)
      PROVE  BufferLives'
  BY <1>6 DEF simple_char_driver_open, BufferLives, Doing
<1>7. ASSUME NEW t \in Tasks, simple_char_driver_close(t)
      PROVE  BufferLives'
  BY <1>7 DEF simple_char_driver_close, BufferLives, Doing
<1>8. ASSUME NEW t \in Tasks, Copies(t)
      PROVE  BufferLives'
  BY <1>8, Copying DEF BufferLives, Doing, Moving
<1>9. ASSUME NEW t \in Tasks, Settles(t)
      PROVE  BufferLives'
  BY <1>9, Settling DEF BufferLives, Doing
<1>10. CASE UNCHANGED vars
  BY <1>10 DEF vars, BufferLives, Doing
<1> QED
  BY <1>1, <1>2, <1>3, <1>4, <1>5, <1>6, <1>7, <1>8, <1>9, <1>10, Cases

\* No task is in a call, and no file is open, when the buffer is not there.
THEOREM BufferOutlivesCalls ==
    Spec => []BufferLives
<1>1. Init => Typed /\ BufferLives
  BY InitTyped DEF Init, BufferLives, Doing, Idle
<1>2. Typed /\ BufferLives /\ [Next]_vars => (Typed /\ BufferLives)'
  BY StepTyped, StepLives
<1> QED
  BY <1>1, <1>2, PTL DEF Spec

----------------------------------------------------------------------------
(* Positions and results *)

\* Until a file is open nobody else uses it.
OwnInv ==
    \A t \in Tasks : Doing(t, "open") =>
        /\ call[t].file \notin open
        /\ \A u \in Tasks \ {t} : call[u].file # call[t].file

\* What a call knows of its position is right unless another call on the file
\* has ended since.
PlaceInv ==
    \A t \in Tasks : Moving(t) /\ t \notin crossed =>
        call[t].offset = f_pos[call[t].file]

LEMMA StepOwn ==
    ASSUME Typed, OwnInv, [Next]_vars
    PROVE  OwnInv'
<1>0. call \in [Tasks -> Calls] /\ Idle.file = NULL /\ Idle.op = "none"
      /\ \A t \in Tasks : Doing(t, "open") => call[t].file \in Files
      /\ NULL \notin Files
  BY TypeOKCalls, DeviceAssumption DEF Typed, CallInv, Doing, Idle
<1>1. CASE simple_char_driver_init
  BY <1>1 DEF simple_char_driver_init, OwnInv, Doing
<1>2. CASE FreeBuffer
  BY <1>2 DEF FreeBuffer, OwnInv, Doing
<1>3. CASE Unregister
  BY <1>3 DEF Unregister, OwnInv, Doing
<1>4. ASSUME NEW t \in Tasks, NEW f \in Files, LoadOpened(t, f)
      PROVE  OwnInv'
  <2> DEFINE c == [Idle EXCEPT !.op = "open", !.file = f, !.seen = opened]
  <2>1. c.op = "open" /\ c.file = f
    BY DEF Idle
  <2>2. call' = [call EXCEPT ![t] = c]
    BY <1>4 DEF LoadOpened, Begin
  <2> HIDE DEF c
  <2> QED
    BY <1>0, <1>4, <2>1, <2>2 DEF LoadOpened, OwnInv, Doing, Users
<1>5. ASSUME NEW t \in Tasks, NEW f \in Files, Enters(t, f)
      PROVE  OwnInv'
  <2>1. PICK c : Entered(t, f, c)
    BY <1>5, Entering
  <2> QED
    BY <1>0, <2>1 DEF Entered, OwnInv, Doing
<1>6. ASSUME NEW t \in Tasks, simple_char_driver_open(t)
      PROVE  OwnInv'
  BY <1>0, <1>6 DEF simple_char_driver_open, Finish, OwnInv, Doing
<1>7. ASSUME NEW t \in Tasks, simple_char_driver_close(t)
      PROVE  OwnInv'
  BY <1>0, <1>7 DEF simple_char_driver_close, Finish, OwnInv, Doing
<1>8. ASSUME NEW t \in Tasks, Copies(t)
      PROVE  OwnInv'
  BY <1>8, Copying DEF OwnInv, Doing
<1>9. ASSUME NEW t \in Tasks, Settles(t)
      PROVE  OwnInv'
  BY <1>0, <1>9, Settling DEF OwnInv, Doing
<1>10. CASE UNCHANGED vars
  BY <1>10 DEF vars, OwnInv, Doing
<1> QED
  BY <1>1, <1>2, <1>3, <1>4, <1>5, <1>6, <1>7, <1>8, <1>9, <1>10, Cases

LEMMA StepPlace ==
    ASSUME Typed, OwnInv, PlaceInv, [Next]_vars
    PROVE  PlaceInv'
<1>0. /\ call \in [Tasks -> Calls] /\ Idle.op = "none"
      /\ f_pos \in [Files -> Positions] /\ crossed \subseteq Tasks
      /\ \A t \in Tasks : ~Doing(t, "none") => call[t].file \in Files
  BY TypeOKCalls DEF Typed, TypeOK, CallInv, Idle
<1>1. CASE simple_char_driver_init
  BY <1>1 DEF simple_char_driver_init, PlaceInv, Moving
<1>2. CASE FreeBuffer
  BY <1>2 DEF FreeBuffer, history, PlaceInv, Moving
<1>3. CASE Unregister
  BY <1>3 DEF Unregister, history, PlaceInv, Moving
<1>4. ASSUME NEW t \in Tasks, NEW f \in Files, LoadOpened(t, f)
      PROVE  PlaceInv'
  <2> DEFINE c == [Idle EXCEPT !.op = "open", !.file = f, !.seen = opened]
  <2>1. c.op = "open"
    BY DEF Idle
  <2>2. call' = [call EXCEPT ![t] = c] /\ crossed' = crossed \ {t}
    BY <1>4 DEF LoadOpened, Begin
  <2> HIDE DEF c
  <2> QED
    BY <1>0, <1>4, <2>1, <2>2 DEF LoadOpened, PlaceInv, Moving
<1>5. ASSUME NEW t \in Tasks, NEW f \in Files, Enters(t, f)
      PROVE  PlaceInv'
  <2>1. PICK c : Entered(t, f, c)
    BY <1>5, Entering
  <2> QED
    BY <1>0, <2>1 DEF Entered, PlaceInv, Moving
<1>6. ASSUME NEW t \in Tasks, simple_char_driver_open(t)
      PROVE  PlaceInv'
  <2>1. /\ call' = [call EXCEPT ![t] = Idle]
        /\ f_pos' = [f_pos EXCEPT ![call[t].file] = 0]
        /\ crossed' = crossed /\ Doing(t, "open")
    BY <1>6 DEF simple_char_driver_open, Finish
  <2>2. \A u \in Tasks \ {t} : call[u].file # call[t].file
    BY <2>1 DEF OwnInv
  <2> QED
    BY <1>0, <2>1, <2>2 DEF PlaceInv, Moving, Doing
<1>7. ASSUME NEW t \in Tasks, simple_char_driver_close(t)
      PROVE  PlaceInv'
  BY <1>0, <1>7 DEF simple_char_driver_close, Finish, PlaceInv, Moving
<1>8. ASSUME NEW t \in Tasks, Copies(t)
      PROVE  PlaceInv'
  BY <1>8, Copying DEF PlaceInv, Moving
<1>9. ASSUME NEW t \in Tasks, Settles(t)
      PROVE  PlaceInv'
  <2>1. /\ \A u \in Tasks \ {t} : call'[u] = call[u]
        /\ call'[t] = Idle
        /\ ~Doing(t, "none")
    BY <1>9, Settling
  <2>2. ASSUME NEW pos, StorePosition(t, pos)
        PROVE  PlaceInv'
    BY <1>0, <2>1, <2>2 DEF StorePosition, Users, PlaceInv, Moving, Doing
  <2>3. CASE UNCHANGED <<f_pos, crossed>>
    BY <1>0, <2>1, <2>3 DEF PlaceInv, Moving
  <2> QED
    BY <1>9, <2>2, <2>3, Settling
<1>10. CASE UNCHANGED vars
  BY <1>10 DEF vars, PlaceInv, Moving
<1> QED
  BY <1>1, <1>2, <1>3, <1>4, <1>5, <1>6, <1>7, <1>8, <1>9, <1>10, Cases

\* A call that moves bytes ends only by returning.
LEMMA EndingReturns ==
    ASSUME Typed, [Next]_vars, NEW t \in Tasks, Moving(t), call'[t].op = "none"
    PROVE  Return(t)
<1>0. call \in [Tasks -> Calls]
  BY TypeOKCalls DEF Typed
<1>1. call' # call
  BY DEF Moving
<1>2. ASSUME NEW u \in Tasks, NEW f \in Files, LoadOpened(u, f) \/ Enters(u, f)
      PROVE  FALSE
  <2>1. CASE LoadOpened(u, f)
    BY <1>0, <2>1 DEF LoadOpened, Begin, Idle, Doing, Moving
  <2>2. CASE Enters(u, f)
    <3>1. PICK c : Entered(u, f, c)
      BY <2>2, Entering
    <3> QED
      BY <1>0, <3>1 DEF Entered, Doing, Moving
  <2> QED
    BY <1>2, <2>1, <2>2
<1>3. ASSUME NEW u \in Tasks, simple_char_driver_open(u) \/ simple_char_driver_close(u)
      PROVE  FALSE
  BY <1>0, <1>3 DEF simple_char_driver_open, simple_char_driver_close, Finish, Doing, Moving
<1>4. ASSUME NEW u \in Tasks, Copies(u)
      PROVE  FALSE
  BY <1>4, Copying DEF Moving
<1>5. ASSUME NEW u \in Tasks, Settles(u)
      PROVE  Return(t)
  BY <1>5, Settling DEF Settles, simple_char_driver_seek, Doing, Moving
<1>6. CASE simple_char_driver_init \/ FreeBuffer \/ Unregister \/ UNCHANGED vars
  BY <1>1, <1>6 DEF simple_char_driver_init, FreeBuffer, Unregister, vars
<1> QED
  BY <1>2, <1>3, <1>4, <1>5, <1>6, Cases

LEMMA StepReports ==
    ASSUME Typed, PlaceInv, [Next]_vars, NEW t \in Tasks,
           Moving(t), call'[t].op = "none", Result(call[t]) >= 0
    PROVE  /\ Result(call[t]) <= call[t].copied
           /\ call[t].offset + Result(call[t]) <= BUFFER_SIZE
           /\ t \notin crossed =>
                 f_pos'[call[t].file] = f_pos[call[t].file] + Result(call[t])
<1>1. call \in [Tasks -> Calls] /\ call[t].copied <= CopyLength(call[t])
      /\ f_pos \in [Files -> Positions] /\ call[t].file \in Files
  BY TypeOKCalls DEF Typed, TypeOK, CallInv, Moving, Doing
<1>2. /\ Result(call[t]) <= call[t].copied
      /\ call[t].offset + Result(call[t]) <= BUFFER_SIZE
  BY <1>1, ResultBounds
<1>3. StorePosition(t, call[t].offset + Result(call[t]))
  <2>1. Result(call[t]) \in Int
    BY <1>1, ResultBounds
  <2>2. Return(t)
    BY EndingReturns
  <2> QED
    BY <2>1, <2>2 DEF Return
<1>4. t \notin crossed => call[t].offset = f_pos[call[t].file]
  BY DEF PlaceInv
<1> QED
  BY <1>1, <1>2, <1>3, <1>4 DEF StorePosition

\* A call that reports a number of bytes moved that many within the buffer, and moved
\* its position by as many; a read may have moved more.
THEOREM CallsReportRightly ==
    Spec => ReportsHold
<1> DEFINE Inv == Typed /\ OwnInv /\ PlaceInv
<1>1. Init => Inv
  BY InitTyped DEF Init, OwnInv, PlaceInv, Doing, Moving, Idle
<1>2. Inv /\ [Next]_vars => Inv'
  BY StepTyped, StepOwn, StepPlace
<1>3. Inv /\ [Next]_vars =>
        [\A t \in Tasks : Moving(t) /\ call'[t].op = "none" /\ Result(call[t]) >= 0 =>
            LET c == call[t]
            IN  /\ Result(c) <= c.copied
                /\ c.offset + Result(c) <= BUFFER_SIZE
                /\ t \notin crossed => f_pos'[c.file] = f_pos[c.file] + Result(c)
        ]_vars
  BY StepReports
<1> QED
  BY <1>1, <1>2, <1>3, PTL DEF Spec, ReportsHold

----------------------------------------------------------------------------
(* The bytes *)

\* What was moved from or to places in the buffer agrees with it.
BytesAgree ==
    \A t \in Tasks : Moving(t) =>
        \A k \in 1 .. call[t].copied :
            LET at == call[t].offset + k - 1
            IN  at \in Bytes \ dirty[t] => call[t].data[k] = device_buffer[at]

\* The byte that a read or a write has just moved is the one of its place.
LEMMA ByteMoved ==
    ASSUME Typed, NEW t \in Tasks, Copies(t), NEW k \in 1 .. call[t].copied + 1,
           \A i \in 1 .. call[t].copied :
              LET at == call[t].offset + i - 1
              IN  at \in Bytes \ dirty[t] => call[t].data[i] = device_buffer[at],
           call[t].offset + k - 1 \in Bytes \ dirty'[t]
    PROVE  call'[t].data[k] = device_buffer'[call[t].offset + k - 1]
<1> DEFINE at == call[t].offset + k - 1
<1>1. call \in [Tasks -> Calls] /\ call[t] \in Calls
  BY TypeOKCalls DEF Typed
<1>2. /\ call[t].copied \in Nat /\ call[t].offset \in Nat
      /\ call[t].data \in Seq(Chars \cup {BEYOND})
  BY <1>1 DEF Calls, Positions
<1>3. k \in 1 .. call[t].copied \/ k = call[t].copied + 1
  BY <1>2
<1>4. At(call[t]) = call[t].offset + call[t].copied
  BY DEF At
<1>5. CASE CopyToUser(t)
  <2> DEFINE x == IF At(call[t]) \in Bytes THEN device_buffer[At(call[t])] ELSE BEYOND
  <2>1. call'[t].data = Append(call[t].data, x) /\ Doing(t, "read")
        /\ device_buffer' = device_buffer /\ dirty' = dirty
    BY <1>1, <1>5 DEF CopyToUser, Calls, Doing, history
  <2>2. Len(call[t].data) = call[t].copied
    BY <2>1 DEF Typed, CallInv
  <2>3. x \in Chars \cup {BEYOND}
    BY DEF Typed, TypeOK
  <2> HIDE DEF x
  <2>4. CASE k \in 1 .. call[t].copied
    BY <1>2, <2>1, <2>2, <2>3, <2>4
  <2>5. CASE k = call[t].copied + 1
    <3>1. at = At(call[t]) /\ at \in Bytes
      BY <1>2, <1>4, <2>5
    <3>2. call'[t].data[k] = x
      BY <1>2, <2>1, <2>2, <2>3, <2>5
    <3> QED
      BY <2>1, <3>1, <3>2 DEF x
  <2> QED
    BY <1>3, <2>4, <2>5
<1>6. CASE CopyFromUser(t)
  <2>1. /\ call'[t].data = call[t].data /\ dirty'[t] = dirty[t]
        /\ device_buffer' = [device_buffer EXCEPT
                               ![At(call[t])] = call[t].data[call[t].copied + 1]]
    BY <1>1, <1>6 DEF CopyFromUser, Calls
  <2>2. device_buffer \in [Bytes -> Chars]
    BY DEF Typed, TypeOK
  <2>3. CASE k \in 1 .. call[t].copied
    <3>1. at # At(call[t])
      BY <1>2, <1>4, <2>3
    <3>2. at \in Bytes \ dirty[t]
      BY <2>1
    <3>3. device_buffer'[at] = device_buffer[at]
      BY <2>1, <2>2, <3>1, <3>2
    <3> QED
      BY <2>1, <2>3, <3>2, <3>3
  <2>4. CASE k = call[t].copied + 1
    <3>1. at = At(call[t]) /\ at \in Bytes
      BY <1>2, <1>4, <2>4
    <3> QED
      BY <2>1, <2>2, <2>4, <3>1
  <2> QED
    BY <1>3, <2>3, <2>4
<1> QED
  BY <1>5, <1>6 DEF Copies

\* What a task has copied stays right when the buffer changes only where the
\* task is told.
LEMMA BytesKept ==
    ASSUME BytesAgree, NEW t \in Tasks, Moving(t)', call'[t] = call[t],
           dirty[t] \subseteq dirty'[t],
           \A at \in Bytes \ dirty'[t] : device_buffer'[at] = device_buffer[at]
    PROVE  \A k \in 1 .. call'[t].copied :
              LET at == call'[t].offset + k - 1
              IN  at \in Bytes \ dirty'[t] => call'[t].data[k] = device_buffer'[at]
  BY DEF BytesAgree, Moving

LEMMA StepMoves ==
    ASSUME Typed, BufferLives, BytesAgree, [Next]_vars
    PROVE  BytesAgree'
<1> SUFFICES ASSUME NEW u \in Tasks, Moving(u)'
             PROVE  \A k \in 1 .. call'[u].copied :
                       LET at == call'[u].offset + k - 1
                       IN  at \in Bytes \ dirty'[u]
                              => call'[u].data[k] = device_buffer'[at]
  BY DEF BytesAgree
<1>0. /\ call \in [Tasks -> Calls] /\ Idle.op = "none"
      /\ dirty \in [Tasks -> SUBSET Bytes] /\ device_buffer \in [Bytes -> Chars]
  BY TypeOKCalls DEF Typed, TypeOK, Idle
<1>1. CASE simple_char_driver_init
  <2>1. call'[u] = call[u] /\ loaded = "no"
    BY <1>1 DEF simple_char_driver_init
  <2> QED
    BY <2>1 DEF BufferLives, Moving, Doing
<1>2. CASE FreeBuffer \/ Unregister \/ UNCHANGED vars
  <2>1. UNCHANGED <<call, dirty, device_buffer>>
    BY <1>2 DEF FreeBuffer, Unregister, vars, history
  <2> QED
    BY <2>1, BytesKept
<1>3. ASSUME NEW t \in Tasks, NEW f \in Files, LoadOpened(t, f)
      PROVE  u # t /\ call'[u] = call[u] /\ dirty'[u] = dirty[u]
             /\ device_buffer' = device_buffer
  <2> DEFINE c == [Idle EXCEPT !.op = "open", !.file = f, !.seen = opened]
  <2>1. c.op = "open"
    BY DEF Idle
  <2>2. /\ call' = [call EXCEPT ![t] = c] /\ dirty' = [dirty EXCEPT ![t] = {}]
        /\ device_buffer' = device_buffer
    BY <1>3 DEF LoadOpened, Begin
  <2> HIDE DEF c
  <2> QED
    BY <1>0, <2>1, <2>2 DEF Moving
<1>4. ASSUME NEW t \in Tasks, NEW f \in Files, Enters(t, f)
      PROVE  \/ call'[u].copied = 0
             \/ /\ call'[u] = call[u] /\ dirty'[u] = dirty[u]
                /\ device_buffer' = device_buffer
  <2>1. PICK c : Entered(t, f, c)
    BY <1>4, Entering
  <2> QED
    BY <1>0, <2>1 DEF Entered
<1>5. ASSUME NEW t \in Tasks, simple_char_driver_open(t) \/ simple_char_driver_close(t)
      PROVE  call'[u] = call[u] /\ UNCHANGED <<dirty, device_buffer>>
  BY <1>0, <1>5 DEF simple_char_driver_open, simple_char_driver_close, Finish, Moving
<1>6. ASSUME NEW t \in Tasks, Settles(t)
      PROVE  call'[u] = call[u] /\ UNCHANGED <<dirty, device_buffer>>
  BY <1>0, <1>6, Settling DEF Moving
<1>7. ASSUME NEW t \in Tasks, Copies(t), u # t
      PROVE  /\ call'[u] = call[u] /\ dirty[u] \subseteq dirty'[u]
             /\ \A at \in Bytes \ dirty'[u] : device_buffer'[at] = device_buffer[at]
  <2>1. call'[u] = call[u]
    BY <1>7, Copying
  <2>2. CASE CopyToUser(t)
    BY <2>1, <2>2 DEF CopyToUser, history
  <2>3. CASE CopyFromUser(t)
    <3>1. dirty'[u] = dirty[u] \cup {At(call[t])}
      BY <1>7, <2>3 DEF CopyFromUser
    <3>2. \A at \in Bytes : at # At(call[t]) => device_buffer'[at] = device_buffer[at]
      BY <1>0, <2>3 DEF CopyFromUser
    <3> QED
      BY <2>1, <3>1, <3>2
  <2> QED
    BY <1>7, <2>2, <2>3 DEF Copies
<1>8. CASE Copies(u)
  <2>1. /\ call'[u].offset = call[u].offset /\ call'[u].copied = call[u].copied + 1
        /\ Moving(u)
    BY <1>8, Copying
  <2>2. \A i \in 1 .. call[u].copied :
           LET at == call[u].offset + i - 1
           IN  at \in Bytes \ dirty[u] => call[u].data[i] = device_buffer[at]
    BY <2>1 DEF BytesAgree
  <2> QED
    BY <1>8, <2>1, <2>2, ByteMoved
<1> QED
  <2>1. CASE call'[u].copied = 0
    BY <2>1
  <2>2. CASE /\ call'[u] = call[u] /\ dirty[u] \subseteq dirty'[u]
             /\ \A at \in Bytes \ dirty'[u] : device_buffer'[at] = device_buffer[at]
    BY <2>2, BytesKept
  <2> QED
    BY <1>1, <1>2, <1>3, <1>4, <1>5, <1>6, <1>7, <1>8, <2>1, <2>2, Cases

\* What a write has copied ends with the buffer, as it asks for no more.
LEMMA WritesFit ==
    ASSUME Typed, NEW t \in Tasks, Doing(t, "write"), NEW k \in 1 .. call[t].copied
    PROVE  call[t].offset + k - 1 \in Bytes
<1>1. call[t] \in Calls
  BY TypeOKCalls DEF Typed
<1>2. call[t].copied <= CopyLength(call[t]) /\ call[t].op = "write"
  BY DEF Typed, CallInv, Moving, Doing
<1>3. call[t].copied <= BytesToMove(call[t])
  BY <1>2 DEF CopyLength
<1>4. /\ call[t].offset \in Nat /\ call[t].copied \in Nat
      /\ BytesToMove(call[t]) \in Nat /\ BUFFER_SIZE \in Nat
      /\ call[t].offset + BytesToMove(call[t]) <= BUFFER_SIZE
  BY <1>1, MoveBounds, DeviceAssumption DEF Calls, Positions
<1> QED
  BY <1>3, <1>4 DEF Bytes

\* A byte that a call has moved from or to a place in the buffer agrees with the
\* buffer there, or another task has written there since the call began; and all
\* bytes that a write has moved are in the buffer.  The bytes that a read moves from
\* behind the buffer are not spoken of.
THEOREM BytesMoveInPlace ==
    Spec => []CallsMoveBytes
<1>1. Init => Typed /\ BufferLives /\ BytesAgree
  BY InitTyped DEF Init, BufferLives, BytesAgree, Doing, Moving, Idle
<1>2. Typed /\ BufferLives /\ BytesAgree /\ [Next]_vars
        => (Typed /\ BufferLives /\ BytesAgree)'
  BY StepTyped, StepLives, StepMoves
<1>3. Typed /\ BytesAgree => CallsMoveBytes
  BY WritesFit DEF BytesAgree, CallsMoveBytes
<1> QED
  BY <1>1, <1>2, <1>3, PTL DEF Spec

----------------------------------------------------------------------------
(* The counters *)

\* A task that is to store a counter holds no more than was counted; and if no
\* two tasks were at the counter at a time it is the only one, and what it holds
\* is the counter.
OpensInv ==
    /\ opened <= opens
    /\ \A t \in Tasks : Doing(t, "open") => call[t].seen <= opens
    /\ "open" \notin raced =>
          /\ opened = opens
          /\ \A t \in Tasks : Doing(t, "open") =>
                /\ call[t].seen = opened
                /\ \A u \in Tasks : Doing(u, "open") => u = t

ClosesInv ==
    /\ closed <= closes
    /\ \A t \in Tasks : Doing(t, "close") => call[t].seen <= closes
    /\ "close" \notin raced =>
          /\ closed = closes
          /\ \A t \in Tasks : Doing(t, "close") =>
                /\ call[t].seen = closed
                /\ \A u \in Tasks : Doing(u, "close") => u = t

LEMMA StepOpens ==
    ASSUME Typed, BufferLives, OpensInv, [Next]_vars
    PROVE  OpensInv'
<1>0. /\ call \in [Tasks -> Calls] /\ Idle.op = "none"
      /\ opened \in Nat /\ opens \in Nat
      /\ \A t \in Tasks : call[t].seen \in Nat
  BY TypeOKCalls DEF Typed, TypeOK, Idle, Calls
<1>1. CASE simple_char_driver_init
  BY <1>1 DEF simple_char_driver_init, BufferLives, OpensInv, Doing
<1>2. CASE FreeBuffer \/ Unregister \/ UNCHANGED vars
  BY <1>2 DEF FreeBuffer, Unregister, vars, history, OpensInv, Doing
<1>3. ASSUME NEW t \in Tasks, NEW f \in Files, LoadOpened(t, f)
      PROVE  OpensInv'
  <2> DEFINE c == [Idle EXCEPT !.op = "open", !.file = f, !.seen = opened]
  <2>1. c.op = "open" /\ c.seen = opened
    BY DEF Idle
  <2>2. call' = [call EXCEPT ![t] = c]
    BY <1>3 DEF LoadOpened, Begin
  <2> HIDE DEF c
  <2>3. CASE \E u \in Tasks : Doing(u, "open")
    BY <1>0, <1>3, <2>1, <2>2, <2>3 DEF LoadOpened, OpensInv, Doing
  <2>4. CASE ~\E u \in Tasks : Doing(u, "open")
    BY <1>0, <1>3, <2>1, <2>2, <2>4 DEF LoadOpened, OpensInv, Doing
  <2> QED
    BY <2>3, <2>4
<1>4. ASSUME NEW t \in Tasks, NEW f \in Files, Enters(t, f)
      PROVE  OpensInv'
  <2>1. PICK c : Entered(t, f, c)
    BY <1>4, Entering
  <2>2. /\ call' = [call EXCEPT ![t] = c] /\ c.op # "open" /\ Doing(t, "none")
        /\ UNCHANGED <<opened, opens>>
    BY <2>1 DEF Entered
  <2>3. "open" \in raced' <=> "open" \in raced
    BY <2>1 DEF Entered
  <2> QED
    BY <1>0, <2>2, <2>3 DEF OpensInv, Doing
<1>5. ASSUME NEW t \in Tasks, simple_char_driver_open(t)
      PROVE  OpensInv'
  <2>1. /\ call' = [call EXCEPT ![t] = Idle] /\ Doing(t, "open")
        /\ opened' = call[t].seen + 1 /\ opens' = opens + 1 /\ raced' = raced
    BY <1>5 DEF simple_char_driver_open, Finish
  <2> QED
    BY <1>0, <2>1 DEF OpensInv, Doing
<1>6. ASSUME NEW t \in Tasks, simple_char_driver_close(t)
      PROVE  OpensInv'
  <2>1. call' = [call EXCEPT ![t] = Idle] /\ UNCHANGED <<opened, opens, raced>>
    BY <1>6 DEF simple_char_driver_close, Finish
  <2> QED
    BY <1>0, <2>1 DEF OpensInv, Doing
<1>7. ASSUME NEW t \in Tasks, Copies(t)
      PROVE  OpensInv'
  BY <1>0, <1>7, Copying DEF OpensInv, Doing, Moving
<1>8. ASSUME NEW t \in Tasks, Settles(t)
      PROVE  OpensInv'
  BY <1>0, <1>8, Settling DEF OpensInv, Doing
<1> QED
  BY <1>1, <1>2, <1>3, <1>4, <1>5, <1>6, <1>7, <1>8, Cases

LEMMA StepCloses ==
    ASSUME Typed, BufferLives, ClosesInv, [Next]_vars
    PROVE  ClosesInv'
<1>0. /\ call \in [Tasks -> Calls] /\ Idle.op = "none"
      /\ closed \in Nat /\ closes \in Nat
      /\ \A t \in Tasks : call[t].seen \in Nat
  BY TypeOKCalls DEF Typed, TypeOK, Idle, Calls
<1>1. CASE simple_char_driver_init
  BY <1>1 DEF simple_char_driver_init, BufferLives, ClosesInv, Doing
<1>2. CASE FreeBuffer \/ Unregister \/ UNCHANGED vars
  BY <1>2 DEF FreeBuffer, Unregister, vars, history, ClosesInv, Doing
<1>3. ASSUME NEW t \in Tasks, NEW f \in Files, LoadOpened(t, f)
      PROVE  ClosesInv'
  <2> DEFINE c == [Idle EXCEPT !.op = "open", !.file = f, !.seen = opened]
  <2>1. c.op = "open"
    BY DEF Idle
  <2>2. call' = [call EXCEPT ![t] = c]
    BY <1>3 DEF LoadOpened, Begin
  <2> HIDE DEF c
  <2>3. UNCHANGED <<closed, closes>> /\ ("close" \in raced' <=> "close" \in raced)
    BY <1>3 DEF LoadOpened
  <2> QED
    BY <1>0, <2>1, <2>2, <2>3 DEF ClosesInv, Doing
<1>4. ASSUME NEW t \in Tasks, NEW f \in Files, Enters(t, f)
      PROVE  ClosesInv'
  <2>1. PICK c : Entered(t, f, c)
    BY <1>4, Entering
  <2>2. /\ call' = [call EXCEPT ![t] = c] /\ Doing(t, "none")
        /\ UNCHANGED <<closed, closes>>
    BY <2>1 DEF Entered
  <2>3. CASE c.op # "close"
    <3>1. raced' = raced
      BY <2>1, <2>3 DEF Entered
    <3> QED
      BY <1>0, <2>2, <2>3, <3>1 DEF ClosesInv, Doing
  <2>4. CASE c.op = "close" /\ \E u \in Tasks : Doing(u, "close")
    <3>1. c.seen = closed /\ raced' = raced \cup {"close"}
      BY <2>1, <2>4 DEF Entered
    <3> QED
      BY <1>0, <2>2, <2>4, <3>1 DEF ClosesInv, Doing
  <2>5. CASE c.op = "close" /\ ~\E u \in Tasks : Doing(u, "close")
    <3>1. c.seen = closed /\ raced' = raced
      BY <2>1, <2>5 DEF Entered
    <3> QED
      BY <1>0, <2>2, <2>5, <3>1 DEF ClosesInv, Doing
  <2> QED
    BY <2>3, <2>4, <2>5
<1>5. ASSUME NEW t \in Tasks, simple_char_driver_open(t)
      PROVE  ClosesInv'
  <2>1. call' = [call EXCEPT ![t] = Idle] /\ UNCHANGED <<closed, closes, raced>>
    BY <1>5 DEF simple_char_driver_open, Finish
  <2> QED
    BY <1>0, <2>1 DEF ClosesInv, Doing
<1>6. ASSUME NEW t \in Tasks, simple_char_driver_close(t)
      PROVE  ClosesInv'
  <2>1. /\ call' = [call EXCEPT ![t] = Idle] /\ Doing(t, "close")
        /\ closed' = call[t].seen + 1 /\ closes' = closes + 1 /\ raced' = raced
    BY <1>6 DEF simple_char_driver_close, Finish
  <2> QED
    BY <1>0, <2>1 DEF ClosesInv, Doing
<1>7. ASSUME NEW t \in Tasks, Copies(t)
      PROVE  ClosesInv'
  BY <1>0, <1>7, Copying DEF ClosesInv, Doing, Moving
<1>8. ASSUME NEW t \in Tasks, Settles(t)
      PROVE  ClosesInv'
  BY <1>0, <1>8, Settling DEF ClosesInv, Doing
<1> QED
  BY <1>1, <1>2, <1>3, <1>4, <1>5, <1>6, <1>7, <1>8, Cases

\* The counters are exact unless two tasks were at the same one at a time, and
\* never too high.
THEOREM CountersAreRight ==
    Spec => []CountsUnlessRaced
<1> DEFINE Inv == Typed /\ BufferLives /\ OpensInv /\ ClosesInv
<1>1. Init => Inv
  BY InitTyped DEF Init, BufferLives, OpensInv, ClosesInv, Doing, Idle
<1>2. Inv /\ [Next]_vars => Inv'
  BY StepTyped, StepLives, StepOpens, StepCloses
<1>3. Inv => CountsUnlessRaced
  BY DEF OpensInv, ClosesInv, CountsUnlessRaced
<1> QED
  BY <1>1, <1>2, <1>3, PTL DEF Spec
=============================================================================

# TLA+ models of CSCI_3753

The repository holds four programming assignments of an operating systems
course, written in C. The three with logic of their own are **PA2**, a kernel
module with a character device, **PA3**, a multi-threaded DNS resolver around a
bounded queue, and **PA4**, a paging simulator with several pagers. This
directory models their control: the device under several tasks, byte by byte; the
threads of PA3 at the granularity of the shared loads and stores, and its second
buffer; the simulator of PA4 with an arbitrary pager and with its four particular
ones, and its branch engine. TLC checks small instances; TLAPS proves what matters
most for every size.

## The system

### PA3 - `src/PA3`

| Component | State | Operations |
|---|---|---|
| `queue.c` | `array[maxSize]`, `front`, `rear` | `queue_init`, `queue_is_empty`, `queue_is_full`, `queue_push`, `queue_pop`, `queue_cleanup` |
| `multi-lookup.c` | the queue, `buffmutex`, `outmutex`, `requests_exist`, one stack per thread | `request` (requester threads), `resolve` (resolver threads), `main` |
| `util.c` | none | `dnslookup` |
| `cbuf.c` | `buffer[max]`, `head`, `tail`, `full` | `circular_buf_init`, `_free`, `_reset`, `_put`, `_put2`, `_get`, `_empty`, `_full`, `_capacity`, `_size` |

Each requester reads one input file and pushes a copy of each name on the queue
under `buffmutex`; each resolver pops a name under `buffmutex`, looks it up, and
writes a line to the results file under `outmutex`. `main` joins the requesters,
clears `requests_exist`, joins the resolvers and cleans up. `queue.c` marks an
empty slot with a null payload and so tells a full queue from an empty one
(`front = rear` in both); it has no lock of its own. `cbuf.c` is a second ring, which
tells the two by a flag; it is not used: every call of it in `multi-lookup.c`, the
one that would make the buffer included, is commented out.

What is hard: line 82 of `multi-lookup.c` decides whether a resolver goes on by
calling `queue_is_empty`, which does four separate loads, and then reading
`requests_exist`, all without a lock, while others are anywhere, also between
the two stores of a push or a pop. The results of `queue_push` and `queue_pop`
are not tested. Resolvers spin through both mutexes.

What makes it correct: the queue is a FIFO queue under all interleavings; a name
is in one place at a time and is freed once; every name of a serviced file ends
in a line, or in one of the two losses the code has (a refused push, the queue
at `queue_cleanup`); the losses are limited; the program ends. The circular buffer
is a FIFO queue that gives up its oldest value when it is told to, and its flag is
right after every call.

### PA4 - `src/PA4`

| Component | State | Operations |
|---|---|---|
| `simulator.c` | `processes`, the job queue, per job `pc`, `active`, `pages`; `pagesavail`, the clock | `allinit`, `allstep`, `allage`, `callyou`, `alldone`; `pagein` and `pageout` for the pager |
| branch engine of `simulator.c`, `programs.c` | the decisions of each branch | `bcontext_init`, `bcontext_decide`, `process_dobranch` |
| `pager-basic.c` | none | `pageit` |
| `pager-lru.c` | `timestamps` by processor, `tick` | `pageit`, `lru_pageit`, `lru_page`, `pages_alloc` |
| `pager-predict.c`, `predict.h` | access history ring, counters | `pageit`, `pred_pageit` |
| `api-test.c` | `outTestRun`, `inTestRun`, `iterations` | `pageit` |

`main` runs, once per tick and in this order, `allstep` (each processor computes
one statement of its job if the page of its program counter is resident, and
gets the next job when one exits), `allage` (pages under way come one tick
nearer), and `callyou`, which calls the pager's `pageit` with a copy of the
state; the pager calls back `pagein` and `pageout`. The life of a page is a
number: `PAGEWAIT..1` coming in, `0` resident, `-1..-PAGEWAIT` going out,
`-PAGEWAIT-1` out. All but the last hold one of the physical frames.

What is hard: jobs end while their pages are under way; `allage` sees only
running jobs; frames are counted in four places; the pagers keep notes by
processor while jobs come and go, and the predictive pager decides by a copy of the
state that its own calls have made stale; the simulation may block forever and
the simulator only logs it.

What makes it correct: frames are neither lost nor doubled, whatever the pager
does; pages go round their life cycle; each job runs once and to its exit; a
pager evicts what its policy says, and ends every job.

### PA2 - `src/PA2/simple_char_dev`

| Component | State | Operations |
|---|---|---|
| `simple_char_driver.c` | `device_buffer[BUFFER_SIZE]`, `opened`, `closed`; a position per open file, kept by the kernel | `simple_char_driver_init` and `_exit`; `_open`, `_close`, `_read`, `_write`, `_seek` |

Any task may open the device, and several tasks may share an open file (after a
`fork`, or as threads). A call is made of a part of the kernel, which takes a copy
of the position, a handler of the module, which may be interrupted after every
byte, and the kernel again, which stores the position. There is no lock in the
module, and the kernel takes none for the position of a character device.

What is hard: all that two calls can do to each other through the buffer, one
position, or one counter; `copy_to_user` and `copy_from_user` stop where a page is
missing; a read passes another length to `copy_to_user` than it computes its result
from; the module is unloaded while others try to open the device.

What makes it correct: positions stay in the buffer; bytes go where the position
says and are reported only if they were moved; the buffer outlives the calls; the
counters count, as far as an unlocked `++` can.

### The rest

PA1 adds a system call that adds two numbers. `PA4_dk`, `PA2_dk` and `PA1_dk` hold
submission copies. Scripts plot results.

## Modules

| Module | What it is |
|---|---|
| `BoundedFifo` | what the users of `queue.h` may rely on: a sequence, pushed at the end, popped at the front, of at most `Capacity` payloads |
| `Ring` | the array of `queue.c`: `Succ`, `IsEmpty`, `IsFull` as the code computes them, and what it holds (`Contents`, `WellFormed`) |
| `Queue` | every function of `queue.c` as an atomic action, with its return value |
| `SlidingFifo` | what `cbuf.h` promises: a `BoundedFifo` that can also take a value when it is full, at the cost of the oldest |
| `CircularBuf` | every function of `cbuf.c` as an atomic action or an operator |
| `MultiLookup` | `request`, `resolve` and `main` of `multi-lookup.c`, over the ring of `queue.c` |
| `PageFrames` | what `simulator.h` promises of pages and frames, without the clock |
| `Simulator` | `simulator.c` with any pager |
| `PagerBasic`, `PagerLru` | the simulator with that pager; they reuse all actions of `Simulator` except `Call` |
| `PagerApiTest` | the simulator with the pager of `api-test.c` |
| `Pagers` | the programs of `PA4/Makefile` with one of these three pagers |
| `HistoryRing` | the ring of `predict.h`: push, working set, number of faults, length and access by age |
| `PagerPredict` | the simulator with the predictive pager, over a `HistoryRing` per processor |
| `BranchEngine` | which statements a job executes: the branch engine and the rest of `process_step`, for one job whose pages are resident |
| `CharDevice` | the device of PA2 under any tasks |
| `RingProofs`, `QueueProofs` | theorems about the ring, about `Queue` and about `CircularBuf` |
| `MultiLookupProofs` | theorems about `MultiLookup`: the mutexes and the ring; what becomes of the names |
| `CharDeviceProofs` | theorems about `CharDevice` |
| `SimulatorProofs` | theorems about `Simulator`, hence about every pager |
| `PagerProofs` | theorems about the basic pager, the LRU pager and the API test |
| `PagerPredictProofs` | theorems about the predictive pager |
| `BranchEngineProofs` | theorems about `BranchEngine` |
| `MC...` | the sizes TLC checks |

**MultiLookup.** An action is one access to shared memory together with the
local work around it. `LoadFront`, `CompareRear`, `LoadIndex`, `LoadPayload` and
`LoadExist` are the five loads of line 82. A push is `PushStore` (lock, test,
store of the payload) and `PushAdvance` (store of `rear`, unlock); a pop is
`PopTake` and `PopAdvance`. An unlock is one step with the access before it:
it only enables others. `pc` holds where each thread is, `domain` the name it has
in hand. `lines`, `refused`, `discarded` and `late` are history variables; no guard reads them. A name is the pair of its file and its position,
which stands for the address of its copy. `unopened` is the set of the input
files that `fopen` could not open: the code does not look, and the program
crashes in `fscanf` or, when no requester read that file, in `fclose`. The loads
and stores are taken as sequentially consistent and each as indivisible; the
program has no atomics, so a weaker memory could show more behaviours.
Creation of the threads is not modelled: a thread that has yet to be created
looks like one that has yet to run.

**CircularBuf.** One thread at a time uses the buffer, so each function is one
step; `valid` says whether there is a handle, which the functions only assert. The
values are in `buffer`, which belongs to the caller and is never cleared; `Kept` is
what the other variables make of it, `circular_buf_size` values from `tail` on.
`last` is what the last call returned. `MCQueue` puts the two buffers of PA3
side by side and gives one of them to a user.

**CharDevice.** A system call begins with a copy of the position (`BeginRead`,
`BeginWrite`, `BeginSeek`) or the load of a counter (`LoadOpened`, `LoadClosed`), and
ends when the position (`Return`, `simple_char_driver_seek`) or the counter is
stored. In between `CopyToUser` and `CopyFromUser` move one byte each, and `Return`
may come before the last, as `copy_to_user` and `copy_from_user` return when a page
is missing; their result, the bytes left over, is `CopyLength(c) - c.copied`. What the
kernel does is taken from how the module relies on it, and is marked external: it
holds a reference of the module for every open file (`.owner`), refuses to open one
while the module leaves, stores no position when the result is an error, and calls
`release` after the last call on a file. A byte from behind the buffer is `BEYOND`, whatever it may
be. `SEEK_END` subtracts, as the code does, and any other `whence` goes to the start. `opens`,
`closes`, `raced`, `crossed` and `dirty` are history variables; only the bound `MaxOpens`
reads one. They say how far the module can be right without a lock: a
counter up to calls that were at it at a time (`raced`), a position up to other calls
on the same file that stored one (`crossed`), a byte up to what others wrote
(`dirty`).

**Simulator.** `allstep` is one action per processor (`StepIdle`, `StepBlocked`,
`StepCompute`, `StepExit`), `allage` one action, and between it and `EndTick`
the pager makes any number of `Call`s with any arguments, also bad ones. A job
is known by its walk: the pages of the statements it executes, in order.
`bcontext_init` draws all decisions of all branches when a job is loaded, so the
walk is fixed from then on; the module takes any walk of a given set.
`PagerBasic`, `PagerLru` and `PagerApiTest` replace `Call` by the calls their `pageit`
makes. Of the two calls of a test of `api-test.c` the first changes nothing in the
state in which it is made, and is left out. `IsAPager` says that a module with a
pager does nothing that `Simulator` with any pager would not do.
The state `pageit` sees is a copy made before it; these pagers read of it only
the entry of a processor none of whose pages they moved before, so that the
copy and the state agree there, and the modules read the state. `Pagers` links
the simulator with one of the three (`pager`), as the Makefile does, and leaves the
variables of the others alone; what it says of one program is guarded by `pager`.
`NeverExits` and `EvictsLeastRecent` need no guard: they read what only the LRU pager
writes, and say nothing of the other two.

**PagerPredict.** `pred_pageit` makes many calls, which succeed or not depending on the
ones before, so a step makes at most one, and `stage`, `proc` and `todo` say where the
function is. `Serve`, `Fault`, `Trim` and `Want` are its first loop (remember the access;
on a fault, put out the pages not used lately, then ask for the page), `Served` the
assertion and the choice after it, `Suspend`, `Clear`, `Cleared` and `NoneLeft` the
suspension of jobs, `Evict` the loop over the refused processors, `Resume` and `Restore`
the resumption of suspended jobs, `Pass` a turn of a loop that does nothing. The copy of
the state that the function reads is stale here, and is modelled: a page it shows
resident is one that was so before the call, that is, a page at 0 or, as it was
put out meanwhile, at -1 (`Allocated`). `faults[]` is written for processors that
fault and read for all; what is read otherwise is any value, so `Suspend` may take
such a job and, the list being sorted by faults, in any order. The working sets are
bounded by `MAXPROCESSES` in the code, which equals `MAXPROCPAGES` (`simulator.h:17`).
`recent` is a history variable, the sequence the ring should hold.

**BranchEngine.** `process_load` draws, for each branch, how many times in a row it
goes one way and then the other (`brings`), and `bcontext_decide` works these off;
`Init` draws them and `Decided` works them off. A run of an `IF` has any length up to
`MaxRun`; its probability is neither 0 nor 1, since otherwise `bcontext_init` would not
return. `Exit`, `Branch` and `Advance` are the three ways through `process_step` of a job
whose page is resident. `same` is a history variable: how often a branch has
decided alike. `Halve` is one turn of the `while` of a binary search, and `Narrowed` what is
left after as many turns as the table has entries: by then the loop has ended, and
a further turn changes nothing. A table without entries is followed by zeroes, as in the code. With `max` -1 the code
also reads the entry before the table (`simulator.c:387`), which C leaves undefined;
the model takes it as 0, as it is in memory, where the unset exits of the program
before are. The
walks of `Simulator` are the pages of what this module executes; that connection
is by reading, the modules share no variable.

## What is checked

| Run | Question | Bounds |
|---|---|---|
| `queue` | Is `queue.c` a bounded FIFO queue, with correct return values, through wrap-around, cleanup and initialisation? Is `cbuf.c` one that slides over its oldest value? | 3 slots, 4 payloads: all fillings at all positions of `front`; 3 places, 3 values: all contents at all positions of `tail`, full and not |
| `char_device` | Do positions stay in the buffer, do bytes copied from or to it agree with it, do results and counters hold as far as calls do not cross? Is the buffer there during every call? | 2 tasks, 2 files, 2 bytes, strings of 3 bytes, reads of 1 and 3, seeks by -1 and 3 from each origin, 2 opens per load |
| `lookup` | Is a name ever lost, doubled or reordered by the interleaving? When can one be left behind or be refused? Does the program end? | 2 requesters, 2 resolvers, 3 names, 2 slots; any set of files unopened; fairness |
| `simulator` | Are frames, jobs and page states right whatever the pager does? Do pages under way arrive? | 2 processors, 3 jobs of 2 pages, 2 frames, `PAGEWAIT` 2 |
| `pagers` | Does the basic pager do what `pa4.pdf` says, and end every job? Does the LRU pager evict the least recently used page, never give up, and end every job? Does the API test know where its page is, and does it end? | 2 processors, 3 jobs, 2 frames, `PAGEWAIT` 2; basic: jobs of 1, 2 or 3 pages; LRU: 5 walks over 3 pages; API test: 2 walks over 2 pages, `MAXITERATIONS` 5 as in the code |
| `pager_predict` | Does the history hold the last accesses, in order? Does the pager take a needed page only to suspend its job, and do suspended jobs wait? Is its exit or its assertion reached? Does every job end? | 2 processors, 3 jobs of 4 pages with 4 walks, 3 frames, `PAGEWAIT` 2, a history of 3 accesses (`HSIZE` 4), `EVICTWAIT` = `PAGEINWAIT` 2, `SUSPENDWAIT` 5, `THRASHING` 4 |
| `branch_engine` | Do the searches find the branch and the exit of each statement, does each branch decide as its kind says, and does each job reach its exit? | the 5 programs of `programs.c` with straight lines cut short and loops of at most 3 turns, 1 more with `NFOR`; `MAXBRINGS` 2, `MaxRun` 2 |

Every thread of a kind runs the same code, so two of each show every pair of
roles that can meet at a mutex or around the unlocked test. Two slots with three
names fill the queue, wrap it around and overflow it. Two processors with three
jobs reload one processor while the other pages, and fewer frames than pages make
every refusal of `pagein` happen. `PAGEWAIT` 2 distinguishes the first, a middle
and the last tick of a move in each direction.

The limits of the predictive pager keep the order they have in the code:
`PAGEWAIT`, `EVICTWAIT` and `PAGEINWAIT` are all 100 there, `SUSPENDWAIT` is 500, and the
2048 faults of `THRASHING` are as many as the slots of the ring. The walks are long
enough for the ring to wrap around, and three frames for two jobs of four pages
make pages be refused, jobs be suspended and resumed, and pages be evicted.

`BasicJobsEnd` holds because no job has more than one page beyond the frames. With two
beyond, `pageit` may for ever evict the same page that is out already: `pageout`
returns 1 for it, and the search stops there (`pager-basic.c:42-48`), so no frame
becomes free. With the constants of the code, 20 pages and 100 frames, the basic
pager serves one job at a time and never evicts at all.

Two tasks on two files meet on one file, on two files and on neither; a buffer of two
bytes has a first, a last and an end position, and lengths of 1 and 3 end calls
before, at and behind its end. Two opens are the fewest with which a
counter can be wrong. The tasks are interchangeable and so are the files, and no
liveness is checked in that run, so it uses their symmetry.

`MAXBRINGS` 2 is the smallest even value and makes every loop that is entered twice
wrap around; the programs have tables of no, one, two, three, four and five
branches, which are the ways the binary search can end.

Five runs show a disagreement between the code and what is said of it:

- `lookup_left_behind`: a resolver sees an empty queue, then the last names are
  pushed and `main` clears `requests_exist`, then the resolver reads the flag and
  leaves. The names stay in the queue. `DrainedByLateTest` says how far this goes:
  one resolver that starts its test after the last push drains everything.
- `linear_program`: in a program without branches, `process_step` still compares the
  program counter with `branches[0].wherefrom`, which is 0. Statement 0 therefore
  branches to itself once, with the context that `process_clear` left, whereas
  `pgm4.pseudo` says the program is "entirely linear". Each run of program 4
  takes one tick more.
- `predict_count`: the loop over the refused processors says that it frees one page for
  each refused request, and counts a page whenever `pageout` returns 1. But it
  takes the oldest page of the stale copy, which the same job may have put out a
  moment before as not used lately, and `pageout` returns 1 for a page on its way
  out as well. So it counts a page twice and stops with fewer freed than
  refused. (3 processors, 5 frames; a later tick makes up for it.)
- `history_age`: `predict.h:25-26` says that `phist_at` gives the most recent access for
  0, the one before for 1, and so on. It starts at `head`, the slot to be written
  next, so that every access is found one place later; `phist_len` counts that slot
  too, so that the oldest is at `phist_len - 1`, as line 28 has it. At 0 there is a record that was never written or, in a full ring, one that
  was dropped. `HistoryIsOneBehind` proves that this is the whole disagreement, for
  rings of every size. Neither function is called.
- `read_beyond`: `simple_char_driver_read` computes `bytes_to_read`, which ends with the
  buffer, and passes `length` to `copy_to_user` (`simple_char_driver.c:48`). A read that
  asks for more than is left also gets what lies in memory behind the buffer, where
  the comment of line 33 speaks of the "max bytes that can be read in the device
  buffer". The result and the position count `bytes_to_read`, so `ReportsHold` is true: it
  speaks of the reported bytes only. `CallsMoveBytes` exempts those from behind the
  buffer, as there is nothing they should agree with.

More were seen while modelling that follow directly from one line, so no run is
spent on them. `request` ignores that a push failed (`multi-lookup.c:52`), where the
handout asks to block; `RefusesOnlyExcess` says how far this goes: no name is refused if
all fit, as at most 1025 names do. `resolve` goes on with no name when the queue has
become empty before it got the mutex (`multi-lookup.c:86`), and writes a line for it.
An input file that cannot be opened crashes the program
(`multi-lookup.c:192`), where section 4.3 of the handout asks to move on to the
next file. Requester `i` services file `i` only (`multi-lookup.c:202`), so with
fewer requesters than files the rest is never read, where section 2.2 asks that
a requester goes on with the remaining files. A job is refused again at once unless it
has no pages *and* was refused lately (`&&`, `pager-predict.c:175`), where the comment in
`PA4_dk/pager-predict.c:174` asks for both a page and no second eviction within 100
ticks.
For an `IF` branch `bcontext_init` stores one run past the end of `brings`
(`simulator.c:204`); the store meets the context of the next branch, which is
initialised afterwards, or nothing that is read, and is left out of the model.

### Fairness

- `MultiLookup`: every thread that can run does (weak fairness of each thread and
  of `main`). Requesters also get a mutex that is free again and again (strong
  fairness of their two lock steps): the resolvers spin, so a mutex is not free
  continuously. POSIX does not promise this of a default mutex, but a resolver
  is outside both mutexes during every lookup, which takes long. The resolvers
  need no such assumption: when the requesters are done only resolvers compete,
  and each that gets through finds less to do.
- `BranchEngine`: the job's page is resident again and again, so that it goes on.
- `CharDevice` has no fairness, and no property that needs one: a task may stop in a call.
- `Simulator`, `PagerBasic`, `PagerLru`, `PagerApiTest`, `Pagers`, `PagerPredict`: one sequential program that does not stop
  by itself, and, in `Simulator`, a pager whose `pageit` returns.

## What is proved

TLAPS proves the following for every value of the constants, from the named
assumptions beside them: sizes are positive numbers, the null value is not a
payload, a job, a thread or a file, the two kinds of thread are different, there are at
most as many requesters as files, the tables of a program are in the order of their
statements, its last statement is an exit and its loops turn at least once, `MAXBRINGS` is even, a walk is a non-empty sequence of pages, what is
written to the device is a sequence of bytes, none of which is `BEYOND`.

Every safety property that the passing runs check is proved, invariants and action
properties alike, and so is that `Queue`, `MultiLookup`, `CircularBuf` and `Simulator`
implement their abstract specifications; the runs show it on a small instance first.
What is only model-checked is liveness (`Termination`, `TransitsEnd`, `AllJobsEnd`,
`BasicJobsEnd`, `LruJobsEnd`, `JobExits`, `ApiTestExits`): it needs fairness and `ENABLED`, which are out of the prover's
reach. Some invariants are stated by theorems only, being parts of larger
arguments, and take no run: `TypeOK` and `RingInv` of `Queue` and `MultiLookup`,
`IdleOnlyWhenDrained`, `SomeoneCanGo`, `CbufTypeOK`, `HistoryOneBehind`, the types of the pagers, and that each pager is
a pager.

Two of the properties are about recursive functions: the search of `process_step`, and
`phist_at`, which walks back through the ring. The library's induction theorems
take an operator as a parameter, which no prover here can instantiate, so both are
proved by a least counterexample instead: a non-empty set of numbers has a least
one (`LeastNat`, from `WFMin`), and at the least number for which the claim fails, the
step from the one before gives a contradiction. That the recursive function exists at all is
proved in the same way (`TurnsDefined`), or by naming it (`ReadsBehind`).

**`RingProofs`.** Lemmas on the ring. A well-formed ring has its payloads from
`front` up to `rear`, in `Len(Contents)` slots. `IsEmpty` and `IsFull`, the tests of
the code, are true exactly for length 0 and `maxSize`; storing at `rear` appends to
the contents and keeps the ring well formed; clearing `front` removes the head.

**`QueueProofs`.** `TypeCorrect`, `RingStaysWellFormed`, `ReturnsReport`, and
`QueueImplementsFifo`: `Queue` implements `BoundedFifo`. The inductive invariant
is `TypeOK /\ RingInv`: without `RingInv` the tests of the code, which look at one
payload, say nothing of the others.

In the same module, `CbufTypeCorrect`, `CbufImplementsWindow` and `CbufReturnsReport`
for `cbuf.c`. Here `CbufTypeOK` is inductive; it includes that `full` is set only when
`head` and `tail` meet. `SizeIs` shows that the size is then between 0 and `max` and
that `head` is as many places behind `tail`. A put on a full buffer is a get and a put in
one step (`HeldGet`, `HeldPut`).

**`MultiLookupProofs`.** `TypeCorrect`, `RingStaysWellFormed`, and
`LookupImplementsFifo`: the interleaved stores of all threads implement
`BoundedFifo`. `RingInv` is not inductive by itself, because between the two stores
of a push or a pop the indices are behind the array. The invariant is `Good`:

- `TypeOK`;
- `LockInv`: who holds a mutex is at a place in the code where it holds it, so
  two threads are never between the two stores of a call;
- `HandInv`: where a thread is in the code says whether it has a name in hand;
- `JoinInv`: what `main` has joined has ended;
- `RingInv`, which describes the ring relative to the call under way.

In the second half, what becomes of the names, on top of `Good`.
`NamesStayInOnePlace` is proved by moving a name from one place to another in each
step (`Moved`), all other places staying as they are. `ReturnAccounts` follows from
it and from `ScanInv`, the requesters having read their files to the end.
`LateTestDrains` needs an invariant of its own, `LateInv`: once a test has begun
after the last push, as long as names are queued there is a resolver that will pop
again (`StaysToPop`). A resolver may well see a wrong answer, but only because
another one has popped in between, and that one will test again; this is why the
unlocked test is harmless except for the case of `lookup_left_behind`.
`RefusalsAreExcess` counts: at a refusal the queue holds `maxSize` different names
that are neither the refused one nor one refused before. `NoMutualWait` shows that
until the program is over a thread can go on or `main` can: whoever has one mutex is at a
place where it asks for no other. It says that there is no deadlock, for any number of
threads; that every thread gets its turn is `Termination`.

**`SimulatorProofs`.** `TypeCorrect`, `EachJobRunsOnce`, `NoIdleWhileJobsWait`,
`RunningJobsHoldTheFrames`, `FramesStayConserved`, `SimulationEndsClean` and
`SimulatorImplementsFrames`, each for an arbitrary pager. The inductive invariant
is the conjunction of the properties and `ExitInv` (a job is unloaded at its exit
only). They need each other: `allage` and `process_unload` count the frames of
running jobs only, so that `FramesConserved` rests on `OnlyRunningHold`, and this on
`JobsRunOnce`, as a second processor with the same job would keep it running
without its pages. The upper bound of `pagesavail` in `TypeOK` follows from
`FramesConserved` and is not part of the invariant.

**`PagerProofs`.** Three pagers. What the run `pagers` checks under a guard is proved of
the program with that pager and of `PagersSpec`, from the same invariant. `BasicIsAPager`: what is proved of `Simulator` holds of the
basic pager. `OneJobHoldsFrames` rests on `HolderInv`: the frames belong to the
job of the first processor that has one; only that job can get a page, therefore
only that job can end, and when it does all frames are free.
`FittingJobsKeepTheirPages` is a counting argument: if `pagein` is refused, all
frames are held by pages of this job's walk other than the wanted one, so the walk
has more pages than there are frames.

`LruIsAPager`, `LruTypeCorrect`, `LruNeverExits` and
`LruEvictsLeastRecent`. Notes are kept by processor and outlive the job they were
made for. `SameNotes` is the reason this does no harm: a page is in a frame, or on
its way to or from one, only after the pager noted it for the job that holds it,
and a job that comes to a processor holds none. The note of such a page is at
least 1, so the search of `lru_page`, which stops early at 1, stops at a minimum,
and it finds a page because no note is ahead of `tick` (`NotesInv`).

`ApiIsAPager` and `TestKnowsItsPage`: the pager of `api-test.c` moves one page only, that of
processor 0, and remembers in two flags what it asked for. That the flags agree
with the page after every tick is not inductive. `ApiGood` adds that no other page is
ever asked for (`OthersOut`), so that no job gets past its first statement and the first
job stays on processor 0 (`Parked`), and how the flags go with the state of the page
(`TestInv`): the page is resident only between its arrival, in `allage`, and the call of
`pageit` in the same tick, which puts it out again before any job could run on it.

**`PagerPredictProofs`.** `PredictIsAPager`, `PredictTypeCorrect`, `HistoryIsTheLast`,
`HistoryIsOneBehind`, `PredictNeverExits`, `SuspendedJobsWait` and `NeededPagesStay`, from the
invariant `PredGood`. All of it rests on one fact (`PagerMoves`): whatever the pager calls, the pages
the stale copy shows stay the same set, as one that goes out is still in it
and one that comes in is not (`SameView`). Then:

- `Remembers`: a push on the ring appends to what it holds and drops the oldest of a
  full ring (`PushKeeps`);
- `ReadsBehind`: the place `phist_at` comes to after some steps back from `head` is that many
  behind it around the ring, so `HistoryOneBehind` follows from `Remembers` and from the
  ring being well formed (`StepsBack` is one step, also over the end of the array);
- `SuspendedInv`: no count of faults can reach `THRASHING`, since the ring holds fewer
  accesses than that (`FewFaults`), so every job the code suspends is one whose `faults[]`
  was never written; such a job had its page, which is then put out. It can run
  neither until the page comes in, which only a resumption asks for, and so does
  not leave its processor with `proc_susp` set;
- `RefusedInv`, `NotesInv`: a refused job is there and does not have the page it wants, and
  `lru_page` finds one to evict, so the `exit(0)` is not taken;
- `AccountsInv`, `GrantedInv`: what `pred_pageit` has taken off `free_phys` is as many as
  there are pages in `Taken`, all of them in frames, so by `FramesConserved` the assertion
  on `free_phys` does not fail.

**`CharDeviceProofs`.** `TypeCorrect`, `BufferOutlivesCalls`, `CallsReportRightly`,
`BytesMoveInPlace` and `CountersAreRight`, for any number of tasks and files. Types need
`CallInv`: no call has moved more bytes than it copies, and a write ends with the buffer,
as `BytesToMove` is what is left of it. `Cases` lists what a step can be to the other tasks:
an open, the begin of a call on an open file (`Entered`), a byte (`Copying`), the end of
a call (`Settling`). On it rest

- `BufferLives`, which is inductive, since the module leaves only when it is `Unused`;
- `OwnInv` and `PlaceInv`: a file being opened is nobody else's, and the copy of a
  position is the position until another call stores one;
- `BytesAgree`, one byte at a time (`ByteMoved`, and `BytesKept` for the others), which with
  `WritesFit` gives `CallsMoveBytes`; what a read takes from behind the buffer is
  exempt in both;
- `OpensInv` and `ClosesInv`: what a task loaded is not above the number of calls counted,
  and while no two tasks met it is the counter itself.

**`BranchEngineProofs`.** `TypeCorrect`, `SearchesFind` and `DecisionsAsDrawn`, for every set of
programs. `LookupFinds` is the search alone, in any table with growing keys: after `n`
turns the entry sought is still within what is left, and what is left is at most
`size - n` entries or two (`HalveNarrows`, `TurnsNarrow`). Types rest on it, since the
default step would leave the program if the search could miss the exit at its last
statement (`Searched`). For the decisions `DrawnInv` says of each branch that the run at the
offset is one for the decision now made, which holds around the end of the runs because
`MAXBRINGS` is even (`NextIsOther`), and that the history is in step with the count in the context
(`InStep`). Proving it showed that a `GOTO` does not branch for ever: its run has 2147483647
decisions, after which it would pass as often. `BranchesAsDrawn` says just that; no
bounded run could tell the difference.

## Plan

1. done: `Queue`, `MultiLookup`, `Simulator`, the four pagers, the branch engine,
   `CircularBuf` and `CharDevice`, and proofs of their safety properties.
2. What is left: the arguments and limits of `main` in
   `multi-lookup.c`; a failed `queue_init` or `kmalloc` and what its users then do.

## Not modelled

- `dnslookup`: a stateless call into the C library.
- The arguments of `multi-lookup` and of the simulator, logs, csv files and printing.
- The crash of `request` after a failed `queue_init`, and a failed `kmalloc` of the
  device: both end in a null pointer.
- `pread` and `pwrite` on the device, which bring a position of their own.
- The system call of PA1: one addition and one store, without state.
- The test program of PA2, which is one of the callers `CharDevice` allows, and the
  skeletons; the scripts; and the submission copies, whose code is that of the files they were made
  from, except that `PA4_dk` comments more.

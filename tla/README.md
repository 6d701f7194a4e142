# A verification project for infinity_01

TLA+ modules for the programs and libraries of this repository: the threads,
queues, tasks, processes and sockets of `src/Daniel`, where the order of events
decides whether the program is right, and the data structures under
`src/Daniel`, `src/Wes` and `src/__common`, where the order of calls and the
call that fails do. Every module is translated from the C and C++ sources; comments
and tests of the repository only appear where a run compares the code with what
they say. `PROJECT.json` maps each definition to the lines it stands for.

Paths below are relative to `src/Daniel` unless they start with `src/`; `framework/` is
`final_project/framework/` and `concrete/` is `final_project/concrete/`.

## The system

The repository collects the programs of a systems course. The parts that carry
logic of their own are:

| Component | Where | State | Operations |
|---|---|---|---|
| Waitable priority queue | `framework/include/waitable_pq.hpp` | heap, mutex, condition variable | `Push`, `Pop` |
| Thread pool | `framework/src/thread_pool.cpp` | queue of tasks, vector of threads, size, condition variable of the paused | `AddTask`, `SetSize`, `Pause`, `Resume`, `Stop`, `Stop(timeout)` |
| Request engine | `framework/include/re_fw.hpp` | epoll set, pipe, handlers, reactor thread | `ConfigTask`, `ConfigInputSrc`, `Run`, `Stop`, the reactor loop |
| Input sources, NBD tasks | `framework/include/input_src_imp_for_test.hpp` | one shared request, one shared byte | `Read`, `Execute` of each task |
| NBD driver communicator | `concrete/src/nbd_driver_communicator.cpp` | socket pair, NBD descriptor, listener thread | `ReceiveRequest`, `SendReply`, `Disconnect` |
| RAM storage | `concrete/src/ram_storage.cpp` | bytes | `Read`, `Write` |
| Plug and play, dispatcher | `framework/src/pnp.cpp`, `msg_broker_imp.hpp` | inotify descriptor, list of callbacks, loaded libraries | load on event, register, notify |
| Singleton, factory, logger | `framework/include`, `framework/src` | instance pointer, map of creators | `GetInstance`, `Create`, `Log` |
| Producers and consumers | `src/producers_consumers.c` | mutex, semaphores, condition variable, message, counters | five exercises and an outline of one; `main` runs the last |
| Scheduler | `src2/scheduler.c`, `task.c`, `p_queue.c`, `sorted_list.c`, `dlist_new.c` | sorted list of tasks, running task, flags | `SchedAdd`, `SchedRemove`, `SchedRun`, `SchedStop`, `SchedClear` |
| Watchdog | `DAwatchdog/*.c` | two processes, counter of unanswered pings, semaphores, schedulers | ping, answer, revive, do not resuscitate |
| Data structures | `src2/*.c`, `src/Wes`, `src/__common` | trees, heaps, lists, vectors, hash tables, allocators, address pool | insert, remove, find, sort, allocate |
| Network and IPC exercises | `SERVER_TCP_UDP`, `src/udp_*.c`, `src/tcp_*.c`, `src2/ping_pong.c`, `src/semaphore.c`, `cpp/src/IPCpingpong.cpp` | sockets, signals, semaphores | select loop, servers and clients, ping-pong, semaphore tool |
| Exercises with threads | `src/mt_count_sort_fix.c`, `src/shuffle_dict.c`, `src/shuffle_dict0.c`, `src/tmp.c` | shared arrays, counters, locks | count, sort, merge, produce, consume |
| Shells and puzzles | `src2/simple_shell2.c`, `simple_shell3.c`, `src/Wes/Quiz`, `src/07_Calculator` | the line read, the board | read and run a command, jump, take a line apart |
| Reference counted strings | `cpp/src` | shared buffer and its count | copy, assign, write |

How they interact: the request engine owns a thread pool, whose workers pop
tasks from the waitable queue; its reactor thread turns what the input sources
read into tasks and adds them; the tasks of the block device server access the
RAM storage, reply through the communicator, and the task made for the key `q`
stops the engine from inside the pool. Plug-ins are found by the inotify
listener and announced through the dispatcher. The scheduler is a sequential
library, which each process of the watchdog runs to send pings.

What is hard there: lock-free windows between an unlock and a notify, control
tasks that travel through the same queue as user tasks, arguments shared by all
tasks of a kind, a shutdown that closes descriptors another thread sleeps on,
one condition variable for two conditions, and counters reused round after
round. `PROJECT.json` lists these hazards at the lines where they bite.

What makes each part correct:

- queue: every element is popped once, by a maximal-first order, and no consumer
  sleeps beside an element (`WaitablePQ`);
- pool: control tasks match the threads they are for, `Stop` finds enough of
  them and returns, urgent tasks are done by then (`ThreadPool`);
- server: each request is executed and answered, writes are stored before they
  are acknowledged, and stopping ends the reactor (`NbdServer`);
- storage: a read returns what the last write of its bytes left, unless the two
  met, and a request out of range changes nothing (`Storage`);
- plug-ins: what is announced is loaded once, in order, and everything that was
  loaded is closed by an end that comes (`Plugins`, `Framework`);
- exercise 6: each message is read once by each consumer, and the rounds go on
  (`Rendezvous`);
- the other programs with threads and sockets: what is sent arrives once and in
  order, threads leave what they share as if each had it for itself, and the
  programs that should end do (`Exercises`);
- libraries: they hold what was put in and not taken out, once and in the order
  of their own insertion, and free no block that is linked, whatever calls fail
  (`Libraries`);
- scheduler: every task is queued or executed and never used after it is freed,
  none is executed before its time, and `SchedStop` ends the run (`Scheduler`);
- watchdog: the dead are revived on both sides until `DoNotResuscitate`, which
  returns; the living only die of answers that the other side lost (`Watchdog`).

## Modules

### AtomicPQ, WaitablePQ, WaitablePQProofs

`AtomicPQ` is what callers of `WPQueue` may rely on: `Insert` and `Remove` of a
maximal element, each in one step. `WaitablePQ` is the code: `Push` is
`PushCall`, `PushLock`, `PushInsert`, `PushUnlock`, `PushNotify` (the lock guard's
block ends before `notify_one`); `Pop` is `PopCall`, `PopLock`, then `PopWait` or
`PopTop` by the predicate of `m_cv.wait`, `PopPop`, `PopReturn`. `front` is the
root of the heap: among equal priorities the heap may choose any, so `PopPop`
picks any maximal element as the next root. `SpuriousWakeup` is what a condition
variable may do. Elements are distinct and pushed once each, which lets the
refinement say who got what.

### ThreadPool, ThreadPoolProofs

Uses the atomic queue. One controller thread makes the calls, each of which is a
call step and a loop whose iterations interleave with the workers: `SetSize` is
`Shrink`, `ResumeSome` or `Grow`, the three cases of the code; `PushPause`,
`PushStop`, `NotifyOne`, `CreateThread` are the bodies of the loops. `Stop` is
`NotifyAll` first, then the StopTasks, then `JoinAll`. PauseTasks and StopTasks
are indistinguishable, so the queue holds a set of user tasks and two counts.
A worker pops (`TakeUser`, `TakePause`, `TakeStop`) what no queued task exceeds
in priority, and executes it; a `runtime_error` ends the thread, anything else
the process, as in `ExecutionLogic`. `PauseTask` waits without a predicate, so a
spurious wakeup resumes it. `Stop(timeout)` destroys joinable threads and
terminates the process. `resumed` and `spurious` only count.

### NbdServer, NbdServerProofs

The server that `framework/test/re_fw_test.cpp` builds from the parts of the
repository. The reactor loop is `EnterWait`, `ReturnEvents`, then one step per
event, with the read and the `AddTask` that follows it apart. `ReadNbd` is
`InputSrcNBD::Read` with `ReceiveRequest`; `Load`, `Store`, `Header`, `Data` are
`NBDTask::Execute`, which looks at the shared request when it runs. `Key` and
the `Stop...` steps are the task for `q`: the byte in the pipe, the removal of
the descriptors, the closing of epoll and pipe, and `Disconnect`. All these
tasks have one priority, so the pool's queue is a count per kind.
The unsynchronised copy of `m_driv_data` while the reactor assigns to it is a
data race: `CopyRace` lets it end the process, or not.

Left out: the reuse of closed descriptors' numbers, the destructors that run
after `Run` returns, and the bytes of the storage.

### Rendezvous, RendezvousProofs

Exercise 6 of `producers_consumers.c`. Each lock, unlock, wait, post and signal
is a step; what the code does between a lock and the next of these calls is part
of that step. Messages are numbered modulo `Numbers` where the code draws random
ones, so that one message can be told from the one before. `main` sleeps five
seconds and returns, which cuts the run; the model goes on.

### Scheduler

The library is sequential, so one variable says whose turn it is: the client's,
the loop's, the sleep's or an op_func's. `queue` is the sorted list from begin to
end, with the insertion of `SrtListInsert` (before the first element that is
not smaller) and the service of `PQueuePeek` (from the back); `due` is a task's
execution time relative to now. `UserCode` may call `SchedAdd`, `SchedRemove`,
`SchedStop` and `SchedClear` from the client and from inside a task. `Repeat` is
`EXECUTE_REPEAT`: queued by the old execution time first, given the new one
afterwards, and dropped once any task has removed itself, since `is_self_remove`
is never reset. `mem` follows each `task_t` to its `free`; `faulted` is set when
`SchedRemove` reads the uid of a freed or missing running task. `since` is a
history variable, the time since the task was added or last executed.

### Watchdog, WatchdogProofs

The user's main thread (`MakeMeImurtal`, `SemWait`, `DoNotResuscitate`, `Joined`,
`Exit`), its watchdog thread (`Fork` ... `Tell`) and the watchdog process
(`Exec` ... `ExecUser`). What a signal does depends on what its receiver has
installed, which its place in the program tells: `PingUser` and `PingWatchdog`
are SIGUSR1, `StopWatchdog` SIGUSR2, `KillUser` SIGKILL. A signal is handled before
the receiver takes another step. `++g_fail_counter` (`common.c:263`) is two steps,
`SigSenderLoads` and `SigSenderStores` (`WatchdogLoads`, `WatchdogStores`), after the
ping: the handler of SIGUSR1 may run between them, and then the store writes over its reset.
`lost` counts such resets since the last one that held. `Resucitate` on the user's side is two steps,
the kill and the fork; on the watchdog's side, too, the kill and `ExecUser`, by
which the process becomes the user's. The scheduler is not run again inside
this module: by the order that `Scheduler` shows, the task of interval 0 waits
until `SigSenderAndCountChecker` has returned 1, and that order is built in.
Time is counted in seconds; `Busy` holds time until what is due has happened.

Left out: failing system calls, the use of an uninitialised `mask_set`, root's
right to signal init, the arguments that a revived program loses.

### Exercise, Exercises, ProgramsProofs, ExercisesProofs and the programs with threads

`Exercises` puts the programs side by side: `game` names the one that a behaviour
is of, `shared` is its shared memory, kernel objects included, `at` where each
thread is and `hand` what it holds. `Exercise` has the steps they share.
`Rendezvous` keeps its own variables and is the game `exercise6`. A thread's step is an action of the
thread; `ThreadStep(t)` collects those of thread `t`.

| Module | Programs | State and actions |
|---|---|---|
| `Exchange` | exercises 1 to 4 of `producers_consumers.c` | the flag tested and set in two steps (`Spinlock`), the list of exercise 2 in its single accesses behind copied mutexes, list and semaphore of 3, the queue of fixed size of 4 with both semaphores and its end |
| `Processes` | `semaphore.c`, `ping_pong.c`, `IPCpingpong.cpp`, `mt_count_sort_fix.c`, `shuffle_dict.c` | GETVAL and SETVAL apart, undo values, the command line as `Tokenize` takes it apart; signals between test and `pause`; local histograms added under the mutex, of chars that are signed; segments sorted by threads, and `SdShuffle` |
| `Plugins` | `pnp.cpp`, `singleton.hpp` | listener and main over one inotify queue, of which a read takes a first part, the vector of call backs and the handles; `GetInstance` in its loads, fences and stores |
| `Storage` | `ram_storage.cpp` | one byte per step, two workers, sums modulo `RamWord` |
| `Network` | `udp_*.c`, `tcp_*.c`, `SERVER_TCP_UDP` | a port's mailbox, which may lose datagrams and has a second sender; streams that deliver any part; `select` with the sets it is given |
| `NbdDevice` | `nbd_driver_communicator.cpp` with the program of `netspace_tset.cpp` | opening, `ioctl`s whose failure is only printed, the listener thread in NBD_DO_IT, requests in parts, signals, Disconnect, answers whose write fails; two workers that reply over one socket (`replies`), in parts or not at all |
| `Threads` | `shuffle_dict0.c`, `tmp.c`, `uid.c` and `task.c`, `logger.cpp` | bubble sort beside the merge, the two counters of the spin lock, the shared uid counter, lines under a mutex while path and level change |

Where the code has a data race or relies on a message that may be lost, the
model takes the race's outcomes and a field of `shared` remembers that it
happened: `crowd` (two in the critical section of exercise 1, or in the list of 2),
`astray` (a semaphore set from a stale value), `raced` (the dictionaries), `torn` (the
plug-ins' vector, a PING in parts), `met` and `mixed` (storage), `lost`, `stranger`
and `split` (network). What such a race can do to the data is not promised
by any property beyond what the code keeps even then: no word of a
dictionary is invented, a stream's server answers no more than was sent, accesses
to other bytes of a storage are not disturbed. The hazards of which nothing is left
have no property in `PROJECT.json`, and a note that says so.

### Library, Libraries, Stores, LibrariesProofs and the sequential libraries

`Libraries` is the same for what one thread uses: `kind` names the library, `store`
is its memory as the code lays it out, block by block, and `log` what its client
knows of the calls it made. Every `malloc` may fail (`Malloc` gives no block, too);
an operator maps the memory before a call to the memories after it. The scheduler is the kind `scheduler`.
`Stores` has the libraries whose operations need no RECURSIVE operator, `Strings`,
`Allocators`, `Arrays`, `Framework` and `Sorting`, with a specification of their own,
`StoresSpec`, of which `LibrariesProofs` proves.

| Module | Code | Checked against |
|---|---|---|
| `DList`, `SortedList` | `dlist.c`, `sorted_list.c`, `p_queue.c` | the sequence of the client's insertions, splices, merges and removals |
| `SList` | `slist.c`, `queue.c` | sequences; who names which list after a removal that moves data |
| `Arrays` | `stack.c`, `vector.c`, `src/Wes/src/vector.c` | sequences; what a failed `realloc` leaves |
| `Trees` | `bst.c`, `avl.c` | the set of the data; that an insertion finds again what is there |
| `Heap`, `Hash` | `heap.c`, `hash.c`, and those under `src/Wes` | bags and functions; no element before its parent, no element in two lists or freed |
| `Sorting` | `sort_funcs.c` | one turn of an inner loop per step, with the loop invariant of each sort |
| `Allocators` | `fsa.c`, `MyMallocFree.c`; `dhcpDaniel.c` | the blocks that are out; leases, and a node is full if and only if its children are |
| `Strings` | `hrd_string_rc.cpp`, `hrd_string.cpp` | a text of its own for each name |
| `PQueue` | `DAwatchdog/helper_function_for_watchdog/src` | the scheduler's own lists, every allocation and system call failing; one pass of `SchedRun` |
| `Framework` | `msg_broker_imp.hpp`, `re_fw.hpp`, `factory.hpp` | who is told by a dispatcher that changes while it tells; which task a key makes |
| `Puzzles` | `knight_tour3.c`, `Chess.c`, `07_Calculator/main.c`, `simple_shell2.c`, `simple_shell3.c` | tours, tokens, the commands that were typed |

A call that the headers leave undefined is not made; one that the code gets
wrong is made, and a field (`faulted`, `crashed`, `stale`, `dangling`, `aborted`,
`endless`, `meddled`, `helped`) stops the behaviour or excuses exactly the damage done.

### MC modules

`MCWaitablePQ`, `MCThreadPool`, `MCNbdServer`, `MCRendezvous` (for `Exercises`),
`MCScheduler` and `MCLibraries` define what the constants are given for TLC; those
of `Watchdog` and of most programs are numbers, in the cfg files. Bounds that no theorem
is about are named in the modules themselves. Operators marked "Mutated form" in the modules are
deliberate faults that no action uses: each replaces a definition of its module
to show that a property notices.

## Runs

| Run | Instance | Shows |
|---|---|---|
| `WaitablePQ` | 2 producers, 2 consumers, 3 elements of 2 priorities | the queue implements `AtomicPQ`, loses no wakeup, and delivers every element |
| `ThreadPool_safety` | up to 3 threads, 3 tasks (below, at and above MEDIUM; one throws, one kills the process), any 4 calls, 1 spurious wakeup | accounts of control tasks, bound on the concurrency, what a graceful stop drains |
| `ThreadPool_live` | 2 threads, 3 tasks, no pausing or resizing | `Stop` returns and tasks are taken |
| `ThreadPool_hang` | 1 thread; `Pause`, `Resume`, `Stop` | counterexample: `Stop` does not return |
| `NbdServer` | a read and a write request, a line `q`, 2 workers | the newest request is kept and served, writes are stored before they are acknowledged |
| `NbdServer_lost` | two requests, nothing typed | counterexample: the first request is never answered |
| `NbdServer_stop` | one request, `q` | counterexample: the reactor does not end |
| `Rendezvous` | 3 consumers; every other program of `Exercises` | in exercise 6 each message is read once by each consumer and the rounds go on; the others are safe (`ExercisesAreSafe`, `PluginsAreSafe`) and come to their ends (`ExercisesGoOn`, `PluginsEnd`) |
| `Libraries` | 3 tasks of intervals 0, 1, 2, any calls; every other library with 3 blocks and 3 values | who owns each task, when it is executed, that the run goes on and ends when stopped; structures hold their data, sorts sort, memory is accounted for, dispatcher and engine are right, programs are right |
| `Scheduler_starve` | 2 tasks of intervals 0 and 1 | counterexample: the first is never executed |
| `Watchdog` | interval 2, 3 fails, 2 crashes, 3 signals between load and store | who kills the living lost nearly all of its answers, both sides are revived, and `DoNotResuscitate` returns |
| `Watchdog_down` | the same without crashes | counterexample: the program is started again after `DoNotResuscitate` returned |

Bounds. Two waiters are enough for `notify_one` to wake the wrong one, and two
equal priorities for the heap to choose. Three threads let a pool shrink, wake
some and grow; `MaxCalls` bounds the calls of the controller (4 reach
shrink-grow-shrink-stop), `MaxSpurious` the spurious wakeups. Two requests are
the smallest number that can share the one `m_driv_data`. `Rendezvous` has no
bound: its counters return to zero each round and its messages are cyclic.
In `Libraries`, three blocks give a list a first, a middle and a last node, a tree
a node with two children, a bucket a collision, and one element more than the
blocks a failing `malloc`; three values give a smaller, an equal and a greater
neighbour. Sorts take up to `Cells` numbers; `SoDigits` digits below `SoRadix`, 8 and 16
in the code, are just enough for them, and `INT_MAX` is greater than all. `PqCells`, `PqCount` and `PqLast` are what a
scheduler with two tasks needs; `DhHeights` has a parent below the root, and
`DhLeases` fills the pool but one; `WsCapacity`, `CAPACITY`, `LeakRows` are small so
that they are passed; `StrNames` is three, since a shared buffer has to lose one
owner and keep two; a board of `PzSide` 4 has no tour, so that every walk gets stuck; `ShLines`
is two commands with their answers. In the exercises there are two rounds or
messages where a second could be taken for the first (`NtRounds`, `NbdRequests`,
`PgFiles`, `LgLines`, `TkTasks`; `SpItems` is three, which just fill the buffer of
`BUFFER_SIZE`, as the ten do in the code), parts of two (`NtLen`, `NbdHeader`), a queue of one place (`ExSize`) and a counter at
its limits (`SemTop`, `PpCount`). A file of up to `CsSize` three gives `ProcessFile` equal
chunks and a remainder, two bytes (`CsLast`) a histogram more than one entry.
`RamWord` is small so that sums wrap. Those of `NtRounds`, `NtLen`, `PgFiles`, `ExSize`,
`SemTop`, `PpCount`, `CsLast`, `CsSize`, `TkTasks`, `SpItems`, `BUFFER_SIZE`, `LgLines`,
`SgThreads`, of the storage and of `NbdDevice` are constants, given
in `Rendezvous.cfg`; what is proved holds for every value. A reply there has a header
and data of two bytes (`RpHeader`, `RpData`), so that a write can take a part of
either, and `RpAsked` is a WRITE between two READs, which its two workers answer
beside each other and one after the other.
`Scheduler` counts seconds, as `time` does: `MaxLate` saturates how late a task is,
which can only tie the order of tasks that are later than that, and
`MaxInterval` saturates `since`. In `Watchdog`, `MaxCrashes` is two, so that a revival
can be cut by the second crash; `MaxLosses` bounds how often a signal is handled
between a load and its store, and is three, more than the two that a kill of a healthy watchdog takes and the one of
a healthy program. `MaxFails` is such that one lost answer decides: below
an interval of 3 the first ping may come before the user's thread can answer
(`Early`), and with `MaxFails` 2 that alone kills a healthy program.

Fairness. A thread that can take a step is scheduled (weak fairness for each
thread); nothing is assumed about which thread gets a mutex or a notify.
Condition variables stop waking spuriously at some point, without which nothing
could be said of progress that the program itself does not do. No client has to
call anything, no driver has to send and nobody has to type. A user's task ends.
In `Exercises` each thread or process 1 to 5 of the program is scheduled when it has a
step (`WF` of `ThreadStep(t)`), and the kernel delivers a stream; nobody has to
write a file, type, send, change the log level or end a device, no datagram has
to arrive, and no library has to be called. In `Scheduler` time passes while `SchedRun` sleeps and op_funcs return. In `Watchdog`
both processes are scheduled within the second and time passes; nothing makes
the program call `DoNotResuscitate`, and crashes end at their bound.

Deadlock is checked in `WaitablePQ`, whose threads run for ever. The pool, the
server, the scheduler's client and the watchdog may stop, most programs of
`Exercises` end, and a library's client may have nothing left to call; what must not stop
there is stated by the liveness properties.

## What is proved

Each theorem is about `Spec` (or `ExercisesSpec`, `StoresSpec`) with its constants free. Every
proof goes by an invariant that the first state has and each step keeps, one
lemma per action, and that implies the property.

Of the framework, the scheduler and the watchdog, for every number of threads,
elements, requests, tasks and seconds:

- `WaitablePQProofs`: type correctness, `PopTakesTheTop`, that `WaitablePQ`
  implements `AtomicPQ` (every step is an insert, a remove or a stutter), and
  `NoLostWakeup`. The invariant adds mutual exclusion by `m_mutex`, that `front` is
  a maximal element, and that an element is either fresh, in a producer's hands,
  queued or delivered.
- `ThreadPoolProofs`: type correctness, `StopAccounting`, `EnoughStopTasks`,
  `ConcurrencyBound` and the action property `StopDrainsUrgentTasks`. The invariant
  says which threads exist for each phase of the controller and which task each
  thread holds; the accounting is by cardinalities of finite sets of threads. The
  bound on the concurrency counts the threads that are awake against the PauseTasks
  that are queued, those that a Resume woke and the spurious wakeups.
- `NbdServerProofs`: type correctness, `NewestIsNotForgotten`,
  `AcknowledgedWritesAreStored`. The invariant ties a worker's place to the
  request it holds and says that a worker about to reply has stored its write.
- `LibrariesProofs`, first part: the scheduler's type correctness, `TasksAreOwned`,
  `NoTaskIsLost`, `NeverTooSoon`.
  The invariant adds that a sleeping `SchedRun` has a task to sleep for and that a
  task's remaining time and the time it has waited add up to its interval at least. It
  rests on lemmas on inserting into and removing from a sequence without
  duplicates.
- `WatchdogProofs`: type correctness, and `TheLivingAreSpared` for every interval,
  limit, number of crashes and of lost answers. The invariant relates a counter of
  unanswered pings to the answers lost since the last that was not, with one more for a
  ping that is not answered yet and one for the ping before the thread could.

Of the sequential libraries, in `LibrariesProofs` about `StoresSpec`:

- `MemoryIsAlwaysAccountedFor`, for any number of strings and texts: the reference count
  of a buffer in use is the number of strings that hold it, each of which reads
  what its client wrote last. The count is a cardinality, so a step that moves one
  string from a buffer to another is a lemma of its own (`StringMoves`). In the
  same theorem the fixed size allocator, for any block sizes: the free list
  is a path through the block's cells without a repetition, the cells that are
  not on it are those that are out, and so what the count walks is what is free.
  And the table of `MyMallocFree.c`: its rows are in the order of the calls up to the
  first that was never used, and a row without a time of release holds a block that is out.
  A stack and both vectors: while the block can be relied on it has as many elements
  as the capacity says and the first of them are what was pushed. It is `excused` from
  when a `malloc` or `realloc` failed and the code only reported it, or a client
  reserved less than it holds.
- `FrameworkIsAlwaysRight`, for any number of call backs: the vector is the sequence of the
  call backs that are alive, those told are the beginning of it up to the index
  of the iteration unless an observer destroyed one or a push_back moved the vector
  meanwhile, and a call back is told to stop once. The engine's task, key and state fit the last configuration.

- `SortsAlwaysSort`, for arrays of any length and any radix. The invariant says what
  each loop has done half way: in `SelectionSort` which element is the least so far, in
  `InsertionSort` that all but the one that sinks are in order. Counting and radix
  sort share theirs: `lut` counts the elements seen with each key, then those with
  smaller keys, then those and the equal ones that are already placed, each a cardinality;
  so an element's place is the number of the elements that go before it, no two have
  the same place, and what was in order of the low digits stays so under equal
  digits. That no element is lost is a permutation in the property. The least element of
  an array and the permutation rest on the library's theorems on well-founded
  orders and finite sets.

`StoresSpec` is `LibrariesSpec` where `kind` is one of these libraries; the run
`Libraries` checks these properties there.

Of the programs of `Exercises`, each invariant by itself in `ProgramsProofs` (or, for
the storage, ping-pong and exercises 3 and 4, in `ExercisesProofs`), and the theorems
of `ExercisesSpec` in `ExercisesProofs`:

- `RendezvousProofs`: type correctness (no counter passes the number of
  consumers), `ReadsEachMessageOnce`, `NoOverwrite`. The invariant is a table of
  phases: which consumers have read, passed and left, as counted by `semaphor`,
  `read_count` and `consum_count`. `Exercise6AsAlone` carries it over: `ExercisesSpec`
  implements the `Spec` of exercise 6.
- `PluginsAreAlwaysSafe`: `PluginsAreSafe` for any number of
  files and threads. What the listener has taken from inotify, holds and has loaded
  is one prefix of what was written; who has the address of the singleton read it
  after the store.
- `StorageIsAlwaysADisk`: for any size, word, offsets, lengths and workers. A worker
  has copied so many bytes of its request, and each byte of a read is what the writes
  before it left, unless it met a write.
- `Exercise3Arrives`, `Exercise4Arrives`: a thread between its wait and its post
  claims a place or owes one. For a queue of any size, value of the semaphore,
  claims, debts and the length of the queue add up, and so no one finds it full or
  empty.
- `SemaphoreSums`: unless something went astray, the value is the sum of the commands
  and `semadj` is what each process owes. `PingPongTakesTurns`: each turn uses up the
  flag or the signal that the turn before it gave. `IpcTakesTurns`: the semaphore and the
  processes awake add up to one.
- `HistogramsAreRight`: entry by entry, the general histogram is what each thread has
  added so far, and the chunks add up to the file, whatever its size. It is about
  the chars from 0 on and the processes that live to print: a byte from 128 on is
  counted in front of the table and may end the process.
- `TasksAreApart`: a uid that is counted and not given yet is unlike all others, as it
  was read and counted under the mutex.
- `SpinlockDropsNothing`: who has the lock is alone at the buffer, so what it saw is
  still so when it writes; each number made is in one place of the buffer or was
  taken, once. So there are never more numbers than were made, and one that is not
  made yet finds a place.
- `LoggerAlwaysKeepsLines`: the file is lines of two halves, one after the other;
  in the stream are only halves of the line of the thread that has the mutex;
  a line that passed the level is on its way or in the file, unless the stream failed.
- `RepliesAreAlwaysWhole`: the bytes of a reply that are in the socket are those up to
  what its worker has sent, in order, up to where a write failed or cut its header;
  while nobody else replies they are the end of the stream.
- `DeviceAnswersInOrder`: what main has read and what is still in the socket are the
  messages of the requests from the one that is next, each begun where the ones
  before it end; what is read of that one is less than a header, a header, or all of
  it, depending on where main is. The block is of the last WRITE that was done, which
  is the last before the request that is next; so an answer that was right when it
  was sent stays right, as requests are only added.
- `NetworkIsRight`: for any rounds and lengths. In each state of a client and its
  server at most one datagram, or one message in parts, is under way between them;
  the server's backlog has each client once, and none that was heard.
- `ProvedProgramsAreSafe` puts these together: `ExercisesAreSafe` holds in the sixteen
  programs of `ProvedPrograms`.

The assumptions are the named ASSUMEs of the modules, that TLC evaluates: finite
sets of threads, distinct model values, natural bounds.

Only model-checked:

- liveness (leads-to under fairness), which is out of the prover's reach;
- of `Libraries`, `StructuresHoldData` and `ProgramsAreRight`. Lists and trees
  are followed by RECURSIVE operators, and what tokenizers compute needs
  induction over data;
- in `ExercisesAreSafe`: the dictionaries (recursive merges) and the list of
  exercise 2. Of exercise 1, whose race loses items, it says nothing.

## Findings

1. `ThreadPool::Stop` may never return (`ThreadPool_hang`): after `Pause` and
   `Resume` a PauseTask may still be queued; popped after `Stop`'s `notify_all`, it
   puts a thread to sleep that `Stop` joins.
2. A request may be lost (`NbdServer_lost`): all `NBDTask`s share `m_driv_data`.
3. Stopping does not end the reactor (`NbdServer_stop`): `RequestEngine::Stop`
   closes what the reactor sleeps on.
4. A task may starve (`Scheduler_starve`): the list is sorted by ascending time and
   served from its back, so `SchedRun` waits for the task that is due last.
5. A program may be started again after `DoNotResuscitate` returned
   (`Watchdog_down`): the starved `Resucitate` is executed when the scheduler ends, and
   the watchdog it forks may handle SIGUSR2 before `execvp`, which forgets it.

### Departures from headers and comments

No property promises these; each is modelled as the code does it.

| A header or comment says | The code does | Modelled in |
|---|---|---|
| `DAwatchdog/watchdog.h:14`: the program is started again if it stops running | a program that answers is killed and revived when its answers are handled between load and store of `++g_fail_counter` (`common.c:263`) | `Watchdog.Store`, `lost` |
| `include/sorted_list.h:151`: after a merge `src_list` should remain empty | what is greater than all of `dest` stays in `src` (`sorted_list.c:246`) | `SortedList.SrtMergeFrom` |
| `include/hash.h:45`: `HashRemove` deletes the element of a key | `src2/hash.c` removes only if the iterator is NULL, which it never is; that of `src/Wes` removes, and crashes on a missing key | `Hash.HashRemove`, `WesHashRemove` |
| `include/hash.h:37`: `HashDestroy` deletes the table from memory | the first element of each list is freed, the others are lost; an insertion whose node cannot be had loses its element | `Hash.HashDestroy`, `HashInsert` |
| `include/avl.h:42`: data goes to its place by `is_before_func` | `AvlInsert` goes to the other side than AvlFind and `AvlRemove` do, so they miss what is there | `Trees.AvlInsertGo`, `AvlFindGo` |
| `include/avl.h:35`, `:53`: `AvlRemove` deletes the element, `AvlHeight` is the height | the bytes of a pointer are searched for instead, and the search may leave the tree; the height is that of the left child | `Trees.AvlRemove`, `UpdateHeight` |
| `include/bst.h`: `BstSize` counts, `BstRemove` removes, `BstDestroy` frees | the size is 0; a node with two children is freed and stays linked; only an empty tree is destroyed whole | `Trees.BstSize`, `BstRemove`, `BstDestroy` |
| `src/mt_count_sort_fix.c:56`: counts the occurrences | a char below 0 indexes in front of the table (line 72); the result of `memalign` is not checked | `Processes.CountElement`, `Astray` |
| `src2/sort_funcs.c:189`: radix sort | without its helper array it aborts, without its histogram the array stays as it was; counting sort returns NULL and leaves it | `Sorting.NoMemory` |
| `src/shuffle_dict.c`: sorts the dictionary | main merges before it joins the threads that sort (line 142): words get lost and doubled | `Processes.ShuffleDict` |
| `concrete/src/ram_storage.cpp:24`: throws when out of range | a sum that wraps round is in range; no lock keeps two workers apart (line 32) | `Storage.InRange`, `CopyByte` |
| `concrete/src/nbd_driver_communicator.cpp:236`: WriteAll writes all | a write that fails is printed, and its rest is not written; after a header that failed the data goes out all the same | `NbdDevice.SendReply`, `WriteAll` |
| `framework/src/pnp.cpp:63`: reads events | of the events of one read the first is handled, the others are unheard | `Plugins.ListenerThread` |
| `framework/include/msg_broker_imp.hpp:56`: goes over the vector and notifies all | an observer that registers another may move the vector under the iteration, one that destroys another makes the next be skipped | `Framework.Notify` |

### Met while modelling

The models do what the code does, and the properties of `Libraries` and
`Exercises` are stated so that these are excused and nothing else is:

- Lists: `DListSplice` in front of the successor of the part it moves loses the
  part; `SortListMerge` leaves in `src` what is greater than all of `dest`, where
  the header says that `src` remains empty; `QueueEnqueue` returns 0 when `malloc` fails.
- Vectors: the first `VectorPushBack` returns 1 whether it succeeded or not and
  doubles the capacity after a failed `realloc`; a capacity of 0 never grows; Reserve
  and ShrinkToFit lose the block when they fail; `VectorCreate` and `HeapCreate` go
  on without their block.
- Trees: the helpers of `bst.c` take their iterator by value, so that BstSize is 0,
  and removal with two children frees a node that stays linked; `avl.c` inserts to
  the wrong side for its own search, and never balances.
- Heaps: `HeapPush` keeps pointers over a `realloc`; `HeapPeek` returns the last
  element; with an order that equal elements satisfy, `HeapPush` of `src/Wes/src` never ends.
- Hash tables: `HashRemove` of `src2` never removes, that of `src/Wes` crashes on a
  missing key; HashDestroy frees the first element of each list only.
- Sorting: `InsertionSort` reads `arr[-1]`; `CountingSortt`'s range overflows if
  `INT_MAX` is among the numbers (not modelled). It calls `calloc` with
  one argument, which no compiler takes: modelled as what is meant.
- Allocators: `MyFree(NULL)` marks an unused row, and `MyMalloc` past a full table
  writes in front of it.
- Address pool: `DhcpAllocateIp` goes through NULL when a sibling is missing,
  overruns its stack, allocates the size of a pointer and returns
  ADDRESS_SPACE_FULL in every case.
- Strings: a `char&` kept over a copy writes into both; the plain string copies
  into what a nothrow `new` did not give.
- Scheduler: a failed PQueueEnqueue or `time` loses the task, as does
  `is_self_remove`, which is never reset.
- Semaphore tool: a change between GETVAL and SETVAL is lost, and SETVAL clears
  what others would undo; `sem_num` is not initialised; C and X are taken for errors.
- Signals: the ping between test and `pause` is lost; the count may never go down.
- Dictionaries: both programs merge while threads still sort.
- Plug-ins and dispatcher: an event before the call back is registered is lost, and
  of several events in one read only the first is handled; a call back destroyed by one that is
  told makes others be skipped or told twice; one that outlives its dispatcher
  unregisters from freed memory.
- Storage: two workers are not kept apart; offset plus length may wrap.
- Replies: two workers mix theirs on the socket; a header that `write` takes a
  part of is not completed.
- Device: SIGINT and SIGTERM are blocked before their handler is installed, so
  that they never disconnect; the kernel's disconnect is answered like a request;
  the socket is closed three times.
- Engine: a request of the kernel's disconnect makes no task, and an unconfigured
  key throws out of the reactor's thread.
- Network: `udp_ping` counts and answers whatever comes, so that a broadcast uses up
  a client's round; one `read` is one message to `tcp_ping` and `tcp_servers`, where
  100 bytes are written behind the buffer and a silent client blocks all others;
  the server of `SERVER_TCP_UDP` never adds its sockets to the set it waits on.
- Logger: SetFilePath on an open stream makes every later line get lost.
- Shells: the answer `1` is a number read by scanf: anything else on its line
  becomes the next command; `system` gets the first word only; 64 words
  overflow `args`.

## Not modelled

- Copies of modelled files: `dlist_new.c`, `vector_new.c`, `src/Wes/src/dlist.c`,
  `test2/avl.c` but for its print, `DAwatchdog/helper_function_for_watchdog/src/common.c`,
  `mt_count_sort.c`, `src2/knight_tour3.c`, and headers, which only declare.
- Files that do not compile or have no bodies: `src2/cal.c`, `src2/vsa.c`,
  `cpp/src/proxy_string.cpp`, `heap.c`, `src/DDD.c`, `src2/dhcp.c`,
  `src/Wes/src/dhcp.c`, `src2/watchdog.c`, `simple_shell.c`, the circular queue of
  `src/Containers`.
- Code that no program reaches: HandleTCP and HandleUDP, CraeteNodesTillReachEnd,
  `reentrant_q.c`, whose data is never copied.
- Arithmetic without state: `cpp/include/complex.hpp`, whose operators are
  each one expression.
- Language exercises, tests, editor files, and the vendored `BUSE`.

## Plan

1. Prove: of `Exercises`, the list of exercise 2, which needs no recursion if it is
   stated by its links; of the watchdog, that both sides' revivals leave one
   process each.
2. Extend, if there is room: the server with `Storage` in place of its single
   accesses.

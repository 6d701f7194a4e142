------------------------------ MODULE Threads -------------------------------
(***************************************************************************)
(* More exercises with threads: Daniel/src/shuffle_dict0.c ("dictionary",  *)
(* bubble sort of segments beside a merge sort of the whole), Daniel/src/  *)
(* tmp.c ("spinlock", a producer and a consumer), Daniel/src2/uid.c and    *)
(* task.c as threads use them ("tasks"), and the logger of Daniel/         *)
(* final_project/framework ("logger").  Thread 1 is main.                  *)
(***************************************************************************)
EXTENDS Exercise

CONSTANTS TkTasks,       \* the tasks that a thread makes
          SpItems,       \* what the spinlock's producer makes, and its consumer
          BUFFER_SIZE,   \* takes; there is room for all of it
          LgLines        \* the calls of Log by each thread

ASSUME MakersAssumption == /\ TkTasks \in Nat \ {0} /\ SpItems \in Nat \ {0}
                           /\ BUFFER_SIZE \in Nat /\ SpItems <= BUFFER_SIZE
                           /\ LgLines \in Nat \ {0}

ThGames == {"dictionary", "spinlock", "tasks", "logger"}
ThMain  == 1
ThOthers == DOMAIN at \ {ThMain}

\* pthread_create of all others is over, and pthread_join of them is.
Started == at[ThMain] \notin {"read", "create"}
Joined  == \A t \in ThOthers : at[t] = "gone"

-----------------------------------------------------------------------------
\* shuffle_dict0.c.  bounds: words, copies of each (3) and sorting threads (4)
DcWords   == 2
DcCopies  == 2
DcThreads == 3
DcSize    == DcWords * DcCopies

\* met: main's merge sort and a thread that sorts ran side by side.
DcInit == /\ shared = [array |-> <<>>, merging |-> FALSE, met |-> FALSE]
          /\ at = [t \in 1 .. DcThreads + 1 |-> IF t = ThMain THEN "read" ELSE "unborn"]
          /\ hand = [t \in 1 .. DcThreads + 1 |-> [i |-> 1, j |-> 1, out |-> <<>>]]

\* The words of the file, DcCopies times, in the order that Shuffle gives them;
\* or there is no file.
Shuffle == \/ /\ Moves(ThMain, "read", "create") /\ UNCHANGED hand
              /\ \E order \in [1..DcSize -> 1..DcWords] :
                    /\ \A w \in 1..DcWords : Quantify(1..DcSize, LAMBDA k : order[k] = w) = DcCopies
                    /\ shared' = [shared EXCEPT !.array = order]
           \/ Moves(ThMain, "read", "gone") /\ Nothing

\* Mutated form: a segment begins with the last word of the one before.
SegmentShares(t) ==
    LET size == DcSize \div DcThreads
        more(k) == Min({k, DcSize % DcThreads})
    IN  Max({1, (t - 2) * size + more(t - 2)}) .. (t - 1) * size + more(t - 1)

\* What thread t is given: the first ones a word more.
Segment(t) ==
    LET size == DcSize \div DcThreads
        more(k) == Min({k, DcSize % DcThreads})
    IN  (t - 2) * size + more(t - 2) + 1 .. (t - 1) * size + more(t - 1)

DcCreate ==
    IF hand[ThMain].i > DcThreads
    THEN /\ Moves(ThMain, "create", "merge") /\ Holds(ThMain, [hand[ThMain] EXCEPT !.i = 1])
         /\ UNCHANGED shared
    ELSE LET t == hand[ThMain].i + 1 IN
         /\ at[ThMain] = "create" /\ at' = [at EXCEPT ![t] = "sort"] /\ UNCHANGED shared
         /\ hand' = [hand EXCEPT ![ThMain].i = @ + 1,
                                 ![t] = [@ EXCEPT !.i = Min(Segment(t)), !.j = Min(Segment(t))]]

\* t has compared words, and may go on to.
Sorting(t) == \/ at[t] = "swap"
              \/ /\ at[t] = "sort" /\ hand[t].i <= Max(Segment(t)) /\ Cardinality(Segment(t)) > 1
                 /\ hand[t].i > Min(Segment(t)) \/ hand[t].j > Min(Segment(t))

\* A step that is beside another thread's sorting or main's merging.
Touched(s, meets) == [s EXCEPT !.met = @ \/ meets]

\* One comparison of the bubble sort, then its swap.
SortSegment(t) ==
    LET h == hand[t]
        a == shared.array
        last == Max(Segment(t))
    IN  \/ /\ at[t] = "sort" /\ h.i > last /\ Moves(t, "sort", "gone") /\ Nothing
        \/ /\ at[t] = "sort" /\ h.i <= last
           /\ IF h.j >= last
              THEN UNCHANGED <<at, shared>> /\ Holds(t, [h EXCEPT !.i = @ + 1, !.j = Min(Segment(t))])
              ELSE /\ shared' = Touched(shared, shared.merging)
                   /\ IF a[h.j] > a[h.j + 1]
                      THEN Moves(t, "sort", "swap") /\ Holds(t, [h EXCEPT !.out = <<a[h.j], a[h.j + 1]>>])
                      ELSE UNCHANGED at /\ Holds(t, [h EXCEPT !.j = @ + 1])
        \/ /\ Moves(t, "swap", "sort") /\ Holds(t, [h EXCEPT !.j = @ + 1, !.out = <<>>])
           /\ shared' = Touched([shared EXCEPT !.array[h.j] = h.out[2], !.array[h.j + 1] = h.out[1]],
                                shared.merging)

\* The calls of Merge, as <<start, mid, end>>, in the order of the recursion.
MergeSort[start \in 1 .. DcSize + 1, end \in 0 .. DcSize] ==
    IF start >= end THEN <<>>
    ELSE LET mid == start + (end - start) \div 2
         IN  MergeSort[start, mid] \o MergeSort[mid + 1, end] \o << <<start, mid, end>> >>

\* What the two loops over left and right write, and then the loops over what
\* is left of one of them.
MergedWords[left \in Seq(Nat), right \in Seq(Nat)] ==
    IF left = <<>> \/ right = <<>> THEN left \o right
    ELSE IF Head(left) <= Head(right) THEN <<Head(left)>> \o MergedWords[Tail(left), right]
    ELSE <<Head(right)>> \o MergedWords[left, Tail(right)]

\* Merge: both halves are copied, then written back word by word.
DcMerge ==
    LET h == hand[ThMain]
        calls == MergeSort[1, DcSize]
        call == calls[h.i]
        k == call[1] + h.j - 1
    IN  \/ /\ Moves(ThMain, "merge", "write")
           /\ Holds(ThMain, [h EXCEPT !.j = 1, !.out = MergedWords[
                                SubSeq(shared.array, call[1], call[2]),
                                SubSeq(shared.array, call[2] + 1, call[3])]])
           /\ shared' = Touched([shared EXCEPT !.merging = TRUE], \E t \in ThOthers : Sorting(t))
        \/ /\ at[ThMain] = "write" /\ k <= call[3] /\ UNCHANGED at
           /\ Holds(ThMain, [h EXCEPT !.j = @ + 1])
           /\ shared' = Touched([shared EXCEPT !.array[k] = h.out[h.j]], \E t \in ThOthers : Sorting(t))
        \/ /\ at[ThMain] = "write" /\ k > call[3]
           /\ Moves(ThMain, "write", IF h.i = Len(calls) THEN "join" ELSE "merge")
           /\ Holds(ThMain, [i |-> IF h.i = Len(calls) THEN 1 ELSE h.i + 1, j |-> 1, out |-> <<>>])
           /\ shared' = [shared EXCEPT !.merging = h.i # Len(calls)]

Dictionary(t) == \/ t # ThMain /\ SortSegment(t)
                 \/ /\ t = ThMain
                    /\ \/ Shuffle \/ DcMerge
                       \/ at[t] = "create" /\ DcCreate
                       \/ Joined /\ Moves(t, "join", "gone") /\ Nothing

DcWordsAre(s) == \A w \in 1..DcWords : Quantify(DOMAIN s, LAMBDA k : s[k] = w) = DcCopies

\* Whatever meets, a word is one of the dictionary.  A segment is sorted when
\* its thread is done, before main merges; and main prints the words in order,
\* each as often as it was, if its merge sort met no thread that sorted.
DictionaryIsSorted ==
    /\ ToSet(shared.array) \subseteq 1..DcWords
    /\ \A t \in ThOthers : at[t] = "gone" /\ at[ThMain] \in {"create", "merge"}
                              /\ ~shared.merging =>
          \A j \in Segment(t) : j + 1 \in Segment(t) => shared.array[j] <= shared.array[j + 1]
    /\ at[ThMain] = "gone" /\ ~shared.met /\ shared.array # <<>> =>
          /\ DcWordsAre(shared.array)
          /\ \A k \in 1 .. DcSize - 1 : shared.array[k] <= shared.array[k + 1]

-----------------------------------------------------------------------------
\* tmp.c: a spinlock around a buffer with room for all that is produced.
SpInit == /\ shared = [buffer |-> [i \in 1..BUFFER_SIZE |-> 0], lock |-> FALSE, taken |-> <<>>]
          /\ at = <<"join", "next", "next">>
          /\ hand = [t \in 1..3 |-> [i |-> 1, calls |-> 1]]

\* Mutated form: the flag is not looked at.
SpLocksAnyway(t) == Moves(t, "next", "locked") /\ Sets([shared EXCEPT !.lock = TRUE])

\* while (atomic_flag_test_and_set(&lock)) {}
SpLocks(t) == /\ ~shared.lock /\ Moves(t, "next", "locked")
              /\ Sets([shared EXCEPT !.lock = TRUE])

\* The loop over the buffer, one access a step, up to the first slot that holds
\* one of those; the counter is what a call or a loop has in hand.
SpScan(t, those, found) ==
    LET i == hand[t].i
    IN  /\ at[t] = "locked" /\ UNCHANGED shared
        /\ \/ i > BUFFER_SIZE /\ Moves(t, "locked", "unlock") /\ UNCHANGED hand
           \/ /\ i <= BUFFER_SIZE /\ shared.buffer[i] \in those
              /\ Moves(t, "locked", found) /\ UNCHANGED hand
           \/ /\ i <= BUFFER_SIZE /\ shared.buffer[i] \notin those
              /\ UNCHANGED at /\ Holds(t, [hand[t] EXCEPT !.i = @ + 1])

\* atomic_flag_clear, and the next of the calls that producer and consumer make.
SpUnlocks(t) ==
    /\ Moves(t, "unlock", IF hand[t].calls = SpItems THEN "gone" ELSE "next")
    /\ Holds(t, [i |-> 1, calls |-> hand[t].calls + 1])
    /\ shared' = [shared EXCEPT !.lock = FALSE]

produce(t) ==
    \/ SpLocks(t)
    \/ SpScan(t, {0}, "store")
    \/ /\ Moves(t, "store", "unlock")
       /\ Sets([shared EXCEPT !.buffer[hand[t].i] = hand[t].calls])
    \/ SpUnlocks(t)

\* A consumer that finds nothing takes 0.
consume(t) ==
    \/ SpLocks(t)
    \/ SpScan(t, 1..SpItems, "exchange")
    \/ /\ Moves(t, "exchange", "unlock")
       /\ Sets([shared EXCEPT !.buffer[hand[t].i] = 0,
                              !.taken = Append(@, shared.buffer[hand[t].i])])
    \/ SpUnlocks(t)

SpRun(t) == \/ t = 2 /\ produce(t)
            \/ t = 3 /\ consume(t)
            \/ t = ThMain /\ Joined /\ Moves(t, "join", "gone") /\ Nothing

\* Everything that was produced is in the buffer or was consumed, once; nobody
\* is alone in holding a lock that is open.
NothingIsDropped ==
    LET slots == {k \in 1..BUFFER_SIZE : shared.buffer[k] # 0}
        kept  == {shared.buffer[k] : k \in slots}
        taken == ToSet(shared.taken)
        made  == hand[2].calls - (IF at[2] = "unlock" THEN 0 ELSE 1)
    IN  /\ kept \cup taken = 1..made /\ kept \cap taken = {} /\ IsInjective(shared.taken)
        /\ \A j, k \in slots : shared.buffer[j] = shared.buffer[k] => j = k
        /\ shared.lock <=> \E t \in {2, 3} : at[t] \notin {"next", "gone"}

-----------------------------------------------------------------------------
\* Two threads make tasks, run them and destroy them.  blocks are the tasks in
\* memory by their threads, uids all that were ever given.
TkInit == /\ shared = [mutex |-> Free, count_st |-> 0, blocks |-> {}, uids |-> <<>>]
          /\ at = <<"join", "malloc", "malloc">>
          /\ hand = [t \in 1..3 |-> [count |-> 0, uid |-> -1, ran |-> 0, made |-> 0]]

UID_BAD == -1

\* Mutated form: without a time the mutex is kept.
UidCreateKeeps(t) ==
    \/ TakesMutex(t, "uid", "count")
    \/ /\ Moves(t, "count", "increment") /\ UNCHANGED shared
       /\ Holds(t, [hand[t] EXCEPT !.count = shared.count_st])
    \/ /\ Moves(t, "increment", "time") /\ Sets([shared EXCEPT !.count_st = @ + 1])
    \/ /\ at[t] = "time" /\ UNCHANGED shared
       /\ \/ Moves(t, "time", "compare") /\ Holds(t, [hand[t] EXCEPT !.uid = UID_BAD])
          \/ Moves(t, "time", "unlock") /\ Holds(t, [hand[t] EXCEPT !.uid = hand[t].count])
    \/ GivesMutex(t, "unlock", "compare")

\* UidCreate: the count is read and incremented under the mutex, then time or
\* getifaddrs may fail, which gives UID_BAD.
UidCreate(t) ==
    \/ TakesMutex(t, "uid", "count")
    \/ /\ Moves(t, "count", "increment") /\ UNCHANGED shared
       /\ Holds(t, [hand[t] EXCEPT !.count = shared.count_st])
    \/ /\ Moves(t, "increment", "time") /\ Sets([shared EXCEPT !.count_st = @ + 1])
    \/ /\ Moves(t, "time", "unlock") /\ UNCHANGED shared
       /\ \E failed \in BOOLEAN :
             Holds(t, [hand[t] EXCEPT !.uid = IF failed THEN UID_BAD ELSE hand[t].count])
    \/ GivesMutex(t, "unlock", "compare")

UidIsEqual(uid1, uid2) == uid1 = uid2

\* The next task, or no more.
TkNextTask(t) == IF hand[t].made + 1 = TkTasks THEN "gone" ELSE "malloc"

\* TaskCreate: malloc, the uid, and the time at which it is to run; the second
\* time is -1 only with an interval that makes it so.
TaskCreate(t) ==
    \/ /\ Moves(t, "malloc", "uid") /\ Sets([shared EXCEPT !.blocks = @ \cup {t}])
    \/ /\ Moves(t, "malloc", TkNextTask(t)) /\ UNCHANGED shared
       /\ Holds(t, [hand[t] EXCEPT !.made = @ + 1])
    \/ UidCreate(t)
    \/ /\ at[t] = "compare" /\ UidIsEqual(UID_BAD, hand[t].uid)
       /\ Moves(t, "compare", "destroy") /\ Nothing
    \/ /\ at[t] = "compare" /\ ~UidIsEqual(UID_BAD, hand[t].uid)
       /\ \/ Moves(t, "compare", "destroy") /\ Nothing
          \/ /\ Moves(t, "compare", "execute") /\ UNCHANGED hand
             /\ shared' = [shared EXCEPT !.uids = Append(@, hand[t].uid)]

\* What op_func returns, to be run again or destroyed.
TaskExecute(t) ==
    /\ hand[t].ran < 2 /\ UNCHANGED shared
    /\ \E again \in BOOLEAN :
          /\ Moves(t, "execute", IF again THEN "set" ELSE "destroy")
          /\ Holds(t, [hand[t] EXCEPT !.ran = @ + 1])

\* To its interval from now.
TaskSetExecuteTime(t) ==
    Moves(t, "set", IF hand[t].ran < 2 THEN "execute" ELSE "destroy") /\ Nothing

TaskDestroy(t) ==
    /\ Moves(t, "destroy", TkNextTask(t))
    /\ Holds(t, [hand[t] EXCEPT !.made = @ + 1, !.ran = 0, !.uid = UID_BAD])
    /\ shared' = [shared EXCEPT !.blocks = @ \ {t}]

TaskMaker(t) == \/ /\ t # ThMain
                   /\ TaskCreate(t) \/ TaskExecute(t) \/ TaskSetExecuteTime(t) \/ TaskDestroy(t)
                \/ t = ThMain /\ Joined /\ Moves(t, "join", "gone") /\ Nothing

\* No two tasks get one uid; a thread has a task in memory only while it uses
\* it, and whatever failed, nobody leaves the mutex taken.
TasksHaveTheirUids ==
    /\ IsInjective(shared.uids)
    /\ shared.blocks = {t \in ThOthers : at[t] \notin {"malloc", "gone"}}
    /\ shared.mutex # Free => at[shared.mutex] \in {"count", "increment", "time", "unlock"}

-----------------------------------------------------------------------------
\* logger.cpp: main sets the logger up and may change its level while others
\* log.  A line is <<thread, number, half>>: the stream is given it in parts.
LgLevels == 0..1             \* ERROR and INFO

\* to is the file that is open, failed the stream's failbit, passed the lines
\* whose level was low enough, printed those that went to std::cout.
LgInit == /\ shared = [mutex |-> Free, is_open |-> FALSE, failed |-> FALSE, to |-> "./log",
                       m_log_level |-> 0, m_stream |-> <<>>, file |-> <<>>,
                       passed |-> {}, printed |-> {}, complained |-> FALSE]
          /\ at = <<"construct", "unborn", "unborn">>
          /\ hand = [t \in 1..3 |-> [n |-> 1]]

\* open of basic_ofstream: on a stream that is open it fails.
Opens(path) ==
    {[shared EXCEPT !.failed = TRUE]} \cup
    (IF shared.is_open THEN {} ELSE {[shared EXCEPT !.is_open = TRUE, !.failed = FALSE, !.to = path]})

\* The constructor.
Logger == /\ Moves(ThMain, "construct", "configure") /\ UNCHANGED hand
          /\ \E s \in Opens("./log") : shared' = [s EXCEPT !.m_log_level = 0]

\* A stream that is open already is not complained of.
SetFilePath == /\ Moves(ThMain, "configure", "configured") /\ UNCHANGED hand
               /\ \E s \in Opens("./log.txt") : shared' = [s EXCEPT !.complained = ~s.is_open]

SetLogLevel == /\ at[ThMain] \in {"configure", "configured", "logging"} /\ UNCHANGED <<at, hand>>
               /\ \E level \in LgLevels : shared' = [shared EXCEPT !.m_log_level = level]

\* main starts the threads that log, with or without a path set.
LgStarts == /\ at[ThMain] \in {"configure", "configured"} /\ Nothing
            /\ at' = <<"logging", "log", "log">>

\* The stream takes what is put into it, unless it failed: a part of t's line.
Puts(t, half) == [shared EXCEPT !.m_stream = IF shared.failed THEN @
                                             ELSE Append(@, <<t, hand[t].n, half>>)]

LgNext(t) == IF hand[t].n = LgLines THEN "gone" ELSE "log"
LgGoesOn(t) == Holds(t, [n |-> hand[t].n + 1])

\* Mutated form: the stream is flushed after the mutex is given back.
LogWritesLate(t) ==
    \/ TakesMutex(t, "lock", "open?")
    \/ Moves(t, "open?", IF shared.is_open THEN "first" ELSE "unlock") /\ Nothing
    \/ Moves(t, "first", "second") /\ Sets(Puts(t, "first"))
    \/ Moves(t, "second", "unlock") /\ Sets(Puts(t, "second"))
    \/ GivesMutex(t, "unlock", "flush")
    \/ /\ Moves(t, "flush", LgNext(t)) /\ LgGoesOn(t)
       /\ shared' = [shared EXCEPT !.file = @ \o shared.m_stream, !.m_stream = <<>>]

\* What Log does under the mutex.
LogWrites(t) ==
    \/ TakesMutex(t, "lock", "open?")
    \/ Moves(t, "open?", IF shared.is_open THEN "first" ELSE "unlock") /\ Nothing
    \/ Moves(t, "first", "second") /\ Sets(Puts(t, "first"))
    \/ Moves(t, "second", "flush") /\ Sets(Puts(t, "second"))
    \/ /\ Moves(t, "flush", "unlock")
       /\ Sets([shared EXCEPT !.file = @ \o shared.m_stream, !.m_stream = <<>>])
    \/ /\ Moves(t, "unlock", LgNext(t)) /\ LgGoesOn(t)
       /\ shared' = [shared EXCEPT !.mutex = Free]

\* Log: the level is looked at first, without the mutex; printing needs none.
Log(t) ==
    LET line == <<t, hand[t].n>>
    IN  \/ \E level \in LgLevels, print_outstream \in BOOLEAN :
              /\ level <= shared.m_log_level /\ UNCHANGED hand
              /\ Moves(t, "log", IF print_outstream THEN "print" ELSE "lock")
              /\ shared' = [shared EXCEPT !.passed = @ \cup {line}]
        \/ /\ \E level \in LgLevels : level > shared.m_log_level
           /\ Moves(t, "log", LgNext(t)) /\ LgGoesOn(t) /\ UNCHANGED shared
        \/ Moves(t, "print", "lock") /\ Sets([shared EXCEPT !.printed = @ \cup {line}])
        \/ LogWrites(t)

\* The destructor closes the stream.
DestroyLogger == /\ Joined /\ Moves(ThMain, "logging", "gone")
                 /\ Sets([shared EXCEPT !.is_open = FALSE])

Logging(t) == \/ t = ThMain /\ (Logger \/ SetFilePath \/ LgStarts \/ DestroyLogger)
              \/ t # ThMain /\ Log(t)

\* The file holds whole lines, those of a thread in its order; outside the mutex
\* nothing waits in the stream.  In the end it holds each line whose level was
\* low enough, once, unless its stream failed, of which main is not told when
\* the stream was open before.
LoggerKeepsLines ==
    LET f == shared.file
        n == Len(f) \div 2
    IN  /\ Len(f) % 2 = 0
        /\ \A k \in 1..n : f[2 * k - 1][3] = "first" /\ f[2 * k] = [f[2 * k - 1] EXCEPT ![3] = "second"]
        /\ \A j, k \in 1..n : j < k /\ f[2 * j][1] = f[2 * k][1] => f[2 * j][2] < f[2 * k][2]
        /\ shared.mutex = Free => shared.m_stream = <<>>
        /\ shared.printed \subseteq shared.passed
        /\ shared.complained => shared.failed /\ ~shared.is_open
        /\ at[ThMain] = "logging" /\ Joined =>
              {<<f[2 * k][1], f[2 * k][2]>> : k \in 1..n}
              = IF shared.failed \/ ~shared.is_open THEN {} ELSE shared.passed

-----------------------------------------------------------------------------
ThInit == /\ game \in ThGames
          /\ \/ game = "dictionary" /\ DcInit
             \/ game = "spinlock" /\ SpInit
             \/ game = "tasks" /\ TkInit
             \/ game = "logger" /\ LgInit

ThStep(t) == \/ game = "dictionary" /\ Dictionary(t)
             \/ game = "spinlock" /\ SpRun(t)
             \/ game = "tasks" /\ TaskMaker(t)
             \/ game = "logger" /\ Logging(t)

\* What main may do at any time, and need not.
ThMay == game = "logger" /\ SetLogLevel

ThAreRight == /\ game = "dictionary" => DictionaryIsSorted
              /\ game = "spinlock" => NothingIsDropped
              /\ game = "tasks" => TasksHaveTheirUids
              /\ game = "logger" => LoggerKeepsLines

\* Each of these programs ends; nobody waits for a mutex that is not given back.
ThAwaits == game \in ThGames
ThGets   == game \in ThGames /\ at[ThMain] = "gone"
=============================================================================

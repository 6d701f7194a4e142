------------------------------- MODULE PQueue -------------------------------
(***************************************************************************)
(* The scheduler that the watchdog links (DAwatchdog/                      *)
(* helper_function_for_watchdog/src): scheduler_t over p_queue_t over      *)
(* srtlist_t over dlist_t, tasks with their uids, and what happens when    *)
(* malloc, time or getifaddrs fails in any of them.  Each task stops the   *)
(* scheduler, so that a run is one pass of SchedRun; Scheduler has the     *)
(* loop.  The dummies of the list are inside dlist_t.                      *)
(***************************************************************************)
EXTENDS Library

PqCells     == 10      \* bound: blocks, four for the scheduler, two for a task
PqCount     == 3       \* bound: uids a process asks for
PqLast      == 2       \* bound: what time says at last
PqIntervals == {0, 1}
HEAD == -1
TAIL == -2
PqNodes == {HEAD, TAIL} \cup (1..PqCells)
UID_BAD == <<0, 0>>

PqInit == /\ store = [used |-> {}, sched |-> NULL, queue |-> NULL, list |-> NULL,
                      srtlist |-> NULL,
                      next |-> [n \in PqNodes |-> NULL],
                      prev |-> [n \in PqNodes |-> NULL],
                      data |-> [n \in 1..PqCells |-> NULL],   \* of a node
                      uid |-> [t \in 1..PqCells |-> UID_BAD], \* of a task
                      ex_time |-> [t \in 1..PqCells |-> 0],
                      interval |-> [t \in 1..PqCells |-> 0],
                      is_self_remove |-> FALSE, count_st |-> 0, now |-> 1]
          /\ log = [tasks |-> {}, lost |-> 0, repeated |-> FALSE]

\* What a call leaves in memory, and what it returns.
Outcome(m, r) == [m |-> m, r |-> r]

PqMalloc(m) == LET free == (1..PqCells) \ m.used
               IN  {Outcome(m, NULL)} \cup
                   (IF free = {} THEN {}
                    ELSE {Outcome([m EXCEPT !.used = @ \cup {Min(free)}], Min(free))})

\* What a freed block holds is forgotten.
PqFree(m, block) ==
    [m EXCEPT !.used = @ \ {block}, !.next[block] = NULL, !.prev[block] = NULL,
              !.data[block] = NULL, !.uid[block] = UID_BAD,
              !.ex_time[block] = 0, !.interval[block] = 0]

\* What follows a call that returned a block.
OnSuccess(outcomes, Then(_, _)) ==
    UNION {IF o.r = NULL THEN {o} ELSE Then(o.m, o.r) : o \in outcomes}

-----------------------------------------------------------------------------
\* dlist.c

DListCreate(m) ==
    OnSuccess(PqMalloc(m), LAMBDA m1, list :
        {Outcome([m1 EXCEPT !.next[HEAD] = TAIL, !.prev[TAIL] = HEAD], list)})

DListIterBegin(m)   == m.next[HEAD]
DListIterEnd        == TAIL
DListIterNext(m, n) == m.next[n]
DListIterPrev(m, n) == m.prev[n]
DListGetData(m, n)  == m.data[n]

RECURSIVE PqFrom(_, _)
PqFrom(m, n) == IF n = DListIterEnd THEN <<>> ELSE <<n>> \o PqFrom(m, DListIterNext(m, n))
PqList(m) == PqFrom(m, DListIterBegin(m))

DListIsEmpty(m) == m.next[HEAD] = TAIL
DListSize(m)    == Len(PqList(m))

\* It returns the end when malloc fails.
DListInsertBefore(m, where, data) ==
    {IF o.r = NULL THEN Outcome(m, DListIterEnd)
     ELSE Outcome([o.m EXCEPT !.data[o.r] = data, !.next[o.r] = where,
                              !.prev[o.r] = m.prev[where],
                              !.next[m.prev[where]] = o.r, !.prev[where] = o.r], o.r)
        : o \in PqMalloc(m)}

DListPushBack(m, data) == DListInsertBefore(m, TAIL, data)

DListRemove(m, what) ==
    PqFree([m EXCEPT !.prev[m.next[what]] = m.prev[what],
                     !.next[m.prev[what]] = m.next[what]], what)

DListPopBack(m) == DListRemove(m, DListIterPrev(m, DListIterEnd))

\* The first node of the whole list whose data is one of those.
DListFind(m, those) ==
    LET hits == SelectSeq(PqList(m), LAMBDA n : DListGetData(m, n) \in those)
    IN  IF hits = <<>> THEN DListIterEnd ELSE Head(hits)

RECURSIVE PqFreeAll(_, _)
PqFreeAll(m, current) == IF current = TAIL THEN m
                         ELSE PqFreeAll(PqFree(m, current), m.next[current])

DListDestroy(m) ==
    PqFree([PqFreeAll(m, m.next[HEAD]) EXCEPT !.next[HEAD] = NULL, !.prev[TAIL] = NULL],
           m.srtlist)

-----------------------------------------------------------------------------
\* sorted_list.c

\* Mutated form: the struct of the sorted list is kept when its list fails.
SrtListCreateLeaky(m) ==
    OnSuccess(PqMalloc(m), LAMBDA m1, list :
        {IF o.r = NULL THEN Outcome(o.m, NULL)
         ELSE Outcome([o.m EXCEPT !.srtlist = o.r], list) : o \in DListCreate(m1)})

SrtListCreate(m) ==
    OnSuccess(PqMalloc(m), LAMBDA m1, list :
        {IF o.r = NULL THEN Outcome(PqFree(o.m, list), NULL)
         ELSE Outcome([o.m EXCEPT !.srtlist = o.r], list) : o \in DListCreate(m1)})

SrtListDestroy(m) == [PqFree(DListDestroy(m), m.list) EXCEPT !.srtlist = NULL]

SortIntervalfunc(m, new_task, cmp_task) == m.ex_time[new_task] - m.ex_time[cmp_task]

\* Mutated form: a new task goes behind its equals.
SrtListInsertAfter(m, data) ==
    LET itr == DListFind(m, {t \in m.used : SortIntervalfunc(m, t, data) > 0})
    IN  DListInsertBefore(m, itr, data)

\* Before the first that is not smaller, or at the end.
SrtListInsert(m, data) ==
    LET itr == DListFind(m, {t \in m.used : SortIntervalfunc(m, t, data) >= 0})
    IN  IF itr = DListIterEnd THEN DListPushBack(m, data)
        ELSE DListInsertBefore(m, itr, data)

SrtListIterPrev(m, n) == DListIterPrev(m, n)
SrtListIterEnd        == DListIterEnd
SrtListGetData(m, n)  == DListGetData(m, n)
SrtListPopBack(m)     == DListPopBack(m)
SrtListIsEmpty(m)     == DListIsEmpty(m)
SrtListSize(m)        == DListSize(m)
SrtListFindIf(m, those)      == DListFind(m, those)
SrtListRemove(m, what)       == DListRemove(m, what)
SrtListIterIsEqual(i1, i2)   == i1 = i2

-----------------------------------------------------------------------------
\* p_queue.c: the first element is the one at the back.

PQueueCreate(m) ==
    OnSuccess(PqMalloc(m), LAMBDA m1, p_queue :
        {IF o.r = NULL THEN Outcome(PqFree(o.m, p_queue), NULL)
         ELSE Outcome([o.m EXCEPT !.list = o.r], p_queue) : o \in SrtListCreate(m1)})

PQueueDestroy(m) == [PqFree(SrtListDestroy(m), m.queue) EXCEPT !.list = NULL]

\* Whether it failed.
PQueueEnqueue(m, data) ==
    {Outcome(o.m, SrtListIterIsEqual(o.r, SrtListIterEnd)) : o \in SrtListInsert(m, data)}

PQueueDequeue(m) == SrtListPopBack(m)
PQueuePeek(m)    == SrtListGetData(m, SrtListIterPrev(m, SrtListIterEnd))
PQueueIsEmpty(m) == SrtListIsEmpty(m)
PQueueSize(m)    == SrtListSize(m)

RECURSIVE PQueueClear(_)
PQueueClear(m) == IF PQueueIsEmpty(m) THEN m ELSE PQueueClear(PQueueDequeue(m))

\* The queue without the node found, and that node's task; or no task.
PQueueErase(m, those) ==
    LET itr == SrtListFindIf(m, those)
    IN  IF SrtListIterIsEqual(itr, SrtListIterEnd) THEN Outcome(m, NULL)
        ELSE Outcome(SrtListRemove(m, itr), SrtListGetData(m, itr))

-----------------------------------------------------------------------------
\* uid.c and task.c.  pid and ip are those of the process and its host.

UidIsEqual(uid1, uid2) == uid1 = uid2

\* time or getifaddrs may fail after the number is given out.
UidCreate(m) == LET counted == [m EXCEPT !.count_st = @ + 1]
                IN  {Outcome(counted, UID_BAD), Outcome(counted, <<m.count_st, m.now>>)}

TaskDestroy(m, task) == PqFree(m, task)
TaskGetUid(m, task)  == m.uid[task]
TaskGetExecuteTime(m, task) == m.ex_time[task]

\* A failure of the second call of time shows only when the interval is 0.
TaskCreate(m, interval) ==
    OnSuccess(PqMalloc(m), LAMBDA m1, t :
        UNION {IF UidIsEqual(UID_BAD, o.r) THEN {Outcome(TaskDestroy(o.m, t), NULL)}
               ELSE {IF now + interval = -1 THEN Outcome(TaskDestroy(o.m, t), NULL)
                     ELSE Outcome([o.m EXCEPT !.uid[t] = o.r, !.interval[t] = interval,
                                              !.ex_time[t] = now + interval], t)
                        : now \in {m.now, -1}}
                  : o \in UidCreate(m1)})

TaskSetExecuteTime(m, task, time_current) ==
    [m EXCEPT !.ex_time[task] = m.interval[task] + time_current]

\* What the operation of a task returns, before which it may have asked for its
\* own removal: then it is not found in the queue, and is_self_remove stays on.
TaskExecute(m) == {[m |-> n, says |-> says] : says \in {"repeat", "remove", "optional"},
                                              n \in {m, [m EXCEPT !.is_self_remove = TRUE]}}

-----------------------------------------------------------------------------
\* scheduler.c

SchedCreate(m) ==
    OnSuccess(PqMalloc(m), LAMBDA m1, sched :
        {IF o.r = NULL THEN Outcome(PqFree(o.m, sched), NULL)
         ELSE Outcome([o.m EXCEPT !.queue = o.r], sched) : o \in PQueueCreate(m1)})

\* The task that is queued, or none: then its uid is UID_BAD.
SchedAdd(m, interval) ==
    OnSuccess(TaskCreate(m, interval), LAMBDA m1, new_task :
        {IF o.r THEN Outcome(TaskDestroy(o.m, new_task), NULL)
         ELSE Outcome(o.m, new_task) : o \in PQueueEnqueue(m1, new_task)})

IsMatchUid(m, uid) == {t \in m.used : UidIsEqual(TaskGetUid(m, t), uid)}

\* The task found is destroyed; 0 is returned, or 1.
SchedRemove(m, uid) ==
    LET o == PQueueErase(m, IsMatchUid(m, uid))
    IN  IF o.r = NULL THEN Outcome(m, 1) ELSE Outcome(TaskDestroy(o.m, o.r), 0)

RECURSIVE SchedClear(_)
SchedClear(m) ==
    IF PQueueIsEmpty(m) THEN m
    ELSE SchedClear(PQueueDequeue(TaskDestroy(m, PQueuePeek(m))))

SchedDestroy(m) == [PqFree(PQueueDestroy(SchedClear(m)), m.sched)
                       EXCEPT !.sched = NULL, !.queue = NULL]
SchedIsEmpty(m) == PQueueIsEmpty(m)
SchedSize(m)    == PQueueSize(m)

-----------------------------------------------------------------------------
\* sleep may be interrupted; what is left of it is slept again.
SleepFun(m, until) == [m EXCEPT !.now = Max({@, until})]

\* Mutated form: a task that is not queued again is destroyed, then used.
SchedRunUsesDestroyed(m) ==
    LET runnig_task == PQueuePeek(m)
        slept == PQueueDequeue(SleepFun(m, TaskGetExecuteTime(m, runnig_task)))
        again(n, now) == TaskSetExecuteTime(n, runnig_task, now)
    IN  UNION {IF x.says # "repeat" THEN {Outcome(TaskDestroy(x.m, runnig_task), NULL)}
               ELSE {Outcome(IF o.r THEN again(TaskDestroy(o.m, runnig_task), x.m.now)
                             ELSE again(o.m, x.m.now), runnig_task)
                       : o \in PQueueEnqueue(x.m, runnig_task)} : x \in TaskExecute(slept)}

\* One pass.  A task that repeats is put into the queue by the time at which it
\* was due, then it is given its next time.  It is lost when time fails after it,
\* when it cannot be queued, and when any task has ever asked for its own
\* removal.  Returned is the task, unless it was destroyed.
SchedRun(m) ==
    LET runnig_task == PQueuePeek(m)
        slept == PQueueDequeue(SleepFun(m, TaskGetExecuteTime(m, runnig_task)))
        again(n) == Outcome(TaskSetExecuteTime(n, runnig_task, n.now), runnig_task)
    IN  UNION {IF x.says # "repeat" THEN {Outcome(TaskDestroy(x.m, runnig_task), NULL)}
               ELSE {Outcome(x.m, runnig_task)} \cup
                    {again(n) : n \in IF x.m.is_self_remove THEN {x.m}
                                      ELSE {o.m : o \in PQueueEnqueue(x.m, runnig_task)}}
                 : x \in TaskExecute(slept)}

-----------------------------------------------------------------------------
\* The client.  The log holds the tasks it was given a uid for and that are
\* neither done, removed nor lost, as [uid, ex_time]; how many were lost, and
\* whether any was repeated.

PqCreates == /\ store.sched = NULL
             /\ \E o \in SchedCreate(store) : store' = [o.m EXCEPT !.sched = o.r]
             /\ UNCHANGED log

PqEntry(m, t) == [uid |-> TaskGetUid(m, t), ex_time |-> TaskGetExecuteTime(m, t)]

PqAdds == \E interval \in PqIntervals : \E o \in SchedAdd(store, interval) :
    /\ store.count_st < PqCount
    /\ store' = o.m
    /\ log' = IF o.r = NULL THEN log ELSE [log EXCEPT !.tasks = @ \cup {PqEntry(o.m, o.r)}]

PqRemoves == \E count \in 0 .. store.count_st, time \in 0..PqLast :
    LET o == SchedRemove(store, <<count, time>>)
    IN  /\ store' = o.m
        /\ log' = IF o.r = 0 THEN [log EXCEPT !.tasks = {e \in @ : e.uid # <<count, time>>}] ELSE log

\* What is due last is taken first, the oldest of those.
PqFirst == CHOOSE e \in log.tasks : \A f \in log.tasks :
              \/ e.ex_time > f.ex_time
              \/ e.ex_time = f.ex_time /\ e.uid[1] <= f.uid[1]

PqRuns == /\ ~SchedIsEmpty(store)
          /\ store.ex_time[PQueuePeek(store)] <= PqLast
          /\ LET first == PqEntry(store, PQueuePeek(store))
             IN  \E o \in SchedRun(store) :
                   LET queued == \E n \in ToSet(PqList(o.m)) : o.m.data[n] = o.r
                       rest == log.tasks \ {IF log.repeated THEN first ELSE PqFirst}
                   IN  /\ store' = o.m
                       /\ log' = CASE o.r = NULL -> [log EXCEPT !.tasks = rest]
                                   [] o.r # NULL /\ queued ->
                                        [log EXCEPT !.tasks = rest \cup {PqEntry(o.m, o.r)},
                                                    !.repeated = TRUE]
                                   [] o.r # NULL /\ ~queued ->
                                        [log EXCEPT !.tasks = rest, !.lost = @ + 1]

PqEnds == /\ log' = [log EXCEPT !.tasks = {}, !.repeated = FALSE]
          /\ store' \in {SchedDestroy(store), SchedClear(store)}

PqTick == /\ store.now < PqLast
          /\ store' = [store EXCEPT !.now = @ + 1]
          /\ UNCHANGED log

PqNext == \/ PqCreates \/ PqTick
          \/ store.sched # NULL /\ (PqAdds \/ PqRemoves \/ PqRuns \/ PqEnds)

-----------------------------------------------------------------------------
PqTasks == [i \in DOMAIN PqList(store) |-> store.data[PqList(store)[i]]]

PqLost == store.used \ ({store.sched, store.queue, store.list, store.srtlist}
                         \cup ToSet(PqList(store)) \cup ToSet(PqTasks))

\* Whatever fails in whichever layer, no block is lost but the tasks that a run
\* lost: what is allocated is the scheduler with its layers, and a node and a
\* task for each task the client was given a uid for.
PqNothingLeaks ==
    IF store.sched = NULL THEN Cardinality(store.used) = log.lost
    ELSE /\ Cardinality(PqLost) = log.lost
         /\ Cardinality(store.used) = 4 + 2 * Cardinality(log.tasks) + log.lost
         /\ PQueueClear(store).used = store.used \ ToSet(PqList(store))
         /\ \A t \in (1..PqCells) \ store.used : store.ex_time[t] = 0 /\ store.data[t] = NULL

\* The queue holds the client's tasks, and until one was repeated by their
\* execution time and then by age, and each uid names one of them, so that the
\* one that is asked for is the one that is removed.
PqKeepsOrder ==
    store.sched # NULL =>
       LET tasks == PqTasks
           ex(i) == TaskGetExecuteTime(store, tasks[i])
           age(i) == TaskGetUid(store, tasks[i])[1]
       IN  /\ {PqEntry(store, t) : t \in ToSet(tasks)} = log.tasks
           /\ SchedSize(store) = Cardinality(log.tasks)
           /\ log.repeated \/ \A i, j \in DOMAIN tasks : i < j =>
                 ex(i) < ex(j) \/ (ex(i) = ex(j) /\ age(i) > age(j))
=============================================================================

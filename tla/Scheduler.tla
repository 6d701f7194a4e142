----------------------------- MODULE Scheduler ------------------------------
(***************************************************************************)
(* scheduler_t of Daniel/src2/scheduler.c on the priority queue of         *)
(* p_queue.c: the client, and every op_func from inside, adds and removes  *)
(* tasks and stops the run; SchedRun sleeps until the task at the back of  *)
(* the sorted list is due, dequeues and executes it, and queues it again   *)
(* when it asks for it.  The library is sequential: client and op_funcs    *)
(* run while SchedRun does not.  Failures of malloc and time are left out. *)
(***************************************************************************)
EXTENDS Integers, Sequences, FiniteSetsExt, SequencesExt

CONSTANTS Tasks,      \* each is created by at most one SchedAdd
          Interval,   \* their intervals, in seconds
          NoTask,     \* NULL
          MaxInterval,\* the longest of them
          MaxLate     \* bound: a task is never counted as later than this

ASSUME IntervalAssumption == /\ MaxInterval \in Nat /\ MaxLate \in Nat
                             /\ Interval \in [Tasks -> 0..MaxInterval]
                             /\ NoTask \notin Tasks

VARIABLES queue,            \* the sorted list, from begin to end
          due,              \* ex_time minus now, of each task
          mem,              \* each task_t is "new", "live" or "freed"
          runnig_task, is_runnig, is_self_remove,
          pc,               \* "client", "loop", "sleep", "op" or "gone"
          since,            \* seconds since the task was added or last run
          faulted           \* a task_t was read that is NULL or freed

vars == <<queue, due, mem, runnig_task, is_runnig, is_self_remove, pc, since,
          faulted>>

Live == {t \in Tasks : mem[t] = "live"}
Freed(S) == [t \in Tasks |-> IF t \in S THEN "freed" ELSE mem[t]]
Queued == ToSet(queue)

Init == /\ queue = <<>>
        /\ due = [t \in Tasks |-> 0]
        /\ mem = [t \in Tasks |-> "new"]
        /\ runnig_task = NoTask /\ is_runnig = FALSE /\ is_self_remove = FALSE
        /\ pc = "client"
        /\ since = [t \in Tasks |-> 0]
        /\ faulted = FALSE

-----------------------------------------------------------------------------
\* The sorted list: the new element goes before the first that is not smaller.

Enqueued(t, key) ==
    LET notSmaller == {i \in DOMAIN queue : due[queue[i]] >= key}
        where == IF notSmaller = {} THEN Len(queue) + 1 ELSE Min(notSmaller)
    IN  InsertAt(queue, where, t)

Peek == Last(queue)
Dequeued == Front(queue)

-----------------------------------------------------------------------------
\* What the client may call, and an op_func while it is executed.

UserCode == pc \in {"client", "op"}

\* Mutated form: the interval is added to the execution time twice.
SchedAddTwice(t) ==
    /\ UserCode /\ mem[t] = "new"
    /\ mem' = [mem EXCEPT ![t] = "live"]
    /\ due' = [due EXCEPT ![t] = 2 * Interval[t]]
    /\ since' = [since EXCEPT ![t] = 0]
    /\ queue' = Enqueued(t, 2 * Interval[t])
    /\ UNCHANGED <<runnig_task, is_runnig, is_self_remove, pc, faulted>>

SchedAdd(t) == /\ UserCode /\ mem[t] = "new"
               /\ mem' = [mem EXCEPT ![t] = "live"]
               /\ due' = [due EXCEPT ![t] = Interval[t]]
               /\ since' = [since EXCEPT ![t] = 0]
               /\ queue' = Enqueued(t, Interval[t])
               /\ UNCHANGED <<runnig_task, is_runnig, is_self_remove, pc, faulted>>

\* Mutated form: a task that removes itself is destroyed at once.
SchedRemoveSelf(t) ==
    /\ UserCode /\ mem[t] # "new"
    /\ mem' = IF t \in Queued \/ (is_runnig /\ t = runnig_task)
              THEN Freed({t}) ELSE mem
    /\ queue' = SelectSeq(queue, LAMBDA u : u # t)
    /\ UNCHANGED <<due, runnig_task, is_runnig, is_self_remove, pc, since, faulted>>

\* While is_runnig is ON the uid of runnig_task is read; a task that is not in
\* the queue is not found, the running one included.
SchedRemove(t) ==
    /\ UserCode /\ mem[t] # "new"
    /\ faulted' = (is_runnig /\ runnig_task \notin Live)
    /\ is_self_remove' = (is_self_remove \/ (is_runnig /\ t = runnig_task))
    /\ \/ /\ t \in Queued
          /\ \E i \in DOMAIN queue : queue[i] = t /\ queue' = RemoveAt(queue, i)
          /\ mem' = Freed({t})
       \/ t \notin Queued /\ UNCHANGED <<queue, mem>>
    /\ UNCHANGED <<due, runnig_task, is_runnig, pc, since>>

SchedStop == /\ UserCode
             /\ is_runnig' = FALSE
             /\ UNCHANGED <<queue, due, mem, runnig_task, is_self_remove, pc, since,
                            faulted>>

SchedClear == /\ UserCode
              /\ mem' = Freed(Queued)
              /\ queue' = <<>>
              /\ UNCHANGED <<due, runnig_task, is_runnig, is_self_remove, pc, since,
                             faulted>>

SchedDestroy == /\ pc = "client"
                /\ mem' = Freed(Queued)
                /\ queue' = <<>>
                /\ pc' = "gone"
                /\ UNCHANGED <<due, runnig_task, is_runnig, is_self_remove, since,
                               faulted>>

-----------------------------------------------------------------------------
\* SchedRun

Run == /\ pc = "client"
       /\ is_runnig' = TRUE
       /\ pc' = "loop"
       /\ UNCHANGED <<queue, due, mem, runnig_task, is_self_remove, since, faulted>>

\* Mutated form: only an empty queue ends the loop.
LoopUntilEmpty == /\ pc = "loop"
                  /\ pc' = IF queue # <<>> THEN "sleep" ELSE "client"
                  /\ UNCHANGED <<queue, due, mem, runnig_task, is_runnig,
                                 is_self_remove, since, faulted>>

Loop == /\ pc = "loop"
        /\ pc' = IF queue # <<>> /\ is_runnig THEN "sleep" ELSE "client"
        /\ UNCHANGED <<queue, due, mem, runnig_task, is_runnig, is_self_remove,
                       since, faulted>>

\* SleepFun returns when the task at the back is due, or later.
StartTask == /\ pc = "sleep" /\ due[Peek] <= 0
             /\ runnig_task' = Peek
             /\ queue' = Dequeued
             /\ pc' = "op"
             /\ UNCHANGED <<due, mem, is_runnig, is_self_remove, since, faulted>>

\* Mutated form: the task is queued again with its old execution time.
RepeatAtOnce == /\ pc = "op"
                /\ ~is_self_remove
                /\ queue' = Enqueued(runnig_task, due[runnig_task])
                /\ since' = [since EXCEPT ![runnig_task] = 0]
                /\ pc' = "loop"
                /\ UNCHANGED <<due, mem, runnig_task, is_runnig, is_self_remove,
                               faulted>>

\* The op_func returned EXECUTE_REPEAT: the task is queued by its old execution
\* time and given its new one afterwards; with is_self_remove it is dropped.
Repeat == /\ pc = "op"
          /\ queue' = IF is_self_remove THEN queue
                      ELSE Enqueued(runnig_task, due[runnig_task])
          /\ due' = [due EXCEPT ![runnig_task] = Interval[runnig_task]]
          /\ since' = [since EXCEPT ![runnig_task] = 0]
          /\ pc' = "loop"
          /\ UNCHANGED <<mem, runnig_task, is_runnig, is_self_remove, faulted>>

\* Mutated form: the task that is done is not destroyed.
DoneWithoutDestroy == /\ pc = "op" /\ pc' = "loop"
                      /\ UNCHANGED <<queue, due, mem, runnig_task, is_runnig,
                                     is_self_remove, since, faulted>>

\* It returned EXECUTE_REMOVE; runnig_task keeps pointing to the freed task.
Done == /\ pc = "op" /\ pc' = "loop"
        /\ mem' = Freed({runnig_task})
        /\ UNCHANGED <<queue, due, runnig_task, is_runnig, is_self_remove, since,
                       faulted>>

\* It returned OPTIONAL: SchedRun returns FAIL.
Fail == /\ pc = "op" /\ pc' = "client"
        /\ mem' = Freed({runnig_task})
        /\ UNCHANGED <<queue, due, runnig_task, is_runnig, is_self_remove, since,
                       faulted>>

-----------------------------------------------------------------------------
Later(d) == IF d > -MaxLate THEN d - 1 ELSE d
Capped(s) == IF s > MaxInterval THEN MaxInterval ELSE s

\* Mutated form: time does not pass for the task that is waited for.
TickOthers ==
    /\ pc \in {"client", "sleep", "op"}
    /\ due' = [t \in Tasks |-> IF pc = "sleep" /\ t = Peek THEN due[t]
                               ELSE Later(due[t])]
    /\ since' = [t \in Tasks |-> Capped(since[t] + 1)]
    /\ UNCHANGED <<queue, mem, runnig_task, is_runnig, is_self_remove, pc, faulted>>

\* A second passes.
Tick == /\ pc \in {"client", "sleep", "op"}
        /\ due' = [t \in Tasks |-> Later(due[t])]
        /\ since' = [t \in Tasks |-> Capped(since[t] + 1)]
        /\ UNCHANGED <<queue, mem, runnig_task, is_runnig, is_self_remove, pc,
                       faulted>>

UserCall == \/ \E t \in Tasks : SchedAdd(t) \/ SchedRemove(t)
            \/ SchedStop \/ SchedClear

Return == Repeat \/ Done \/ Fail

Next == /\ ~faulted
        /\ \/ UserCall \/ SchedDestroy \/ Run \/ Loop \/ StartTask \/ Return
           \/ Tick

Spec == Init /\ [][Next]_vars

\* Time passes while SchedRun sleeps, op_funcs return, the loop goes on.
LiveSpec == /\ Spec
            /\ WF_vars(~faulted /\ pc = "sleep" /\ Tick)
            /\ WF_vars(~faulted /\ (Loop \/ StartTask))
            /\ WF_vars(~faulted /\ Return)

-----------------------------------------------------------------------------
\* Every variable keeps its type; no task is due later than its interval.
TypeOK == /\ queue \in Seq(Tasks)
          /\ due \in [Tasks -> Int]
          /\ \A t \in Tasks : -MaxLate <= due[t] /\ due[t] <= Interval[t]
          /\ mem \in [Tasks -> {"new", "live", "freed"}]
          /\ runnig_task \in Tasks \cup {NoTask}
          /\ is_runnig \in BOOLEAN /\ is_self_remove \in BOOLEAN
          /\ pc \in {"client", "loop", "sleep", "op", "gone"}
          /\ since \in [Tasks -> 0..MaxInterval]
          /\ faulted \in BOOLEAN

Executed == IF pc = "op" THEN {runnig_task} ELSE {}

\* Whatever the op_funcs add and remove, themselves included: a task is in the
\* queue once or is being executed, not both, and neither if it was freed.
TasksAreOwned == /\ IsInjective(queue)
                 /\ Queued \cap Executed = {}
                 /\ Queued \cup Executed \subseteq Live

\* Tasks are lost (never freed, never executed again) only after one of them
\* has removed itself: before, each live task is queued or being executed.
NoTaskIsLost == ~is_self_remove => Live \subseteq Queued \cup Executed

\* A task is never executed sooner than its interval after it was added or
\* executed, although it is queued again by its old execution time.
NeverTooSoon == \A t \in Queued \cup Executed :
    due[t] <= 0 => since[t] >= Interval[t]

\* SchedStop, from inside a task too, ends the run: SchedRun returns to the
\* client however many tasks are queued and whatever they ask for.
StopEndsRun == ~is_runnig ~> pc \in {"client", "gone"} \/ faulted

\* While tasks are queued and nobody stops the run, tasks are executed.
RunGoesOn == pc = "sleep" ~> pc = "op"

\* SchedRun runs all tasks: a queued task is executed, unless it is removed or
\* the run ends.
EveryTaskRuns == \A t \in Tasks :
    t \in Queued ~> t \notin Queued \/ pc = "client"
=============================================================================

----------------------------- MODULE ThreadPool -----------------------------
(***************************************************************************)
(* hrd31::ThreadPool of framework/src/thread_pool.cpp: worker threads that *)
(* pop tasks from a priority queue, and one controller thread that adds    *)
(* tasks, resizes, pauses, resumes and stops the pool.  Control tasks      *)
(* travel through the same queue as user tasks, with priority MEDIUM.      *)
(* The queue is the atomic one that WaitablePQ is proved to implement; its *)
(* PauseTasks and StopTasks are all alike, so they are counted.            *)
(***************************************************************************)
EXTENDS Integers, FiniteSets

CONSTANTS Tasks,        \* the user's tasks, each added at most once
          Prio,         \* their priorities
          Throws,       \* tasks whose Execute throws a std::runtime_error
          Fatal,        \* tasks whose Execute throws anything else
          Workers,      \* bound on the threads ever created
          InitialSize,  \* the constructor's size_
          MaxCalls,     \* bound on the controller's calls (AddTask apart)
          MaxSpurious,  \* bound on the spurious wakeups of m_cv
          Ops           \* the calls this controller makes

\* ITask::Priority; only the order matters.
LOW == 0
MEDIUM == 1
HIGH == 2
ADMIN == 3

None == "none"
PauseTask == "pause"
StopTask == "stop"

ASSUME TasksAssumption ==
    /\ Prio \in [Tasks -> {LOW, MEDIUM, HIGH, ADMIN}]
    /\ Throws \subseteq Tasks /\ Fatal \subseteq Tasks
    /\ {None, PauseTask, StopTask} \cap Tasks = {}

ASSUME WorkersAssumption ==
    /\ IsFiniteSet(Workers)
    /\ InitialSize \in Nat /\ InitialSize <= Cardinality(Workers)
    /\ MaxCalls \in Nat /\ MaxSpurious \in Nat

VARIABLES m_tasks,      \* the user tasks in the queue
          pauses,       \* the number of PauseTasks in the queue
          stops,        \* the number of StopTasks in the queue
          m_pool,       \* the threads in the vector
          m_pool_size,
          status,       \* of each thread: see Statuses
          task,         \* what each thread executes, or executed last
          finished,     \* user tasks whose Execute has ended
          spurious,     \* spurious wakeups so far
          resumed,      \* threads that a Resume woke so far
          op,           \* where the controller is: see OpPCs
          k,            \* the iterations its current loop has left
          target,       \* new_size_
          calls,        \* calls made so far
          terminated    \* std::terminate was called

queue == <<m_tasks, pauses, stops>>
pool  == <<m_pool, m_pool_size>>
work  == <<status, task, finished, spurious, resumed>>
ctl   == <<op, k, target, calls>>
vars  == <<queue, pool, work, ctl, terminated>>

Statuses == {"absent", "pop", "run", "asleep", "gone"}
OpPCs == {"idle", "pushPause", "create", "notify", "pushStop", "join", "timeout"}

Created == {w \in Workers : status[w] # "absent"}
Alive   == {w \in Workers : status[w] \in {"pop", "run", "asleep"}}
Asleep  == {w \in Workers : status[w] = "asleep"}

Init == /\ m_tasks = {} /\ pauses = 0 /\ stops = 0
        /\ m_pool \in {S \in SUBSET Workers : Cardinality(S) = InitialSize}
        /\ m_pool_size = InitialSize
        /\ status = [w \in Workers |-> IF w \in m_pool THEN "pop" ELSE "absent"]
        /\ task = [w \in Workers |-> None]
        /\ finished = {} /\ spurious = 0 /\ resumed = 0
        /\ op = "idle" /\ k = 0 /\ target = 0 /\ calls = 0
        /\ terminated = FALSE

-----------------------------------------------------------------------------
\* ExecutionLogic: Pop, Execute, for ever; a runtime_error ends the thread.

\* Mutated form: control tasks come first even when there are none.
TopIsAboveControl(p) == (\A t \in m_tasks : Prio[t] <= p) /\ MEDIUM <= p

\* Nothing in the queue has a priority above p.
TopIs(p) == /\ \A t \in m_tasks : Prio[t] <= p
            /\ pauses + stops > 0 => MEDIUM <= p

Take(w, t) == /\ status[w] = "pop"
              /\ status' = [status EXCEPT ![w] = "run"]
              /\ task' = [task EXCEPT ![w] = t]
              /\ UNCHANGED <<pool, finished, spurious, resumed, ctl, terminated>>

TakeUser(w, t) == /\ t \in m_tasks /\ TopIs(Prio[t])
                  /\ Take(w, t)
                  /\ m_tasks' = m_tasks \ {t}
                  /\ UNCHANGED <<pauses, stops>>

TakePause(w) == /\ pauses > 0 /\ TopIs(MEDIUM)
                /\ Take(w, PauseTask)
                /\ pauses' = pauses - 1
                /\ UNCHANGED <<m_tasks, stops>>

\* Mutated form: StopTasks overtake everything, as if of priority ADMIN.
TakeStopFirst(w) == /\ stops > 0
                    /\ Take(w, StopTask)
                    /\ stops' = stops - 1
                    /\ UNCHANGED <<m_tasks, pauses>>

TakeStop(w) == /\ stops > 0 /\ TopIs(MEDIUM)
               /\ Take(w, StopTask)
               /\ stops' = stops - 1
               /\ UNCHANGED <<m_tasks, pauses>>

\* Execute of a user task returns, throws what ExecutionLogic catches, or
\* throws what it does not catch.
ExecuteUser(w) ==
    /\ status[w] = "run" /\ task[w] \in Tasks
    /\ finished' = finished \cup {task[w]}
    /\ \/ /\ task[w] \notin Throws \cup Fatal
          /\ status' = [status EXCEPT ![w] = "pop"]
          /\ task' = [task EXCEPT ![w] = None]
          /\ UNCHANGED terminated
       \/ /\ task[w] \in Throws
          /\ status' = [status EXCEPT ![w] = "gone"]
          /\ UNCHANGED <<task, terminated>>
       \/ /\ task[w] \in Fatal
          /\ terminated' = TRUE
          /\ UNCHANGED <<status, task>>
    /\ UNCHANGED <<queue, pool, spurious, resumed, ctl>>

\* PauseTask::Execute: lock m_mutex, wait on m_cv without a predicate.
ExecutePause(w) == /\ status[w] = "run" /\ task[w] = PauseTask
                   /\ status' = [status EXCEPT ![w] = "asleep"]
                   /\ UNCHANGED <<queue, pool, task, finished, spurious, resumed, ctl,
                                  terminated>>

\* Mutated form: the exception is caught inside the loop.
ExecuteStopCaught(w) ==
    /\ status[w] = "run" /\ task[w] = StopTask
    /\ status' = [status EXCEPT ![w] = "pop"]
    /\ UNCHANGED <<queue, pool, task, finished, spurious, resumed, ctl, terminated>>

\* StopTask::Execute throws a runtime_error.
ExecuteStop(w) == /\ status[w] = "run" /\ task[w] = StopTask
                  /\ status' = [status EXCEPT ![w] = "gone"]
                  /\ UNCHANGED <<queue, pool, task, finished, spurious, resumed, ctl,
                                  terminated>>

\* m_cv.wait may return without a notify.
SpuriousWakeup(w) == /\ status[w] = "asleep"
                     /\ spurious < MaxSpurious
                     /\ spurious' = spurious + 1
                     /\ status' = [status EXCEPT ![w] = "pop"]
                     /\ task' = [task EXCEPT ![w] = None]
                     /\ UNCHANGED <<queue, pool, finished, resumed, ctl, terminated>>

-----------------------------------------------------------------------------
\* The controller.

NotifyAll ==
    /\ status' = [w \in Workers |-> IF w \in Asleep THEN "pop" ELSE status[w]]
    /\ task' = [w \in Workers |-> IF w \in Asleep THEN None ELSE task[w]]
    /\ UNCHANGED <<finished, spurious, resumed>>

\* A task nobody has added yet.
New(t) == /\ t \notin m_tasks \cup finished
          /\ \A w \in Workers : task[w] # t

AddTask(t) == /\ op = "idle" /\ "AddTask" \in Ops
              /\ New(t)
              /\ m_tasks' = m_tasks \cup {t}
              /\ UNCHANGED <<pauses, stops, pool, work, ctl, terminated>>

\* The controller calls operation name and enters its loop of n iterations.
Call(name, loop, n, size) == /\ op = "idle" /\ name \in Ops
                             /\ calls < MaxCalls
                             /\ calls' = calls + 1
                             /\ op' = loop /\ k' = n /\ target' = size
                             /\ UNCHANGED <<queue, pool, terminated>>

\* Mutated form: the difference taken the wrong way round.
ShrinkSwapped(n) == /\ n < m_pool_size
                    /\ Call("SetSize", "pushPause", n - m_pool_size, n)
                    /\ UNCHANGED work

\* SetSize, case 1: reduce.
Shrink(n) == /\ n < m_pool_size
             /\ Call("SetSize", "pushPause", m_pool_size - n, n)
             /\ UNCHANGED work

\* Mutated form: pausing as many threads as should be resumed.
ResumeSomeSwapped(n) ==
    /\ m_pool_size <= n /\ n <= Cardinality(m_pool)
    /\ Call("SetSize", "pushPause", n - m_pool_size, n)
    /\ NotifyAll

\* SetSize, case 2: wake everybody and pause again those to stay asleep.
ResumeSome(n) ==
    /\ m_pool_size <= n /\ n <= Cardinality(m_pool)
    /\ LET to_resume == n - m_pool_size
           sleeping  == Cardinality(m_pool) - m_pool_size
       IN  Call("SetSize", "pushPause", sleeping - to_resume, n)
    /\ NotifyAll

\* SetSize, case 3: wake everybody and create the missing threads.
Grow(n) == /\ m_pool_size <= n /\ Cardinality(m_pool) < n
           /\ n - Cardinality(m_pool) <= Cardinality(Workers \ Created)
           /\ Call("SetSize", "create", n - Cardinality(m_pool), n)
           /\ NotifyAll

SetSize(n) == Shrink(n) \/ ResumeSome(n) \/ Grow(n)

Pause == /\ Call("Pause", "pushPause", m_pool_size, m_pool_size)
         /\ UNCHANGED work

Resume == /\ Call("Resume", "notify", m_pool_size, m_pool_size)
          /\ UNCHANGED work

\* Mutated form: a StopTask for each active thread only.
StopActive == /\ Call("Stop", "pushStop", m_pool_size, target)
              /\ NotifyAll

Stop == /\ Call("Stop", "pushStop", Cardinality(m_pool), target)
        /\ NotifyAll

StopTimeout == /\ Call("StopTimeout", "timeout", 0, target)
               /\ UNCHANGED work

-----------------------------------------------------------------------------
\* The loops of the controller's operations, one iteration at a time.

Iterate(loop) == /\ op = loop /\ k > 0
                 /\ k' = k - 1
                 /\ UNCHANGED <<op, target, calls, terminated>>

PushPause == /\ Iterate("pushPause")
             /\ pauses' = pauses + 1
             /\ UNCHANGED <<m_tasks, stops, pool, work>>

CreateThread(w) == /\ Iterate("create")
                   /\ status[w] = "absent"
                   /\ status' = [status EXCEPT ![w] = "pop"]
                   /\ m_pool' = m_pool \cup {w}
                   /\ UNCHANGED <<queue, m_pool_size, task, finished, spurious,
                                  resumed>>

\* notify_one wakes one sleeping worker, if there is one.
NotifyOne == /\ Iterate("notify")
             /\ \/ \E w \in Asleep :
                      /\ status' = [status EXCEPT ![w] = "pop"]
                      /\ task' = [task EXCEPT ![w] = None]
                      /\ resumed' = resumed + 1
                \/ Asleep = {} /\ UNCHANGED <<status, task, resumed>>
             /\ UNCHANGED <<queue, pool, finished, spurious>>

PushStop == /\ Iterate("pushStop")
            /\ stops' = stops + 1
            /\ UNCHANGED <<m_tasks, pauses, pool, work>>

\* SetSize ends with m_pool_size = new_size_; Pause and Resume keep it.
EndLoop == /\ op \in {"pushPause", "create", "notify"} /\ k = 0
           /\ m_pool_size' = target
           /\ op' = "idle"
           /\ UNCHANGED <<queue, m_pool, work, k, target, calls, terminated>>

StartJoin == /\ op = "pushStop" /\ k = 0
             /\ op' = "join"
             /\ UNCHANGED <<queue, pool, work, k, target, calls, terminated>>

\* Mutated form: m_pool.clear() forgotten.
JoinKeepingPool == /\ op = "join"
                   /\ \A w \in m_pool : status[w] = "gone"
                   /\ op' = "idle"
                   /\ UNCHANGED <<queue, pool, work, k, target, calls, terminated>>

\* join returns for every thread, in whatever order they end; m_pool.clear().
JoinAll == /\ op = "join"
           /\ \A w \in m_pool : status[w] = "gone"
           /\ m_pool' = {}
           /\ op' = "idle"
           /\ UNCHANGED <<queue, m_pool_size, work, k, target, calls, terminated>>

\* Stop(timeout_) sleeps and clears m_pool: destroying a joinable std::thread
\* calls std::terminate.
ClearPool == /\ op = "timeout"
             /\ IF m_pool = {} THEN op' = "idle" /\ UNCHANGED terminated
                               ELSE terminated' = TRUE /\ UNCHANGED op
             /\ UNCHANGED <<queue, pool, work, k, target, calls>>

-----------------------------------------------------------------------------
WorkerStep(w) == \/ \E t \in Tasks : TakeUser(w, t)
                 \/ TakePause(w) \/ TakeStop(w)
                 \/ ExecuteUser(w) \/ ExecutePause(w) \/ ExecuteStop(w)

LoopStep == \/ PushPause \/ NotifyOne \/ PushStop
            \/ \E w \in Workers : CreateThread(w)
            \/ EndLoop \/ StartJoin \/ JoinAll \/ ClearPool

ControllerCall == \/ \E t \in Tasks : AddTask(t)
                  \/ \E n \in 0..Cardinality(Workers) : SetSize(n)
                  \/ Pause \/ Resume \/ Stop \/ StopTimeout

Next == /\ ~terminated
        /\ \/ \E w \in Workers : WorkerStep(w) \/ SpuriousWakeup(w)
           \/ LoopStep \/ ControllerCall

Spec == Init /\ [][Next]_vars

\* Threads are scheduled and tasks end; no call and no spurious wakeup must
\* ever happen.
LiveSpec == /\ Spec
            /\ \A w \in Workers : WF_vars(~terminated /\ WorkerStep(w))
            /\ WF_vars(~terminated /\ LoopStep)

-----------------------------------------------------------------------------
\* Every variable keeps its type.
TypeOK == /\ m_tasks \subseteq Tasks
          /\ pauses \in Nat /\ stops \in Nat
          /\ m_pool \subseteq Workers
          /\ m_pool_size \in Nat
          /\ status \in [Workers -> Statuses]
          /\ task \in [Workers -> Tasks \cup {None, PauseTask, StopTask}]
          /\ finished \subseteq Tasks /\ spurious \in Nat /\ resumed \in Nat
          /\ op \in OpPCs
          /\ k \in Nat /\ target \in Nat /\ calls \in Nat
          /\ terminated \in BOOLEAN

Stopping == op \in {"pushStop", "join"}

\* Threads that took a StopTask, and threads a user's exception ended.
Quit  == {w \in Workers : task[w] = StopTask}
Threw == {w \in Workers : status[w] = "gone" /\ task[w] # StopTask}

\* Threads a Stop has pushed, or has still to push, a StopTask for.
Retired == IF Stopping THEN Created ELSE Created \ m_pool

\* Every StopTask is accounted for across any sequence of calls: those still
\* to push, those queued and those taken are one for each retired thread.
StopAccounting == (IF Stopping THEN k ELSE 0) + stops + Cardinality(Quit)
                      = Cardinality(Retired)

\* Stop never runs short: each thread it has to join and that has not taken a
\* StopTask can still get one, even if tasks threw or earlier Stops left some.
EnoughStopTasks ==
    Stopping => Cardinality(Alive \ Quit) <= k + stops

\* A graceful Stop drains the urgent work: if no task threw, every task above
\* MEDIUM added before Stop has finished when Stop returns.
StopDrainsUrgentTasks == [][
    JoinAll /\ m_pool # {} /\ Threw = {} =>
        \A t \in Tasks : Prio[t] > MEDIUM => New(t) \/ t \in finished ]_vars

\* The pool never has more threads awake than its size, apart from those a
\* queued PauseTask will put to sleep and those a Resume or a spurious wakeup
\* woke: SetSize bounds the concurrency through shrinking and growing, although
\* it wakes every sleeper and pauses some of them again through the queue.
ConcurrencyBound ==
    op = "idle" /\ m_pool # {} =>
        Cardinality(Alive \ {w \in Workers : status[w] = "asleep" \/ task[w] = PauseTask})
            <= m_pool_size + pauses + spurious + resumed

\* Stop returns.
StopReturns == Stopping ~> ~Stopping

\* A queued task is taken by a worker as long as one is left.
TasksAreTaken == \A t \in Tasks : t \in m_tasks ~> t \notin m_tasks \/ Alive = {}
=============================================================================

-------------------------- MODULE ThreadPoolProofs --------------------------
(***************************************************************************)
(* Proofs about ThreadPool for any number of threads, tasks and calls.     *)
(***************************************************************************)
EXTENDS ThreadPool, FiniteSetTheorems, TLAPS

\* What the status of a thread says of its task and of m_pool.
Shape == /\ m_pool \subseteq Created
         /\ \A w \in Created \ m_pool : status[w] = "gone"
         /\ \A w \in Workers : status[w] \in {"absent", "pop"} => task[w] = None
         /\ \A w \in Workers : status[w] = "asleep" => task[w] = PauseTask
         /\ op = "join" => k = 0

\* Once a thread of m_pool took a StopTask, no urgent task is queued.
Drained == Stopping /\ Threw = {} /\ Quit \cap m_pool # {} => TopIs(MEDIUM)

IndInv == TypeOK /\ Shape /\ StopAccounting /\ Drained

-----------------------------------------------------------------------------
\* A step of the pool is one of its actions.
LEMMA NextCases ==
    ASSUME Next
    PROVE  \/ \E w \in Workers, t \in Tasks : TakeUser(w, t)
           \/ \E w \in Workers : \/ TakePause(w) \/ TakeStop(w)
                                 \/ ExecuteUser(w) \/ ExecutePause(w)
                                 \/ ExecuteStop(w) \/ SpuriousWakeup(w)
                                 \/ CreateThread(w)
           \/ \E t \in Tasks : AddTask(t)
           \/ \E n \in Nat : Shrink(n) \/ ResumeSome(n) \/ Grow(n)
           \/ Pause \/ Resume \/ Stop \/ StopTimeout
           \/ PushPause \/ NotifyOne \/ PushStop
           \/ EndLoop \/ StartJoin \/ JoinAll \/ ClearPool
<1>1. \A n \in 0..Cardinality(Workers) : n \in Nat
  OBVIOUS
<1>2. QED
  BY <1>1 DEF Next, WorkerStep, LoopStep, ControllerCall, SetSize

\* A set of workers is finite.
LEMMA WorkerSets ==
    ASSUME NEW S, S \subseteq Workers
    PROVE  IsFiniteSet(S) /\ Cardinality(S) \in Nat
  BY WorkersAssumption, FS_Subset, FS_CardinalityType

\* The typing of one step.
LEMMA TypeStep == ASSUME IndInv, [Next]_vars PROVE TypeOK'
<1> USE TasksAssumption, WorkersAssumption
        DEF IndInv, TypeOK, Statuses, OpPCs, None, PauseTask, StopTask,
            vars, queue, pool, work, ctl
<1>p. m_pool \subseteq Workers /\ Cardinality(m_pool) \in Nat
  BY WorkerSets
<1>1. CASE UNCHANGED vars
  BY <1>1
<1>2. ASSUME NEW w \in Workers, NEW t \in Tasks, TakeUser(w, t) PROVE TypeOK'
  BY <1>2 DEF TakeUser, Take
<1>3. ASSUME NEW w \in Workers, TakePause(w) \/ TakeStop(w) PROVE TypeOK'
  BY <1>3 DEF TakePause, TakeStop, Take
<1>4. ASSUME NEW w \in Workers, ExecuteUser(w) PROVE TypeOK'
  BY <1>4 DEF ExecuteUser
<1>5. ASSUME NEW w \in Workers, ExecutePause(w) \/ ExecuteStop(w) PROVE TypeOK'
  BY <1>5 DEF ExecutePause, ExecuteStop
<1>6. ASSUME NEW w \in Workers, SpuriousWakeup(w) PROVE TypeOK'
  BY <1>6 DEF SpuriousWakeup
<1>7. ASSUME NEW w \in Workers, CreateThread(w) PROVE TypeOK'
  BY <1>7 DEF CreateThread, Iterate
<1>8. ASSUME NEW t \in Tasks, AddTask(t) PROVE TypeOK'
  BY <1>8 DEF AddTask
<1>9. ASSUME NEW n \in Nat, Shrink(n) PROVE TypeOK'
  BY <1>9 DEF Shrink, Call
<1>10. ASSUME NEW n \in Nat, ResumeSome(n) PROVE TypeOK'
  <2>1. (Cardinality(m_pool) - m_pool_size) - (n - m_pool_size) \in Nat
    BY <1>p, <1>10 DEF ResumeSome
  <2>2. QED
    BY <1>10, <2>1 DEF ResumeSome, Call, NotifyAll, Asleep
<1>11. ASSUME NEW n \in Nat, Grow(n) PROVE TypeOK'
  <2>1. n - Cardinality(m_pool) \in Nat
    BY <1>p, <1>11 DEF Grow
  <2>2. QED
    BY <1>11, <2>1 DEF Grow, Call, NotifyAll, Asleep
<1>12. ASSUME Pause \/ Resume PROVE TypeOK'
  BY <1>12 DEF Pause, Resume, Call
<1>13. ASSUME Stop PROVE TypeOK'
  BY <1>p, <1>13 DEF Stop, Call, NotifyAll, Asleep
<1>14. ASSUME StopTimeout PROVE TypeOK'
  BY <1>14 DEF StopTimeout, Call
<1>15. ASSUME PushPause \/ PushStop PROVE TypeOK'
  BY <1>15 DEF PushPause, PushStop, Iterate
<1>16. ASSUME NotifyOne PROVE TypeOK'
  BY <1>16 DEF NotifyOne, Iterate, Asleep
<1>17. ASSUME EndLoop \/ StartJoin PROVE TypeOK'
  BY <1>17 DEF EndLoop, StartJoin
<1>18. ASSUME JoinAll \/ ClearPool PROVE TypeOK'
  BY <1>18 DEF JoinAll, ClearPool
<1>19. QED
  BY <1>1, <1>2, <1>3, <1>4, <1>5, <1>6, <1>7, <1>8, <1>9, <1>10, <1>11,
     <1>12, <1>13, <1>14, <1>15, <1>16, <1>17, <1>18, NextCases

\* Threads, tasks and the vector stay consistent over one step.
LEMMA ShapeStep == ASSUME IndInv, [Next]_vars PROVE Shape'
<1> USE TasksAssumption
        DEF IndInv, TypeOK, Shape, Created, Statuses, OpPCs, None, PauseTask,
            StopTask, vars, queue, pool, work, ctl
<1>1. CASE UNCHANGED vars
  BY <1>1
<1>2. ASSUME NEW w \in Workers, NEW t \in Tasks, TakeUser(w, t) PROVE Shape'
  BY <1>2 DEF TakeUser, Take
<1>3. ASSUME NEW w \in Workers, TakePause(w) \/ TakeStop(w) PROVE Shape'
  BY <1>3 DEF TakePause, TakeStop, Take
<1>4. ASSUME NEW w \in Workers, ExecuteUser(w) PROVE Shape'
  BY <1>4 DEF ExecuteUser
<1>5. ASSUME NEW w \in Workers, ExecutePause(w) \/ ExecuteStop(w) PROVE Shape'
  BY <1>5 DEF ExecutePause, ExecuteStop
<1>6. ASSUME NEW w \in Workers, SpuriousWakeup(w) PROVE Shape'
  BY <1>6 DEF SpuriousWakeup
<1>7. ASSUME NEW w \in Workers, CreateThread(w) PROVE Shape'
  BY <1>7 DEF CreateThread, Iterate
<1>8. ASSUME NEW t \in Tasks, AddTask(t) PROVE Shape'
  BY <1>8 DEF AddTask
<1>9. ASSUME NEW n \in Nat, Shrink(n) PROVE Shape'
  BY <1>9 DEF Shrink, Call
<1>10. ASSUME NEW n \in Nat, ResumeSome(n) \/ Grow(n) PROVE Shape'
  BY <1>10 DEF ResumeSome, Grow, Call, NotifyAll, Asleep
<1>11. ASSUME Pause \/ Resume \/ StopTimeout PROVE Shape'
  BY <1>11 DEF Pause, Resume, StopTimeout, Call
<1>12. ASSUME Stop PROVE Shape'
  BY <1>12 DEF Stop, Call, NotifyAll, Asleep
<1>13. ASSUME PushPause \/ PushStop PROVE Shape'
  BY <1>13 DEF PushPause, PushStop, Iterate
<1>14. ASSUME NotifyOne PROVE Shape'
  BY <1>14 DEF NotifyOne, Iterate, Asleep
<1>15. ASSUME EndLoop \/ StartJoin PROVE Shape'
  BY <1>15 DEF EndLoop, StartJoin
<1>16. ASSUME JoinAll \/ ClearPool PROVE Shape'
  BY <1>16 DEF JoinAll, ClearPool
<1>17. QED
  BY <1>1, <1>2, <1>3, <1>4, <1>5, <1>6, <1>7, <1>8, <1>9, <1>10, <1>11,
     <1>12, <1>13, <1>14, <1>15, <1>16, NextCases

\* A step that touches nothing the accounting of StopTasks speaks of.
Neutral == /\ Quit' = Quit /\ Created' = Created /\ m_pool' = m_pool
           /\ stops' = stops
           /\ Stopping' = Stopping
           /\ Stopping => k' = k

\* The steps that neither push or take a StopTask nor create, stop or join
\* threads are neutral.
LEMMA NeutralSteps ==
    ASSUME IndInv, [Next]_vars,
           ~Stop, ~PushStop, ~StartJoin, ~JoinAll, ~ClearPool,
           \A w \in Workers : ~TakeStop(w) /\ ~CreateThread(w)
    PROVE  Neutral
<1> USE TasksAssumption
        DEF IndInv, TypeOK, Shape, Created, Quit, Stopping, Neutral, None,
            PauseTask, StopTask, vars, queue, pool, work, ctl
<1>1. CASE UNCHANGED vars
  BY <1>1
<1>2. ASSUME NEW w \in Workers, NEW t \in Tasks, TakeUser(w, t) PROVE Neutral
  BY <1>2 DEF TakeUser, Take
<1>3. ASSUME NEW w \in Workers, TakePause(w) PROVE Neutral
  BY <1>3 DEF TakePause, Take
<1>4. ASSUME NEW w \in Workers, ExecuteUser(w) PROVE Neutral
  BY <1>4 DEF ExecuteUser
<1>5. ASSUME NEW w \in Workers, ExecutePause(w) \/ ExecuteStop(w) PROVE Neutral
  BY <1>5 DEF ExecutePause, ExecuteStop
<1>6. ASSUME NEW w \in Workers, SpuriousWakeup(w) PROVE Neutral
  BY <1>6 DEF SpuriousWakeup
<1>7. ASSUME NEW t \in Tasks, AddTask(t) PROVE Neutral
  BY <1>7 DEF AddTask
<1>8. ASSUME NEW n \in Nat, Shrink(n) PROVE Neutral
  BY <1>8 DEF Shrink, Call
<1>9. ASSUME NEW n \in Nat, ResumeSome(n) \/ Grow(n) PROVE Neutral
  BY <1>9 DEF ResumeSome, Grow, Call, NotifyAll, Asleep
<1>10. ASSUME Pause \/ Resume \/ StopTimeout PROVE Neutral
  BY <1>10 DEF Pause, Resume, StopTimeout, Call
<1>11. ASSUME PushPause \/ EndLoop PROVE Neutral
  BY <1>11 DEF PushPause, Iterate, EndLoop
<1>12. ASSUME NotifyOne PROVE Neutral
  BY <1>12 DEF NotifyOne, Iterate, Asleep
<1>13. QED
  BY <1>1, <1>2, <1>3, <1>4, <1>5, <1>6, <1>7, <1>8, <1>9, <1>10, <1>11,
     <1>12, NextCases

\* One StopTask for each retired thread, before and after a step.
LEMMA AccountingStep == ASSUME IndInv, [Next]_vars PROVE StopAccounting'
<1> USE DEF IndInv, TypeOK, StopAccounting, Retired, Stopping
<1>s. /\ Quit \subseteq Workers /\ Created \subseteq Workers
      /\ m_pool \subseteq Created
      /\ IsFiniteSet(Quit) /\ IsFiniteSet(Created) /\ IsFiniteSet(m_pool)
      /\ Cardinality(Quit) \in Nat /\ Cardinality(Created) \in Nat
      /\ Cardinality(m_pool) \in Nat
  BY WorkerSets DEF Quit, Created, Shape
<1>1. CASE Neutral
  BY <1>1 DEF Neutral
<1>2. ASSUME NEW w \in Workers, TakeStop(w) PROVE StopAccounting'
  <2>1. w \notin Quit /\ Quit' = Quit \cup {w}
    BY <1>2, TasksAssumption DEF TakeStop, Take, Quit, Shape, None, StopTask
  <2>2. Cardinality(Quit') = Cardinality(Quit) + 1
    BY <1>s, <2>1, FS_AddElement
  <2>3. Created' = Created /\ m_pool' = m_pool
    BY <1>2 DEF TakeStop, Take, Created, pool
  <2>4. QED
    BY <1>2, <1>s, <2>2, <2>3 DEF TakeStop, Take, ctl
<1>3. ASSUME NEW w \in Workers, CreateThread(w) PROVE StopAccounting'
  <2>1. Created' \ m_pool' = Created \ m_pool
    BY <1>3 DEF CreateThread, Created
  <2>2. Quit' = Quit
    BY <1>3 DEF CreateThread, Quit
  <2>3. QED
    BY <1>3, <2>1, <2>2 DEF CreateThread, Iterate, queue
<1>4. ASSUME Stop PROVE StopAccounting'
  <2>1. Quit' = Quit
    BY <1>4, TasksAssumption
       DEF Stop, NotifyAll, Asleep, Quit, Shape, None, PauseTask, StopTask
  <2>2. Created' = Created
    BY <1>4 DEF Stop, NotifyAll, Asleep, Created, Statuses
  <2>3. Cardinality(Created) = Cardinality(Created \ m_pool) + Cardinality(m_pool)
    <3>1. Created \cap m_pool = m_pool
      BY <1>s
    <3>2. /\ Cardinality(Created \ m_pool)
                 = Cardinality(Created) - Cardinality(Created \cap m_pool)
          /\ Cardinality(Created \ m_pool) \in Nat
      BY <1>s, FS_Difference, FS_CardinalityType
    <3>3. Cardinality(Created \cap m_pool) = Cardinality(m_pool)
      BY <3>1, Zenon
    <3>4. QED
      BY <1>s, <3>2, <3>3
  <2>4. ~Stopping /\ Stopping' /\ k' = Cardinality(m_pool) /\ stops' = stops
    BY <1>4 DEF Stop, Call, queue
  <2>5. QED
    BY <1>s, <2>1, <2>2, <2>3, <2>4
<1>5. ASSUME PushStop PROVE StopAccounting'
  <2>1. Quit' = Quit /\ Created' = Created
    BY <1>5 DEF PushStop, Quit, Created, work
  <2>2. Stopping' /\ k' = k - 1 /\ stops' = stops + 1
    BY <1>5 DEF PushStop, Iterate
  <2>3. QED
    BY <1>5, <1>s, <2>1, <2>2 DEF PushStop, Iterate
<1>6. ASSUME StartJoin \/ ClearPool PROVE StopAccounting'
  <2>1. Quit' = Quit /\ Created' = Created
    BY <1>6 DEF StartJoin, ClearPool, Quit, Created, work
  <2>2. QED
    BY <1>6, <2>1 DEF StartJoin, ClearPool, queue, pool
<1>7. ASSUME JoinAll PROVE StopAccounting'
  <2>1. Quit' = Quit /\ Created' = Created /\ m_pool' = {} /\ stops' = stops
    BY <1>7 DEF JoinAll, Quit, Created, work, queue
  <2>2. Created' \ m_pool' = Created
    BY <2>1
  <2>3. k = 0 /\ Stopping /\ ~Stopping'
    BY <1>7 DEF JoinAll, Shape
  <2>4. QED
    BY <1>s, <2>1, <2>2, <2>3
<1>8. QED
  BY <1>1, <1>2, <1>3, <1>4, <1>5, <1>6, <1>7, NeutralSteps

\* While no Stop is going on and no task threw, no StopTask is queued and the
\* threads that took one are not in m_pool any more.
LEMMA NoStaleStops ==
    ASSUME IndInv, ~Stopping, Threw = {}
    PROVE  stops = 0 /\ Quit \cap m_pool = {}
<1>1. /\ Quit \subseteq Workers /\ Created \subseteq Workers
      /\ IsFiniteSet(Quit) /\ IsFiniteSet(Created \ m_pool)
      /\ Cardinality(Quit) \in Nat /\ Cardinality(Created \ m_pool) \in Nat
  BY WorkerSets DEF Quit, Created
<1>2. Created \ m_pool \subseteq Quit
  BY <1>1 DEF IndInv, Shape, Threw, Quit
<1>3. stops + Cardinality(Quit) = Cardinality(Created \ m_pool)
  BY <1>1 DEF IndInv, TypeOK, StopAccounting, Retired
<1>4. Cardinality(Created \ m_pool) <= Cardinality(Quit)
  BY <1>1, <1>2, FS_Subset
<1>5. stops = 0 /\ Cardinality(Created \ m_pool) = Cardinality(Quit)
  BY <1>1, <1>3, <1>4 DEF IndInv, TypeOK
<1>6. Created \ m_pool = Quit
  BY <1>1, <1>2, <1>5, FS_Subset
<1>7. QED
  BY <1>5, <1>6

\* A thread that a task's exception ended stays ended.
LEMMA ThrewGrows == ASSUME IndInv, [Next]_vars PROVE Threw \subseteq Threw'
  BY NextCases, TasksAssumption, ZenonT(40)
     DEF IndInv, TypeOK, Shape, Threw, vars, queue, pool, work, ctl, None,
         PauseTask, StopTask, TakeUser, TakePause, TakeStop, Take, ExecuteUser,
         ExecutePause, ExecuteStop, SpuriousWakeup, CreateThread, Iterate,
         AddTask, Shrink, ResumeSome, Grow, Call, NotifyAll, Asleep, Pause,
         Resume, Stop, StopTimeout, PushPause, NotifyOne, PushStop, EndLoop,
         StartJoin, JoinAll, ClearPool

\* A StopTask is taken only once the urgent tasks are, and none is added
\* before Stop has returned.
LEMMA DrainedStep == ASSUME IndInv, [Next]_vars PROVE Drained'
<1> SUFFICES ASSUME Stopping', Threw' = {}, Quit' \cap m_pool' # {}
             PROVE  TopIs(MEDIUM)'
  BY DEF Drained
<1>t. Threw = {}
  BY ThrewGrows
<1> USE DEF IndInv, TypeOK, Shape, Drained, Stopping, TopIs, LOW, MEDIUM, HIGH,
            ADMIN, None, PauseTask, StopTask, queue, pool, work, ctl
<1>1. CASE UNCHANGED vars
  BY <1>1, <1>t DEF vars, Quit
<1>2. ASSUME NEW w \in Workers, NEW t \in Tasks, TakeUser(w, t)
      PROVE  TopIs(MEDIUM)'
  BY <1>2, <1>t, TasksAssumption DEF TakeUser, Take, Quit
<1>3. ASSUME NEW w \in Workers, TakePause(w) \/ TakeStop(w)
      PROVE  TopIs(MEDIUM)'
  BY <1>3 DEF TakePause, TakeStop, Take
<1>4. ASSUME NEW w \in Workers, \/ ExecuteUser(w) \/ ExecutePause(w)
                                \/ ExecuteStop(w) \/ SpuriousWakeup(w)
      PROVE  TopIs(MEDIUM)'
  BY <1>4, <1>t, TasksAssumption
     DEF ExecuteUser, ExecutePause, ExecuteStop, SpuriousWakeup, Quit
<1>5. ASSUME Stop PROVE TopIs(MEDIUM)'
  <2>1. Quit' = Quit /\ m_pool' = m_pool
    BY <1>5, TasksAssumption DEF Stop, Call, NotifyAll, Asleep, Quit
  <2>2. ~Stopping
    BY <1>5 DEF Stop, Call
  <2>3. QED
    BY <1>t, <2>1, <2>2, NoStaleStops
<1>6. ASSUME PushStop \/ StartJoin PROVE TopIs(MEDIUM)'
  BY <1>6, <1>t DEF PushStop, Iterate, StartJoin, Quit
<1>7. QED
  BY <1>1, <1>2, <1>3, <1>4, <1>5, <1>6, NextCases
     DEF CreateThread, Iterate, AddTask, Shrink, ResumeSome, Grow, Call, Pause,
         Resume, StopTimeout, PushPause, NotifyOne, EndLoop, JoinAll, ClearPool

\* The inductive invariant holds in every reachable state.
THEOREM Invariance == Spec => []IndInv
<1>1. Init => IndInv
  <2> SUFFICES ASSUME Init PROVE IndInv
    OBVIOUS
  <2>1. TypeOK
    BY WorkersAssumption DEF Init, TypeOK, Statuses, OpPCs, None
  <2>2. Shape /\ Created = m_pool /\ Quit = {} /\ ~Stopping
    BY DEF Init, Shape, Created, Quit, Stopping, None, StopTask
  <2>3. Created \ m_pool = {}
    BY <2>2
  <2>4. StopAccounting
    BY <2>2, <2>3, FS_EmptySet DEF Init, StopAccounting, Retired
  <2>5. QED
    BY <2>1, <2>2, <2>4 DEF IndInv, Drained
<1>2. IndInv /\ [Next]_vars => IndInv'
  BY TypeStep, ShapeStep, AccountingStep, DrainedStep DEF IndInv
<1>3. QED
  BY <1>1, <1>2, PTL DEF Spec

-----------------------------------------------------------------------------
\* Type correctness.
THEOREM Typing == Spec => []TypeOK
<1>1. IndInv => TypeOK
  BY DEF IndInv
<1>2. QED
  BY <1>1, Invariance, PTL

\* StopTasks are accounted for through any sequence of calls, exceptions of
\* tasks and restarts of the pool.
THEOREM StopTasksAccounted == Spec => []StopAccounting
<1>1. IndInv => StopAccounting
  BY DEF IndInv
<1>2. QED
  BY <1>1, Invariance, PTL

\* Every thread that Stop joins can get a StopTask.
THEOREM StopTasksSuffice == Spec => []EnoughStopTasks
<1>1. ASSUME IndInv PROVE EnoughStopTasks
  <2> SUFFICES ASSUME Stopping PROVE Cardinality(Alive \ Quit) <= k + stops
    BY DEF EnoughStopTasks
  <2>1. /\ Quit \subseteq Workers /\ Created \subseteq Workers
        /\ IsFiniteSet(Created) /\ IsFiniteSet(Quit)
        /\ IsFiniteSet(Created \ Quit)
        /\ Cardinality(Quit) \in Nat /\ Cardinality(Created) \in Nat
    BY WorkerSets DEF Quit, Created
  <2>2. Quit \subseteq Created
    BY <1>1, TasksAssumption
       DEF IndInv, Shape, Quit, Created, None, StopTask
  <2>3. Cardinality(Created \ Quit) = Cardinality(Created) - Cardinality(Quit)
    <3>1. Created \cap Quit = Quit
      BY <2>2
    <3>2. Cardinality(Created \cap Quit) = Cardinality(Quit)
      BY <3>1, Zenon
    <3>3. Cardinality(Created \ Quit)
              = Cardinality(Created) - Cardinality(Created \cap Quit)
      BY <2>1, FS_Difference
    <3>4. QED
      BY <3>2, <3>3
  <2>4. Alive \ Quit \subseteq Created \ Quit
    BY DEF Alive, Created
  <2>5. /\ Cardinality(Alive \ Quit) <= Cardinality(Created \ Quit)
        /\ Cardinality(Alive \ Quit) \in Nat
    BY <2>1, <2>4, FS_Subset, FS_CardinalityType
  <2>6. k + stops + Cardinality(Quit) = Cardinality(Created)
    BY <1>1 DEF IndInv, StopAccounting, Retired
  <2>7. QED
    BY <1>1, <2>1, <2>3, <2>5, <2>6 DEF IndInv, TypeOK
<1>2. QED
  BY <1>1, Invariance, PTL

\* When Stop returns and no task threw, every task above MEDIUM that was added
\* has finished.
THEOREM StopIsGracefulForUrgentTasks == Spec => StopDrainsUrgentTasks
<1> DEFINE Done == \A t \in Tasks : Prio[t] > MEDIUM => New(t) \/ t \in finished
<1>1. ASSUME IndInv, JoinAll, m_pool # {}, Threw = {} PROVE Done
  <2> USE <1>1 DEF IndInv, Shape
  <2>1. \A w \in Created : status[w] = "gone" /\ task[w] = StopTask
    BY DEF JoinAll, Threw, Created
  <2>2. PICK w \in m_pool : w \in Quit
    BY <2>1 DEF Quit, Created
  <2>3. TopIs(MEDIUM)
    BY <2>2 DEF Drained, JoinAll, Stopping
  <2>4. SUFFICES ASSUME NEW t \in Tasks, Prio[t] > MEDIUM, t \notin finished
                 PROVE  New(t)
    BY DEF Done
  <2>5. t \notin m_tasks
    BY <2>3, <2>4, TasksAssumption DEF TopIs, LOW, MEDIUM, HIGH, ADMIN
  <2>6. \A v \in Workers : task[v] # t
    <3>1. t # None /\ t # StopTask
      BY TasksAssumption
    <3>2. \A v \in Workers \ Created : task[v] = None
      BY DEF Created
    <3>3. QED
      BY <2>1, <3>1, <3>2
  <2>7. QED
    BY <2>4, <2>5, <2>6 DEF New
<1>2. IndInv /\ [Next]_vars => [JoinAll /\ m_pool # {} /\ Threw = {} => Done]_vars
  BY <1>1
<1>3. QED
  BY <1>2, Invariance, PTL DEF Spec, StopDrainsUrgentTasks

-----------------------------------------------------------------------------
\* The threads that execute tasks of the user or may take one.
Awake == Alive \ {w \in Workers : status[w] = "asleep" \/ task[w] = PauseTask}

\* The threads that may be awake beyond the size of the pool.
Excused == pauses + spurious + resumed

\* ConcurrencyBound within the operations: pauses still to be pushed count, and
\* while threads are created even all of the vector will not be too many.
Bounded == /\ op \in {"idle", "timeout"} => Cardinality(Awake) <= m_pool_size + Excused
           /\ op = "pushPause" => Cardinality(Awake) <= target + k + Excused
           /\ op = "notify" => Cardinality(Awake) <= target + Excused
           /\ op = "create" => Cardinality(m_pool) + k = target

\* A sum of natural numbers is one.
LEMMA SumIsNat == \A a, b \in Nat : a + b \in Nat
  OBVIOUS

\* What being a part of another set of workers says of the numbers.
LEMMA PartOfPool ==
    ASSUME NEW A, NEW P, A \subseteq P, P \subseteq Workers
    PROVE  /\ IsFiniteSet(A) /\ IsFiniteSet(P)
           /\ Cardinality(A) \in Nat /\ Cardinality(P) \in Nat
           /\ Cardinality(A) <= Cardinality(P)
  BY WorkerSets, FS_Subset, FS_CardinalityType

\* Every other step of a worker, and every wakeup of one thread, is paid for: by
\* a PauseTask that leaves the queue with its thread, by a wakeup counted.
LEMMA AwakeIsPaidFor ==
    ASSUME IndInv, [Next]_vars, ~Stop, ~PushPause,
           \A w \in Workers : ~CreateThread(w),
           \A n \in Nat : ~ResumeSome(n) /\ ~Grow(n)
    PROVE  Cardinality(Awake') + Excused <= Cardinality(Awake) + Excused'
<1> DEFINE Kept    == Awake' \subseteq Awake /\ Excused <= Excused'
           Sent(w) == w \in Awake /\ Awake' = Awake \ {w} /\ Excused' = Excused - 1
           Woken(w) == Awake' \subseteq Awake \cup {w} /\ Excused' = Excused + 1
<1>a. Cardinality(Awake) \in Nat /\ IsFiniteSet(Awake)
  <2>1. Awake \subseteq Workers
    BY DEF Awake, Alive
  <2>2. QED
    BY <2>1, PartOfPool
<1>b. Excused \in Nat /\ Excused' \in Nat
  <2>1. TypeOK /\ TypeOK'
    BY TypeStep DEF IndInv
  <2>2. /\ pauses \in Nat /\ spurious \in Nat /\ resumed \in Nat
        /\ pauses' \in Nat /\ spurious' \in Nat /\ resumed' \in Nat
    BY <2>1 DEF TypeOK
  <2>3. QED
    BY <2>2, SumIsNat DEF Excused
<1>c. ASSUME Kept PROVE Cardinality(Awake') + Excused <= Cardinality(Awake) + Excused'
  <2>1. Cardinality(Awake') <= Cardinality(Awake) /\ Cardinality(Awake') \in Nat
    BY <1>a, <1>c, FS_Subset, FS_CardinalityType
  <2>2. QED
    BY <1>a, <1>b, <1>c, <2>1
<1>d. ASSUME NEW w \in Workers, Sent(w)
      PROVE  Cardinality(Awake') + Excused <= Cardinality(Awake) + Excused'
  <2>1. Cardinality(Awake \ {w}) = Cardinality(Awake) - 1
    BY <1>a, <1>d, FS_RemoveElement
  <2>2. QED
    BY <1>a, <1>b, <1>d, <2>1
<1>e. ASSUME NEW w \in Workers, Woken(w)
      PROVE  Cardinality(Awake') + Excused <= Cardinality(Awake) + Excused'
  <2>1. /\ IsFiniteSet(Awake \cup {w})
        /\ Cardinality(Awake \cup {w}) <= Cardinality(Awake) + 1
        /\ Cardinality(Awake \cup {w}) \in Nat
    BY <1>a, FS_AddElement, FS_CardinalityType, SMTT(30)
  <2>2. Cardinality(Awake') <= Cardinality(Awake \cup {w}) /\ Cardinality(Awake') \in Nat
    BY <1>e, <2>1, FS_Subset, FS_CardinalityType
  <2>3. QED
    BY <1>a, <1>b, <1>e, <2>1, <2>2
<1>f. SUFFICES Kept \/ \E w \in Workers : Sent(w) \/ Woken(w)
  BY <1>c, <1>d, <1>e
<1> USE TasksAssumption
        DEF IndInv, TypeOK, Shape, Created, Awake, Alive, Excused, None, PauseTask,
            StopTask, vars, queue, pool, work, ctl
<1>1. CASE UNCHANGED vars
  BY <1>1
<1>2. ASSUME NEW w \in Workers, NEW t \in Tasks, TakeUser(w, t) PROVE Kept
  BY <1>2 DEF TakeUser, Take
<1>3. ASSUME NEW w \in Workers, TakePause(w) PROVE Sent(w)
  BY <1>3 DEF TakePause, Take
<1>4. ASSUME NEW w \in Workers, TakeStop(w) PROVE Kept
  BY <1>4 DEF TakeStop, Take
<1>5. ASSUME NEW w \in Workers, ExecuteUser(w) PROVE Kept
  BY <1>5 DEF ExecuteUser
<1>6. ASSUME NEW w \in Workers, ExecutePause(w) \/ ExecuteStop(w) PROVE Kept
  BY <1>6 DEF ExecutePause, ExecuteStop
<1>7. ASSUME NEW w \in Workers, SpuriousWakeup(w) PROVE Woken(w)
  BY <1>7 DEF SpuriousWakeup
<1>8. ASSUME NEW t \in Tasks, AddTask(t) PROVE Kept
  BY <1>8 DEF AddTask
<1>9. ASSUME NEW n \in Nat, Shrink(n) PROVE Kept
  BY <1>9 DEF Shrink, Call
<1>10. ASSUME Pause \/ Resume \/ StopTimeout PROVE Kept
  BY <1>10 DEF Pause, Resume, StopTimeout, Call
<1>11. ASSUME NotifyOne PROVE Kept \/ \E w \in Workers : Woken(w)
  BY <1>11 DEF NotifyOne, Iterate, Asleep
<1>12. ASSUME PushStop \/ EndLoop \/ StartJoin PROVE Kept
  BY <1>12 DEF PushStop, Iterate, EndLoop, StartJoin
<1>13. ASSUME JoinAll \/ ClearPool PROVE Kept
  BY <1>13 DEF JoinAll, ClearPool
<1>14. QED
  BY <1>1, <1>2, <1>3, <1>4, <1>5, <1>6, <1>7, <1>8, <1>9, <1>10, <1>11, <1>12,
     <1>13, NextCases

\* The bound holds through one step.
LEMMA BoundStep == ASSUME IndInv, Bounded, [Next]_vars PROVE Bounded'
<1>a. Cardinality(Awake) \in Nat /\ Cardinality(m_pool) \in Nat
  <2>1. Awake \subseteq m_pool /\ m_pool \subseteq Workers
    BY DEF IndInv, TypeOK, Shape, Awake, Alive, Created
  <2>2. QED
    BY <2>1, PartOfPool
<1>b. /\ IndInv' /\ Cardinality(Awake') \in Nat /\ Cardinality(m_pool') \in Nat
      /\ Cardinality(Awake') <= Cardinality(m_pool')
  <2>1. IndInv'
    BY TypeStep, ShapeStep, AccountingStep, DrainedStep DEF IndInv
  <2>2. Awake' \subseteq m_pool' /\ m_pool' \subseteq Workers
    BY <2>1 DEF IndInv, TypeOK, Shape, Awake, Alive, Created
  <2>3. QED
    BY <2>1, <2>2, PartOfPool
<1>c. Excused \in Nat /\ Excused' \in Nat
  <2>1. TypeOK /\ TypeOK'
    BY <1>b DEF IndInv
  <2>2. /\ pauses \in Nat /\ spurious \in Nat /\ resumed \in Nat
        /\ pauses' \in Nat /\ spurious' \in Nat /\ resumed' \in Nat
    BY <2>1 DEF TypeOK
  <2>3. QED
    BY <2>2, SumIsNat DEF Excused
<1> USE DEF IndInv, TypeOK, Bounded
<1>1. ASSUME NEW w \in Workers, CreateThread(w) PROVE Bounded'
  <2>1. w \notin m_pool
    BY <1>1 DEF CreateThread, Shape, Created
  <2>2. Cardinality(m_pool') = Cardinality(m_pool) + 1
    BY <1>1, <2>1, WorkerSets, FS_AddElement DEF CreateThread
  <2>3. QED
    BY <1>1, <1>a, <2>2 DEF CreateThread, Iterate
<1>2. ASSUME NEW n \in Nat, ResumeSome(n) PROVE Bounded'
  BY <1>2, <1>a, <1>b, <1>c DEF ResumeSome, Call, pool
<1>3. ASSUME NEW n \in Nat, Grow(n) PROVE Bounded'
  BY <1>3, <1>a, <1>b, <1>c DEF Grow, Call, pool
<1>4. ASSUME Stop PROVE Bounded'
  BY <1>4 DEF Stop, Call
<1>5. ASSUME PushPause PROVE Bounded'
  <2>1. Awake' = Awake /\ Excused' = Excused + 1
    BY <1>5 DEF PushPause, Awake, Alive, Excused, work
  <2>2. QED
    BY <1>5, <1>a, <1>c, <2>1 DEF PushPause, Iterate
<1>6. CASE /\ ~Stop /\ ~PushPause
           /\ \A w \in Workers : ~CreateThread(w)
           /\ \A n \in Nat : ~ResumeSome(n) /\ ~Grow(n)
  <2>p. Cardinality(Awake') + Excused <= Cardinality(Awake) + Excused'
    BY <1>6, AwakeIsPaidFor
  <2> USE <1>a, <1>b, <1>c, <2>p
  <2>1. CASE UNCHANGED <<op, k, target, m_pool, m_pool_size>>
    BY <2>1
  <2>2. ASSUME NEW n \in Nat, Shrink(n) PROVE Bounded'
    BY <2>2 DEF Shrink, Call, pool
  <2>3. ASSUME Pause \/ Resume PROVE Bounded'
    BY <2>3 DEF Pause, Resume, Call, pool
  <2>4. ASSUME StopTimeout PROVE Bounded'
    BY <2>4 DEF StopTimeout, Call, pool
  <2>5. ASSUME NotifyOne PROVE Bounded'
    BY <2>5 DEF NotifyOne, Iterate, pool
  <2>6. ASSUME PushStop \/ StartJoin PROVE Bounded'
    BY <2>6 DEF PushStop, StartJoin, Iterate
  <2>7. ASSUME EndLoop PROVE Bounded'
    BY <2>7 DEF EndLoop
  <2>8. ASSUME JoinAll PROVE Bounded'
    <3>1. m_pool' = {} /\ op' = "idle" /\ Cardinality(m_pool') = 0
      BY <2>8, FS_EmptySet DEF JoinAll
    <3>2. QED
      BY <3>1
  <2>9. ASSUME ClearPool PROVE Bounded'
    BY <2>9 DEF ClearPool, pool
  <2>10. CASE UNCHANGED vars
    BY <2>1, <2>10 DEF vars, pool, ctl
  <2>11. ASSUME NEW w \in Workers, \/ \E t \in Tasks : TakeUser(w, t)
                                  \/ TakePause(w) \/ TakeStop(w) \/ ExecuteUser(w)
                                  \/ ExecutePause(w) \/ ExecuteStop(w) \/ SpuriousWakeup(w)
         PROVE  Bounded'
    BY <2>1, <2>11 DEF TakeUser, TakePause, TakeStop, Take, ExecuteUser, ExecutePause,
                       ExecuteStop, SpuriousWakeup, pool, ctl
  <2>12. ASSUME NEW t \in Tasks, AddTask(t) PROVE Bounded'
    BY <2>1, <2>12 DEF AddTask, pool, ctl
  <2>13. QED
    BY <1>6, <2>2, <2>3, <2>4, <2>5, <2>6, <2>7, <2>8, <2>9, <2>10, <2>11, <2>12, NextCases
<1>7. QED
  BY <1>1, <1>2, <1>3, <1>4, <1>5, <1>6

\* SetSize bounds the concurrency: outside of the calls the pool has no more
\* threads awake than its size and the wakeups and pauses on their way.
THEOREM ConcurrencyIsBounded == Spec => []ConcurrencyBound
<1>1. Init => Bounded
  <2> SUFFICES ASSUME Init PROVE Bounded
    OBVIOUS
  <2>1. Awake \subseteq m_pool
    BY DEF Init, Awake, Alive
  <2>2. /\ Cardinality(m_pool) = InitialSize /\ IsFiniteSet(m_pool)
        /\ m_pool_size = InitialSize /\ op = "idle" /\ Excused = 0
    BY WorkersAssumption, WorkerSets DEF Init, Excused
  <2>3. Cardinality(Awake) <= Cardinality(m_pool)
    BY <2>1, <2>2, FS_Subset
  <2>4. QED
    BY <2>2, <2>3, WorkersAssumption DEF Bounded
<1>2. IndInv /\ Bounded /\ [Next]_vars => Bounded'
  BY BoundStep
<1>3. ASSUME IndInv, Bounded PROVE ConcurrencyBound
  BY <1>3 DEF IndInv, TypeOK, Bounded, ConcurrencyBound, Awake, Excused
<1>4. Spec => []Bounded
  BY <1>1, <1>2, Invariance, PTL DEF Spec
<1>5. QED
  BY <1>3, <1>4, Invariance, PTL
=============================================================================

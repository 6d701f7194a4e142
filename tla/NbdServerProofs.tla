-------------------------- MODULE NbdServerProofs ---------------------------
(***************************************************************************)
(* Proofs about NbdServer, for any requests, workers and typed line: types *)
(* hold, a WRITE is acknowledged only when it is stored, and the newest    *)
(* request is never forgotten.                                             *)
(***************************************************************************)
EXTENDS NbdServer, TLAPS

\* A reported source has something to read.
EventsAreReal == /\ "nbd" \in events => inbox # <<>>
                 /\ "stdin" \in events => Typed

\* A worker has a request of its own exactly while it executes an NBDTask.
RequestsAreHeld == \A w \in Workers :
    wpc[w] \in {"store", "reply", "data"} <=> wreq[w] # NoRequest

\* No NBDTask exists before the first request.
TasksHaveArgs == PendingLoad => m_driv_data # NoRequest

\* A worker that replies to a WRITE has stored it.
RepliesFollowStores == \A w \in Workers :
    wpc[w] \in {"reply", "data"} /\ wreq[w] \in Writes => wreq[w] \in stored

IInv == /\ TypeOK /\ EventsAreReal
        /\ RequestsAreHeld /\ TasksHaveArgs /\ RepliesFollowStores
        /\ AcknowledgedWritesAreStored /\ NewestIsNotForgotten

-----------------------------------------------------------------------------
\* The steps of the driver, the terminal and the reactor, and those of workers.
Input == (\E r \in Requests : Issue(r)) \/ Type \/ ReactorStep

\* Every step is one of the input side or one of a worker.
LEMMA NextCases == ASSUME Next
                   PROVE  Input \/ \E w \in Workers : WorkerStep(w)
  BY DEF Next, Input

\* The invariant holds initially.
LEMMA Initially == Init => IInv
  <1> SUFFICES ASSUME Init PROVE IInv
    OBVIOUS
  <1>1. TypeOK
    <2>1. stdin \in Seq(Bytes)
      BY DEF Init, Bytes
    <2>2. replied \in [Anything -> Nat] /\ served \in [Anything -> Nat]
      BY DEF Init
    <2>3. /\ wpc \in [Workers -> WorkerPCs]
          /\ wreq \in [Workers -> Anything \cup {NoRequest}]
      BY DEF Init, WorkerPCs
    <2>4. inbox \in Seq(Requests) /\ m_buff_input \in Bytes
      BY DEF Init, Bytes
    <2>5. QED
      BY <2>1, <2>2, <2>3, <2>4 DEF Init, TypeOK, ReactorPCs
  <1>2. QED
    BY <1>1, RequestsAssumption
    DEF Init, IInv, EventsAreReal, RequestsAreHeld, TasksHaveArgs, PendingLoad,
        RepliesFollowStores, AcknowledgedWritesAreStored, NewestIsNotForgotten,
        Anything

\* Types are preserved: a reactor that reads finds something to read.
LEMMA TypeStep == TypeOK /\ EventsAreReal /\ RequestsAreHeld /\ TasksHaveArgs
                  /\ Next => TypeOK'
  <1> SUFFICES ASSUME TypeOK, EventsAreReal, RequestsAreHeld, TasksHaveArgs, Next
               PROVE  TypeOK'
    OBVIOUS
  <1> USE RequestsAssumption
  <1>1. ASSUME NEW r \in Requests, Issue(r) PROVE TypeOK'
    <2>1. inbox' \in Seq(Requests) /\ issued' \subseteq Requests
      BY <1>1 DEF Issue, TypeOK
    <2>2. QED
      BY <1>1, <2>1 DEF Issue, TypeOK, args, tasks, workers, effects, reactor, fds
  <1>2. CASE Type
    BY <1>2 DEF Type, TypeOK, args, tasks, workers, effects, reactor, fds
  <1>3. CASE EnterWait \/ ReturnEvents \/ SeePipe \/ NextRound
    BY <1>3 DEF EnterWait, ReturnEvents, SeePipe, NextRound, TypeOK, ReactorPCs,
                device, args, tasks, workers, effects, fds
  <1>4. CASE ReadNbd
    <2>1. /\ inbox # <<>> /\ Head(inbox) \in Requests
          /\ Tail(inbox) \in Seq(Requests)
      BY <1>4 DEF ReadNbd, EventsAreReal, TypeOK
    <2>2. /\ inbox' \in Seq(Requests) /\ terminated' \in BOOLEAN
      BY <1>4, <2>1 DEF ReadNbd, TypeOK, CopyRace
    <2>3. /\ m_driv_data' \in Anything \cup {NoRequest} /\ rpc' \in ReactorPCs
          /\ events' \subseteq Sources
      BY <1>4, <2>1 DEF ReadNbd, TypeOK, ReactorPCs, Anything
    <2>4. QED
      BY <1>4, <2>2, <2>3 DEF ReadNbd, TypeOK, tasks, workers, effects, fds
  <1>5. CASE AddNbdTask
    BY <1>5 DEF AddNbdTask, TypeOK, ReactorPCs, device, args, workers, effects, fds
  <1>6. CASE ReadStdin
    <2>1. stdin # <<>> /\ Head(stdin) \in Bytes /\ Tail(stdin) \in Seq(Bytes)
      BY <1>6 DEF ReadStdin, EventsAreReal, Typed, TypeOK
    <2>2. QED
      BY <1>6, <2>1 DEF ReadStdin, TypeOK, ReactorPCs, tasks, workers, effects, fds
  <1>7. CASE AddStdinTask
    BY <1>7 DEF AddStdinTask, TypeOK, ReactorPCs, device, args, workers, effects,
                fds
  <1>8. ASSUME NEW w \in Workers, WorkerStep(w) PROVE TypeOK'
    <2>1. CASE TakeNbd(w) \/ TakeStdin(w)
      <3>1. nbdTasks' \in Nat /\ stdinTasks' \in Nat
        BY <2>1 DEF TakeNbd, TakeStdin, TypeOK
      <3>2. wpc' \in [Workers -> WorkerPCs]
        BY <2>1 DEF TakeNbd, TakeStdin, Move, TypeOK, WorkerPCs
      <3>3. QED
        BY <2>1, <3>1, <3>2 DEF TakeNbd, TakeStdin, TypeOK, device, args,
                                effects, reactor, fds
    <2>2. CASE Load(w) \/ Store(w)
      <3>1. wpc' \in [Workers -> WorkerPCs]
        BY <2>2 DEF Load, Store, Move, TypeOK, WorkerPCs
      <3>2. /\ wreq' \in [Workers -> Anything \cup {NoRequest}]
            /\ stored' \subseteq Writes /\ terminated' \in BOOLEAN
        BY <2>2 DEF Load, Store, TypeOK, effects
      <3>3. QED
        BY <2>2, <3>1, <3>2 DEF Load, Store, TypeOK, device, args, tasks,
                                effects, reactor, fds
    <2>3. CASE Header(w)
      <3>1. wreq[w] \in Anything
        BY <2>3 DEF Header, RequestsAreHeld, TypeOK
      <3>2. /\ [replied EXCEPT ![wreq[w]] = @ + 1] \in [Anything -> Nat]
            /\ [served EXCEPT ![wreq[w]] = @ + 1] \in [Anything -> Nat]
        BY <3>1 DEF TypeOK
      <3>3. QED
        BY <2>3, <3>2 DEF Header, Move, TypeOK, WorkerPCs, device, args, tasks,
                          reactor, fds
    <2>4. CASE Data(w)
      <3>1. wreq[w] \in Anything
        BY <2>4 DEF Data, Move, RequestsAreHeld, TypeOK
      <3>2. [served EXCEPT ![wreq[w]] = @ + 1] \in [Anything -> Nat]
        BY <3>1 DEF TypeOK
      <3>3. QED
        BY <2>4, <3>2 DEF Data, Move, TypeOK, WorkerPCs, device, args, tasks,
                          reactor, fds
    <2>5. CASE Key(w) \/ StopWrite(w) \/ StopDel(w) \/ StopEpoll(w)
               \/ StopPipe(w) \/ Close(w)
      BY <2>5 DEF Key, StopWrite, StopDel, StopEpoll, StopPipe, Close, Move,
                  TypeOK, WorkerPCs, device, args, tasks, effects, reactor, fds
    <2>6. QED
      BY <1>8, <2>1, <2>2, <2>3, <2>4, <2>5 DEF WorkerStep
  <1>9. QED
    BY <1>1, <1>2, <1>3, <1>4, <1>5, <1>6, <1>7, <1>8 DEF Next, ReactorStep

\* A source stays readable until the reactor reads it.
LEMMA EventsStep == TypeOK /\ EventsAreReal /\ Next => EventsAreReal'
  <1> SUFFICES ASSUME TypeOK, EventsAreReal, Next PROVE EventsAreReal'
    OBVIOUS
  <1>1. ASSUME NEW r \in Requests, Issue(r) PROVE EventsAreReal'
    <2>1. inbox' # <<>>
      BY <1>1 DEF Issue, TypeOK
    <2>2. QED
      BY <1>1, <2>1 DEF Issue, EventsAreReal, Typed, reactor
  <1>2. CASE Type
    BY <1>2 DEF Type, EventsAreReal, Typed, reactor
  <1>3. CASE ReactorStep
    BY <1>3 DEF ReactorStep, EnterWait, ReturnEvents, SeePipe, ReadNbd, AddNbdTask,
                ReadStdin, AddStdinTask, NextRound, EventsAreReal, Typed, Ready,
                device
  <1>4. ASSUME NEW w \in Workers, WorkerStep(w) PROVE EventsAreReal'
    BY <1>4 DEF WorkerStep, TakeNbd, TakeStdin, Load, Store, Header, Data, Key,
                StopWrite, StopDel, StopEpoll, StopPipe, Close, EventsAreReal,
                Typed, device, reactor
  <1>5. QED
    BY <1>1, <1>2, <1>3, <1>4 DEF Next

\* The input side leaves the workers alone; it replaces m_driv_data only when
\* a new task will follow.
LEMMA InputStep ==
    TypeOK /\ EventsAreReal /\ Input =>
        /\ UNCHANGED <<workers, effects>>
        /\ \/ m_driv_data' # NoRequest /\ rpc' = "addNbd"
           \/ m_driv_data' = m_driv_data /\ (PendingLoad <=> PendingLoad')
  <1> SUFFICES ASSUME TypeOK, EventsAreReal, Input
               PROVE  /\ UNCHANGED <<workers, effects>>
                      /\ \/ m_driv_data' # NoRequest /\ rpc' = "addNbd"
                         \/ /\ m_driv_data' = m_driv_data
                            /\ PendingLoad <=> PendingLoad'
    OBVIOUS
  <1> USE DEF PendingLoad, device, args, tasks, workers, effects, reactor, fds
  <1>1. ASSUME NEW r \in Requests, Issue(r)
        PROVE  UNCHANGED <<workers, effects, m_driv_data, rpc, nbdTasks>>
    BY <1>1 DEF Issue
  <1>2. ASSUME Type
        PROVE  UNCHANGED <<workers, effects, m_driv_data, rpc, nbdTasks>>
    BY <1>2 DEF Type
  <1>3. CASE ReadNbd
    <2>1. Head(inbox) \in Requests
      BY <1>3 DEF ReadNbd, EventsAreReal, TypeOK
    <2>2. \/ m_driv_data' # NoRequest /\ rpc' = "addNbd"
          \/ m_driv_data' = m_driv_data /\ rpc' = rpc /\ nbdTasks' = nbdTasks
      BY <1>3, <2>1, RequestsAssumption DEF ReadNbd
    <2>3. QED
      BY <1>3, <2>2 DEF ReadNbd
  <1>4. CASE AddNbdTask
    <2>1. nbdTasks' > 0 /\ m_driv_data' = m_driv_data
      BY <1>4 DEF AddNbdTask, TypeOK
    <2>2. PendingLoad /\ PendingLoad'
      BY <1>4, <2>1 DEF AddNbdTask
    <2>3. UNCHANGED <<workers, effects>>
      BY <1>4 DEF AddNbdTask
    <2>4. QED
      BY <2>1, <2>2, <2>3
  <1>5. CASE EnterWait \/ ReturnEvents \/ SeePipe \/ ReadStdin \/ AddStdinTask
             \/ NextRound
    BY <1>5 DEF EnterWait, ReturnEvents, SeePipe, ReadStdin, AddStdinTask, NextRound
  <1>6. QED
    BY <1>1, <1>2, <1>3, <1>4, <1>5 DEF Input, ReactorStep

\* What a worker's step does to its request, its place and the effects, in the
\* five cases that matter.
LEMMA WorkerCases ==
    ASSUME TypeOK, RequestsAreHeld, NEW w \in Workers, WorkerStep(w)
    PROVE  /\ m_driv_data' = m_driv_data /\ rpc' = rpc
           /\ \A v \in Workers \ {w} : wpc'[v] = wpc[v] /\ wreq'[v] = wreq[v]
           /\ \/ TakeNbd(w) \/ Load(w) \/ Store(w)
              \/ Header(w) \/ Data(w)
              \/ /\ {wpc[w], wpc'[w]} \cap {"load", "store", "reply", "data"} = {}
                 /\ UNCHANGED <<nbdTasks, wreq, effects>>
  <1> USE DEF Move, TypeOK, args, tasks, effects, reactor
  <1>1. m_driv_data' = m_driv_data /\ rpc' = rpc
    BY DEF WorkerStep, TakeNbd, TakeStdin, Load, Store, Header, Data, Key,
           StopWrite, StopDel, StopEpoll, StopPipe, Close
  <1>2. \A v \in Workers \ {w} : wpc'[v] = wpc[v] /\ wreq'[v] = wreq[v]
    BY DEF WorkerStep, TakeNbd, TakeStdin, Load, Store, Header, Data, Key,
           StopWrite, StopDel, StopEpoll, StopPipe, Close
  <1>3. CASE TakeStdin(w) \/ Key(w) \/ StopWrite(w) \/ StopDel(w)
             \/ StopEpoll(w) \/ StopPipe(w) \/ Close(w)
    BY <1>1, <1>2, <1>3 DEF TakeStdin, Key, StopWrite, StopDel, StopEpoll,
                            StopPipe, Close
  <1>4. QED
    BY <1>1, <1>2, <1>3 DEF WorkerStep

\* A worker's step keeps what relates its request to its place and to the
\* storage.
LEMMA WorkerKeepsRequests ==
    ASSUME TypeOK, RequestsAreHeld, TasksHaveArgs, RepliesFollowStores,
           AcknowledgedWritesAreStored, NEW w \in Workers, WorkerStep(w)
    PROVE  /\ RequestsAreHeld' /\ TasksHaveArgs'
           /\ RepliesFollowStores' /\ AcknowledgedWritesAreStored'
  <1> USE RequestsAssumption DEF TypeOK, Move, args, tasks, effects, reactor,
          RequestsAreHeld, TasksHaveArgs, PendingLoad, RepliesFollowStores,
          AcknowledgedWritesAreStored
  <1>1. CASE TakeNbd(w)
    BY <1>1 DEF TakeNbd
  <1>2. CASE Load(w)
    BY <1>2 DEF Load
  <1>3. CASE Store(w)
    BY <1>3 DEF Store
  <1>4. CASE Header(w)
    <2>1. wreq[w] \in Anything /\ (wreq[w] \in Writes => wreq[w] \in stored)
      BY <1>4 DEF Header
    <2>2. \A r \in Writes : replied'[r] > 0 => replied[r] > 0 \/ r = wreq[w]
      BY <1>4, <2>1 DEF Header, Anything
    <2>3. AcknowledgedWritesAreStored'
      BY <1>4, <2>1, <2>2 DEF Header
    <2>4. QED
      BY <1>4, <2>3, ZenonT(40) DEF Header
  <1>5. CASE Data(w)
    BY <1>5 DEF Data
  <1>6. CASE /\ {wpc[w], wpc'[w]} \cap {"load", "store", "reply", "data"} = {}
             /\ UNCHANGED <<nbdTasks, wreq, effects>>
    <2>1. \A v \in Workers : wpc'[v] \in {"load", "store", "reply", "data"}
                              => wpc'[v] = wpc[v]
      BY <1>6, WorkerCases
    <2>2. \A v \in Workers : wpc[v] \in {"load", "store", "reply", "data"}
                              => wpc'[v] = wpc[v]
      BY <1>6, WorkerCases
    <2>3. QED
      BY <1>6, <2>1, <2>2, WorkerCases
  <1>7. QED
    BY <1>1, <1>2, <1>3, <1>4, <1>5, <1>6, WorkerCases

\* A worker's step does not forget the newest request: it turns a queued task
\* into a load, a load into a request that it holds, and that into a served one.
LEMMA WorkerForgetsNothing ==
    ASSUME TypeOK, RequestsAreHeld, NewestIsNotForgotten, NEW w \in Workers,
           WorkerStep(w)
    PROVE  NewestIsNotForgotten'
  <1>1. /\ m_driv_data' = m_driv_data /\ rpc' = rpc
        /\ \A v \in Workers \ {w} : wpc'[v] = wpc[v] /\ wreq'[v] = wreq[v]
    BY WorkerCases
  <1> USE <1>1 DEF NewestIsNotForgotten, PendingLoad
  <1>2. CASE TakeNbd(w)
    BY <1>2 DEF TakeNbd, Move, TypeOK
  <1>3. CASE Load(w)
    BY <1>3 DEF Load, Move, TypeOK, tasks
  <1>4. CASE Store(w)
    BY <1>4 DEF Store, Move, TypeOK, tasks
  <1>5. CASE Header(w) \/ Data(w)
    <2>1. wreq[w] \in Anything
      BY <1>5 DEF Header, Data, Move, RequestsAreHeld, TypeOK
    <2>2. \A r \in Anything : served[r] > 0 => served'[r] > 0
      BY <1>5, <2>1 DEF Header, Data, TypeOK
    <2>3. wreq'[w] = wreq[w] \/ served'[wreq[w]] > 0
      BY <1>5, <2>1 DEF Header, Data, TypeOK
    <2>4. nbdTasks' = nbdTasks /\ (wpc[w] # "load")
      BY <1>5 DEF Header, Data, Move, tasks
    <2>5. QED
      BY <2>1, <2>2, <2>3, <2>4 DEF TypeOK
  <1>6. CASE /\ {wpc[w], wpc'[w]} \cap {"load", "store", "reply", "data"} = {}
             /\ UNCHANGED <<nbdTasks, wreq, effects>>
    BY <1>6 DEF effects
  <1>7. QED
    BY <1>2, <1>3, <1>4, <1>5, <1>6, WorkerCases

\* The invariant is inductive.
THEOREM Invariance == Spec => []IInv
  <1>1. IInv /\ [Next]_vars => IInv'
    <2> SUFFICES ASSUME IInv, [Next]_vars PROVE IInv'
      OBVIOUS
    <2>1. ASSUME Next, Input PROVE IInv'
      BY <2>1, InputStep, TypeStep, EventsStep
      DEF IInv, RequestsAreHeld, TasksHaveArgs, PendingLoad,
          RepliesFollowStores, AcknowledgedWritesAreStored,
          NewestIsNotForgotten, workers, effects
    <2>2. ASSUME NEW w \in Workers, WorkerStep(w), Next PROVE IInv'
      BY <2>2, TypeStep, EventsStep, WorkerKeepsRequests, WorkerForgetsNothing
      DEF IInv
    <2>3. CASE UNCHANGED vars
      BY <2>3 DEF vars, device, args, tasks, workers, effects, reactor, fds, IInv,
          TypeOK, EventsAreReal, Typed, RequestsAreHeld, TasksHaveArgs,
          PendingLoad, RepliesFollowStores, AcknowledgedWritesAreStored,
          NewestIsNotForgotten
    <2>4. QED
      BY <2>1, <2>2, <2>3, NextCases
  <1>2. QED
    BY Initially, <1>1, PTL DEF Spec

\* Every variable keeps its type.
THEOREM Typing == Spec => []TypeOK
  <1>1. IInv => TypeOK
    BY DEF IInv
  <1>2. QED
    BY <1>1, Invariance, PTL

\* The newest request of the driver is executed, is being executed, or will be
\* loaded by a task that exists: the shared m_driv_data loses only older ones.
THEOREM NewestKept == Spec => []NewestIsNotForgotten
  <1>1. IInv => NewestIsNotForgotten
    BY DEF IInv
  <1>2. QED
    BY <1>1, Invariance, PTL

\* No WRITE is acknowledged before its data is in the storage, although the
\* tasks share the request they execute.
THEOREM WritesAreDurable == Spec => []AcknowledgedWritesAreStored
  <1>1. IInv => AcknowledgedWritesAreStored
    BY DEF IInv
  <1>2. QED
    BY <1>1, Invariance, PTL
=============================================================================

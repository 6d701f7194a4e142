----------------------------- MODULE NbdServer ------------------------------
(***************************************************************************)
(* The block device server of framework/test/re_fw_test.cpp: the reactor   *)
(* thread of RequestEngine, its two input sources (the NBD driver's socket *)
(* and stdin), the tasks they create, the workers of the thread pool, the  *)
(* RAM storage and the shutdown that the key q starts.  All tasks have the *)
(* priority MEDIUM, so the pool's queue is a count of each kind.           *)
(***************************************************************************)
EXTENDS Naturals, Sequences

CONSTANTS Requests,    \* the requests of the driver, each issued once
          Writes,      \* those of type WRITE; the others are of type READ
          Workers,     \* the pool's threads
          Line,        \* what is typed on stdin, delivered at once
          NoRequest,   \* m_driv_data before the first request
          Garbage      \* what ReceiveRequest returns when its read failed

\* What the model tells apart of a byte; "tty" and "none" are not typed.
Bytes == {"tty", "none", "q", "newline"}

ASSUME RequestsAssumption == /\ Writes \subseteq Requests
                             /\ {NoRequest, Garbage} \cap Requests = {}
                             /\ NoRequest # Garbage
                             /\ Line \in Seq(Bytes)

VARIABLES issued,        \* requests the driver has sent
          inbox,         \* requests in the application's socket
          stdin,         \* bytes typed and not read, or "tty" before any
          m_driv_data,   \* the one request that all NBDTasks share
          m_buff_input,  \* the one byte that all StinTasks share
          nbdTasks,      \* NBDTasks in the pool's queue
          stdinTasks,    \* StinTasks in the pool's queue
          wpc,           \* where each worker is
          wreq,          \* the local variable request of NBDTask::Execute
          served,        \* how often each request was executed to its end
          replied,       \* how often each request was replied to
          stored,        \* WRITE requests copied into the storage
          rpc,           \* where the reactor thread is
          events,        \* events of epoll_wait it has not handled
          registered,    \* the input sources are in the epoll set
          epollOpen, pipeOpen, pipeFull, sockOpen,
          terminated     \* std::terminate was called

device  == <<issued, inbox, stdin>>
args    == <<m_driv_data, m_buff_input>>
tasks   == <<nbdTasks, stdinTasks>>
workers == <<wpc, wreq>>
effects == <<served, replied, stored>>
reactor == <<rpc, events>>
fds     == <<registered, epollOpen, pipeOpen, pipeFull, sockOpen>>
vars    == <<device, args, tasks, workers, effects, reactor, fds, terminated>>

WorkerPCs == {"pop", "load", "store", "reply", "data", "key", "stopWrite",
              "stopDel", "stopEpoll", "stopPipe", "close"}
ReactorPCs == {"loop", "wait", "events", "addNbd", "addStdin", "done"}
Sources == {"nbd", "stdin", "pipe"}

Anything == Requests \cup {Garbage}

Init == /\ issued = {} /\ inbox = <<>> /\ stdin = <<"tty">>
        /\ m_driv_data = NoRequest /\ m_buff_input = "none"
        /\ nbdTasks = 0 /\ stdinTasks = 0
        /\ wpc = [w \in Workers |-> "pop"]
        /\ wreq = [w \in Workers |-> NoRequest]
        /\ served = [r \in Anything |-> 0]
        /\ replied = [r \in Anything |-> 0]
        /\ stored = {}
        /\ rpc = "loop" /\ events = {}
        /\ registered = TRUE /\ epollOpen = TRUE /\ sockOpen = TRUE
        /\ pipeOpen = TRUE /\ pipeFull = FALSE
        /\ terminated = FALSE

-----------------------------------------------------------------------------
\* The driver and the terminal.

Issue(r) == /\ r \notin issued /\ sockOpen
            /\ issued' = issued \cup {r}
            /\ inbox' = Append(inbox, r)
            /\ UNCHANGED <<stdin, args, tasks, workers, effects, reactor, fds,
                           terminated>>

Type == /\ stdin = <<"tty">>
        /\ stdin' = Line
        /\ UNCHANGED <<issued, inbox, args, tasks, workers, effects, reactor,
                       fds, terminated>>

-----------------------------------------------------------------------------
\* ReactorThread

Typed == stdin \notin {<<>>, <<"tty">>}

Ready(s) == CASE s = "nbd"   -> registered /\ inbox # <<>>
              [] s = "stdin" -> registered /\ Typed
              [] s = "pipe"  -> pipeOpen /\ pipeFull

\* epoll_wait blocks, or fails on a closed descriptor: the exception that is
\* thrown then leaves the thread's function.
EnterWait == /\ rpc = "loop"
             /\ IF epollOpen THEN rpc' = "wait" /\ UNCHANGED terminated
                             ELSE terminated' = TRUE /\ UNCHANGED rpc
             /\ UNCHANGED <<device, args, tasks, workers, effects, events, fds>>

\* epoll_wait returns what is ready.  A thread blocked in it keeps the epoll
\* instance alive after close(m_epoll_fd), but closed descriptors leave it.
ReturnEvents == /\ rpc = "wait"
                /\ events' = {s \in Sources : Ready(s)}
                /\ events' # {}
                /\ rpc' = "events"
                /\ UNCHANGED <<device, args, tasks, workers, effects, fds,
                               terminated>>

SeePipe == /\ rpc = "events" /\ "pipe" \in events
           /\ rpc' = "done" /\ events' = {}
           /\ UNCHANGED <<device, args, tasks, workers, effects, fds, terminated>>

\* A worker copies the shared_ptr without a lock while Read assigns to it: the
\* copy may meet a freed count, which ends the process.
CopyRace == \E w \in Workers : wpc[w] = "load"

\* InputSrcNBD::Read stores the request where every NBDTask looks for it.  If
\* the socket was closed, ReadAll fails, ReceiveRequest goes on with an
\* uninitialised request, and the factory has a task for its type or throws.
ReadNbd == /\ rpc = "events" /\ "nbd" \in events
           /\ events' = events \ {"nbd"}
           /\ \/ /\ sockOpen
                 /\ m_driv_data' = Head(inbox) /\ inbox' = Tail(inbox)
                 /\ rpc' = "addNbd" /\ terminated' \in {FALSE, CopyRace}
              \/ /\ ~sockOpen
                 /\ m_driv_data' = Garbage
                 /\ rpc' = "addNbd" /\ UNCHANGED inbox
                 /\ terminated' \in {FALSE, CopyRace}
              \/ /\ ~sockOpen
                 /\ terminated' = TRUE
                 /\ UNCHANGED <<m_driv_data, inbox, rpc>>
           /\ UNCHANGED <<issued, stdin, m_buff_input, tasks, workers, effects,
                          fds>>

\* Mutated form: a new task only if no NBDTask is queued or running.
AddNbdTaskOnce ==
    /\ rpc = "addNbd"
    /\ nbdTasks' = IF \A w \in Workers : wreq[w] = NoRequest
                   THEN 1 ELSE nbdTasks
    /\ rpc' = "events"
    /\ UNCHANGED <<device, args, stdinTasks, workers, effects, events, fds,
                   terminated>>

\* AddTask of the task that the factory made for the request.
AddNbdTask == /\ rpc = "addNbd"
              /\ nbdTasks' = nbdTasks + 1
              /\ rpc' = "events"
              /\ UNCHANGED <<device, args, stdinTasks, workers, effects, events,
                             fds, terminated>>

ReadStdin == /\ rpc = "events" /\ "stdin" \in events
             /\ events' = events \ {"stdin"}
             /\ m_buff_input' = Head(stdin) /\ stdin' = Tail(stdin)
             /\ rpc' = "addStdin"
             /\ UNCHANGED <<issued, inbox, m_driv_data, tasks, workers, effects,
                            fds, terminated>>

AddStdinTask == /\ rpc = "addStdin"
                /\ stdinTasks' = stdinTasks + 1
                /\ rpc' = "events"
                /\ UNCHANGED <<device, args, nbdTasks, workers, effects, events,
                               fds, terminated>>

NextRound == /\ rpc = "events" /\ events = {}
             /\ rpc' = "loop"
             /\ UNCHANGED <<device, args, tasks, workers, effects, events, fds,
                            terminated>>

-----------------------------------------------------------------------------
\* The workers

Move(w, from, to) == wpc[w] = from /\ wpc' = [wpc EXCEPT ![w] = to]

\* Mutated form: the empty queue is not noticed.
TakeNbdUnchecked(w) == /\ nbdTasks' = nbdTasks - 1
                       /\ Move(w, "pop", "load")
                       /\ UNCHANGED <<device, args, stdinTasks, wreq, effects,
                                      reactor, fds, terminated>>

TakeNbd(w) == /\ nbdTasks > 0 /\ nbdTasks' = nbdTasks - 1
              /\ Move(w, "pop", "load")
              /\ UNCHANGED <<device, args, stdinTasks, wreq, effects, reactor,
                             fds, terminated>>

TakeStdin(w) == /\ stdinTasks > 0 /\ stdinTasks' = stdinTasks - 1
                /\ Move(w, "pop", "key")
                /\ UNCHANGED <<device, args, nbdTasks, wreq, effects, reactor,
                               fds, terminated>>

\* Mutated form: the reply is sent before the storage is accessed.
LoadReplyFirst(w) ==
    /\ Move(w, "load", "reply")
    /\ wreq' = [wreq EXCEPT ![w] = m_driv_data]
    /\ UNCHANGED <<device, args, tasks, effects, reactor, fds, terminated>>

\* NBDTask::Execute looks at the shared request when it runs.
Load(w) == /\ Move(w, "load", "store")
           /\ wreq' = [wreq EXCEPT ![w] = m_driv_data]
           /\ UNCHANGED <<device, args, tasks, effects, reactor, fds, terminated>>

\* Mutated form: an access that fails throws what the pool's threads catch, and
\* the request has no reply.
StoreCaught(w) == /\ \/ Move(w, "store", "reply") /\ UNCHANGED wreq
                     \/ /\ Move(w, "store", "pop")
                        /\ wreq' = [wreq EXCEPT ![w] = NoRequest]
                  /\ stored' = stored \cup ({wreq[w]} \cap Writes)
                  /\ UNCHANGED <<device, args, tasks, served, replied, reactor,
                                 fds, terminated>>

\* RAMStorage::Read and Write; an uninitialised request may be out of range.
Store(w) == /\ Move(w, "store", "reply")
            /\ stored' = stored \cup ({wreq[w]} \cap Writes)
            /\ terminated' \in {FALSE, wreq[w] = Garbage}
            /\ UNCHANGED <<device, args, tasks, wreq, served, replied, reactor,
                           fds>>

\* SendReply: the header, then the data of a READ, in two calls of write.
Header(w) == /\ wpc[w] = "reply"
             /\ replied' = IF sockOpen THEN [replied EXCEPT ![wreq[w]] = @ + 1]
                                       ELSE replied
             /\ IF wreq[w] \in Writes
                THEN /\ Move(w, "reply", "pop")
                     /\ wreq' = [wreq EXCEPT ![w] = NoRequest]
                     /\ served' = [served EXCEPT ![wreq[w]] = @ + 1]
                ELSE /\ Move(w, "reply", "data")
                     /\ UNCHANGED <<wreq, served>>
             /\ UNCHANGED <<device, args, tasks, stored, reactor, fds, terminated>>

Data(w) == /\ Move(w, "data", "pop")
           /\ wreq' = [wreq EXCEPT ![w] = NoRequest]
           /\ served' = [served EXCEPT ![wreq[w]] = @ + 1]
           /\ UNCHANGED <<device, args, tasks, replied, stored, reactor, fds,
                          terminated>>

\* StinTask::Execute: q stops the engine, any other byte does nothing.
Key(w) == /\ \/ m_buff_input = "q" /\ Move(w, "key", "stopWrite")
             \/ m_buff_input # "q" /\ Move(w, "key", "pop")
          /\ UNCHANGED <<device, args, tasks, wreq, effects, reactor, fds,
                         terminated>>

\* RequestEngine::Stop
StopWrite(w) == /\ Move(w, "stopWrite", "stopDel")
                /\ pipeFull' = (pipeFull \/ pipeOpen)
                /\ UNCHANGED <<device, args, tasks, wreq, effects, reactor,
                               registered, epollOpen, pipeOpen, sockOpen,
                               terminated>>

StopDel(w) == /\ Move(w, "stopDel", "stopEpoll")
              /\ registered' = FALSE
              /\ UNCHANGED <<device, args, tasks, wreq, effects, reactor,
                             epollOpen, pipeOpen, pipeFull, sockOpen, terminated>>

StopEpoll(w) == /\ Move(w, "stopEpoll", "stopPipe")
                /\ epollOpen' = FALSE
                /\ UNCHANGED <<device, args, tasks, wreq, effects, reactor,
                               registered, pipeOpen, pipeFull, sockOpen,
                               terminated>>

StopPipe(w) == /\ Move(w, "stopPipe", "close")
               /\ pipeOpen' = FALSE
               /\ UNCHANGED <<device, args, tasks, wreq, effects, reactor,
                              registered, epollOpen, pipeFull, sockOpen,
                              terminated>>

\* NBDriverCommunicator::Disconnect: closing the socket ends NBD_DO_IT, so the
\* join of the listener thread returns.
Close(w) == /\ Move(w, "close", "pop")
            /\ sockOpen' = FALSE
            /\ UNCHANGED <<device, args, tasks, wreq, effects, reactor,
                           registered, epollOpen, pipeOpen, pipeFull, terminated>>

-----------------------------------------------------------------------------
ReactorStep == \/ EnterWait \/ ReturnEvents \/ SeePipe \/ ReadNbd \/ AddNbdTask
               \/ ReadStdin \/ AddStdinTask \/ NextRound

WorkerStep(w) == \/ TakeNbd(w) \/ TakeStdin(w) \/ Load(w) \/ Store(w)
                 \/ Header(w) \/ Data(w) \/ Key(w)
                 \/ StopWrite(w) \/ StopDel(w) \/ StopEpoll(w) \/ StopPipe(w)
                 \/ Close(w)

Next == /\ ~terminated
        /\ \/ \E r \in Requests : Issue(r)
           \/ Type
           \/ ReactorStep
           \/ \E w \in Workers : WorkerStep(w)

Spec == Init /\ [][Next]_vars

\* The threads are scheduled; nobody has to type or to issue requests.
LiveSpec == /\ Spec
            /\ WF_vars(~terminated /\ ReactorStep)
            /\ \A w \in Workers : WF_vars(~terminated /\ WorkerStep(w))

-----------------------------------------------------------------------------
\* Every variable keeps its type.
TypeOK == /\ issued \subseteq Requests
          /\ inbox \in Seq(Requests)
          /\ stdin \in Seq(Bytes) /\ m_buff_input \in Bytes
          /\ m_driv_data \in Anything \cup {NoRequest}
          /\ nbdTasks \in Nat /\ stdinTasks \in Nat
          /\ wpc \in [Workers -> WorkerPCs]
          /\ wreq \in [Workers -> Anything \cup {NoRequest}]
          /\ served \in [Anything -> Nat] /\ replied \in [Anything -> Nat]
          /\ stored \subseteq Writes
          /\ rpc \in ReactorPCs /\ events \subseteq Sources
          /\ registered \in BOOLEAN /\ epollOpen \in BOOLEAN
          /\ pipeOpen \in BOOLEAN /\ pipeFull \in BOOLEAN /\ sockOpen \in BOOLEAN
          /\ terminated \in BOOLEAN

\* A task that will still look at m_driv_data.
PendingLoad == \/ rpc = "addNbd" \/ nbdTasks > 0
               \/ \E w \in Workers : wpc[w] = "load"

\* The newest request is never forgotten: as long as it was not executed,
\* a worker executes it or some task will still load it.
NewestIsNotForgotten ==
    m_driv_data # NoRequest =>
        \/ PendingLoad
        \/ \E w \in Workers : wreq[w] = m_driv_data
        \/ served[m_driv_data] > 0

\* A WRITE is acknowledged only after its data is in the storage, whichever
\* task serves it.
AcknowledgedWritesAreStored ==
    \A r \in Writes : replied[r] > 0 => r \in stored

\* The newest request is served unless a newer one replaces it first.
NewestIsServed == \A r \in Requests :
    m_driv_data = r ~> served[r] > 0 \/ m_driv_data # r \/ terminated

\* What InputSrcNBD and NBDTask are for: each request of the driver is
\* processed, as long as nobody stops the server.
EveryRequestIsServed == \A r \in Requests :
    r \in issued ~> served[r] > 0 \/ ~sockOpen \/ terminated

\* What RequestEngine::Stop is for: the reactor ends, and Run returns.
StopEndsReactor == pipeFull ~> rpc = "done"
=============================================================================

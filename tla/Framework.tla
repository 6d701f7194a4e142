----------------------------- MODULE Framework ------------------------------
(***************************************************************************)
(* Daniel/final_project/framework/include as one thread uses it:           *)
(* msg_broker_imp.hpp ("broker"), a dispatcher whose call backs may come   *)
(* and go while it notifies them; and re_fw.hpp with factory.hpp and       *)
(* input_src_imp_for_test.hpp ("engine"), from a source's request to the   *)
(* task that the creator of its key makes of it.  What the reactor and its *)
(* pool do at the same time is in NbdServer.                               *)
(***************************************************************************)
EXTENDS Library

BkCalls == 1..Cells      \* the CallBack objects, by their addresses

\* slots is the vector's memory, of which the first size are its elements; i and
\* end are where the iteration of NotifyAll is, told whom it has called, and
\* meddled whether they took one out of the vector.
\* made are the objects, stops how often each observer was told to stop.
BkInit == /\ store = [slots |-> <<>>, size |-> 0, i |-> 0, end |-> 0, told |-> <<>>, meddled |-> FALSE,
                      made |-> {}, stops |-> [c \in BkCalls |-> 0], alive |-> TRUE,
                      faulted |-> FALSE]
          /\ log = <<>>   \* who has registered and not gone, in order

Subscribers(m) == SubSeq(m.slots, 1, m.size)

BkStops(m, S) == [m EXCEPT !.stops = [c \in BkCalls |-> IF c \in S THEN @[c] + 1 ELSE @[c]]]

\* push_back: what lay behind the vector's last element is overwritten.
Register(m, c) == [m EXCEPT !.size = @ + 1,
                            !.slots = IF m.size < Len(@) THEN [@ EXCEPT ![m.size + 1] = c]
                                                         ELSE Append(@, c)]

\* Mutated form: the last element is erased, whoever it is.
UnregisterLast(m, c) ==
    IF c \notin ToSet(Subscribers(m)) THEN m ELSE [m EXCEPT !.size = @ - 1]

\* find and erase: the elements behind move down, and the last one's memory
\* keeps its value.
Unregister(m, c) ==
    IF c \notin ToSet(Subscribers(m)) THEN m
    ELSE LET k == SelectInSeq(m.slots, LAMBDA d : d = c)
         IN  [m EXCEPT !.size = @ - 1,
                       !.slots = [j \in DOMAIN @ |-> IF j < k \/ j >= m.size THEN @[j]
                                                     ELSE @[j + 1]]]

CallBack(m, c) == [Register(m, c) EXCEPT !.made = @ \cup {c}, !.stops[c] = 0]

\* ~CallBack tells its observer to stop, ~ICallBack unregisters: with a
\* dispatcher that was destroyed before, from a vector that is not there.
DestroyCallBack(m, c) ==
    LET gone == [BkStops(m, {c}) EXCEPT !.made = @ \ {c}]
    IN  IF m.alive THEN Unregister(gone, c) ELSE [gone EXCEPT !.faulted = TRUE]

DestroyDispatcher(m) == [BkStops(m, ToSet(Subscribers(m))) EXCEPT !.alive = FALSE]

BkIdle == store.i = 0

\* NotifyAll: first and last are taken once.
NotifyAll == /\ BkIdle /\ store.size > 0 /\ UNCHANGED log
             /\ store' = [store EXCEPT !.i = 1, !.end = store.size, !.told = <<>>,
                                       !.meddled = FALSE]

BkLeaves(c) == RemoveAt(log, CHOOSE i \in DOMAIN log : log[i] = c)

\* One call back is called, and its observer may destroy one of them or make
\* another.  push_back may move a full vector: the iteration, unless it is at its
\* end, goes on in the memory that was freed.
Notify ==
    LET c == store.slots[store.i]
        told == [store EXCEPT !.told = Append(@, c),
                              !.i = IF store.i = store.end THEN 0 ELSE @ + 1]
    IN  /\ ~BkIdle
        /\ \/ c \notin store.made /\ store' = [store EXCEPT !.faulted = TRUE] /\ UNCHANGED log
           \/ c \in store.made /\ store' = told /\ UNCHANGED log
           \/ /\ c \in store.made
              /\ \E d \in store.made :
                    /\ store' = [DestroyCallBack(told, d) EXCEPT !.meddled = TRUE]
                    /\ log' = BkLeaves(d)
           \/ /\ c \in store.made
              /\ \E d \in BkCalls \ store.made :
                    /\ \/ store' = CallBack(told, d)
                       \/ /\ store.size = Len(store.slots) /\ told.i # 0
                          /\ store' = [CallBack(told, d) EXCEPT !.faulted = TRUE]
                    /\ log' = Append(log, d)

\* Calls on the dispatcher while it is there, and on the objects.
BkNext ==
    /\ ~store.faulted
    /\ \/ store.alive /\ NotifyAll
       \/ Notify
       \/ /\ BkIdle /\ store.alive
          /\ \E c \in BkCalls \ store.made :
                /\ store' = [CallBack(store, c) EXCEPT !.told = <<>>]
                /\ log' = Append(log, c)
       \/ /\ BkIdle
          /\ \E c \in store.made :
                /\ store' = [DestroyCallBack(store, c) EXCEPT !.told = <<>>]
                /\ log' = BkLeaves(c)
       \/ BkIdle /\ store.alive /\ store' = DestroyDispatcher(store) /\ UNCHANGED log

\* While the dispatcher is there, its vector holds the objects that are, in the
\* order they came, also when observers made or destroyed some; a notification
\* whose observers destroyed none has told each that was there when it began once
\* in that order; each is told to stop once at most.  A program in which freed
\* memory was used, by a call or by the iteration, is out of this.
BrokerTellsAll ==
    ~store.faulted =>
       /\ store.alive => Subscribers(store) = log /\ ToSet(log) = store.made
       /\ BkIdle /\ store.told # <<>> /\ ~store.meddled =>
             store.told = SubSeq(log, 1, store.end)
       /\ \A c \in BkCalls :
             store.stops[c] <= IF c \in store.made /\ store.alive THEN 0 ELSE 1

-----------------------------------------------------------------------------
\* The keys of the factory are the types that DriverData makes of a request,
\* with one that the program never configures; a source is the request's or
\* the terminal's; it gives its own arguments.
EnKeys    == {"READ", "WRITE", "STOP", "TRIM"}
EnSources == {"nbd", "stdin"}
Creators  == {"NBDTask::Create", "StinTask::Create"}
NoCreator == "none"

\* m_operations of the factory, m_req_srcs_map by its descriptors with the
\* number of the source configured last, watched is the epoll set; task is the
\* last one given to the pool, and state how the engine fares.
EnInit == /\ \E fd, piped \in BOOLEAN :
                store = [m_operations |-> [k \in EnKeys |-> NoCreator],
                         m_req_srcs_map |-> [s \in EnSources |-> 0], watched |-> {},
                         epoll |-> fd, pipe |-> piped, closed |-> 0, m_flag_for_loop |-> TRUE,
                         task |-> "none", reader |-> <<>>, state |-> "configured"]
          /\ log = [last |-> [k \in EnKeys |-> NoCreator], from |-> "none", key |-> "none"]

\* Mutated form: a key that is there keeps its creator.
FactoryInsert(m, key, creator) ==
    [m EXCEPT !.m_operations[key] = IF @ = NoCreator THEN creator ELSE @]

\* Factory::Add: a key that is there gets the new creator.
FactoryAdd(m, key, creator) == [m EXCEPT !.m_operations[key] = creator]

\* RequestEngine::ConfigTask.
ConfigTask(m, key, creator) == FactoryAdd(m, key, creator)

AddFdToEpollWatchList(m, s) == IF m.epoll THEN [m EXCEPT !.watched = @ \cup {s}] ELSE m

\* A second source of the same descriptor takes the first one's place; that the
\* descriptor is in the set already is only printed.
ConfigInputSrc(m, s) ==
    AddFdToEpollWatchList([m EXCEPT !.m_req_srcs_map[s] = @ + 1], s)

\* Run with a failed epoll instance ends in a throw out of its thread.
RunEngine(m) == [m EXCEPT !.state = IF m.epoll THEN "running" ELSE "unpolled"]

\* What the sources read: a request of any type, or a byte that is to stop.
InputSrcRead(s) == IF s = "nbd" THEN EnKeys ELSE {"STOP"}

\* NBDTask::Create and StinTask::Create cast their argument, which fails for the
\* arguments of the other source.
CreateTask(creator, s) ==
    CASE creator = "NBDTask::Create"  -> IF s = "nbd" THEN "NBDTask" ELSE "nullptr"
      [] creator = "StinTask::Create" -> IF s = "stdin" THEN "StinTask" ELSE "nullptr"

\* Factory::Create throws for a key without a creator, out of the reactor's
\* thread; a null task is put into the queue like any other.
FactoryCreate(m, key, s) ==
    IF m.m_operations[key] = NoCreator THEN [m EXCEPT !.state = "unmade"]
    ELSE [m EXCEPT !.reader = <<s, m.m_req_srcs_map[s]>>, !.task = CreateTask(m.m_operations[key], s)]

StopEngine(m) ==
    [m EXCEPT !.watched = {}, !.closed = @ + 1, !.epoll = FALSE, !.pipe = FALSE]

\* Stop, called by the task for q: the loop is left when it sees what is in the
\* pipe before that is closed; else epoll_wait fails, or waits for ever.
StopTask(m) ==
    {[StopEngine(m) EXCEPT !.state = how, !.m_flag_for_loop = how # "left"]
       : how \in {"unpolled", "stuck"} \cup (IF m.pipe THEN {"left"} ELSE {})}

\* Mutated form: whatever has become of the engine, it is stopped.
DestroyEngineAlways(m) == [StopEngine(m) EXCEPT !.state = "destroyed"]

\* ~RequestEngine stops an engine that was not left by its flag.
DestroyEngine(m) ==
    [(IF m.m_flag_for_loop THEN StopEngine(m) ELSE m) EXCEPT !.state = "destroyed"]

EnNext ==
    \/ /\ store.state = "configured"
       /\ \/ \E key \in EnKeys \ {"TRIM"}, creator \in Creators :
                /\ store' = ConfigTask(store, key, creator)
                /\ log' = [log EXCEPT !.last[key] = creator]
          \/ /\ UNCHANGED log
             /\ \/ \E s \in EnSources :
                      store.m_req_srcs_map[s] < 2 /\ store' = ConfigInputSrc(store, s)
                \/ store' = RunEngine(store)
    \/ /\ store.state = "running" /\ store.epoll
       /\ \E s \in store.watched : \E key \in InputSrcRead(s) :
             /\ store' = FactoryCreate(store, key, s)
             /\ log' = [log EXCEPT !.from = s, !.key = key]
    \/ /\ store.state = "running" /\ store.task = "StinTask" /\ UNCHANGED log
       /\ \E m \in StopTask(store) : store' = m
    \/ /\ store.state \in {"configured", "left"} /\ UNCHANGED log
       /\ store' = DestroyEngine(store)

\* The last task is null or of the kind that the last creator configured for
\* its key makes, and a task fits the source that was read.  The reactor dies of
\* a key without a creator only where there is none; an engine closes its
\* descriptors once, by the task for q or by its end.
EngineMakesTasks ==
    /\ store.task # "none" =>
          /\ store.state # "unmade" =>
                store.task = CreateTask(log.last[log.key], log.from)
          /\ store.task # "nullptr" => (store.task = "NBDTask") = (store.reader[1] = "nbd")
    /\ log.key # "none" => (store.state = "unmade") = (log.last[log.key] = NoCreator)
    /\ store.closed = (IF store.state \in {"left", "stuck", "destroyed"} THEN 1
                       ELSE IF store.state = "unpolled" /\ store.task = "StinTask" THEN 1 ELSE 0)

-----------------------------------------------------------------------------
FwInit == \/ kind = "broker" /\ BkInit
          \/ kind = "engine" /\ EnInit
FwNext == \/ kind = "broker" /\ BkNext
          \/ kind = "engine" /\ EnNext

\* The dispatcher tells its call backs, and the engine makes the tasks it was
\* configured to.
FrameworkIsRight == /\ kind = "broker" => BrokerTellsAll
                    /\ kind = "engine" => EngineMakesTasks
=============================================================================

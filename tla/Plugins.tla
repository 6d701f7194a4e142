------------------------------ MODULE Plugins -------------------------------
(***************************************************************************)
(* Daniel/final_project/framework: pnp.cpp with msg_broker_imp.hpp, whose  *)
(* listener thread (1) tells the loader of new files through a dispatcher  *)
(* that main (2) and it use without a lock ("pnp"); and singleton.hpp,     *)
(* with the factory that it holds ("singleton").  dlopen, inotify and the  *)
(* kernel's side of both are modelled from how the code uses them.         *)
(***************************************************************************)
EXTENDS Exercise

CONSTANTS PgFiles,    \* bound: the files that are closed after writing, numbered
          SgThreads   \* the threads that call GetInstance

ASSUME PluginsAssumption == PgFiles \in Nat /\ Free \notin SgThreads

Listener == 1
Main     == 2
PgLive   == "live"

\* What the listener has in hand: a file, or one of these.
Idle    == 0    \* nothing
Blocked == -1   \* it is in read
Ignored == -2   \* IN_IGNORED, which rm_watch queues

\* events are what inotify holds for the next read, subscribers the vector of
\* call backs, wd whether m_watch_fd has been written; torn: one thread changed
\* the vector, or the handles, while the other was in it.
PgShared == [subscribers |-> <<>>, handles |-> <<>>, events |-> <<>>, files |-> 0,
             watched |-> FALSE, wd |-> FALSE, closed |-> FALSE, torn |-> FALSE,
             unheard |-> {}, open |-> {}]

PgTears(s, places) == [s EXCEPT !.torn = @ \/ \E t \in DOMAIN at : at[t] \in places]
InDispatcher == {"notify", "load"}

\* A file is written: an event when there is a watch, nothing before.
PgFile == /\ shared.files < PgFiles /\ UNCHANGED <<at, hand>>
          /\ LET f == shared.files + 1 IN
             shared' = [shared EXCEPT !.files = f,
                           !.events = IF shared.watched THEN Append(@, f) ELSE @,
                           !.unheard = IF shared.watched THEN @ ELSE @ \cup {f}]

\* The constructor of PlugNPlay: the monitor, whose thread starts at once, and
\* then the loader, whose call back registers.
PlugNPlay == \/ /\ Moves(Main, "monitor", "loader") /\ UNCHANGED <<shared, hand>>
             \/ /\ Moves(Main, "loader", PgLive) /\ UNCHANGED hand
                /\ shared' = PgTears([shared EXCEPT !.subscribers = <<"loader">>], InDispatcher)

\* Mutated form: a read that fails is taken for an event.
ListenerReadFails ==
    /\ at[Listener] = "read" /\ hand[Listener] # Blocked
    /\ IF shared.closed THEN Moves(Listener, "read", "notify") /\ Nothing
       ELSE /\ UNCHANGED <<at, shared>> /\ Holds(Listener, Blocked)

\* A read of a closed descriptor fails, one that has begun waits for events.
ListenerRead ==
    /\ at[Listener] = "read" /\ hand[Listener] # Blocked
    /\ IF shared.closed THEN Moves(Listener, "read", "end") /\ Nothing
       ELSE /\ UNCHANGED <<at, shared>> /\ Holds(Listener, Blocked)

\* Dispatcher::NotifyAll calls every call back that has registered.
NotifyAll ==
    /\ at[Listener] = "notify"
    /\ IF shared.subscribers = <<>> \/ hand[Listener] = Ignored
       THEN /\ Moves(Listener, "notify", "read") /\ Holds(Listener, Idle)
            /\ shared' = [shared EXCEPT !.unheard = @ \cup ({hand[Listener]} \ {Ignored})]
       ELSE Moves(Listener, "notify", "load") /\ Nothing

\* SOLoader::Load; dlopen may fail.
Load ==
    /\ Moves(Listener, "load", "read") /\ Holds(Listener, Idle)
    /\ \/ UNCHANGED shared
       \/ shared' = [shared EXCEPT
                        !.handles = Append(@, hand[Listener]),
                        !.open = @ \cup {hand[Listener]},
                        !.torn = @ \/ at[Main] = "unregister"]

\* ListenerThread: m_watch_fd is written after the watch is there; closed, the
\* descriptor gives no watch.  One read takes the first n events, as many as its
\* 272 bytes hold (one with the longest name fits), and the first is handled.
ListenerThread ==
    \/ /\ at[Main] # "monitor" /\ Moves(Listener, "add", "wd") /\ UNCHANGED hand
       /\ shared' = [shared EXCEPT !.watched = ~shared.closed]
    \/ /\ Moves(Listener, "wd", "read") /\ UNCHANGED hand
       /\ shared' = [shared EXCEPT !.wd = TRUE]
    \/ ListenerRead
    \/ /\ hand[Listener] = Blocked
       /\ Moves(Listener, "read", "notify")
       /\ \E n \in DOMAIN shared.events :
             /\ Holds(Listener, Head(shared.events))
             /\ shared' = [shared EXCEPT
                   !.events = SubSeq(@, n + 1, Len(@)),
                   !.unheard = @ \cup (ToSet(SubSeq(shared.events, 2, n)) \ {Ignored})]
    \/ NotifyAll
    \/ Load

\* Mutated form: the libraries are left open.
DestroyLoaderOnly ==
    \/ /\ Moves(Main, PgLive, "unregister") /\ UNCHANGED hand
       /\ shared' = PgTears([shared EXCEPT !.handles = <<>>], {"load"})
    \/ /\ Moves(Main, "unregister", "remove watch") /\ UNCHANGED hand
       /\ shared' = PgTears([shared EXCEPT !.subscribers = <<>>], InDispatcher)

\* ~PlugNPlay: the loader goes first, its handles before its call back; then
\* the monitor, which asks for an end by removing the watch and closing.
DestroyLoader ==
    \/ /\ Moves(Main, PgLive, "unregister") /\ UNCHANGED hand
       /\ shared' = PgTears([shared EXCEPT !.open = @ \ ToSet(shared.handles), !.handles = <<>>],
                            {"load"})
    \/ /\ Moves(Main, "unregister", "remove watch") /\ UNCHANGED hand
       /\ shared' = PgTears([shared EXCEPT !.subscribers = <<>>], InDispatcher)

\* inotify_rm_watch queues IN_IGNORED; with a m_watch_fd that nobody wrote it
\* fails.  A read that has begun goes on after close.
DestroyMonitor ==
    \/ /\ Moves(Main, "remove watch", "close") /\ UNCHANGED hand
       /\ shared' = IF shared.wd THEN [shared EXCEPT !.watched = FALSE,
                                                     !.events = Append(@, Ignored)]
                    ELSE shared
    \/ Moves(Main, "close", "join") /\ Sets([shared EXCEPT !.closed = TRUE])
    \/ at[Listener] = "end" /\ Moves(Main, "join", "end") /\ Nothing

PnpStep == PlugNPlay \/ ListenerThread \/ DestroyLoader \/ DestroyMonitor

\* What is loaded was written and is loaded once, in order; nothing is heard of
\* in vain before the loader is there, and after the end no library is open,
\* when the two threads did not meet in the vectors.
PnpIsOrderly ==
    ~shared.torn =>
       /\ \A k, l \in DOMAIN shared.handles : k < l => shared.handles[k] < shared.handles[l]
       /\ shared.open \cap shared.unheard = {}
       /\ shared.open = ToSet(shared.handles)
       /\ at[Main] = "end" => shared.open = {} /\ at[Listener] = "end"

-----------------------------------------------------------------------------
\* singleton.hpp: GetInstance by SgThreads.  knows: what a thread has done
\* happens after the construction, so that it may use the object.
SgShared == [mutex |-> Free, s_instance |-> FALSE, made |-> 0, released |-> FALSE]
SgHand == [tmp |-> FALSE, knows |-> FALSE]

\* A relaxed load may give the value before the last; after a load of the new
\* one the acquire fence makes known what the release fence preceded.
SgLoad(t, from, to, values) ==
    /\ Moves(t, from, to) /\ UNCHANGED shared
    /\ \E v \in values : Holds(t, [tmp |-> v, knows |-> hand[t].knows])

\* Mutated form: the pointer is not read again under the mutex.
SgCreateUnchecked(t) ==
    /\ Moves(t, "check", "fence")
    /\ shared' = [shared EXCEPT !.made = @ + 1]
    /\ Holds(t, [hand[t] EXCEPT !.knows = TRUE])

SgCreate(t) ==
    /\ at[t] = "check"
    /\ IF shared.s_instance
       THEN Moves(t, "check", "unlock") /\ Nothing
       ELSE /\ Moves(t, "check", "fence")
            /\ shared' = [shared EXCEPT !.made = @ + 1]
            /\ Holds(t, [hand[t] EXCEPT !.knows = TRUE])

GetInstance(t) ==
    \/ SgLoad(t, "call", "acquire", {FALSE, shared.s_instance})
    \/ /\ Moves(t, "acquire", IF hand[t].tmp THEN "return" ELSE "lock") /\ UNCHANGED shared
       /\ Holds(t, [hand[t] EXCEPT !.knows = @ \/ (hand[t].tmp /\ shared.released)])
    \/ /\ Moves(t, "lock", "check") /\ shared.mutex = Free
       /\ shared' = [shared EXCEPT !.mutex = t]
       /\ Holds(t, [hand[t] EXCEPT !.knows = @ \/ shared.s_instance])
    \/ SgCreate(t)
    \/ Moves(t, "fence", "store") /\ Sets([shared EXCEPT !.released = TRUE])
    \/ Moves(t, "store", "unlock") /\ Sets([shared EXCEPT !.s_instance = TRUE])
    \/ GivesMutex(t, "unlock", "return")

\* One instance is made, and a thread that has its address knows it whole.
SingletonIsOne ==
    /\ shared.made <= 1
    /\ \A t \in SgThreads : at[t] = "return" => shared.s_instance /\ hand[t].knows

-----------------------------------------------------------------------------
PgInit == \/ /\ game = "pnp" /\ shared = PgShared /\ at = <<"add", "monitor">>
             /\ hand = <<Idle, Idle>>
          \/ /\ game = "singleton" /\ shared = SgShared
             /\ at = [t \in SgThreads |-> "call"] /\ hand = [t \in SgThreads |-> SgHand]

PgNext == /\ UNCHANGED game
          /\ \/ game = "pnp" /\ (PnpStep \/ PgFile)
             \/ game = "singleton" /\ \E t \in SgThreads : GetInstance(t)

PluginsAreSafe == IF game = "pnp" THEN PnpIsOrderly ELSE game = "singleton" => SingletonIsOne

\* ~DirMonitor ends when it closes the descriptor before the listener is in
\* read for the last time, or has left it an event; else its join waits forever.
PluginsEnd == (/\ game = "pnp" /\ at[Main] = "join"
               /\ hand[Listener] # Blocked \/ shared.events # <<>>)
              ~> (game = "pnp" /\ at[Main] = "end")
=============================================================================

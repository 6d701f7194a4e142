------------------------------ MODULE Exchange ------------------------------
(***************************************************************************)
(* Exercises 1 to 4 of Daniel/src/producers_consumers.c: numbers go from   *)
(* producers to consumers through one int behind a flag (1), a list behind *)
(* copies of a mutex (2), a list with a mutex and a semaphore (3), and a   *)
(* queue of fixed size with a mutex and two semaphores (4).  The numbers   *)
(* are random in the code; here a number is its producer's (2 and 4) or    *)
(* counts up, modulo ExNumbers (3).                                        *)
(***************************************************************************)
EXTENDS Exercise

CONSTANT ExSize   \* of the queue of fixed size, 100 in the program
ASSUME ExchangeAssumption == ExSize \in Nat \ {0}

\* bounds: five of each in 2 and 4, one producer and nine consumers in 3, whose
\* list is short here.
ExMakers  == {1, 2}
ExTakers  == {3, 4}
ExLong    == 2
ExNumbers == 4
ExMain    == 5

ExGames == {"exercise1", "exercise2", "exercise3", "exercise4"}

ExThreadsOf(g) == CASE g = "exercise1" -> {1, 3}
                    [] g = "exercise2" -> ExMakers \cup ExTakers
                    [] g = "exercise3" -> {1} \cup ExTakers
                    [] g = "exercise4" -> ExMakers \cup ExTakers \cup {ExMain}

\* The list of exercise 2, in nodes; node 1 is the dummy that SListCreate makes,
\* whose data is the list itself, and NoNode is NULL.
NoNode   == 0
ListData == -1
ExList == [head |-> 1, tail |-> 1, used |-> {1}, data |-> <<ListData, 0, 0>>,
           next |-> <<NoNode, NoNode, NoNode>>]

ExShared == [mutex |-> Free, spinlock |-> 0, random_int |-> 0, crowd |-> FALSE,
             crashed |-> FALSE, list |-> ExList, sem |-> [in |-> ExSize, out |-> 0],
             queue |-> <<>>, made |-> 0, taken |-> <<>>]

ExFirst(g, t) == CASE g = "exercise1" -> "test"
                   [] g = "exercise2" -> "lock"
                   [] g = "exercise3" -> IF t \in ExMakers THEN "lock" ELSE "wait"
                   [] g = "exercise4" -> IF t = ExMain THEN "join" ELSE "wait"

ExHand(g, t) == CASE g = "exercise2" /\ t \in ExMakers -> [where |-> NoNode, new |-> NoNode]
                  [] g = "exercise2" /\ t \in ExTakers ->
                        [node |-> NoNode, end |-> NoNode, count |-> 0]
                  [] g # "exercise2" -> 0

ExInit == /\ game \in ExGames
          /\ shared = ExShared
          /\ at = [t \in ExThreadsOf(game) |-> ExFirst(game, t)]
          /\ hand = [t \in ExThreadsOf(game) |-> ExHand(game, t)]

-----------------------------------------------------------------------------
\* Exercise 1: the flag is tested, and set, and cleared, by anybody.
Spinlock(t) ==
    \/ shared.spinlock = 0 /\ Moves(t, "test", "set") /\ Nothing
    \/ /\ Moves(t, "set", "access")
       /\ Sets([shared EXCEPT !.spinlock = 1, !.crowd = @ \/ \E u \in DOMAIN at :
                                                  u # t /\ at[u] \in {"access", "reset"}])
    \/ /\ Moves(t, "reset", "test")
       /\ Sets([shared EXCEPT !.spinlock = 0])

Producer1(t) == \/ Spinlock(t)
                \/ /\ Moves(t, "access", "reset")
                   /\ Sets([shared EXCEPT !.made = (@ + 1) % ExNumbers,
                                        !.random_int = shared.made])

Consumer1(t) == \/ Spinlock(t)
                \/ /\ Moves(t, "access", "reset") /\ UNCHANGED shared
                   /\ Holds(t, shared.random_int)

-----------------------------------------------------------------------------
\* Exercise 2: each thread locks its own copy of the mutex, so the accesses of
\* SListInsertBefore, SListSize and SlistRemove interleave.
InList == {"tail", "copy", "link", "walk", "get", "next", "shift", "fix"}

EntersList(t, to, v) ==
    /\ Moves(t, "lock", to) /\ Holds(t, v)
    /\ shared' = [shared EXCEPT !.crowd = @ \/ \E u \in DOMAIN at : at[u] \in InList]

Crash(t) == Moves(t, at[t], "end") /\ Sets([shared EXCEPT !.crashed = TRUE])
OnList(l) == shared' = [shared EXCEPT !.list = l]

\* hand is where the number goes, then the node made for what was there.
Producer2(t) ==
    LET l == shared.list
        new == Min(1..3 \ l.used)
    IN  \/ EntersList(t, "tail", [where |-> l.tail, new |-> NoNode])
        \/ /\ Moves(t, "tail", "copy")
           /\ OnList([l EXCEPT !.used = @ \cup {new},
                               !.tail = IF @ = hand[t].where THEN new ELSE @])
           /\ Holds(t, [hand[t] EXCEPT !.new = new])
        \/ /\ Moves(t, "copy", "link") /\ UNCHANGED hand
           /\ OnList([l EXCEPT !.data[hand[t].new] = l.data[hand[t].where],
                               !.next[hand[t].new] = l.next[hand[t].where]])
        \/ /\ Moves(t, "link", "end") /\ UNCHANGED hand
           /\ OnList([l EXCEPT !.data[hand[t].where] = t,
                               !.next[hand[t].where] = hand[t].new])

\* SListSize walks from the head to what was the tail; when the list is not
\* empty its head is read, overwritten with what follows, and that is freed.
Consumer2(t) ==
    LET l == shared.list
        h == hand[t]
    IN  \/ EntersList(t, "walk", [node |-> l.head, end |-> l.tail, count |-> 0])
        \/ /\ at[t] = "walk"
           /\ IF h.node = h.end
              THEN Moves(t, "walk", IF h.count = 0 THEN "end" ELSE "get") /\ Nothing
              ELSE IF l.next[h.node] = NoNode THEN Crash(t)
              ELSE /\ Holds(t, [h EXCEPT !.node = l.next[@], !.count = @ + 1])
                   /\ UNCHANGED <<at, shared>>
        \/ /\ Moves(t, "get", "next") /\ UNCHANGED hand
           /\ shared' = [shared EXCEPT !.taken = Append(@, l.data[l.head])]
        \/ /\ Moves(t, "next", "shift") /\ Holds(t, [h EXCEPT !.node = l.next[l.head]])
           /\ UNCHANGED shared
        \/ /\ at[t] = "shift"
           /\ IF h.node = NoNode THEN Crash(t)
              ELSE /\ Moves(t, "shift", "fix") /\ UNCHANGED hand
                   /\ OnList([l EXCEPT !.data[l.head] = l.data[h.node],
                                       !.next[l.head] = l.next[h.node],
                                       !.used = @ \ {h.node}])
        \/ /\ at[t] = "fix"
           /\ IF l.next[l.head] # NoNode THEN Moves(t, "fix", "end") /\ Nothing
              ELSE IF l.data[l.head] # ListData THEN Crash(t)
              ELSE /\ Moves(t, "fix", "end") /\ UNCHANGED hand
                   /\ OnList([l EXCEPT !.tail = l.head])

\* The numbers in the list, from its head.
ExListed(l) ==
    LET walk == FoldLeft(LAMBDA s, k : IF Last(s) \in {l.tail, NoNode} THEN s
                                       ELSE Append(s, l.next[Last(s)]),
                         <<l.head>>, <<1, 2, 3>>)
    IN  [k \in 1 .. Len(walk) - 1 |-> l.data[walk[k]]]

-----------------------------------------------------------------------------
\* Exercise 3, for ever: posts and pops are inside the mutex, waits are not.
Producer3(t) ==
    \/ Len(shared.queue) < ExLong /\ TakesMutex(t, "lock", "push")
    \/ /\ Moves(t, "push", "post")
       /\ Sets([shared EXCEPT !.queue = Append(@, shared.made), !.made = (@ + 1) % ExNumbers])
    \/ SemPosts(t, "out", "post", "unlock")
    \/ GivesMutex(t, "unlock", "lock")

\* Mutated form: the consumer reads the list before it has the mutex.
Consumer3Early(t) ==
    \/ SemWaits(t, "out", "wait", "read")
    \/ /\ Moves(t, "read", "lock") /\ UNCHANGED shared
       /\ Holds(t, IF shared.queue = <<>> THEN -1 ELSE shared.queue[1])
    \/ TakesMutex(t, "lock", "pop")
    \/ /\ Moves(t, "pop", "unlock")
       /\ Sets([shared EXCEPT !.queue = IF @ = <<>> THEN @ ELSE Tail(@),
                              !.crashed = @ \/ shared.queue = <<>>])
    \/ GivesMutex(t, "unlock", "wait")

Consumer3(t) ==
    \/ SemWaits(t, "out", "wait", "lock")
    \/ TakesMutex(t, "lock", "read")
    \/ /\ Moves(t, "read", "pop") /\ UNCHANGED shared
       /\ Holds(t, IF shared.queue = <<>> THEN -1 ELSE shared.queue[1])
    \/ /\ Moves(t, "pop", "unlock")
       /\ Sets([shared EXCEPT !.queue = IF @ = <<>> THEN @ ELSE Tail(@),
                              !.crashed = @ \/ shared.queue = <<>>])
    \/ GivesMutex(t, "unlock", "wait")

-----------------------------------------------------------------------------
\* Exercise 4, each thread once.  CBufferWrite and CBufferRead fail when there
\* is no room and nothing there, and ExitIfError ends the program.
FSQenqueue(t) == IF Len(shared.queue) < ExSize
                 THEN [shared EXCEPT !.queue = Append(@, t)]
                 ELSE [shared EXCEPT !.crashed = TRUE]
FSQdequeue == IF shared.queue # <<>>
              THEN [shared EXCEPT !.queue = Tail(@), !.taken = Append(@, shared.queue[1])]
              ELSE [shared EXCEPT !.crashed = TRUE]

\* Mutated form: the consumers post the semaphore that they wait for.
Consumer4WrongPost(t) == \/ SemWaits(t, "out", "wait", "lock")
                         \/ TakesMutex(t, "lock", "queue")
                         \/ Moves(t, "queue", "post") /\ Sets(FSQdequeue)
                         \/ SemPosts(t, "out", "post", "unlock")
                         \/ GivesMutex(t, "unlock", "end")

Producer4(t) == \/ SemWaits(t, "in", "wait", "lock")
                \/ TakesMutex(t, "lock", "queue")
                \/ Moves(t, "queue", "post") /\ Sets(FSQenqueue(t))
                \/ SemPosts(t, "out", "post", "unlock")
                \/ GivesMutex(t, "unlock", "end")

Consumer4(t) == \/ SemWaits(t, "out", "wait", "lock")
                \/ TakesMutex(t, "lock", "queue")
                \/ Moves(t, "queue", "post") /\ Sets(FSQdequeue)
                \/ SemPosts(t, "in", "post", "unlock")
                \/ GivesMutex(t, "unlock", "end")

\* The threads are joined before queue and semaphores are destroyed.
Exercise4 == /\ \A t \in DOMAIN at \ {ExMain} : at[t] = "end"
             /\ Moves(ExMain, "join", "end") /\ Nothing

-----------------------------------------------------------------------------
ExStep(t) ==
    /\ ~shared.crashed
    /\ \/ game = "exercise1" /\ IF t \in ExMakers THEN Producer1(t) ELSE Consumer1(t)
       \/ game = "exercise2" /\ IF t \in ExMakers THEN Producer2(t) ELSE Consumer2(t)
       \/ game = "exercise3" /\ IF t \in ExMakers THEN Producer3(t) ELSE Consumer3(t)
       \/ game = "exercise4" /\ t \in ExMakers /\ Producer4(t)
       \/ game = "exercise4" /\ t \in ExTakers /\ Consumer4(t)
       \/ game = "exercise4" /\ t = ExMain /\ Exercise4

ExNext == \E t \in DOMAIN at : ExStep(t) /\ UNCHANGED game

\* A number on its way is in the queue once, or in the hand of one consumer,
\* and the numbers come out in the order they went in.  What the semaphores
\* promise is there when it is used: an item, or room for one.  Where the mutex
\* is a copy (2), this is said of behaviours in which no two threads were in
\* the list at once; where it is a flag (1), nothing is.
ExNumbersArrive ==
    /\ game = "exercise2" /\ ~shared.crowd =>
          /\ ~shared.crashed
          /\ \A t \in ExMakers : at[t] = "end" =>
                \/ t \in ToSet(shared.taken)
                \/ t \in ToSet(ExListed(shared.list))
                \/ \E u \in DOMAIN at : at[u] \in InList
          /\ IsInjective(shared.taken)
    /\ game = "exercise3" =>
          /\ ~shared.crashed
          /\ \A k \in DOMAIN shared.queue :
                shared.queue[k] = (shared.made - Len(shared.queue) + k - 1) % ExNumbers
          /\ \A t \in ExTakers : at[t] = "pop" => hand[t] = shared.queue[1]
          /\ shared.sem.out + Quantify(ExTakers, LAMBDA t : at[t] \in {"lock", "read", "pop"})
             = Len(shared.queue) - (IF at[1] = "post" THEN 1 ELSE 0)
    /\ game = "exercise4" =>
          /\ ~shared.crashed
          /\ at[ExMain] = "end" => ToSet(shared.taken) = ExMakers /\ shared.queue = <<>>

\* Exercise 1 never leaves its flag set for good, and exercise 4 comes to an end.
ExAwaits == \/ game = "exercise1" /\ shared.spinlock = 1
            \/ game = "exercise4"
ExGets == \/ game = "exercise1" /\ shared.spinlock = 0
          \/ game = "exercise4" /\ at[ExMain] = "end"
=============================================================================

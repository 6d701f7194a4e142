------------------------------- MODULE SList --------------------------------
(***************************************************************************)
(* Daniel/src2/slist.c, a singly linked list whose iterators survive:      *)
(* insertion and removal move data between a node and its successor, and   *)
(* the data of the dummy at the tail is the list itself; and queue.c,      *)
(* which is a list used from both ends.                                    *)
(***************************************************************************)
EXTENDS Library

Slists    == {1, 2}
SlRef(l)  == -l   \* the data of the dummy of list l

SlInit == /\ store = [head |-> [l \in Slists |-> NULL],
                    tail |-> [l \in Slists |-> NULL],
                    next |-> [n \in 1..Cells |-> NULL],
                    data |-> [n \in 1..Cells |-> 0],
                    used |-> {}]
          /\ log = [l \in Slists |-> <<>>]

SlMade == {l \in Slists : store.head[l] # NULL}

RECURSIVE SlFrom(_, _, _)
SlFrom(m, from, to) == IF from = to THEN <<>>
                       ELSE <<from>> \o SlFrom(m, m.next[from], to)

SListIterBegin(m, l) == m.head[l]
SListIterEnd(m, l)   == m.tail[l]
SListGetData(m, n)   == m.data[n]
SlNodes(m, l) == SlFrom(m, SListIterBegin(m, l), SListIterEnd(m, l))
SlView(m, l)  == [i \in DOMAIN SlNodes(m, l) |-> SListGetData(m, SlNodes(m, l)[i])]
SListSize(m, l) == Len(SlNodes(m, l))

SListCreate(m, l) ==
    {m} \cup {[m EXCEPT !.head[l] = n, !.tail[l] = n, !.used = @ \cup {n},
                        !.data[n] = SlRef(l)] : n \in UNION Malloc(m.used)}

SlForgotten(m, nodes) ==
    [m EXCEPT !.used = @ \ nodes,
              !.next = [n \in 1..Cells |-> IF n \in nodes THEN NULL ELSE @[n]],
              !.data = [n \in 1..Cells |-> IF n \in nodes THEN 0 ELSE @[n]]]

SListDestroy(m, l) ==
    [SlForgotten(m, ToSet(SlFrom(m, m.head[l], NULL)))
        EXCEPT !.head[l] = NULL, !.tail[l] = NULL]

\* The new node takes over what where held; where gets the new data.
SListInsertBefore(m, l, where, d) ==
    {m} \cup {[m EXCEPT !.used = @ \cup {n}, !.tail[l] = IF @ = where THEN n ELSE @,
                        !.data[n] = m.data[where], !.next[n] = m.next[where],
                        !.data[where] = d, !.next[where] = n]
                : n \in UNION Malloc(m.used)}

\* what takes over its successor, which is freed; if that was the dummy, the
\* list named by its data gets a new tail.
SlistRemove(m, what) ==
    LET tmp == m.next[what]
        moved == SlForgotten([m EXCEPT !.data[what] = m.data[tmp],
                                       !.next[what] = m.next[tmp]], {tmp})
    IN  IF m.next[tmp] # NULL THEN moved
        ELSE [moved EXCEPT !.tail[-m.data[tmp]] = what]

SListSetData(m, n, d) == [m EXCEPT !.data[n] = d]

SListFind(m, from, to, d) ==
    LET nodes == SlFrom(m, from, to)
        hits == {i \in DOMAIN nodes : m.data[nodes[i]] = d}
    IN  IF hits = {} THEN to ELSE nodes[Min(hits)]

\* SListForEach with an action that fails at d: the data it saw, and its result.
SListForEach(m, from, to, d) ==
    LET nodes == SlFrom(m, from, to)
        n == SListFind(m, from, to, d)
        seen == IF n = to THEN nodes ELSE SubSeq(nodes, 1, SelectInSeq(nodes, LAMBDA k : k = n))
    IN  [seen |-> [i \in DOMAIN seen |-> m.data[seen[i]]], result |-> IF n = to THEN 0 ELSE 1]

\* Mutated form: the dummy that list1 takes over still names list2.
SListAppendUnnamed(m, list1, list2) ==
    IF m.next[m.head[list2]] = NULL THEN m
    ELSE LET h == m.head[list2] t == m.tail[list2]
         IN  [m EXCEPT !.data[m.tail[list1]] = m.data[h],
                       !.next[m.tail[list1]] = m.next[h],
                       !.data[h] = m.data[t], !.next[h] = NULL,
                       !.tail[list1] = t, !.tail[list2] = h]

\* list1 takes the nodes of list2 after the first, whose data moves into the
\* dummy of list1; the first node becomes the dummy of list2.
SListAppend(m, list1, list2) ==
    IF m.next[m.head[list2]] = NULL THEN m
    ELSE LET h == m.head[list2] t == m.tail[list2]
         IN  [m EXCEPT !.data[m.tail[list1]] = m.data[h],
                       !.next[m.tail[list1]] = m.next[h],
                       !.data[h] = m.data[t], !.next[h] = m.next[t],
                       !.data[t] = SlRef(list1),
                       !.tail[list1] = t, !.tail[list2] = h]

-----------------------------------------------------------------------------
\* queue.c

QueueCreate(m, l)       == SListCreate(m, l)
QueueDestroy(m, l)      == SListDestroy(m, l)
QueueEnqueue(m, l, d)   == SListInsertBefore(m, l, SListIterEnd(m, l), d)
QueueDequeue(m, l)      == SlistRemove(m, SListIterBegin(m, l))
QueuePeek(m, l)         == SListGetData(m, SListIterBegin(m, l))
QueueIsEmpty(m, l)      == SListIterBegin(m, l) = SListIterEnd(m, l)
QueueAppend(m, q1, q2)  == SListAppend(m, q1, q2)

-----------------------------------------------------------------------------
\* Clients of lists and of queues.

SlCall(m) == store' = m
SlLogged(l, s) == log' = IF store' = store THEN log ELSE [log EXCEPT ![l] = s]
SlEmptied(l) == log' = [log EXCEPT ![l] = <<>>]

SlAppends(l, k) == /\ l # k
                   /\ log' = [log EXCEPT ![l] = @ \o log[k], ![k] = <<>>]

QueueCalls(l) ==
    \/ \E d \in Values : /\ \E m \in QueueEnqueue(store, l, d) : SlCall(m)
                         /\ SlLogged(l, Append(log[l], d))
    \/ /\ ~QueueIsEmpty(store, l)
       /\ SlCall(QueueDequeue(store, l))
       /\ log' = [log EXCEPT ![l] = Tail(@)]
    \/ /\ SlCall(QueueDestroy(store, l))
       /\ SlEmptied(l)
    \/ \E k \in SlMade : SlAppends(l, k) /\ SlCall(QueueAppend(store, l, k))

SlistCalls(l) ==
    \/ \E i \in 1 .. Len(log[l]) + 1, d \in Values :
          /\ \E m \in SListInsertBefore(store, l, SlFrom(store, store.head[l], NULL)[i], d) :
                SlCall(m)
          /\ SlLogged(l, InsertAt(log[l], i, d))
    \/ \E i \in DOMAIN log[l] :
          /\ SlCall(SlistRemove(store, SlNodes(store, l)[i]))
          /\ log' = [log EXCEPT ![l] = RemoveAt(@, i)]
    \/ \E i \in DOMAIN log[l], d \in Values :
          /\ SlCall(SListSetData(store, SlNodes(store, l)[i], d))
          /\ log' = [log EXCEPT ![l][i] = d]
    \/ /\ SlCall(SListDestroy(store, l))
       /\ SlEmptied(l)
    \/ \E k \in SlMade : SlAppends(l, k) /\ SlCall(SListAppend(store, l, k))

SlNext == \/ \E l \in Slists \ SlMade :
                /\ \E m \in SListCreate(store, l) \cup QueueCreate(store, l) : SlCall(m)
                /\ UNCHANGED log
          \/ \E l \in SlMade : SlistCalls(l) \/ QueueCalls(l)

-----------------------------------------------------------------------------
\* However nodes change hands between lists, each list holds what its client
\* put there, ends in a dummy that names it, and owns its nodes alone; a walk
\* over it sees all of it, or up to where its action fails.
SlKeepsSequence ==
    /\ \A l \in SlMade :
          /\ SlView(store, l) = log[l]
          /\ SListSize(store, l) = Len(log[l])
          /\ store.data[store.tail[l]] = SlRef(l) /\ store.next[store.tail[l]] = NULL
          /\ QueueIsEmpty(store, l) = (log[l] = <<>>)
          /\ log[l] # <<>> => QueuePeek(store, l) = Head(log[l])
          /\ \A d \in Values :
                LET n == SListFind(store, store.head[l], store.tail[l], d)
                IN  IF n = store.tail[l] THEN ~Contains(log[l], d) ELSE store.data[n] = d
          /\ \A d \in Values :
                LET walk == SListForEach(store, store.head[l], store.tail[l], d)
                IN  /\ IsPrefix(walk.seen, log[l])
                    /\ IF walk.result = 0 THEN walk.seen = log[l] ELSE Last(walk.seen) = d
    /\ store.used = UNION {ToSet(SlFrom(store, store.head[l], NULL)) : l \in SlMade}
    /\ FoldSet(LAMBDA l, n : n + Len(log[l]) + 1, 0, SlMade) = Cardinality(store.used)
=============================================================================

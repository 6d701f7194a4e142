------------------------------- MODULE DList --------------------------------
(***************************************************************************)
(* Daniel/src2/dlist.c, a doubly linked list between two dummy nodes.      *)
(* Nodes of data are numbered from 1; the dummies of list l are its head   *)
(* and its tail.  An operator maps the memory before a call to the memory  *)
(* after it, or to the set of memories when malloc may fail.               *)
(***************************************************************************)
EXTENDS Library

Lists     == {1, 2}
DlHead(l) == -l
DlTail(l) == -l - 2
DlCells   == (-4..-1) \cup (1..Cells)

DlInit == /\ store = [next |-> [n \in DlCells |-> NULL],
                    prev |-> [n \in DlCells |-> NULL],
                    data |-> [n \in 1..Cells |-> 0],
                    used |-> {},       \* the nodes that are allocated
                    made |-> {},       \* the lists that are
                    structs |-> 0,     \* blocks of what is built on a list
                    broken |-> FALSE]  \* a sublist was spliced where it stood
          /\ log = [l \in Lists |-> <<>>]

RECURSIVE DlFrom(_, _, _)
DlFrom(m, from, to) == IF from = to THEN <<>>
                       ELSE <<from>> \o DlFrom(m, m.next[from], to)

RECURSIVE DlBack(_, _, _)
DlBack(m, from, to) == IF from = to THEN <<>>
                       ELSE <<from>> \o DlBack(m, m.prev[from], to)

DListIterBegin(m, l) == m.next[DlHead(l)]
DListIterEnd(l)      == DlTail(l)
DListIterNext(m, n)  == m.next[n]
DListIterPrev(m, n)  == m.prev[n]
DListGetData(m, n)   == m.data[n]
DListIterIsEqual(n1, n2) == n1 = n2
DlNodes(m, l)  == DlFrom(m, DListIterBegin(m, l), DListIterEnd(l))
DlPlaces(m, l) == ToSet(DlNodes(m, l)) \cup {DlTail(l)}
DlView(m, l)   == [i \in DOMAIN DlNodes(m, l) |-> m.data[DlNodes(m, l)[i]]]

DListIsEmpty(m, l) == m.next[DlHead(l)] = DlTail(l)
DListSize(m, l)    == Len(DlNodes(m, l))

\* Create: the dummies are linked, or what was allocated is freed again.
DListCreate(m, l) ==
    {m, [m EXCEPT !.made = @ \cup {l}, !.next[DlHead(l)] = DlTail(l),
                  !.prev[DlTail(l)] = DlHead(l)]}

\* What a freed node holds is forgotten.
DlForgotten(m, nodes) ==
    [m EXCEPT !.used = @ \ nodes,
              !.next = [n \in DlCells |-> IF n \in nodes THEN NULL ELSE @[n]],
              !.prev = [n \in DlCells |-> IF n \in nodes THEN NULL ELSE @[n]],
              !.data = [n \in 1..Cells |-> IF n \in nodes THEN 0 ELSE @[n]]]

DListDestroy(m, l) ==
    [DlForgotten(m, ToSet(DlNodes(m, l)) \cup {DlHead(l), DlTail(l)})
        EXCEPT !.made = @ \ {l}]

\* Mutated form: the predecessor keeps its old successor.
DListInsertUnlinked(m, where, d) ==
    {m} \cup {[m EXCEPT !.used = @ \cup {n}, !.data[n] = d, !.next[n] = where,
                        !.prev[n] = m.prev[where], !.prev[where] = n]
                 : n \in UNION Malloc(m.used)}

DListInsertBefore(m, where, d) ==
    LET before == m.prev[where]
    IN  {m} \cup {[m EXCEPT !.used = @ \cup {n}, !.data[n] = d,
                            !.next[n] = where, !.prev[n] = before,
                            !.next[before] = n, !.prev[where] = n]
                     : n \in UNION Malloc(m.used)}

DListPushBack(m, l, d)  == DListInsertBefore(m, DlTail(l), d)
DListPushFront(m, l, d) == DListInsertBefore(m, m.next[DlHead(l)], d)

DListRemove(m, what) ==
    DlForgotten([m EXCEPT !.prev[m.next[what]] = m.prev[what],
                          !.next[m.prev[what]] = m.next[what]], {what})

DListPopBack(m, l)  == DListRemove(m, DListIterPrev(m, DListIterEnd(l)))
DListPopFront(m, l) == DListRemove(m, DListIterBegin(m, l))

\* src_first to src_last, both included, are moved before dest_where.
DListSplice(m, dest_where, src_first, src_last) ==
    LET dest_prev == m.prev[dest_where]
        src_prev == m.prev[src_first]
        src_next == m.next[src_last]
    IN  [m EXCEPT !.next[src_prev] = src_next, !.prev[src_next] = src_prev,
                  !.next[dest_prev] = src_first, !.prev[src_first] = dest_prev,
                  !.prev[dest_where] = src_last, !.next[src_last] = dest_where,
                  !.broken = dest_where = src_next]

\* The first node of [from, to) whose data is one of those, else to.
DlFirst(m, from, to, those) ==
    LET nodes == DlFrom(m, from, to)
        hits == {i \in DOMAIN nodes : m.data[nodes[i]] \in those}
    IN  IF hits = {} THEN to ELSE nodes[Min(hits)]

DListFind(m, from, to, d) == DlFirst(m, from, to, {d})

\* The data of [from, to) that action_func was called with, until it failed on
\* one of those.
DListForEach(m, from, to, those) ==
    LET stop == DlFirst(m, from, to, those)
        visited == DlFrom(m, from, stop) \o (IF stop = to THEN <<>> ELSE <<stop>>)
    IN  [i \in DOMAIN visited |-> m.data[visited[i]]]

RECURSIVE DlPopped(_, _, _)
DlPopped(m, l, counter) ==
    IF counter = 0 THEN m ELSE DlPopped(DListPopBack(m, l), l, counter - 1)

\* All matches are pushed to results; a failed push pops those pushed before.
RECURSIVE DListMultiFind(_, _, _, _, _, _)
DListMultiFind(m, from, to, d, results, counter) ==
    IF from = to THEN {m}
    ELSE IF m.data[from] # d
    THEN DListMultiFind(m, m.next[from], to, d, results, counter)
    ELSE UNION {IF p = m THEN {DlPopped(m, results, counter)}
                ELSE DListMultiFind(p, p.next[from], to, d, results, counter + 1)
                  : p \in DListPushBack(m, results, d)}

-----------------------------------------------------------------------------
\* The clients.  The log is the content of each list, by the calls that
\* reported success.

Call(m) == store' = m
DlIndex(m, l, n) == CHOOSE i \in 1 .. Len(DlNodes(m, l)) + 1 :
                       n = IF i > Len(DlNodes(m, l)) THEN DlTail(l) ELSE DlNodes(m, l)[i]
Logged(l, s) == log' = IF store' = store THEN log ELSE [log EXCEPT ![l] = s]

DlLife(l) == \/ /\ l \notin store.made
                /\ \E m \in DListCreate(store, l) : Call(m)
                /\ UNCHANGED log
             \/ /\ l \in store.made
                /\ Call(DListDestroy(store, l))
                /\ log' = [log EXCEPT ![l] = <<>>]

DlPops(l) == /\ ~DListIsEmpty(store, l)
             /\ \/ Call(DListPopBack(store, l)) /\ log' = [log EXCEPT ![l] = Front(@)]
                \/ Call(DListPopFront(store, l)) /\ log' = [log EXCEPT ![l] = Tail(@)]

DlEdits(l) ==
    \/ \E n \in DlPlaces(store, l), d \in Values :
          /\ \E m \in DListInsertBefore(store, n, d) : Call(m)
          /\ Logged(l, InsertAt(log[l], DlIndex(store, l, n), d))
    \/ \E d \in Values : /\ \E m \in DListPushBack(store, l, d) : Call(m)
                         /\ Logged(l, Append(log[l], d))
    \/ \E d \in Values : /\ \E m \in DListPushFront(store, l, d) : Call(m)
                         /\ Logged(l, <<d>> \o log[l])
    \/ \E n \in ToSet(DlNodes(store, l)) :
          /\ Call(DListRemove(store, n))
          /\ log' = [log EXCEPT ![l] = RemoveAt(@, DlIndex(store, l, n))]

DlSplices(l, k) ==
    \E i, j \in DOMAIN log[k] : \E n \in DlPlaces(store, l) :
       LET nodes == DlNodes(store, k)
           moved == SubSeq(log[k], i, j)
           rest == SubSeq(log[k], 1, i - 1) \o SubSeq(log[k], j + 1, Len(log[k]))
           p == DlIndex(store, l, n)
       IN  /\ i <= j /\ (l = k => p \notin i..j)
           /\ Call(DListSplice(store, n, nodes[i], nodes[j]))
           /\ log' = IF l # k
                     THEN [log EXCEPT ![k] = rest,
                              ![l] = SubSeq(@, 1, p - 1) \o moved \o SubSeq(@, p, Len(@))]
                     ELSE LET q == IF p > j THEN p - Len(moved) ELSE p
                          IN  [log EXCEPT ![l] = SubSeq(rest, 1, q - 1) \o moved
                                                 \o SubSeq(rest, q, Len(rest))]

DlFinds(l, k) ==
    \E d \in Values :
       /\ \E m \in DListMultiFind(store, DListIterBegin(store, l), DListIterEnd(l),
                                  d, k, 0) : Call(m)
       /\ Logged(k, log[k] \o SelectSeq(log[l], LAMBDA e : e = d))

DlNext == /\ ~store.broken
          /\ \/ \E l \in Lists : DlLife(l)
             \/ \E l \in store.made : DlPops(l) \/ DlEdits(l)
             \/ \E l, k \in store.made : DlSplices(l, k) \/ (l # k /\ DlFinds(l, k))

-----------------------------------------------------------------------------
\* Read forwards and backwards, with every query, a list holds what its client
\* put there, and no node is lost or in two lists.  The one exception is a
\* sublist that is spliced in front of its own successor.
DlKeepsSequence ==
    ~store.broken =>
       /\ \A l \in store.made :
             /\ DlView(store, l) = log[l]
             /\ DlBack(store, store.prev[DlTail(l)], DlHead(l)) = Reverse(DlNodes(store, l))
             /\ DListSize(store, l) = Len(log[l])
             /\ DListIsEmpty(store, l) = (log[l] = <<>>)
             /\ \A d \in Values : LET n == DListFind(store, DListIterBegin(store, l), DlTail(l), d) IN
                   IF n = DlTail(l) THEN ~Contains(log[l], d) ELSE store.data[n] = d
             /\ DListForEach(store, DListIterBegin(store, l), DListIterEnd(l), {})
                = log[l]
       /\ store.used = UNION {ToSet(DlNodes(store, l)) : l \in store.made}
       /\ \A l, k \in store.made :
             l = k \/ ToSet(DlNodes(store, l)) \cap ToSet(DlNodes(store, k)) = {}
=============================================================================

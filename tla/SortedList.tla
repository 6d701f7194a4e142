----------------------------- MODULE SortedList ------------------------------
(***************************************************************************)
(* Daniel/src2/sorted_list.c on top of dlist.c ("sorted_list", a client of *)
(* two lists) and p_queue.c on top of that ("priority", a client of one    *)
(* queue).  The client's sort_func makes two data the equals of each other *)
(* so that where equals stand can be seen.                                 *)
(***************************************************************************)
EXTENDS DList

Rank(d) == d \div 2
sort_func(d, e) == Rank(d) - Rank(e)

\* Those that a list's elements are compared with as equals of d.
ConvertSortToIsMatch(d) == {e \in Values : sort_func(e, d) = 0}

\* The struct around a list, which goes with the list.
SrtListCreate(m, l) ==
    LET list == [m EXCEPT !.structs = @ + 1]
    IN  {m} \cup {IF l \in c.made THEN c ELSE [c EXCEPT !.structs = @ - 1]
                    : c \in DListCreate(list, l)}

SrtListDestroy(m, l) == [DListDestroy(m, l) EXCEPT !.structs = @ - 1]

SrtListIterBegin(m, l)    == DListIterBegin(m, l)
SrtListIterEnd(l)         == DListIterEnd(l)
SrtListIterNext(m, n)     == DListIterNext(m, n)
SrtListIterPrev(m, n)     == DListIterPrev(m, n)
SrtListGetData(m, n)      == DListGetData(m, n)
SrtListIterIsEqual(n1, n2) == DListIterIsEqual(n1, n2)
SrtListSize(m, l)         == DListSize(m, l)
SrtListIsEmpty(m, l)      == DListIsEmpty(m, l)
SrtListRemove(m, what)    == DListRemove(m, what)
SrtListPopBack(m, l)      == DListPopBack(m, l)
SrtListPopFront(m, l)     == DListPopFront(m, l)
SrtListForEach(m, from, to, those) == DListForEach(m, from, to, those)
SrtListFindIf(m, from, to, those)  == DlFirst(m, from, to, those)

SrtListFind(m, l, d) ==
    DlFirst(m, SrtListIterBegin(m, l), SrtListIterEnd(l), ConvertSortToIsMatch(d))

\* Mutated form: behind the equals.
SrtListInsertBehind(m, l, d) ==
    DListInsertBefore(m, DlFirst(m, DListIterBegin(m, l), DListIterEnd(l),
                                 {e \in Values : sort_func(e, d) > 0}), d)

\* Before the first that is not smaller, or at the end.
SrtListInsert(m, l, d) ==
    LET itr == DlFirst(m, DListIterBegin(m, l), DListIterEnd(l),
                       {e \in Values : sort_func(e, d) >= 0})
    IN  IF DListIterIsEqual(itr, DListIterEnd(l)) THEN DListPushBack(m, l, d)
        ELSE DListInsertBefore(m, itr, d)

\* Before each node of dest the nodes of src that are not greater are spliced;
\* what is greater than all of dest stays in src.
RECURSIVE SrtMergeFrom(_, _, _)
SrtMergeFrom(m, dest_itr, src) ==
    IF dest_itr \notin 1..Cells THEN m
    ELSE LET src_first == SrtListIterBegin(m, src)
             src_last == DlFirst(m, src_first, SrtListIterEnd(src),
                            {e \in Values : sort_func(SrtListGetData(m, dest_itr), e) < 0})
             moved == IF src_first = src_last THEN m
                      ELSE DListSplice(m, dest_itr, src_first, SrtListIterPrev(m, src_last))
         IN  SrtMergeFrom(moved, SrtListIterNext(moved, dest_itr), src)

SortListMerge(m, dest, src) == SrtMergeFrom(m, SrtListIterBegin(m, dest), src)

-----------------------------------------------------------------------------
\* p_queue.c: the first element is the one at the back.

PQueueCreate(m, l) ==
    LET queue == [m EXCEPT !.structs = @ + 1]
    IN  {m} \cup {IF l \in c.made THEN c ELSE [c EXCEPT !.structs = @ - 1]
                    : c \in SrtListCreate(queue, l)}

PQueueDestroy(m, l) == [SrtListDestroy(m, l) EXCEPT !.structs = @ - 1]
PQueueEnqueue(m, l, d) == SrtListInsert(m, l, d)
PQueueDequeue(m, l) == SrtListPopBack(m, l)
PQueuePeek(m, l)    == SrtListGetData(m, SrtListIterPrev(m, SrtListIterEnd(l)))
PQueueIsEmpty(m, l) == SrtListIsEmpty(m, l)
PQueueSize(m, l)    == SrtListSize(m, l)

RECURSIVE PQueueClear(_, _)
PQueueClear(m, l) == IF PQueueIsEmpty(m, l) THEN m ELSE PQueueClear(PQueueDequeue(m, l), l)

\* Without a match the queue stays as it is, and that is returned.
PQueueErase(m, l, those) ==
    LET itr == SrtListFindIf(m, SrtListIterBegin(m, l), SrtListIterEnd(l), those)
    IN  IF SrtListIterIsEqual(itr, SrtListIterEnd(l)) THEN m ELSE SrtListRemove(m, itr)

-----------------------------------------------------------------------------
\* The client of two lists.  The log is what they hold by the calls that
\* reported success, those of a rank with the newest first.

SrtLife(l) == \/ /\ l \notin store.made /\ UNCHANGED log
                 /\ \E m \in SrtListCreate(store, l) : Call(m)
              \/ /\ l \in store.made /\ Call(SrtListDestroy(store, l))
                 /\ log' = [log EXCEPT ![l] = <<>>]

SrtInserts(l) == \E d \in Values :
    /\ \E m \in SrtListInsert(store, l, d) : Call(m)
    /\ Logged(l, SelectSeq(log[l], LAMBDA e : Rank(e) < Rank(d)) \o <<d>>
                 \o SelectSeq(log[l], LAMBDA e : Rank(e) >= Rank(d)))

SrtRemoves(l) ==
    \/ \E n \in ToSet(DlNodes(store, l)) :
          /\ Call(SrtListRemove(store, n))
          /\ log' = [log EXCEPT ![l] = RemoveAt(@, DlIndex(store, l, n))]
    \/ /\ ~SrtListIsEmpty(store, l) /\ Call(SrtListPopFront(store, l))
       /\ log' = [log EXCEPT ![l] = Tail(@)]

\* Both by rank, where they have equals those of k come first.
SrtMerged(l, k) ==
    FlattenSeq([r \in 1 .. Max(Values) + 1 |->
                   SelectSeq(log[k], LAMBDA e : Rank(e) = r - 1)
                   \o SelectSeq(log[l], LAMBDA e : Rank(e) = r - 1)])

\* What is greater than all of l stays in k.
SrtMerges(l, k) ==
    LET Fits(e) == \E i \in DOMAIN log[l] : Rank(e) <= Rank(log[l][i])
    IN  /\ Call(SortListMerge(store, l, k))
        /\ log' = [log EXCEPT ![l] = SelectSeq(SrtMerged(l, k), Fits),
                              ![k] = SelectSeq(@, LAMBDA e : ~Fits(e))]

SrtNext == \/ \E l \in Lists : SrtLife(l)
           \/ \E l \in store.made : SrtInserts(l) \/ SrtRemoves(l)
           \/ \E l, k \in store.made : l # k /\ SrtMerges(l, k)

\* The client of one queue.  The log is what is in it, as it came.
TheQueue == CHOOSE l \in Lists : TRUE
Arrived  == log[TheQueue]

\* Where the oldest of the highest rank is, and the newest d.
FirstOut == CHOOSE i \in DOMAIN Arrived : \A j \in DOMAIN Arrived :
                \/ Rank(Arrived[i]) > Rank(Arrived[j])
                \/ Rank(Arrived[i]) = Rank(Arrived[j]) /\ i <= j
Newest(d) == Max({i \in DOMAIN Arrived : Arrived[i] = d})

PrNext ==
    \/ /\ store.made = {} /\ UNCHANGED log
       /\ \E m \in PQueueCreate(store, TheQueue) : Call(m)
    \/ /\ store.made # {}
       /\ \/ \E d \in Values : /\ \E m \in PQueueEnqueue(store, TheQueue, d) : Call(m)
                               /\ Logged(TheQueue, Append(Arrived, d))
          \/ /\ ~PQueueIsEmpty(store, TheQueue)
             /\ Call(PQueueDequeue(store, TheQueue))
             /\ log' = [log EXCEPT ![TheQueue] = RemoveAt(@, FirstOut)]
          \/ \E d \in Values :
                /\ Call(PQueueErase(store, TheQueue, {d}))
                /\ log' = IF ~Contains(Arrived, d) THEN log
                          ELSE [log EXCEPT ![TheQueue] = RemoveAt(@, Newest(d))]
          \/ /\ store' \in {PQueueClear(store, TheQueue), PQueueDestroy(store, TheQueue)}
             /\ log' = [log EXCEPT ![TheQueue] = <<>>]

-----------------------------------------------------------------------------
\* Whatever is inserted, merged and removed, sorted lists hold what they are
\* told, by rank and then by age; a search finds the newest of its rank and a
\* walk stops where its action fails.  A merge moves what is not greater than all
\* of the first list and leaves the rest in the second, in its order, where
\* sorted_list.h:151 says that the second should remain empty; nothing is lost.
SrtIsSorted ==
    /\ DlKeepsSequence
    /\ store.structs = Cardinality(store.made)
    /\ \A l \in store.made :
          /\ InOrder([i \in DOMAIN DlView(store, l) |-> Rank(DlView(store, l)[i])])
          /\ \A d \in Values :
                LET n == SrtListFind(store, l, d)
                    before == SelectInSeq(log[l], LAMBDA e : Rank(e) = Rank(d))
                IN  /\ (n = SrtListIterEnd(l)) = (before = 0)
                    /\ n # SrtListIterEnd(l) =>
                          SrtListForEach(store, SrtListIterBegin(store, l), SrtListIterEnd(l),
                                         ConvertSortToIsMatch(d)) = SubSeq(log[l], 1, before)

\* A priority queue gives the oldest of the highest rank, however many have come
\* and gone; its blocks come and go with it, whichever cannot be had.
PriorityIsKept ==
    /\ store.structs = 2 * Cardinality(store.made)
    /\ store.made # {} =>
          /\ SameBag(DlView(store, TheQueue), Arrived)
          /\ PQueueSize(store, TheQueue) = Len(Arrived)
          /\ ~PQueueIsEmpty(store, TheQueue) =>
                PQueuePeek(store, TheQueue) = Arrived[FirstOut]
=============================================================================

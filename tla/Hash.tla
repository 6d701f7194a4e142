--------------------------------- MODULE Hash -------------------------------
(***************************************************************************)
(* Daniel/src2/hash.c: a table of lists of key-value elements. The lists   *)
(* are sequences here, DList shows them in detail; the elements are blocks *)
(* of their own. The keys are the Values. Wes/src/hash.c ("wes_hash") has  *)
(* the same calls and errors of its own. HashFind and HashForEach are      *)
(* declared in both and not defined.                                       *)
(***************************************************************************)
EXTENDS Library

HsBuckets == {0, 1}
hash_func(key) == key % 2
HsEmptyTable == [b \in HsBuckets |-> <<>>]

HsInit == /\ store = [table |-> HsEmptyTable, key |-> [e \in 1..Cells |-> 0],
                     used |-> {}, made |-> FALSE, faulted |-> FALSE]
          /\ log = <<>>

\* When a list is not created, the one that is not there is destroyed i times.
HashCreate(m) == {m, [m EXCEPT !.made = TRUE], [m EXCEPT !.faulted = TRUE]}

\* FreeData returns 0, which ends DListForEach: the first element of each list
\* is freed, the others are lost.
HashDestroy(m) ==
    [m EXCEPT !.made = FALSE, !.table = HsEmptyTable,
              !.used = @ \ {Head(m.table[b]) : b \in {c \in HsBuckets : m.table[c] # <<>>}}]

\* Mutated form: a new element goes to the front of its list.
HashInsertFront(m, key) ==
    {m} \cup UNION {{[m EXCEPT !.used = @ \cup {e}, !.key[e] = key],
                     [m EXCEPT !.used = @ \cup {e}, !.key[e] = key,
                               !.table[hash_func(key)] = <<e>> \o @]}
                      : e \in UNION Malloc(m.used)}

\* An element whose list does not grow stays allocated.
HashInsert(m, key) ==
    {m} \cup UNION {{[m EXCEPT !.used = @ \cup {e}, !.key[e] = key],
                     [m EXCEPT !.used = @ \cup {e}, !.key[e] = key,
                               !.table[hash_func(key)] = Append(@, e)]}
                      : e \in UNION Malloc(m.used)}

\* Where the key is in its list; one past the end stands for the dummy.
DListFindForHash(m, key) ==
    LET list == m.table[hash_func(key)]
        hits == {i \in DOMAIN list : m.key[list[i]] = key}
    IN  IF hits = {} THEN Len(list) + 1 ELSE Min(hits)

\* The iterator is removed when it is NULL, which it never is.
HashRemove(m, key) == IF DListFindForHash(m, key) = NULL
                      THEN [m EXCEPT !.table[hash_func(key)] = RemoveAt(@, NULL)] ELSE m

HashSize(m)    == FoldSet(LAMBDA b, n : n + Len(m.table[b]), 0, HsBuckets)
HashIsEmpty(m) == HashSize(m) = 0

-----------------------------------------------------------------------------
HsNext ==
    /\ ~store.faulted
    /\ \/ /\ ~store.made
          /\ \E m \in HashCreate(store) : store' = m
          /\ UNCHANGED log
       \/ /\ store.made
          /\ \/ \E key \in Values :
                   /\ \E m \in HashInsert(store, key) : store' = m
                   /\ log' = IF store'.table = store.table THEN log ELSE Append(log, key)
             \/ \E key \in Values : store' = HashRemove(store, key) /\ UNCHANGED log
             \/ store' = HashDestroy(store) /\ log' = <<>>

\* The list of a bucket holds the keys that belong there in the order of their
\* insertion and nothing else, and no element is in two places or freed while it
\* is linked.  HashRemove never removes one, against hash.h:45, and elements that
\* an insertion without memory for its node or HashDestroy lose stay allocated:
\* those are not promised here.
HsHoldsKeys ==
    ~store.faulted =>
       /\ \A b \in HsBuckets : [i \in DOMAIN store.table[b] |-> store.key[store.table[b][i]]]
                               = SelectSeq(log, LAMBDA k : hash_func(k) = b)
       /\ UNION {ToSet(store.table[b]) : b \in HsBuckets} \subseteq store.used
       /\ IsInjective(store.table[0] \o store.table[1])
       /\ HashSize(store) = Len(log) /\ HashIsEmpty(store) = (log = <<>>)

-----------------------------------------------------------------------------
\* Wes/src/hash.c
WsBuckets == {0, 1}
WsHash(key) == key % 2
WsEmptyTable == [b \in WsBuckets |-> <<>>]

\* elem is what the blocks of elements hold, used those that are allocated;
\* asserts says whether the program was built with them.
WhInit == /\ \E asserts \in BOOLEAN :
                store = [asserts |-> asserts, table |-> WsEmptyTable, used |-> {}, made |-> FALSE,
                         elem |-> [e \in 1..Cells |-> [key |-> 0, val |-> 0]],
                         shown |-> <<>>, state |-> "good"]
          /\ log = [entries |-> <<>>, lost |-> 0]

\* When list i cannot be had, DListDestroy is called i times with the NULL that
\* came in its place.
WesHashCreate(m) ==
    {m, [m EXCEPT !.made = TRUE], [m EXCEPT !.state = IF m.asserts THEN "aborted" ELSE "crashed"]}

\* FreeData returns 0, which ends the walk over a list at its first element.
WesHashDestroy(m) ==
    [m EXCEPT !.made = FALSE, !.table = WsEmptyTable, !.shown = <<>>,
              !.used = @ \ {Head(m.table[b]) : b \in {c \in WsBuckets : m.table[c] # <<>>}}]

\* Where the key is in its list; one past the end stands for the dummy.
WesFindForHash(m, key) ==
    LET list == m.table[WsHash(key)]
    IN  Min({i \in DOMAIN list : m.elem[list[i]].key = key} \cup {Len(list) + 1})

\* Mutated form: the element goes and its node stays.
WesHashRemoveHalf(m, key) ==
    LET list == m.table[WsHash(key)]
        i == WesFindForHash(m, key)
    IN  IF i > Len(list) THEN [m EXCEPT !.state = "crashed"] ELSE [m EXCEPT !.used = @ \ {list[i]}]

\* The iterator is never NULL: for a key that is not there the dummy goes, with
\* the data that it never had.
WesHashRemove(m, key) ==
    LET list == m.table[WsHash(key)]
        i == WesFindForHash(m, key)
    IN  IF i > Len(list) THEN [m EXCEPT !.state = "crashed"]
        ELSE [m EXCEPT !.used = @ \ {list[i]}, !.table[WsHash(key)] = RemoveAt(@, i)]

\* An element whose list does not grow stays allocated.
WesHashInsert(m, key, val) ==
    {m} \cup UNION {LET made == [m EXCEPT !.used = @ \cup {e}, !.elem[e] = [key |-> key, val |-> val]]
                    IN  {made, [made EXCEPT !.table[WsHash(key)] = Append(@, e)]}
                      : e \in UNION Malloc(m.used)}

WesHashSize(m)    == FoldSet(LAMBDA b, n : n + Len(m.table[b]), 0, WsBuckets)
WesHashIsEmpty(m) == WesHashSize(m) = 0

\* HashPrint gives DListForEach no parameters, which asserts that it has some;
\* without asserts each list is printed up to where actionPrint, which returns
\* nothing, seems to have returned 0.
WesHashPrint(m) ==
    IF m.asserts THEN {[m EXCEPT !.state = "aborted"]}
    ELSE {[m EXCEPT !.shown = SubSeq(m.table[0], 1, i) \o SubSeq(m.table[1], 1, j)]
            : i \in {n \in 0 .. Len(m.table[0]) : n > 0 \/ m.table[0] = <<>>},
              j \in {n \in 0 .. Len(m.table[1]) : n > 0 \/ m.table[1] = <<>>}}

WhOf(key) == SelectSeq(log.entries, LAMBDA e : e.key = key)

WhNext ==
    /\ store.state = "good"
    /\ \/ /\ ~store.made /\ UNCHANGED log
          /\ \E m \in WesHashCreate(store) : store' = m
       \/ /\ store.made
          /\ \/ \E key \in Values, val \in {0, 1} :
                   /\ \E m \in WesHashInsert(store, key, val) : store' = [m EXCEPT !.shown = <<>>]
                   /\ log' = IF store'.table # store.table
                             THEN [log EXCEPT !.entries = Append(@, [key |-> key, val |-> val])]
                             ELSE [log EXCEPT !.lost = @ + Cardinality(store'.used \ store.used)]
             \/ \E key \in Values :
                   /\ store' = [WesHashRemove(store, key) EXCEPT !.shown = <<>>]
                   /\ log' = IF WhOf(key) = <<>> THEN log
                             ELSE [log EXCEPT !.entries = RemoveFirst(@, Head(WhOf(key)))]
             \/ \E m \in WesHashPrint(store) : store' = m /\ UNCHANGED log
             \/ /\ store' = WesHashDestroy(store)
                /\ log' = [entries |-> <<>>, lost |-> Cardinality(store'.used)]

\* Each list holds the entries of its bucket in the order of their insertion; of
\* two with one key the older goes first; an element is linked once and never
\* freed while it is; those in use that no list holds are the ones that a failed
\* insertion or HashDestroy lost, and HashPrint shows at least the first of each
\* list and no other list's in between.
WhHoldsEntries ==
    LET in(b) == store.table[b]
    IN  store.state = "good" =>
           /\ \A b \in WsBuckets : [i \in DOMAIN in(b) |-> store.elem[in(b)[i]]]
                                     = SelectSeq(log.entries, LAMBDA e : WsHash(e.key) = b)
           /\ IsInjective(in(0) \o in(1)) /\ ToSet(in(0) \o in(1)) \subseteq store.used
           /\ Cardinality(store.used) = Len(log.entries) + log.lost
           /\ WesHashSize(store) = Len(log.entries)
           /\ WesHashIsEmpty(store) = (log.entries = <<>>)
           /\ SelectSeq(store.shown, LAMBDA e : e \in ToSet(in(0)))
              \o SelectSeq(store.shown, LAMBDA e : e \in ToSet(in(1))) = store.shown
=============================================================================

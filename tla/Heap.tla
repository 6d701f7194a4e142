--------------------------------- MODULE Heap -------------------------------
(***************************************************************************)
(* Daniel/src2/heap.c on the vector of Wes/src/vector.c, and PrintHeap of  *)
(* Wes/src/heap.c; then the heaps of Wes/src/heap.c and Wes/tmp/heap.c     *)
(* ("wes_heap"). HeapPop and HeapRemove are declared and not defined.      *)
(* HeapPush takes the addresses of the new element and its parent before   *)
(* the vector may move its block.                                          *)
(***************************************************************************)
EXTENDS Arrays

CAPACITY == 2    \* 30 in the code

HeapCreate == [arr |-> <<>>, capacity |-> CAPACITY, stale |-> FALSE]
HpInit == store = HeapCreate /\ log = <<>>

GetParentIdx(idx_child) == IF idx_child \in 0..2 THEN 0
                           ELSE IF idx_child % 2 = 0 THEN (idx_child - 2) \div 2
                           ELSE (idx_child - 1) \div 2

SwapArrElements(arr, i, j) == [arr EXCEPT ![i] = arr[j], ![j] = arr[i]]

\* Indices start at 0 in the code, at 1 in the sequence.
HpAt(arr, idx) == arr[idx + 1]
is_before(x, y) == x > y

\* Mutated form: the element is compared with its parent once.
HpUpOnce(arr, idx) ==
    IF is_before(HpAt(arr, idx), HpAt(arr, GetParentIdx(idx)))
    THEN SwapArrElements(arr, idx + 1, GetParentIdx(idx) + 1) ELSE arr

\* The loop of HeapPush: the element rises while it is before its parent.
RECURSIVE HpUp(_, _)
HpUp(arr, idx) ==
    IF is_before(HpAt(arr, idx), HpAt(arr, GetParentIdx(idx)))
    THEN HpUp(SwapArrElements(arr, idx + 1, GetParentIdx(idx) + 1), GetParentIdx(idx))
    ELSE arr

HeapSize(m)    == Len(m.arr)
HeapIsEmpty(m) == HeapSize(m) = 0
HeapPeek(m)    == HpAt(m.arr, HeapSize(m) - 1)

\* VectorPushBack fails, or makes room in place, or moves the block: then the
\* loop reads and swaps in the freed one.
HeapPush(m, d) ==
    LET pushed == [m EXCEPT !.arr = HpUp(Append(@, d), HeapSize(m))]
    IN  IF HeapSize(m) < m.capacity THEN {pushed}
        ELSE {m, [pushed EXCEPT !.capacity = 2 * @],
              [m EXCEPT !.arr = Append(@, d), !.capacity = 2 * @, !.stale = TRUE]}

\* How many numbers PrintHeap reads from treeSpaces: two for each level.
RECURSIVE HpLevels(_, _)
HpLevels(curIdx, nodes_on_level) ==
    IF curIdx <= 0 THEN 0 ELSE 1 + HpLevels(curIdx - nodes_on_level, 2 * nodes_on_level)
PrintHeap(vectorSize) == 2 * HpLevels(vectorSize, 1)

HpNext == \/ /\ ~store.stale /\ HeapSize(store) < Cells + 2
             /\ \E d \in Values :
                   /\ \E m \in HeapPush(store, d) : store' = m
                   /\ log' = IF store' = store THEN log ELSE Append(log, d)
          \/ store' = HeapCreate /\ log' = <<>>   \* destroyed, and a new one

\* Each element is not before its parent, and what was pushed is in the heap,
\* until the block has moved under a push.
HpIsHeap == /\ SameBag(store.arr, log)
            /\ HeapIsEmpty(store) = (log = <<>>)
            /\ ~store.stale => \A i \in 0 .. HeapSize(store) - 1 :
                  ~is_before(HpAt(store.arr, i), HpAt(store.arr, GetParentIdx(i)))
            /\ ~HeapIsEmpty(store) => Contains(log, HeapPeek(store))

\* The 12 numbers of treeSpaces are enough for 63 elements and no more.
ASSUME PrintHeapReads == \A n \in 0..70 : PrintHeap(n) <= 12 <=> n <= 63

-----------------------------------------------------------------------------
\* The heaps; vector is a second vector of Arrays.  strict says what the user's
\* is_before makes of equal elements.
WvInit == /\ \E of \in {"src", "tmp"}, strict \in BOOLEAN :
                store = [of |-> of, strict |-> strict, vector |-> ArNone, made |-> FALSE, state |-> "good"]
          /\ log = <<>>

WsCapacity == 2    \* CAPACITY, 30 in the code

WesVectorCreate(capacity)        == ArCreate(capacity)
WesVectorGetAccess(vector, i)    == vector.data[i + 1]
WesVectorSize(vector)            == vector.size
WesBefore(m, x, y)               == IF m.strict THEN x > y ELSE x >= y

\* The vector may be NULL, which every operation of a vector asserts that it is
\* not, or read from all the same.
WesHeapCreate(m) ==
    {m, [m EXCEPT !.made = TRUE, !.vector.made = FALSE]}
    \cup {[m EXCEPT !.made = TRUE, !.vector = v] : v \in WesVectorCreate(WsCapacity)}

WesHeapDestroy(m) == [m EXCEPT !.made = FALSE, !.vector = ArDestroy(@),
                               !.state = IF m.vector.made THEN @ ELSE "crashed"]

WesParentIdx(idx_child) == IF idx_child = 0 THEN 0 ELSE (idx_child - 1) \div 2

WesSwapPtr(m, i, j) == [m EXCEPT !.vector.data = SwapArrElements(@, i + 1, j + 1)]

\* The loop of src's HeapPush, which has no end at the root when equal elements
\* are before each other.
RECURSIVE WesUp(_, _)
WesUp(m, idx_child) ==
    LET idx_parent == WesParentIdx(idx_child)
        data(i) == WesVectorGetAccess(m.vector, i)
    IN  IF ~WesBefore(m, data(idx_child), data(idx_parent)) THEN m
        ELSE IF idx_child = 0 THEN [m EXCEPT !.state = "endless"]
        ELSE WesUp(WesSwapPtr(m, idx_child, idx_parent), idx_parent)

\* Mutated form: the loop ends one level below the root.
TmpUpShort(m, idx_child) ==
    LET idx_parent == WesParentIdx(idx_child)
        data(i) == WesVectorGetAccess(m.vector, i)
    IN  IF idx_parent = 0 \/ ~WesBefore(m, data(idx_child), data(idx_parent)) THEN m
        ELSE WesSwapPtr(m, idx_child, idx_parent)

\* The loop of tmp's HeapPush, which ends when an element becomes the root.
RECURSIVE TmpUp(_, _)
TmpUp(m, idx_child) ==
    LET idx_parent == WesParentIdx(idx_child)
        data(i) == WesVectorGetAccess(m.vector, i)
        swapped == WesSwapPtr(m, idx_child, idx_parent)
    IN  IF ~WesBefore(m, data(idx_child), data(idx_parent)) THEN m
        ELSE IF idx_parent = 0 THEN swapped ELSE TmpUp(swapped, idx_parent)

\* The addresses of the new element and its parent are taken before the vector
\* may move its block.
WesHeapPush(m, d) ==
    LET old == m.vector
        put(v) == [m EXCEPT !.vector = v]
        up(v) == IF m.of = "src" THEN WesUp(put(v), old.size) ELSE TmpUp(put(v), old.size)
    IN  IF ~old.made \/ old.block = "null" THEN {[m EXCEPT !.state = "crashed"]}
        ELSE UNION {CASE v.size = old.size         -> {put(v)}
                      [] v.capacity = old.capacity /\ v.size > old.size -> {up(v)}
                      [] v.capacity > old.capacity -> {up(v), [put(v) EXCEPT !.state = "stale"]}
                      : v \in VectorPushBack2(old, d)}

WesHeapSize(m)    == WesVectorSize(m.vector)
WesHeapIsEmpty(m) == WesHeapSize(m) = 0
WesHeapPeek(m)    == WesVectorGetAccess(m.vector, WesHeapSize(m) - 1)

\* What PrintHeap prints on each line: 1, 2, 4 .. elements of those that are left.
RECURSIVE WesPrintHeap(_, _)
WesPrintHeap(left, nodes_on_level) ==
    IF left = <<>> THEN <<>>
    ELSE LET n == Min({nodes_on_level, Len(left)})
         IN  <<SubSeq(left, 1, n)>> \o WesPrintHeap(SubSeq(left, n + 1, Len(left)), 2 * nodes_on_level)

WvNext ==
    /\ store.state = "good"
    /\ \/ ~store.made /\ (\E m \in WesHeapCreate(store) : store' = m) /\ UNCHANGED log
       \/ /\ store.made /\ log' = <<>>
          /\ store' = WesHeapDestroy(store)
       \/ /\ store.made /\ WesHeapSize(store) < Cells + 2
          /\ \E d \in Values :
                /\ \E m \in WesHeapPush(store, d) : store' = m
                /\ log' = IF WesHeapSize(store') = WesHeapSize(store) THEN log ELSE Append(log, d)

\* The heap holds what was pushed, no element before its parent, and PrintHeap's
\* lines show it, parents above their children; a push never ends only in src's
\* heap and only for equal elements, and looks at freed memory only when the
\* vector was full.
WvIsHeap ==
    LET size == WesHeapSize(store)
        arr == SubSeq(store.vector.data, 1, size)
        lines == WesPrintHeap(arr, 1)
    IN  /\ SameBag(arr, log)
        /\ store.state = "good" /\ store.made =>
              /\ \A i \in 0 .. size - 1 :
                    LET x == WesVectorGetAccess(store.vector, i)
                        up == WesVectorGetAccess(store.vector, WesParentIdx(i))
                    IN  x <= up
              /\ WesHeapIsEmpty(store) = (log = <<>>)
              /\ ~WesHeapIsEmpty(store) => Contains(log, WesHeapPeek(store))
              /\ FoldLeft(LAMBDA s, t : s \o t, <<>>, lines) = arr
              /\ \A k \in 2 .. Len(lines) : \A i \in DOMAIN lines[k] :
                    lines[k][i] <= lines[k - 1][(i + 1) \div 2]
        /\ store.state = "endless" => store.of = "src" /\ ~store.strict
        /\ store.state = "stale" => size = store.vector.capacity \div 2 + 1
        /\ store.state = "crashed" => ~store.vector.made \/ store.vector.block = "null"
=============================================================================

------------------------------ MODULE Sorting -------------------------------
(***************************************************************************)
(* Daniel/src2/sort_funcs.c.  One step is one turn of an inner loop, or    *)
(* one of the outer.  CountingSortt and RadixSortImp are taken as they are *)
(* meant: the file calls calloc with one argument and RadixSortImp with    *)
(* one too many.                                                           *)
(***************************************************************************)
EXTENDS Library

CONSTANTS INT_MAX,
          SoRadix,      \* hist_size, 16 in the code
          SoDigits      \* num_of_iterations, 8 in the code

\* After an even number of iterations arr is the caller's array again.
ASSUME SortingAssumption ==
    /\ INT_MAX \in Nat /\ Values \subseteq 0..INT_MAX
    /\ SoRadix \in Nat \ {0} /\ SoDigits \in Nat /\ SoDigits % 2 = 0

SoSorts == {"Bubble", "Selection", "Insertion", "Counting", "Radix"}

FindMin(arr) == Min({arr[l] : l \in DOMAIN arr})
FindMax(arr) == Max({arr[l] : l \in DOMAIN arr})

\* arr is indexed from 0, as in the code.  num is index in SelectionSort and
\* sort_num in InsertionSort, sum is tmp1 in CountingSortt and sum_prev in
\* RadixSortImp; weight is 2 ^ (k * bits), by which a shift divides.  CountingSortt
\* is not given INT_MAX, with which the length of lut would overflow.
SoInit == \E s \in SoSorts, n \in 1..Cells : \E arr \in [0 .. n - 1 -> Values] :
    /\ store = [sort |-> s, size |-> n, arr |-> arr, phase |-> "outer", num |-> 0,
                i |-> IF s = "Insertion" THEN 1 ELSE 0, j |-> 0, lut |-> <<>>, sum |-> 0,
                result |-> [l \in 0 .. n - 1 |-> 0], weight |-> 1]
    /\ log = arr
    /\ s = "Counting" => FindMax(arr) < INT_MAX

SwapInt(arr, a, b) == [arr EXCEPT ![a] = arr[b], ![b] = arr[a]]

Leave(m) == [m EXCEPT !.phase = "outer", !.i = @ + 1]

\* Mutated form: the inner loop stops one element too early.
BubbleStepShort(m) ==
    IF m.j < m.size - 2 - m.i
    THEN [m EXCEPT !.arr = IF @[m.j] > @[m.j + 1] THEN SwapInt(@, m.j, m.j + 1) ELSE @, !.j = @ + 1]
    ELSE Leave(m)

BubbleStep(m) ==
    IF m.j < m.size - 1 - m.i
    THEN [m EXCEPT !.arr = IF @[m.j] > @[m.j + 1] THEN SwapInt(@, m.j, m.j + 1) ELSE @, !.j = @ + 1]
    ELSE Leave(m)

SelectionStep(m) ==
    IF m.j < m.size
    THEN [m EXCEPT !.num = IF m.arr[m.j] < m.arr[@] THEN m.j ELSE @, !.j = @ + 1]
    ELSE [Leave(m) EXCEPT !.arr = SwapInt(@, m.i, m.num)]

\* arr[-1] is read before j is tested; whatever is there, the loop ends.
InsertionStep(m) ==
    IF m.j >= 0 /\ m.num < m.arr[m.j]
    THEN [m EXCEPT !.arr = SwapInt(@, m.j + 1, m.j), !.j = @ - 1]
    ELSE Leave(m)

\* Where a value is counted: lut has an entry for each value between the least
\* and the greatest, hist for each digit.
SoKey(m, v) == IF m.sort = "Counting" THEN v - FindMin(m.arr) ELSE (v \div m.weight) % SoRadix
SoRange(m)  == IF m.sort = "Counting" THEN 1 + FindMax(m.arr) - FindMin(m.arr) ELSE SoRadix

\* A loop over arr that counts, one over lut that sums up, one that places; then
\* RadixSortImp lets arr and helper_arr change places and CountingSortt copies
\* result and frees it.
CountStep(m) ==
    LET k == SoKey(m, m.arr[m.j])
    IN  IF m.j < m.size THEN [m EXCEPT !.lut[k] = @ + 1, !.j = @ + 1]
        ELSE [m EXCEPT !.phase = "offset", !.j = 0, !.sum = 0]

OffsetStep(m) ==
    IF m.j < SoRange(m)
    THEN [m EXCEPT !.lut[m.j] = m.sum, !.sum = @ + m.lut[m.j], !.j = @ + 1]
    ELSE [m EXCEPT !.phase = "place", !.j = 0]

\* Mutated form: the elements are taken from the last to the first.
PlaceStepBackwards(m) ==
    LET v == m.arr[m.size - 1 - m.j]
        k == SoKey(m, v)
    IN  IF m.j < m.size
        THEN [m EXCEPT !.result[m.lut[k]] = v, !.lut[k] = @ + 1, !.j = @ + 1]
        ELSE [Leave(m) EXCEPT !.arr = m.result, !.weight = @ * SoRadix]

PlaceStep(m) ==
    LET v == m.arr[m.j]
        k == SoKey(m, v)
    IN  IF m.j < m.size
        THEN [m EXCEPT !.result[m.lut[k]] = v, !.lut[k] = @ + 1, !.j = @ + 1]
        ELSE [Leave(m) EXCEPT !.arr = m.result, !.weight = @ * SoRadix,
                              !.result = IF m.sort = "Radix" THEN m.arr ELSE @]

\* The value of i at which the outer loop ends.
SoPasses(m) == CASE m.sort = "Bubble"    -> m.size - 1
                 [] m.sort = "Selection" -> m.size
                 [] m.sort = "Insertion" -> m.size
                 [] m.sort = "Counting"  -> 1
                 [] m.sort = "Radix"     -> SoDigits

\* The outer loop's body begins.
Enter(m) ==
    CASE m.sort = "Bubble"    -> [m EXCEPT !.phase = "inner", !.j = 0]
      [] m.sort = "Selection" -> [m EXCEPT !.phase = "inner", !.j = m.i + 1, !.num = m.i]
      [] m.sort = "Insertion" -> [m EXCEPT !.phase = "inner", !.j = m.i - 1, !.num = m.arr[m.i]]
      [] m.sort \in {"Counting", "Radix"} ->
            [m EXCEPT !.phase = "count", !.j = 0, !.lut = [k \in 0 .. SoRange(m) - 1 |-> 0]]

Outer == /\ store.phase = "outer" /\ store.i < SoPasses(store)
         /\ store' = Enter(store)

\* lut, hist or result is NULL, and the sort returns without a word; of
\* RadixSort's helper_arr it is asserted that it is there, which ends the program.
SoEnds   == {"failed", "aborted"}
NoMemory == /\ store.phase = "outer" /\ store.i = 0 /\ store.sort \in {"Counting", "Radix"}
            /\ \E end \in SoEnds : /\ end = "aborted" => store.sort = "Radix"
                                  /\ store' = [store EXCEPT !.phase = end]

Inner == /\ store.phase = "inner"
         /\ store' = CASE store.sort = "Bubble"    -> BubbleStep(store)
                       [] store.sort = "Selection" -> SelectionStep(store)
                       [] store.sort = "Insertion" -> InsertionStep(store)

Distribute == \/ store.phase = "count" /\ store' = CountStep(store)
              \/ store.phase = "offset" /\ store' = OffsetStep(store)
              \/ store.phase = "place" /\ store' = PlaceStep(store)

SoNext == (Outer \/ NoMemory \/ Inner \/ Distribute) /\ UNCHANGED log

-----------------------------------------------------------------------------
\* The elements of arr are those of the other array, each taken once.
IsRearranged(arr, from) ==
    \E p \in [DOMAIN from -> DOMAIN from] :
       /\ \A k, l \in DOMAIN from : p[k] = p[l] => k = l
       /\ arr = [k \in DOMAIN from |-> from[p[k]]]

\* At every moment nothing is lost, and: the last i elements of a bubble sort
\* and the first i of a selection sort are final, the first i of an insertion
\* sort are in order between its passes, a radix sort is in order of the low
\* digits.  In the end the array is in order, that of a radix sort if it has
\* looked at all digits; without memory nothing has moved.
SoPassesSort ==
    LET arr == store.arr
        i == store.i
        size == store.size
    IN  /\ IsRearranged(arr, log)
        /\ store.sort = "Bubble" =>
              \A k, l \in 0 .. size - 1 : k < l /\ l >= size - i => arr[k] <= arr[l]
        /\ store.sort = "Selection" =>
              \A k, l \in 0 .. size - 1 : k < l /\ k < i => arr[k] <= arr[l]
        /\ store.sort = "Insertion" /\ store.phase = "outer" =>
              \A k, l \in 0 .. size - 1 : k < l /\ l < i => arr[k] <= arr[l]
        /\ store.sort = "Radix" =>
              \A k, l \in 0 .. size - 1 : k < l => arr[k] % store.weight <= arr[l] % store.weight
        /\ store.phase = "outer" /\ i = SoPasses(store) =>
              \A k, l \in 0 .. size - 1 :
                 k < l /\ (store.sort = "Radix" => arr[l] < store.weight /\ arr[k] < store.weight)
                    => arr[k] <= arr[l]
        /\ store.phase \in SoEnds => arr = log
=============================================================================

------------------------------- MODULE Arrays -------------------------------
(***************************************************************************)
(* Daniel/src2/stack.c and the two vectors: Daniel/src2/vector.c ("first") *)
(* and Wes/src/vector.c with its Resize ("second").  data is the block, in *)
(* elements; block says whether the pointer to it is good, NULL or freed.  *)
(* Popping an empty array, and pushing on a full stack, is undefined by    *)
(* the headers, and the client does not.                                   *)
(***************************************************************************)
EXTENDS Library

ArKinds == {"stack", "first", "second"}
GROWTH_FACTOR == 2

ArNone == [made |-> FALSE, size |-> 0, capacity |-> 0, data |-> <<>>,
           block |-> "null", smashed |-> FALSE, excused |-> FALSE]

ArInit == /\ \E v \in ArKinds : store = [v |-> v, a |-> ArNone]
          /\ log = <<>>

Fresh(n) == [i \in 1..n |-> 0]

\* malloc of n elements
ArAlloc(n) == {[data |-> <<>>, block |-> "null"], [data |-> Fresh(n), block |-> "good"]}

\* realloc: for 0 elements it frees a good block; when it fails the block is
\* kept, and only the caller knows where it was.
Realloc(a, n) ==
    IF n = 0 /\ a.block = "good" THEN {[data |-> <<>>, block |-> "null", kept |-> "freed"]}
    ELSE {[data |-> SubSeq(a.data \o Fresh(n), 1, n), block |-> "good", kept |-> a.block],
          [data |-> <<>>, block |-> "null", kept |-> a.block]}

\* StackCreate and VectorCreate: a failed malloc of the data is only reported.
ArCreate(n) == {[ArNone EXCEPT !.made = TRUE, !.capacity = n, !.data = b.data,
                               !.block = b.block, !.excused = b.block = "null" \/ n = 0]
                  : b \in ArAlloc(n)}

\* memcpy of an element to the top, and ++size
ArWrite(a, d) ==
    IF a.block = "good" /\ a.size < Len(a.data)
    THEN [a EXCEPT !.data[a.size + 1] = d, !.size = @ + 1]
    ELSE [a EXCEPT !.smashed = TRUE, !.size = @ + 1]

StackPush(a, d) == {ArWrite(a, d)}
StackPop(a)     == [a EXCEPT !.size = @ - 1]
StackPeek(a)    == a.data[a.size]

\* The first VectorPushBack: capacity is doubled although realloc failed.
VectorPushBack1(a, d) ==
    IF a.size # a.capacity
    THEN {IF a.block = "null" THEN [a EXCEPT !.excused = TRUE] ELSE ArWrite(a, d)}
    ELSE {LET grown == [a EXCEPT !.capacity = GROWTH_FACTOR * @]
          IN  IF r.block = "null"
              THEN [grown EXCEPT !.block = r.kept, !.excused = TRUE,
                                 !.data = IF r.kept = "freed" THEN <<>> ELSE @]
              ELSE ArWrite([grown EXCEPT !.data = r.data, !.block = "good"], d)
            : r \in Realloc(a, GROWTH_FACTOR * a.capacity)}

\* Mutated form: capacity is doubled before Resize, whether it fails or not.
VectorPushBackEager(a, d) ==
    IF a.size # a.capacity THEN {ArWrite(a, d)}
    ELSE {IF r.block = "null" THEN [a EXCEPT !.block = r.kept, !.capacity = 2 * @]
          ELSE ArWrite([a EXCEPT !.data = r.data, !.block = "good", !.capacity = 2 * @], d)
            : r \in Realloc(a, 2 * a.capacity)}

\* The second one: when Resize fails nothing has changed.
VectorPushBack2(a, d) ==
    IF a.size # a.capacity THEN {ArWrite(a, d)}
    ELSE {IF r.block = "null"
          THEN [a EXCEPT !.block = r.kept, !.data = IF r.kept = "freed" THEN <<>> ELSE @]
          ELSE ArWrite([a EXCEPT !.data = r.data, !.block = "good",
                                 !.capacity = GROWTH_FACTOR * @], d)
            : r \in Realloc(a, GROWTH_FACTOR * a.capacity)}

VectorPopBack(a) == [a EXCEPT !.size = @ - 1]
VectorGetAccess(a, index) == a.data[index + 1]

\* VectorReserve; a failed realloc loses the block.
VectorReserve(a, n) ==
    {[a EXCEPT !.data = r.data, !.block = r.block, !.capacity = n,
               !.excused = @ \/ r.block = "null" \/ n = 0 \/ n < a.size]
       : r \in Realloc(a, n)}

VectorShrinkToFit(a) == VectorReserve(a, a.size)

ArDestroy(a) == ArNone

-----------------------------------------------------------------------------
ArSet(a) == store' = [store EXCEPT !.a = a]

ArPushed(a, d) == CASE store.v = "stack" -> StackPush(a, d)
                    [] store.v = "first" -> VectorPushBack1(a, d)
                    [] store.v = "second" -> VectorPushBack2(a, d)

ArPush(a) == \E d \in Values :
    /\ store.v = "stack" => a.size < a.capacity
    /\ a.capacity < 2 * Cells
    /\ \E b \in ArPushed(a, d) : /\ ArSet(b)
                                 /\ log' = IF b.size > a.size THEN Append(log, d) ELSE log

ArPop(a) == /\ a.size > 0
            /\ ArSet(IF store.v = "stack" THEN StackPop(a) ELSE VectorPopBack(a))
            /\ log' = Front(log)

ArResize(a) == /\ store.v # "stack"
               /\ \E b \in VectorShrinkToFit(a)
                         \cup UNION {VectorReserve(a, n) : n \in 0..Cells} : ArSet(b)
               /\ UNCHANGED log

ArNext == LET a == store.a IN
    /\ ~a.smashed
    /\ \/ /\ ~a.made
          /\ \E n \in 0..Cells : \E b \in ArCreate(n) : ArSet(b)
          /\ UNCHANGED log
       \/ a.made /\ (ArPush(a) \/ ArPop(a) \/ ArResize(a))
       \/ a.made /\ ArSet(ArDestroy(a)) /\ log' = <<>>

-----------------------------------------------------------------------------
\* An array holds what was pushed and not popped, and nothing is written
\* outside of its block.  Excused: an array whose data could not be allocated,
\* or of no capacity, a vector reserved to less than its size, and the first
\* vector once a push has failed.  In the second vector a push may fail.
ArHoldsData == LET a == store.a IN
    a.made /\ ~a.excused =>
       /\ ~a.smashed
       /\ a.size <= a.capacity /\ a.capacity = Len(a.data)
       /\ SubSeq(a.data, 1, a.size) = log
       /\ a.size > 0 => StackPeek(a) = Last(log) /\ VectorGetAccess(a, 0) = Head(log)
=============================================================================

-------------------------------- MODULE Trees -------------------------------
(***************************************************************************)
(* Daniel/src2/bst.c: a binary search tree below the left child of a dummy *)
(* root.  Iterators are handed to the helpers by value, so that no helper  *)
(* moves one: the tree has no traversal, and a node with two children is   *)
(* its own successor when it is removed. Daniel/src2/avl.c and the level-  *)
(* order print of Daniel/test2/avl.c. AvlInsertGo puts what is greater to  *)
(* the left, AvlFindGo looks for it on the right; UpdateHeight copies the  *)
(* height of the left child, so that no node is ever out of balance;       *)
(* AvlRemove searches for the bytes of a pointer instead of the data, that *)
(* is, for anything.                                                       *)
(***************************************************************************)
EXTENDS Library

LEFT  == 0
RIGHT == 1
BstRoot  == -1
BstCells == {BstRoot} \cup (1..Cells)

BstInit == /\ store = [child |-> [n \in BstCells |-> [s \in {LEFT, RIGHT} |-> NULL]],
                     parent |-> [n \in BstCells |-> NULL],
                     data |-> [n \in 1..Cells |-> 0],
                     used |-> {},
                     made |-> FALSE,
                     dangling |-> FALSE] \* freed memory is linked or read
           /\ log = {}                   \* the nodes the client still has

BstIterEnd(m)   == BstRoot
BstIsEmpty(m)   == m.child[BstRoot][LEFT] = NULL

IsHeRigthChild(m, n)    == IF m.child[m.parent[n]][RIGHT] = n THEN RIGHT ELSE LEFT
IsHeGotLeftChild(m, n)  == m.child[n][LEFT] # NULL
IsHeGotRigthChild(m, n) == m.child[n][RIGHT] # NULL
TwoChildren(m, n)       == IsHeGotLeftChild(m, n) /\ IsHeGotRigthChild(m, n)

\* GoBackOneStepLeft to GoDownAllTheWayRigth: what they move is a copy.
GoHelpers(itr) == itr

BstIterNext(m, itr) == GoHelpers(itr)
BstIterPrev(m, itr) == GoHelpers(itr)
BstIterBegin(m)     == GoHelpers(BstRoot)
BstSize(m) == IF BstIterBegin(m) = BstIterEnd(m) THEN 0 ELSE Cardinality(m.used)

\* The data of [from, to) that action_func is called with; from never moves.
BstForEach(m, from, to) == IF from = to THEN {} ELSE {m.data[from]}

BstCreate(m) == {m, [m EXCEPT !.made = TRUE]}

\* Where new data goes: the last node on the way down, and its side.
RECURSIVE BstPlace(_, _, _, _, _)
BstPlace(m, d, current, prev, is_rigth_children) ==
    IF current = NULL THEN <<prev, is_rigth_children>>
    ELSE LET s == IF d < m.data[current] THEN LEFT ELSE RIGHT
         IN  BstPlace(m, d, m.child[current][s], current, s)

BstInsert(m, d) ==
    LET place == BstPlace(m, d, m.child[BstRoot][LEFT], BstRoot, LEFT)
    IN  {m} \cup {[m EXCEPT !.used = @ \cup {n}, !.data[n] = d, !.parent[n] = place[1],
                            !.child[place[1]][place[2]] = n]
                    : n \in UNION Malloc(m.used)}

RECURSIVE BstFindFrom(_, _, _)
BstFindFrom(m, d, curr) ==
    CASE curr = NULL -> BstIterEnd(m)
      [] curr # NULL /\ d = m.data[curr] -> curr
      [] OTHER -> BstFindFrom(m, d, m.child[curr][IF d < m.data[curr] THEN LEFT ELSE RIGHT])

BstFind(m, d) == BstFindFrom(m, d, m.child[BstRoot][LEFT])

BstForgotten(m, n) == [m EXCEPT !.used = @ \ {n}, !.data[n] = 0, !.parent[n] = NULL,
                                !.child[n] = [s \in {LEFT, RIGHT} |-> NULL]]

\* Mutated form: the child that moves up keeps its old parent.
BstRemoveOrphan(m, what) ==
    IF TwoChildren(m, what) THEN [m EXCEPT !.used = @ \ {what}, !.dangling = TRUE]
    ELSE LET child == m.child[what][IF IsHeGotLeftChild(m, what) THEN LEFT ELSE RIGHT]
         IN  BstForgotten([m EXCEPT !.child[m.parent[what]][IsHeRigthChild(m, what)] = child],
                          what)

\* A node with two children is swapped with itself and freed where it stands.
BstRemove(m, what) ==
    IF TwoChildren(m, what) THEN [m EXCEPT !.used = @ \ {what}, !.dangling = TRUE]
    ELSE LET child == m.child[what][IF IsHeGotLeftChild(m, what) THEN LEFT ELSE RIGHT]
             up == m.parent[what]
             linked == [m EXCEPT !.child[up][IsHeRigthChild(m, what)] = child]
         IN  BstForgotten(IF child = NULL THEN linked
                          ELSE [linked EXCEPT !.parent[child] = up], what)

\* A freed leaf stays linked to its parent, and the parent of the first node is
\* looked for at NULL: only an empty tree is destroyed.
BstDestroy(m) == IF BstIsEmpty(m) THEN [m EXCEPT !.made = FALSE]
                 ELSE [m EXCEPT !.dangling = TRUE]

-----------------------------------------------------------------------------
BstNext == /\ ~store.dangling
           /\ \/ ~store.made /\ (\E m \in BstCreate(store) : store' = m) /\ UNCHANGED log
              \/ /\ store.made
                 /\ \/ /\ \E d \in Values : \E m \in BstInsert(store, d) : store' = m
                       /\ log' = log \cup (store'.used \ store.used)
                    \/ \E n \in log : store' = BstRemove(store, n) /\ log' = log \ {n}
                    \/ store' = BstDestroy(store) /\ log' = {}

RECURSIVE BstBelow(_, _)
BstBelow(m, n) == IF n = NULL THEN {}
                  ELSE {n} \cup BstBelow(m, m.child[n][LEFT])
                           \cup BstBelow(m, m.child[n][RIGHT])

\* Until a node with two children is removed, or a tree destroyed that is not
\* empty, the nodes the client inserted are a search tree in which each is the
\* child of its parent, and a value is found if and only if it is stored.
BstHoldsData ==
    ~store.dangling =>
       /\ BstBelow(store, store.child[BstRoot][LEFT]) = log /\ store.used = log
       /\ store.child[BstRoot][RIGHT] = NULL
       /\ \A n \in log :
             /\ store.child[store.parent[n]][IsHeRigthChild(store, n)] = n
             /\ \A k \in BstBelow(store, store.child[n][LEFT]) : store.data[k] < store.data[n]
             /\ \A k \in BstBelow(store, store.child[n][RIGHT]) : store.data[k] >= store.data[n]
       /\ \A d \in Values :
             LET n == BstFind(store, d)
             IN  IF n = BstRoot THEN \A k \in log : store.data[k] # d
                 ELSE n \in log /\ store.data[n] = d

-----------------------------------------------------------------------------
AvlSides == {"LEFT", "RIGHT"}
AvlNode  == [data |-> 0, height |-> 0, LEFT |-> NULL, RIGHT |-> NULL]

AvlInit == /\ store = [node |-> [n \in 1..Cells |-> AvlNode], used |-> {},
                     root |-> NULL, faulted |-> FALSE]
           /\ log = {}     \* the values inserted and not removed

Compare_Data(m, n, d) == CASE d = m.node[n].data -> "DATA_EXIST"
                           [] d < m.node[n].data -> "LEFT"
                           [] OTHER -> "RIGHT"

AvlHeightOf(m, n) == IF n = NULL THEN 0 ELSE m.node[n].height

\* height = 1 + (l > r) ? l : r, which is (1 + (l > r)) ? l : r
UpdateHeight(m, n) == [m EXCEPT !.node[n].height = AvlHeightOf(m, m.node[n].LEFT)]

\* A rotation gives <<memory, new root>>.
RotateRight(m, n) ==
    LET top == m.node[n].LEFT
        turned == [m EXCEPT !.node[n].LEFT = m.node[top].RIGHT, !.node[top].RIGHT = n]
    IN  <<UpdateHeight(UpdateHeight(turned, n), top), top>>

RotateLeft(m, n) ==
    LET top == m.node[n].RIGHT
        turned == [m EXCEPT !.node[n].RIGHT = m.node[top].LEFT, !.node[top].LEFT = n]
    IN  <<UpdateHeight(UpdateHeight(turned, n), top), top>>

Balance_Node(m, n) ==
    LET l == m.node[n].LEFT
        r == m.node[n].RIGHT
        balance_fac == AvlHeightOf(m, l) - AvlHeightOf(m, r)
        Below(side, turned) == [turned[1] EXCEPT !.node[n][side] = turned[2]]
    IN  CASE balance_fac > 1 -> IF m.node[l].data < m.node[n].data THEN RotateRight(m, n)
                                ELSE RotateRight(Below("LEFT", RotateLeft(m, l)), n)
          [] balance_fac < -1 -> IF m.node[n].data < m.node[r].data THEN RotateLeft(m, n)
                                 ELSE RotateLeft(Below("RIGHT", RotateLeft(m, r)), n)
          [] OTHER -> <<m, n>>

AvlLeaf(m, d) ==
    {<<m, NULL>>} \cup {<<[m EXCEPT !.used = @ \cup {n},
                                   !.node[n] = [AvlNode EXCEPT !.data = d, !.height = 1]], n>>
                          : n \in UNION Malloc(m.used)}

\* Mutated form: equal data goes down like greater data.
RECURSIVE AvlInsertEqual(_, _, _)
AvlInsertEqual(m, n, d) ==
    IF n = NULL THEN AvlLeaf(m, d)
    ELSE LET side == IF Compare_Data(m, n, d) # "LEFT" THEN "LEFT" ELSE "RIGHT"
             Up(b) == [b[1] EXCEPT !.node[n][side] = b[2]]
         IN  {Balance_Node(UpdateHeight(Up(b), n), n)
                : b \in AvlInsertEqual(m, m.node[n][side], d)}

\* Greater data goes LEFT, smaller data RIGHT.
RECURSIVE AvlInsertGo(_, _, _)
AvlInsertGo(m, n, d) ==
    IF n = NULL THEN AvlLeaf(m, d)
    ELSE IF Compare_Data(m, n, d) = "DATA_EXIST" THEN {<<m, n>>}
    ELSE LET side == IF Compare_Data(m, n, d) = "RIGHT" THEN "LEFT" ELSE "RIGHT"
             Up(b) == [b[1] EXCEPT !.node[n][side] = b[2]]
         IN  {Balance_Node(UpdateHeight(Up(b), n), n)
                : b \in AvlInsertGo(m, m.node[n][side], d)}

AvlInsert(m, d) == {[b[1] EXCEPT !.root = b[2]] : b \in AvlInsertGo(m, m.root, d)}

RECURSIVE AvlFindGo(_, _, _)
AvlFindGo(m, n, d) == IF n = NULL THEN NULL
                      ELSE IF Compare_Data(m, n, d) = "DATA_EXIST" THEN n
                      ELSE AvlFindGo(m, m.node[n][Compare_Data(m, n, d)], d)
AvlFind(m, d) == AvlFindGo(m, m.root, d)

RECURSIVE FindSuccessor(_, _)
FindSuccessor(m, n) == IF m.node[n].LEFT = NULL THEN n ELSE FindSuccessor(m, m.node[n].LEFT)

\* Searches in the order of AvlFindGo; the data of NULL is read when the search
\* leaves the tree.
RECURSIVE AvlRemoveGo(_, _, _)
AvlRemoveGo(m, n, d) ==
    LET node == m.node[n]
        Under(side, b) == <<[b[1] EXCEPT !.node[n][side] = b[2]], n>>
    IN  CASE n = NULL -> <<[m EXCEPT !.faulted = TRUE], NULL>>
          [] n # NULL /\ d < node.data -> Under("LEFT", AvlRemoveGo(m, node.LEFT, d))
          [] n # NULL /\ d > node.data -> Under("RIGHT", AvlRemoveGo(m, node.RIGHT, d))
          [] n # NULL /\ d = node.data ->
                IF node.LEFT # NULL /\ node.RIGHT # NULL
                THEN LET next == m.node[FindSuccessor(m, node.RIGHT)].data
                     IN  Under("RIGHT", AvlRemoveGo([m EXCEPT !.node[n].data = next],
                                                    node.RIGHT, next))
                ELSE <<[m EXCEPT !.used = @ \ {n}, !.node[n] = AvlNode],
                       IF node.LEFT = NULL THEN node.RIGHT ELSE node.LEFT>>

\* &data is passed for data: whatever the pointer's bytes happen to equal.
AvlRemove(m, garbage) == LET b == AvlRemoveGo(m, m.root, garbage)
                         IN  [b[1] EXCEPT !.root = b[2]]

RECURSIVE AvlNodes(_, _)
AvlNodes(m, n) == IF n = NULL THEN {}
                  ELSE {n} \cup AvlNodes(m, m.node[n].LEFT) \cup AvlNodes(m, m.node[n].RIGHT)

AvlDestroyGo(m, n) == [m EXCEPT !.used = @ \ AvlNodes(m, n), !.root = NULL,
    !.node = [k \in 1..Cells |-> IF k \in AvlNodes(m, n) THEN AvlNode ELSE @[k]]]

AvlHeight(m) == m.node[m.root].height

RECURSIVE AvlSizeGo(_, _)
AvlSizeGo(m, n) == IF n = NULL THEN 0
                   ELSE 1 + AvlSizeGo(m, m.node[n].LEFT) + AvlSizeGo(m, m.node[n].RIGHT)

\* The data action_func is called with when it fails for the data in S; only
\* the failing node's own caller stops, a failure below it is not noticed.
RECURSIVE AvlForEachPreIMP(_, _, _)
AvlForEachPreIMP(m, n, S) ==
    IF n = NULL THEN <<>>
    ELSE <<m.node[n].data>> \o
         (IF m.node[n].data \in S THEN <<>>
          ELSE AvlForEachPreIMP(m, m.node[n].LEFT, S)
                \o AvlForEachPreIMP(m, m.node[n].RIGHT, S))

RECURSIVE AvlForEachInIMP(_, _, _)
AvlForEachInIMP(m, n, S) ==
    IF n = NULL THEN <<>>
    ELSE AvlForEachInIMP(m, m.node[n].LEFT, S) \o <<m.node[n].data>> \o
         (IF m.node[n].data \in S THEN <<>> ELSE AvlForEachInIMP(m, m.node[n].RIGHT, S))

RECURSIVE AvlForEachPostIMP(_, _, _)
AvlForEachPostIMP(m, n, S) ==
    IF n = NULL THEN <<>>
    ELSE AvlForEachPostIMP(m, m.node[n].LEFT, S) \o AvlForEachPostIMP(m, m.node[n].RIGHT, S)
         \o <<m.node[n].data>>

-----------------------------------------------------------------------------
\* AvlPrint of test2: the tree by levels from a ring of SIZE entries, NULL for
\* a missing node, at most safeStop - 1 levels.

QSIZE == 4

QEmpty == [arr |-> [i \in 0 .. QSIZE - 1 |-> NULL], size |-> 0, top |-> 0, bottom |-> 0,
           realVal |-> 0]

\* Neither the size nor what is overwritten is checked.
Queue_push_back(q, n) ==
    [q EXCEPT !.size = @ + 1, !.arr[q.bottom] = n, !.bottom = (@ + 1) % QSIZE,
              !.realVal = IF n = NULL THEN @ ELSE @ + 1]

Queue_pop_front(q) ==
    LET n == q.arr[q.top]
    IN  [q EXCEPT !.size = @ - 1, !.arr[q.top] = NULL, !.top = (@ + 1) % QSIZE,
                  !.realVal = IF n = NULL THEN @ ELSE @ - 1]

RECURSIVE AvlPrintLevel(_, _, _)
AvlPrintLevel(m, q, count) ==
    IF count = 0 THEN <<q, <<>>>>
    ELSE LET n == q.arr[q.top]
             l == IF n = NULL THEN NULL ELSE m.node[n].LEFT
             r == IF n = NULL THEN NULL ELSE m.node[n].RIGHT
             rest == AvlPrintLevel(m, Queue_push_back(Queue_push_back(Queue_pop_front(q), l), r),
                                   count - 1)
         IN  <<rest[1], (IF n = NULL THEN <<>> ELSE <<n>>) \o rest[2]>>

RECURSIVE AvlPrintGo(_, _, _)
AvlPrintGo(m, q, safeStop) ==
    IF safeStop = 0 \/ q.realVal <= 0 THEN <<>>
    ELSE LET level == AvlPrintLevel(m, q, q.size)
         IN  level[2] \o AvlPrintGo(m, level[1], safeStop - 1)

AvlPrint(m) == AvlPrintGo(m, Queue_push_back(QEmpty, m.root), 9)

-----------------------------------------------------------------------------
AvlData(m) == {m.node[n].data : n \in AvlNodes(m, m.root)}

AvlNext == /\ ~store.faulted
           /\ \/ \E d \in Values :
                    /\ \E m \in AvlInsert(store, d) : store' = m
                    /\ log' = IF store'.used = store.used THEN log ELSE log \cup {d}
              \/ \E garbage \in Values : /\ store.root # NULL
                                         /\ store' = AvlRemove(store, garbage)
                                         /\ log' = log \ {garbage}
              \/ store' = AvlDestroyGo(store, store.root) /\ log' = {}

RECURSIVE AvlDepth(_, _)
AvlDepth(m, n) == IF n = NULL THEN 0
                  ELSE 1 + Max({AvlDepth(m, m.node[n].LEFT), AvlDepth(m, m.node[n].RIGHT)})

\* Unless a removal has left the tree, it holds each value that was inserted and
\* not removed, once: AvlInsert finds what is there by its own order and does not
\* insert it again, also after removals that search by the opposite order; all
\* traversals visit all of it and no block is lost.  AvlFind, which searches by
\* the opposite order, may miss what is there, but finds nothing else; AvlHeight
\* may tell less than the depth of the tree, not more.
\* The print shows each node once as long as two levels fit into its ring.
AvlHoldsData ==
    ~store.faulted =>
       LET inorder == AvlForEachInIMP(store, store.root, {})
       IN  /\ AvlData(store) = log /\ store.used = AvlNodes(store, store.root)
           /\ AvlSizeGo(store, store.root) = Cardinality(log)
           /\ IsInjective(inorder)
           /\ \A d \in log : \A m \in AvlInsert(store, d) :
                 AvlForEachInIMP(m, m.root, {}) = inorder
           /\ SameBag(inorder, AvlForEachPreIMP(store, store.root, {}))
           /\ SameBag(inorder, AvlForEachPostIMP(store, store.root, {}))
           /\ \A d \in Values :
                 LET n == AvlFind(store, d) IN n # NULL => store.node[n].data = d
           /\ store.root # NULL => AvlHeight(store) <= AvlDepth(store, store.root)
           /\ AvlDepth(store, store.root) \in 1..2 =>
                 ToSet(AvlPrint(store)) = store.used /\ IsInjective(AvlPrint(store))
=============================================================================

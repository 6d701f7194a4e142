----------------------------- MODULE Allocators -----------------------------
(***************************************************************************)
(* Daniel/src2/fsa.c ("fsa"): a pool of blocks of one size, whose free     *)
(* ones are linked through their first words; __common/MyMallocFree.c      *)
(* ("mymalloc"): a table of the blocks that a program allocates and frees; *)
(* Wes/src/dhcpDaniel.c ("dhcp"): the addresses of a subnet.               *)
(* Addresses in the pool are words from its start, where the head is.      *)
(***************************************************************************)
EXTENDS Library

CONSTANTS FsaBlockSizes,   \* bound: the sizes of blocks asked for
          LeakRows         \* MEMORY_LEAK_SIZE

ASSUME AllocatorsAssumption == FsaBlockSizes \subseteq Nat /\ LeakRows \in Nat

WORD_SIZE == 8

FsaStart == [v |-> "fsa", size |-> 0, blocks |-> 0, word |-> <<>>]

LeakRow   == [ptr |-> NULL, mallocTime |-> 0, freeTime |-> 0]
LeakStart == [v |-> "mymalloc", memleak |-> [i \in 1..LeakRows |-> LeakRow], live |-> {},
              creation_counter |-> 0, free_counter |-> 0, overrun |-> FALSE, nulled |-> FALSE]

AlInit == store \in {FsaStart, LeakStart} /\ log = <<>>

-----------------------------------------------------------------------------
BlockSizeRoundUpToWordSize(size) ==
    LET atLeast == Max({WORD_SIZE, size})
        rest == atLeast % WORD_SIZE
    IN  IF rest > 0 THEN atLeast + WORD_SIZE - rest ELSE atLeast

FsaSuggestSize(n, size) == n * BlockSizeRoundUpToWordSize(size) + WORD_SIZE

BlockWords(size)  == BlockSizeRoundUpToWordSize(size) \div WORD_SIZE
BlockAt(size, i)  == 1 + i * BlockWords(size)
BlockAddresses(m) == {BlockAt(m.size, i) : i \in 0 .. m.blocks - 1}

\* Mutated form: the blocks are as far apart as they are long, without rounding up.
FsaInitTight(pool_size, size) ==
    LET n == (pool_size - WORD_SIZE) \div BlockSizeRoundUpToWordSize(size)
    IN  [v |-> "fsa", size |-> size, blocks |-> n,
         word |-> [a \in 0 .. pool_size \div WORD_SIZE - 1 |->
                     IF a = 0 THEN 1 ELSE IF a < n THEN a + 1 ELSE NULL]]

\* The pool of a caller who did as the header says; what the other words hold
\* is the caller's affair.  No block at all would wrap the loop's bound.
FsaInit(pool_size, size) ==
    LET n == (pool_size - WORD_SIZE) \div BlockSizeRoundUpToWordSize(size)
        linked == {BlockAt(size, i) : i \in 0 .. n - 2}
    IN  [v |-> "fsa", size |-> size, blocks |-> n,
         word |-> [a \in 0 .. pool_size \div WORD_SIZE - 1 |->
                     IF a = 0 THEN 1
                     ELSE IF a \in linked THEN a + BlockWords(size) ELSE NULL]]

\* The head moves to what the first free block says; NULL when there is none.
FsaAlloc(m) == IF m.word[0] = NULL THEN m
               ELSE [m EXCEPT !.word[0] = m.word[m.word[0]]]

FsaFree(m, block) == [m EXCEPT !.word[block] = m.word[0], !.word[0] = block]

\* free is the list of free blocks from the head to NULL, that FsaCountFree
\* walks and whose length it returns.
FsaCountFree(m, free) ==
    /\ m.word[0] = IF free = <<>> THEN NULL ELSE free[1]
    /\ \A i \in DOMAIN free :
          m.word[free[i]] = IF i = Len(free) THEN NULL ELSE free[i + 1]

\* log is the blocks that the client holds; it writes whole words of them.
FsaNext ==
    \/ /\ store.blocks = 0
       /\ \E n \in 1..Cells, size \in FsaBlockSizes :
             store' = FsaInit(FsaSuggestSize(n, size), size)
       /\ UNCHANGED log
    \/ /\ store.blocks > 0
       /\ \/ /\ store' = FsaAlloc(store)
             /\ log' = IF store.word[0] = NULL THEN log ELSE Append(log, store.word[0])
          \/ \E i \in DOMAIN log : /\ store' = FsaFree(store, log[i])
                                   /\ log' = RemoveAt(log, i)
          \/ \E i \in DOMAIN log, w \in 0 .. BlockWords(store.size) - 1, d \in {NULL, 1} :
                /\ (w + 1) * WORD_SIZE <= Max({WORD_SIZE, store.size})
                /\ store' = [store EXCEPT !.word[log[i] + w] = d]
                /\ UNCHANGED log

\* Blocks that are held and blocks that are free are the pool's, each once, and
\* end before the next begins, whatever the clients write into theirs.
FsaBlocksAreApart ==
    store.blocks > 0 =>
       \E free \in UNION {[1..n -> BlockAddresses(store)] : n \in 0 .. store.blocks} :
          /\ FsaCountFree(store, free) /\ Len(free) = store.blocks - Len(log)
          /\ IsInjective(free \o log)
          /\ ToSet(free \o log) = BlockAddresses(store)
          /\ \A a, b \in ToSet(free \o log) :
                a < b => WORD_SIZE * (b - a) >= store.size
          /\ \A a \in ToSet(free \o log) :
                a + BlockWords(store.size) <= Cardinality(DOMAIN store.word)

-----------------------------------------------------------------------------
\* The first row that was never used; -1 when there is none.
FindNextFreeIndex(m) ==
    LET rows == {i \in DOMAIN m.memleak : m.memleak[i].ptr = NULL}
    IN  IF rows = {} THEN -1 ELSE Min(rows)

FindPtrInMemoryLeakArr(m, ptr) ==
    LET rows == {i \in DOMAIN m.memleak :
                    m.memleak[i].ptr = ptr /\ m.memleak[i].freeTime = 0}
    IN  IF rows = {} THEN -1 ELSE Min(rows)

\* A row is not used again after its block was freed; past the last row the
\* entry before the table is written.  A failed malloc leaves its row unused.
MyMalloc(m, ptr) ==
    LET idx == FindNextFreeIndex(m)
        n == m.creation_counter + 1
        got == [m EXCEPT !.creation_counter = n, !.live = @ \cup ({ptr} \ {NULL})]
    IN  IF idx = -1 THEN [got EXCEPT !.overrun = TRUE]
        ELSE [got EXCEPT !.memleak[idx].ptr = ptr, !.memleak[idx].mallocTime = n]

\* free(NULL) is looked for too, and found in the first unused row.
MyFree(m, ptr) ==
    LET idx == FindPtrInMemoryLeakArr(m, ptr)
        n == m.free_counter + 1
        freed == [m EXCEPT !.live = @ \ {ptr}, !.nulled = @ \/ ptr = NULL]
    IN  IF idx = -1 THEN freed
        ELSE [freed EXCEPT !.free_counter = n, !.memleak[idx].freeTime = n]

\* The rows that MemoryLeak_Check prints: those before the first unused one.
MemoryLeak_Check(m) ==
    LET unused == FindNextFreeIndex(m)
    IN  IF unused = -1 THEN m.memleak ELSE SubSeq(m.memleak, 1, unused - 1)

MyMallocNext ==
    /\ ~store.overrun
    /\ store.creation_counter + store.free_counter < 2 * LeakRows
    /\ UNCHANGED log
    /\ \/ \E ptr \in (UNION Malloc(store.live)) \cup {NULL} : store' = MyMalloc(store, ptr)
       \/ \E ptr \in store.live \cup {NULL} : store' = MyFree(store, ptr)

\* What is printed as not freed is what is not freed, in the order of its
\* allocation, as long as the table is not full and NULL was not freed.
LeaksAreReported ==
    LET rows == MemoryLeak_Check(store)
        leaks == {i \in DOMAIN rows : rows[i].freeTime = 0}
    IN  ~store.overrun /\ ~store.nulled =>
           /\ {rows[i].ptr : i \in leaks} = store.live
           /\ \A i, j \in leaks : rows[i].ptr = rows[j].ptr => i = j
           /\ \A i, j \in DOMAIN rows : i < j => rows[i].mallocTime < rows[j].mallocTime

AlNext == \/ store.v = "fsa" /\ FsaNext
          \/ store.v = "mymalloc" /\ MyMallocNext

AlBlocksAreKnown == /\ store.v = "fsa" => FsaBlocksAreApart
                    /\ store.v = "mymalloc" => LeaksAreReported

-----------------------------------------------------------------------------
\* The addresses of a subnet as a binary trie whose nodes are FULL or FREE.  A
\* node is the path of bits that leads to it; height is IP_SIZE - subnet_size,
\* of which 1 aborts in DhcpCreate and 0 goes through NULL.  DhcpFreeIp and
\* DhcpCountFree are only declared.
DhHeights == {2, 3}      \* bound; main has 4
DhLeases  == 4           \* bound: addresses that are given or marked
FREE == FALSE
FULL == TRUE

\* An address is four bytes; GetBit counts the bits from the highest.
IP_SIZE == 32
FAIL_IN_C == -1

GetBit(ip, index) ==
    IF index >= IP_SIZE THEN FAIL_IN_C
    ELSE (ip[index \div 8 + 1] \div 2 ^ (7 - (index % 8))) % 2

\* The path of an address below the subnet, whose own bits are not looked at.
PathOf(ip, h) == [i \in 1..h |-> GetBit(ip, IP_SIZE - h + i - 1)]

\* The addresses that main asks for, and their neighbours in the next subnet.
DhAddresses(h) == {<<170, 136, 255, n>> : n \in 0 .. 2 ^ h}

Bits == {0, 1}
Paths(n)    == [1..n -> Bits]
Prefix(p, n) == SubSeq(p, 1, n)
Root        == <<>>
NoNode      == <<NULL - 1>>   \* no path has this bit
AllOf(b, n) == [i \in 1..n |-> b]

\* is_full is a function on the nodes that there are.
DhInit == /\ \E h \in DhHeights :
                store = [height |-> h, is_full |-> <<>>, made |-> FALSE,
                         overrun |-> FALSE, crashed |-> FALSE, helped |-> FALSE]
          /\ log = <<>>

\* The last address and the last but one are taken, and so their parent is;
\* the first is taken.
DhReserved(h) == {AllOf(0, h), AllOf(1, h), [AllOf(1, h) EXCEPT ![h] = 0]}

\* DhcpCreate undoes everything when any malloc fails.
DhcpCreate(m) ==
    LET h == m.height
        nodes == {AllOf(b, n) : b \in Bits, n \in 0..h} \cup DhReserved(h)
        full == DhReserved(h) \cup {AllOf(1, h - 1)}
    IN  {m, [m EXCEPT !.made = TRUE, !.is_full = [p \in nodes |-> p \in full]]}

DhcpDestroy(m) == [m EXCEPT !.made = FALSE, !.is_full = <<>>, !.helped = FALSE]

Nodes(m) == DOMAIN m.is_full
Child(p, b) == Append(p, b)

\* What `node[0]->is_full && node[1]->is_full` does at p: it goes through NULL
\* when node[0] is not there, or is full and node[1] is not there.
ChildrenFull(m, p) ==
    CASE Child(p, 0) \notin Nodes(m) -> "crash"
      [] Child(p, 0) \in Nodes(m) /\ m.is_full[Child(p, 0)] = FREE -> "no"
      [] Child(p, 0) \in Nodes(m) /\ m.is_full[Child(p, 0)] = FULL ->
            IF Child(p, 1) \notin Nodes(m) THEN "crash"
            ELSE IF m.is_full[Child(p, 1)] THEN "yes" ELSE "no"

\* Mutated form: a node is full as soon as one of its children is.
MarkParentsEither(m, ip) ==
    FoldLeft(LAMBDA n, i :
                LET p == Prefix(ip, m.height - i)
                IN  IF n.crashed THEN n
                    ELSE CASE ChildrenFull(n, p) = "crash" -> [n EXCEPT !.crashed = TRUE]
                           [] ChildrenFull(n, p) # "crash" -> [n EXCEPT !.is_full[p] = FULL],
             m, [i \in 1 .. m.height - 1 |-> i])

\* The parents are popped from the stack, the deepest first, the root excluded.
MarkParents(m, ip) ==
    FoldLeft(LAMBDA n, i :
                LET p == Prefix(ip, m.height - i)
                IN  IF n.crashed THEN n
                    ELSE CASE ChildrenFull(n, p) = "crash" -> [n EXCEPT !.crashed = TRUE]
                           [] ChildrenFull(n, p) = "yes" -> [n EXCEPT !.is_full[p] = FULL]
                           [] ChildrenFull(n, p) = "no" -> n,
             m, [i \in 1 .. m.height - 1 |-> i])

\* DhcpAllocateIp: a walk that stops at a full node, and creates what is
\* missing; a failed malloc leaves the nodes above it.  The root and height
\* nodes are pushed on a stack of height elements, and a new node is malloc'ed
\* with the size of a pointer: overrun.  The status is ADDRESS_SPACE_FULL, and
\* the result the preferred address, in every case.
DhcpAllocateIp(m, ip) ==
    LET h == m.height
        known == Max({n \in 0..h : Prefix(ip, n) \in Nodes(m)})
        with(n) == [p \in Nodes(m) \cup {Prefix(ip, k) : k \in known..n} |->
                      IF p \in Nodes(m) THEN m.is_full[p] ELSE FREE]
        taken == \E n \in 1..known : m.is_full[Prefix(ip, n)] = FULL
    IN  IF taken \/ known = h THEN {m}
        ELSE {[m EXCEPT !.is_full = with(n)] : n \in known .. h - 1}
             \cup {MarkParents([m EXCEPT !.is_full = [with(h) EXCEPT ![ip] = FULL],
                                         !.overrun = TRUE], ip)}

\* CraeteNodesForIp, with which main marks an address: the walk does not stop at
\* full nodes and marks no parents.  The children of a node that it makes are
\* whatever the memory holds: NULL, or it goes astray.
CraeteNodesForIp(m, ip) ==
    LET h == m.height
        known == Max({n \in 0..h : Prefix(ip, n) \in Nodes(m)})
        with(n) == [p \in Nodes(m) \cup {Prefix(ip, k) : k \in known..n} |->
                      IF p \in Nodes(m) THEN m.is_full[p] ELSE FREE]
    IN  {[m EXCEPT !.is_full = [with(h) EXCEPT ![ip] = FULL], !.helped = TRUE]}
        \cup {[m EXCEPT !.is_full = with(n)] : n \in known .. h - 1}
        \cup {[m EXCEPT !.crashed = TRUE] : n \in known + 1 .. h - 1}

\* TreeToVector: slot i holds the node whose children are in slots 2 * i + 1
\* and 2 * i + 2; NoNode is NULL.
TreeToVector(m, size) ==
    FoldLeft(LAMBDA vec, i :
                LET child(b) == IF vec[i] = NoNode \/ Child(vec[i], b) \notin Nodes(m)
                                THEN NoNode ELSE Child(vec[i], b)
                IN  [vec EXCEPT ![2 * i + 1] = child(0), ![2 * i + 2] = child(1)],
             [k \in 0 .. size - 1 |-> IF k = 0 THEN Root ELSE NoNode],
             [i \in 1 .. size \div 2 - 1 |-> i - 1])

\* The lines that PrintBTreeFromVector prints: 1, 2, 4 .. slots, NULL as blanks.
PrintBTreeFromVector(vec, size) ==
    LET nodes_on_level(level) == 2 ^ level
        before(level) == 2 ^ level - 1
    IN  [level \in {l \in 0 .. IP_SIZE - 2 : before(l) < size} |->
            [i \in 1 .. Min({nodes_on_level(level), size - before(level)}) |-> vec[before(level) + i - 1]]]

DhNext ==
    /\ ~store.crashed
    /\ \/ /\ ~store.made
          /\ \E m \in DhcpCreate(store) : store' = m
          /\ UNCHANGED log
       \/ store.made /\ store' = DhcpDestroy(store) /\ log' = <<>>
       \/ /\ store.made
          /\ \E address \in DhAddresses(store.height) :
                LET ip == PathOf(address, store.height)
                IN  /\ Len(log) < DhLeases
                    /\ \E m \in DhcpAllocateIp(store, ip) \cup CraeteNodesForIp(store, ip) : store' = m
                    /\ log' = IF ip \in Nodes(store') \ Nodes(store) THEN Append(log, ip) ELSE log

\* No address is given twice, nor a reserved one; the full leaves are the
\* reserved and the given ones; a node inside is full only when both of its
\* children are, so that a search may stop there, and always then, unless an
\* address was marked without its parents; the picture of the tree has the
\* nodes of each level on a line, in the order of their addresses.
DhcpKeepsLeases ==
    LET h == store.height
        leaves == {p \in Nodes(store) : Len(p) = h}
        size == 2 ^ (h + 1)
        picture == PrintBTreeFromVector(TreeToVector(store, size), size)
        shown(level) == SelectSeq(picture[level], LAMBDA p : p # NoNode)
        full(p) == \A b \in Bits : Child(p, b) \in Nodes(store) /\ store.is_full[Child(p, b)]
    IN  store.made /\ ~store.crashed =>
           /\ IsInjective(log) /\ ToSet(log) \cap DhReserved(h) = {}
           /\ {p \in leaves : store.is_full[p]} = ToSet(log) \cup DhReserved(h)
           /\ \A p \in Nodes(store) \ leaves :
                 p # Root => /\ store.is_full[p] => full(p)
                             /\ full(p) => store.is_full[p] \/ store.helped
           /\ \A level \in 0..h :
                 /\ ToSet(shown(level)) = {p \in Nodes(store) : Len(p) = level}
                 /\ \A i, j \in DOMAIN shown(level) : i < j =>
                       \E k \in 1..level : /\ Prefix(shown(level)[i], k - 1) = Prefix(shown(level)[j], k - 1)
                                           /\ shown(level)[i][k] < shown(level)[j][k]
=============================================================================

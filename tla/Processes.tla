----------------------------- MODULE Processes ------------------------------
(***************************************************************************)
(* Exercises with processes and threads: Daniel/src/semaphore.c (commands  *)
(* on one System V semaphore), Daniel/src2/ping_pong.c (signals in turn),  *)
(* Daniel/cpp/src/IPCpingpong.cpp (a semaphore in turn), Daniel/src/       *)
(* mt_count_sort_fix.c (a histogram by threads) and Daniel/src/            *)
(* shuffle_dict.c (segments sorted by threads, merged by main).            *)
(***************************************************************************)
EXTENDS Exercise

CONSTANTS SemTop,    \* the largest value that semaphore.c sets
          PpCount,   \* count of ping_pong.c and IPCpingpong.cpp, 5 there
          CsLast,    \* the largest char of the file for mt_count_sort_fix.c, 127 there
          CsSize     \* the size of the file, at most
ASSUME ProcessesAssumption == /\ SemTop \in Nat /\ PpCount \in Nat
                              /\ CsLast \in Nat /\ CsSize \in Nat

PrGames == {"semaphore", "ping_pong", "ipc", "count_sort", "shuffle_dict"}
PrOf(g) == IF g \in {"semaphore", "ping_pong", "ipc"} THEN {1, 2} ELSE {1, 2, 3}

-----------------------------------------------------------------------------
\* semaphore.c, run twice on one semaphore.  total is what the commands amount
\* to, owed what each process will take back; astray: neither can be trusted.
SemShared == [val |-> 0, semadj |-> [p \in {1, 2} |-> 0], total |-> 0,
              owed |-> [p \in {1, 2} |-> 0], astray |-> FALSE]

\* The lines a user may type: how many words, the letter that is the first, and
\* the third; the second is the letter's number.
SemLetters == {"C", "D", "I", "P", "X", "Z"}
SemLines(letters) == [words : {0, 1, 2, 3, 5}, letter : letters, third : {"undo", "undone"}]

\* The words have four slots, and a fifth goes beyond them.
Tokenize(line) == [fits |-> line.words <= 4, has |-> 1 .. line.words]

action == [c \in SemLetters |-> CASE c \in {"C", "D"} -> "decrease" [] c = "I" -> "increase"
                                  [] c = "P" -> "print" [] c = "X" -> "exit" [] c = "Z" -> "error"]

\* What becomes of a line.  C and X, which the table has, are taken for errors; a
\* missing word is read through NULL.
DoCommand(line) ==
    LET args_tok == Tokenize(line)
    IN  CASE ~args_tok.fits \/ 1 \notin args_tok.has                         -> "crash"
          [] args_tok.fits /\ line.letter \in {"C", "X", "Z"}                -> "error"
          [] args_tok.fits /\ line.letter \in {"D", "I"} /\ 2 \notin args_tok.has -> "crash"
          [] OTHER                                                          -> action[line.letter]

SemDoes(letters, outcomes) == {line \in SemLines(letters) : DoCommand(line) \in outcomes}

\* Of undo the first four letters count to decrease, and all to increase.
SemIsUndo(line) == line.words = 3 /\ (line.third = "undo" \/ DoCommand(line) = "decrease")

\* GetValSemaphore, before the new value is set or the undo command is read.
SemReads(p) ==
    /\ Moves(p, "command", "apply") /\ UNCHANGED shared
    /\ \E line \in SemDoes({"D", "I"}, {"decrease", "increase"}) :
          Holds(p, [op |-> IF DoCommand(line) = "decrease" THEN -1 ELSE 2,
                    undo |-> SemIsUndo(line), val |-> shared.val])

\* PrintValSemaphore: the value as it is.
SemPrints(p) == /\ Moves(p, "command", "command") /\ UNCHANGED shared
                /\ SemDoes({"P"}, {"print"}) # {}
                /\ hand' = [hand EXCEPT ![p].val = shared.val]

Stray(s) == s.astray /\ shared' = [SemShared EXCEPT !.astray = TRUE, !.val = s.val,
                                                   !.semadj = s.semadj]
Straight(s) == ~s.astray /\ shared' = s
SemBecomes(s) == Stray(s) \/ Straight(s)

\* Mutated form: the value is read again when it is set.
SemSetFresh(p) ==
    LET to == shared.val + hand[p].op
    IN  /\ ~hand[p].undo /\ Moves(p, "apply", "command") /\ UNCHANGED hand
        /\ IF to \in 0..SemTop
           THEN SemBecomes([shared EXCEPT !.val = to, !.total = @ + hand[p].val - to])
           ELSE UNCHANGED shared

\* SETVAL, of a value out of range without effect; it clears what all processes
\* would undo.  In between another process may have changed the value.
SemSet(p) ==
    LET to == hand[p].val + hand[p].op
    IN  /\ ~hand[p].undo /\ Moves(p, "apply", "command") /\ UNCHANGED hand
        /\ IF to \in 0..SemTop
           THEN SemBecomes([shared EXCEPT
                    !.val = to, !.semadj = [q \in {1, 2} |-> 0], !.total = @ + hand[p].op,
                    !.astray = @ \/ shared.val # hand[p].val
                                  \/ \E q \in {1, 2} : shared.owed[q] # 0])
           ELSE UNCHANGED shared

\* semop with SEM_UNDO, which waits rather than go below 0; sem_num is not
\* initialized, and with a wrong one nothing happens.
SemUndo(p) ==
    LET op == hand[p].op
    IN  /\ hand[p].undo /\ Moves(p, "apply", "command") /\ UNCHANGED hand
        /\ \/ UNCHANGED shared
           \/ /\ shared.val + op \in 0..SemTop
              /\ shared.semadj[p] - op \in -SemTop..SemTop
              /\ SemBecomes([shared EXCEPT !.val = @ + op, !.semadj[p] = @ - op,
                                           !.total = @ + op, !.owed[p] = @ + op])

\* An error exits and a crash ends, at the end of the input too, where the last
\* line is taken apart once more until no word is left; the kernel undoes, down
\* to 0 at most.
SemExits(p) ==
    LET to == shared.val + shared.semadj[p]
    IN  /\ Moves(p, "command", "gone") /\ UNCHANGED hand
        /\ SemDoes({"C", "X"}, {"error", "crash"}) # {}
        /\ SemBecomes([shared EXCEPT !.val = Max({0, to}), !.semadj[p] = 0,
                                     !.total = @ - shared.owed[p], !.owed[p] = 0,
                                     !.astray = @ \/ to < 0])

Semaphore(p) == SemReads(p) \/ SemPrints(p) \/ SemSet(p) \/ SemUndo(p) \/ SemExits(p)

\* The value is what the commands of the processes that live amount to, unless
\* one came between another's reading and setting, a SETVAL made the kernel
\* forget what to undo, or it could not undo all of it.
SemaphoreIsSum == ~shared.astray => shared.val = shared.total

-----------------------------------------------------------------------------
\* ping_pong.c: process 1 is the parent, 2 the child.
Parent == 1
Child  == 2

PpShared == [g_flag |-> <<0, 1>>, pending |-> <<FALSE, FALSE>>, count |-> PpCount,
             ahead |-> 0, lost |-> FALSE]

\* ahead is the parent's turns less the child's.
\* kill: a signal that is pending already is not queued again.
Kill(p) == [shared EXCEPT !.pending[p] = TRUE]

\* A handler runs between any two steps; before pause() it does not end it.
HandleSignal(p) ==
    /\ shared.pending[p] /\ at[p] # "gone"
    /\ shared' = [shared EXCEPT !.pending[p] = FALSE, !.g_flag[p] = IF p = Child THEN 1 ELSE 0,
                                !.lost = @ \/ at[p] = "decided"]
    /\ at' = [at EXCEPT ![p] = IF @ = "pause" THEN "test" ELSE @]
    /\ UNCHANGED hand

\* count only goes down when the answer is not there yet.
ParentStep ==
    \/ Moves(Parent, "loop", IF shared.count # 0 THEN "test" ELSE "terminate") /\ Nothing
    \/ /\ at[Parent] = "test"
       /\ IF shared.g_flag[Parent] = 1
          THEN Moves(Parent, "test", "decided") /\ Sets([shared EXCEPT !.count = @ - 1])
          ELSE Moves(Parent, "test", "set") /\ Nothing
    \/ Moves(Parent, "decided", "pause") /\ Nothing
    \/ Moves(Parent, "set", "kill") /\ Sets([shared EXCEPT !.g_flag[Parent] = 1])
    \/ Moves(Parent, "kill", "loop") /\ Sets([Kill(Child) EXCEPT !.ahead = @ + 1])
    \/ /\ at[Parent] = "terminate" /\ at' = [p \in {1, 2} |-> "gone"] /\ Nothing

ChildStep ==
    \/ Moves(Child, "test", IF shared.g_flag[Child] = 0 THEN "decided" ELSE "set") /\ Nothing
    \/ Moves(Child, "decided", "pause") /\ Nothing
    \/ Moves(Child, "set", "kill") /\ Sets([shared EXCEPT !.g_flag[Child] = 0])
    \/ Moves(Child, "kill", "test") /\ Sets([Kill(Parent) EXCEPT !.ahead = @ - 1])

PingPong(p) == \/ HandleSignal(p)
               \/ p = Parent /\ ParentStep
               \/ p = Child /\ ChildStep

\* The two take turns: neither is ever two ahead of the other.
TurnsAlternate == shared.ahead \in -1..1

-----------------------------------------------------------------------------
\* IPCpingpong.cpp: the parent prints PpCount times, the child for ever.
IpcShared == [sem |-> [turn |-> 1], printed |-> 0]

Ipc(p) == \/ /\ p = Child \/ shared.printed < PpCount
             /\ SemWaits(p, "turn", "sleep", "print")
          \/ /\ Moves(p, "print", "signal")
             /\ Sets([shared EXCEPT !.printed = @ + IF p = Parent THEN 1 ELSE 0])
          \/ SemPosts(p, "turn", "signal", "sleep")

OnePrints == shared.sem.turn + Quantify({1, 2}, LAMBDA p : at[p] # "sleep") = 1

-----------------------------------------------------------------------------
\* mt_count_sort_fix.c: threads 1 and 2, of NUM_THREADS, and main.
CsThreads == 2
CsBytes   == 0..CsLast   \* the chars from 0 on, 0..127 there
CsChars   == -1..CsLast  \* a byte from 128 on is a char below 0: all are -1
CsMain    == 3

CsShared(data) == [mutex |-> Free, data |-> data, histogram_general |-> [b \in CsBytes |-> 0]]

Occurrences(s) == [b \in CsBytes |-> Quantify(DOMAIN s, LAMBDA k : s[k] = b)]

\* ProcessFile: equal chunks, and what remains for the last thread.
ChunkOf(t, data) ==
    LET common == Len(data) \div CsThreads
        end == common + (Len(data) % CsThreads)
        start == (t - 1) * common
    IN  SubSeq(data, start + 1, start + IF t = CsThreads THEN end ELSE common)

\* The chars of t's chunk that have no entry: each is counted in front of
\* histogram_local, in what memalign keeps there of the thread's own arena.
Astray(t) == \E c \in Range(ChunkOf(t, shared.data)) : c \notin CsBytes

\* CountElement: each entry of the general histogram is read, and written.
\* memalign may give NULL, which is written to; free may find its block damaged.
CountElement(t) ==
    \/ /\ Moves(t, "count", "lock") /\ UNCHANGED shared
       /\ Holds(t, [histogram_local |-> Occurrences(ChunkOf(t, shared.data)), i |-> 0, sum |-> 0])
    \/ at[t] = "count" /\ Crashes
    \/ TakesMutex(t, "lock", "read")
    \/ /\ Moves(t, "read", IF hand[t].i \in CsBytes THEN "write" ELSE "unlock")
       /\ UNCHANGED shared
       /\ IF hand[t].i \notin CsBytes THEN UNCHANGED hand
          ELSE Holds(t, [hand[t] EXCEPT !.sum = shared.histogram_general[hand[t].i]
                                                + hand[t].histogram_local[hand[t].i]])
    \/ /\ Moves(t, "write", "read") /\ Holds(t, [hand[t] EXCEPT !.i = @ + 1])
       /\ shared' = [shared EXCEPT !.histogram_general[hand[t].i] = hand[t].sum]
    \/ GivesMutex(t, "unlock", "free")
    \/ Moves(t, "free", "gone") /\ Nothing
    \/ at[t] = "free" /\ Astray(t) /\ Crashes

CountSort(t) == \/ t # CsMain /\ CountElement(t)
                \/ /\ t = CsMain /\ at[1] = "gone" /\ at[2] = "gone"
                   /\ Moves(t, "join", "gone") /\ Nothing

\* If the process lives to print, main prints of each char from 0 on how often
\* it is in the file; a byte from 128 on is in no count, and may end it before.
HistogramIsRight == at[CsMain] = "gone" => shared.histogram_general = Occurrences(shared.data)

-----------------------------------------------------------------------------
\* shuffle_dict.c: threads 1 and 2 sort their segments, while main merges.
\* bounds: two words in two copies, or three in one; NUM_THREADS is 2 here.
SdTexts == {<<1, 1, 2, 2>>, <<1, 2, 3>>}
SdMain  == 3

\* Each element from the last on is swapped with one not behind it.
SdShuffle(text) ==
    FoldLeft(LAMBDA arrays, i : {[a EXCEPT ![i] = a[j], ![j] = a[i]] : a \in arrays, j \in 1..i},
             {text}, Reverse([k \in 1 .. Len(text) - 1 |-> k + 1]))

SdShared(array) == [array |-> array, raced |-> FALSE]

SdSegment(t) == LET n == Len(shared.array)
                    size == n \div 2
                    first == size + (n % 2)
                IN  IF t = 1 THEN 1..first ELSE first + 1 .. n

\* main reads or writes cells that a thread is still sorting.
SdTouch(s, cells) == [s EXCEPT !.raced = @ \/ \E t \in {1, 2} :
                                   at[t] # "gone" /\ SdSegment(t) \cap cells # {}]

\* Mutated form: the key is put where the last word that moved was.
InsertionsortShort(t) ==
    LET a == shared.array
        h == hand[t]
        seg == SdSegment(t)
    IN  \/ /\ at[t] = "next"
           /\ IF h.i > Max(seg) THEN Moves(t, "next", "gone") /\ Nothing
              ELSE /\ Moves(t, "next", "scan") /\ UNCHANGED shared
                   /\ Holds(t, [h EXCEPT !.key = a[h.i], !.j = h.i - 1])
        \/ /\ at[t] = "scan"
           /\ IF h.j >= Min(seg) /\ a[h.j] > h.key
              THEN /\ UNCHANGED at /\ Holds(t, [h EXCEPT !.j = @ - 1])
                   /\ shared' = [shared EXCEPT !.array[h.j + 1] = a[h.j]]
              ELSE /\ Moves(t, "scan", "next") /\ Holds(t, [h EXCEPT !.i = @ + 1])
                   /\ shared' = [shared EXCEPT !.array[Max({h.j, Min(seg)})] = h.key]

\* SortSegment, with Insertionsort word by word
Insertionsort(t) ==
    LET a == shared.array
        h == hand[t]
        seg == SdSegment(t)
    IN  \/ /\ at[t] = "next"
           /\ IF h.i > Max(seg) THEN Moves(t, "next", "gone") /\ Nothing
              ELSE /\ Moves(t, "next", "scan") /\ UNCHANGED shared
                   /\ Holds(t, [h EXCEPT !.key = a[h.i], !.j = h.i - 1])
        \/ /\ at[t] = "scan"
           /\ IF h.j >= Min(seg) /\ a[h.j] > h.key
              THEN /\ UNCHANGED at /\ Holds(t, [h EXCEPT !.j = @ - 1])
                   /\ shared' = [shared EXCEPT !.array[h.j + 1] = a[h.j]]
              ELSE /\ Moves(t, "scan", "next") /\ Holds(t, [h EXCEPT !.i = @ + 1])
                   /\ shared' = [shared EXCEPT !.array[h.j + 1] = h.key]

\* The calls of Merge that MergeSort makes, as <<start, mid, end>>, in order.
MergeCalls(n) == IF n = 4 THEN << <<1, 1, 2>>, <<3, 3, 4>>, <<1, 2, 4>> >>
                          ELSE << <<1, 1, 2>>, <<1, 2, 3>> >>

\* Merge, which copies word by word and writes word by word.
Merge ==
    LET a == shared.array
        h == hand[SdMain]
        call == MergeCalls(Len(a))[h.k]
        n == Len(h.copy)
        left == call[2] - call[1] + 1
        takesLeft == h.l <= left /\ (h.r > n \/ h.copy[h.l] <= h.copy[h.r])
        whole == call[3] - call[1] + 1
    IN  \/ /\ at[SdMain] = "copy"
           /\ IF n < whole
              THEN /\ UNCHANGED at
                   /\ Holds(SdMain, [h EXCEPT !.copy = Append(@, a[call[1] + n])])
                   /\ shared' = SdTouch(shared, {call[1] + n})
              ELSE /\ Moves(SdMain, "copy", "merge") /\ UNCHANGED shared
                   /\ Holds(SdMain, [h EXCEPT !.l = 1, !.r = left + 1])
        \/ /\ at[SdMain] = "merge"
           /\ LET k == call[1] + (h.l - 1) + (h.r - left - 1) IN
              IF k <= call[3]
              THEN /\ UNCHANGED at
                   /\ Holds(SdMain, IF takesLeft THEN [h EXCEPT !.l = @ + 1]
                                                 ELSE [h EXCEPT !.r = @ + 1])
                   /\ shared' = SdTouch([shared EXCEPT !.array[k] =
                                            h.copy[IF takesLeft THEN h.l ELSE h.r]], {k})
              ELSE /\ Moves(SdMain, "merge", IF h.k = Len(MergeCalls(Len(a))) THEN "join" ELSE "copy")
                   /\ Holds(SdMain, [h EXCEPT !.k = IF @ = Len(MergeCalls(Len(a))) THEN @ ELSE @ + 1,
                                              !.copy = <<>>])
                   /\ UNCHANGED shared

\* main merges before it joins the threads that sort.
ShuffleDict(t) == \/ t # SdMain /\ Insertionsort(t)
                  \/ t = SdMain /\ Merge
                  \/ /\ t = SdMain /\ at[1] = "gone" /\ at[2] = "gone"
                     /\ Moves(t, "join", "gone") /\ Nothing

SdSorted(s) == \A k \in 1 .. Len(s) - 1 : s[k] <= s[k + 1]

\* The words in the array are always words of the dictionary, which main and the
\* threads may lose and double where they meet.  Where main did not merge what was
\* being sorted, a segment is sorted when its thread ends, and the whole when main
\* does, with each word as often as before.
ShuffleIsSorted ==
    /\ \E text \in SdTexts : /\ Len(text) = Len(shared.array)
                             /\ ToSet(shared.array) \subseteq ToSet(text)
    /\ ~shared.raced =>
          /\ \A t \in {1, 2} : at[t] = "gone" /\ at[SdMain] = "copy" /\ hand[SdMain].k = 1 =>
                SdSorted([k \in 1 .. Cardinality(SdSegment(t)) |->
                             shared.array[Min(SdSegment(t)) + k - 1]])
          /\ at[SdMain] = "gone" => shared.array \in SdTexts

-----------------------------------------------------------------------------
PrFirst(g, t) == CASE g = "semaphore" -> "command"
                   [] g = "ping_pong" -> IF t = Parent THEN "loop" ELSE "test"
                   [] g = "ipc" -> "sleep"
                   [] g = "count_sort" -> IF t = CsMain THEN "join" ELSE "count"
                   [] g = "shuffle_dict" -> IF t = SdMain THEN "copy" ELSE "next"

PrInit ==
    /\ game \in PrGames
    /\ at = [t \in PrOf(game) |-> PrFirst(game, t)]
    /\ \/ /\ game = "semaphore" /\ shared = SemShared
          /\ hand = [t \in {1, 2} |-> [op |-> 0, undo |-> FALSE, val |-> 0]]
       \/ game = "ping_pong" /\ shared = PpShared /\ hand = <<0, 0>>
       \/ game = "ipc" /\ shared = IpcShared /\ hand = <<0, 0>>
       \/ /\ game = "count_sort"
          /\ \E n \in 1..CsSize : \E data \in [1..n -> CsChars] : shared = CsShared(data)
          /\ hand = [t \in 1..3 |-> [histogram_local |-> [b \in CsBytes |-> 0], i |-> 0, sum |-> 0]]
       \/ /\ game = "shuffle_dict"
          /\ \E text \in SdTexts : \E array \in SdShuffle(text) : shared = SdShared(array)
          /\ hand = [t \in 1..3 |->
                        IF t = SdMain THEN [k |-> 1, copy |-> <<>>, l |-> 1, r |-> 1]
                        ELSE [i |-> Min(SdSegment(t)) + 1, j |-> 0, key |-> 0]]

PrStep(t) == \/ game = "semaphore" /\ Semaphore(t)
             \/ game = "ping_pong" /\ PingPong(t)
             \/ game = "ipc" /\ Ipc(t)
             \/ game = "count_sort" /\ CountSort(t)
             \/ game = "shuffle_dict" /\ ShuffleDict(t)

PrNext == \E t \in DOMAIN at : PrStep(t) /\ UNCHANGED game

PrAreRight == /\ game = "semaphore" => SemaphoreIsSum
              /\ game = "ping_pong" => TurnsAlternate
              /\ game = "ipc" => OnePrints
              /\ game = "count_sort" => HistogramIsRight
              /\ game = "shuffle_dict" => ShuffleIsSorted

\* The programs that end do, or crash, whatever the order of their threads; of the
\* two that take turns by signals the parent gets its next one, or has had
\* enough of them, unless a signal came between a test and its pause().
PrAwaits == \/ game \in {"count_sort", "shuffle_dict"}
            \/ game = "ping_pong" /\ at[Parent] = "test"
PrGets == \/ game \in {"count_sort", "shuffle_dict"} /\ at[3] \in {"gone", "crashed"}
          \/ game = "ping_pong" /\ (shared.lost \/ at[Parent] \in {"set", "gone"})
=============================================================================

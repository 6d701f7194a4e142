----------------------------- MODULE Libraries ------------------------------
(***************************************************************************)
(* The sequential libraries side by side: a behaviour is a client of one   *)
(* of them, the scheduler included.  kind says which, once and for all;    *)
(* the memory of the others does not exist.                                *)
(***************************************************************************)
EXTENDS Scheduler, SortedList, SList, Trees, Heap, Hash, Puzzles, Stores

\* The priority queue has lists and a scheduler of its own.
PQ == INSTANCE PQueue

libVars == <<vars, kind, store, log>>

LibraryInit == \/ kind = "dlist" /\ DlInit
               \/ kind = "sorted_list" /\ DlInit
               \/ kind = "priority" /\ DlInit
               \/ kind = "slist" /\ SlInit
               \/ kind = "bst" /\ BstInit
               \/ kind = "avl" /\ AvlInit
               \/ kind = "heap" /\ HpInit
               \/ kind = "hash" /\ HsInit
               \/ kind = "wes_hash" /\ WhInit
               \/ kind = "wes_heap" /\ WvInit
               \/ kind = "dhcp" /\ DhInit
               \/ kind = "puzzles" /\ PzInit
               \/ kind \in {"shell2", "shell3"} /\ ShInit
               \/ kind = "p_queue" /\ PQ!PqInit
               \/ StoresInit
               \/ kind = "scheduler" /\ store = NULL /\ log = NULL

LibraryCall == \/ kind = "dlist" /\ DlNext
               \/ kind = "sorted_list" /\ SrtNext
               \/ kind = "priority" /\ PrNext
               \/ kind = "slist" /\ SlNext
               \/ kind = "bst" /\ BstNext
               \/ kind = "avl" /\ AvlNext
               \/ kind = "heap" /\ HpNext
               \/ kind = "hash" /\ HsNext
               \/ kind = "wes_hash" /\ WhNext
               \/ kind = "wes_heap" /\ WvNext
               \/ kind = "dhcp" /\ DhNext
               \/ kind = "puzzles" /\ PzNext
               \/ kind \in {"shell2", "shell3"} /\ ShNext
               \/ kind = "p_queue" /\ PQ!PqNext
               \/ StoresCall

LibrariesInit == Init /\ LibraryInit

LibrariesNext == /\ UNCHANGED kind
                 /\ \/ kind = "scheduler" /\ Next /\ UNCHANGED <<store, log>>
                    \/ LibraryCall /\ UNCHANGED vars

\* The scheduler's fairness is that of LiveSpec; no library call must happen.
LibrariesSpec == /\ LibrariesInit
                 /\ [][LibrariesNext]_libVars
                 /\ WF_vars(~faulted /\ pc = "sleep" /\ Tick)
                 /\ WF_vars(~faulted /\ (Loop \/ StartTask))
                 /\ WF_vars(~faulted /\ Return)

-----------------------------------------------------------------------------
\* Linked lists, the sorted list, the queue, the search trees, the heaps and the
\* hash tables hold what their clients' calls put into them and did not take out,
\* once and in the order of each structure's own insertion, whatever calls fail
\* for want of memory; no block is in two places or freed while it is linked; the
\* address pool knows what it leased.  Where the code departs from its header
\* (Hash, SortedList, Trees) the part's comment says what it does instead.
StructuresHoldData == /\ kind = "dlist" => DlKeepsSequence
                      /\ kind = "sorted_list" => SrtIsSorted
                      /\ kind = "priority" => PriorityIsKept
                      /\ kind = "slist" => SlKeepsSequence
                      /\ kind = "p_queue" => PQ!PqKeepsOrder /\ PQ!PqNothingLeaks
                      /\ kind = "bst" => BstHoldsData
                      /\ kind = "avl" => AvlHoldsData
                      /\ kind = "heap" => HpIsHeap
                      /\ kind = "hash" => HsHoldsKeys
                      /\ kind = "wes_hash" => WhHoldsEntries
                      /\ kind = "wes_heap" => WvIsHeap
                      /\ kind = "dhcp" => DhcpKeepsLeases

\* The tours visit each square once, by a knight's moves, until they are stuck
\* or done; the calculator takes a line apart without losing a part of it; the
\* shells run what was typed as it was answered for.
ProgramsAreRight == /\ kind = "puzzles" => PuzzlesAreSolved
                    /\ kind \in {"shell2", "shell3"} => ShellsRunTheCommands
=============================================================================

------------------------------- MODULE Stores -------------------------------
(***************************************************************************)
(* The libraries whose models need no recursion, side by side: a behaviour *)
(* is a client of one of them, named by kind once and for all.  Libraries  *)
(* has them and all the others.                                            *)
(***************************************************************************)
EXTENDS Strings, Allocators, Arrays, Framework, Sorting

storeVars == <<kind, store, log>>

StoresInit == \/ kind = "allocators" /\ AlInit
              \/ kind = "strings" /\ StInit
              \/ kind = "array" /\ ArInit
              \/ kind = "sort" /\ SoInit
              \/ FwInit

StoresCall == \/ kind = "allocators" /\ AlNext
              \/ kind = "strings" /\ StNext
              \/ kind = "array" /\ ArNext
              \/ kind = "sort" /\ SoNext
              \/ FwNext

StoresNext == UNCHANGED kind /\ StoresCall

StoresSpec == StoresInit /\ [][StoresNext]_storeVars

-----------------------------------------------------------------------------
\* The allocators know which blocks are out and no two overlap; the shared
\* strings who shares a buffer and for how long; stack and vectors hold what was
\* pushed within the room that they have.
MemoryIsAccountedFor == /\ kind = "allocators" => AlBlocksAreKnown
                        /\ kind = "strings" => StringsKeepTheirText
                        /\ kind = "array" => ArHoldsData

\* Each turn of each sort keeps its loop invariant and the last one sorts.
SortsSort == kind = "sort" => SoPassesSort
=============================================================================

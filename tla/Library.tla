------------------------------ MODULE Library -------------------------------
(***************************************************************************)
(* What the models of the sequential libraries under Daniel/src2,          *)
(* Daniel/src, Daniel/cpp, Wes and 07_Calculator share.  A behaviour uses  *)
(* one library, named by kind; store is what the library keeps in memory,  *)
(* as the code lays it out; log is what its client may rely on, kept by    *)
(* the client's own view of the calls it made.                             *)
(***************************************************************************)
EXTENDS Integers, FiniteSetsExt, SequencesExt

CONSTANTS Cells,   \* bound: how many blocks malloc can give
          Values   \* what a client stores, numbers from 0

ASSUME LibraryAssumption == Cells \in Nat \ {0} /\ Values \subseteq Nat

VARIABLES kind, store, log

NULL == 0

\* malloc, which may fail: a set with the block it gives, or no block.
Malloc(used) == LET free == (1..Cells) \ used
                IN  {{}} \cup (IF free = {} THEN {} ELSE {{Min(free)}})

\* The order the clients' comparison functions put numbers in.
InOrder(s) == \A i \in 1 .. Len(s) - 1 : s[i] <= s[i + 1]

\* The same values, each as often, in any order.
SameBag(s, t) == \A v \in ToSet(s) \cup ToSet(t) :
                    Quantify(DOMAIN s, LAMBDA i : s[i] = v)
                    = Quantify(DOMAIN t, LAMBDA i : t[i] = v)
=============================================================================

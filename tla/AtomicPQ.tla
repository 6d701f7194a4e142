------------------------------ MODULE AtomicPQ ------------------------------
(***************************************************************************)
(* What WPQueue (framework/include/waitable_pq.hpp) promises its callers:  *)
(* Push makes an element available in one step, and Pop hands a maximal    *)
(* element to exactly one caller in one step, never returning empty-handed.*)
(* WaitablePQ implements this with a mutex and a condition variable;       *)
(* ThreadPool relies on nothing else.                                      *)
(***************************************************************************)
EXTENDS Naturals

CONSTANTS Items,       \* the elements handed to Push, one per call
          Consumers,   \* the threads that call Pop
          Prio         \* the priority the comparison functor orders by

VARIABLES contents,    \* what the queue holds
          delivered    \* for each consumer, the elements Pop returned to it

avars == <<contents, delivered>>

\* The elements that std::priority_queue may have on top of S.
Maximal(S) == {x \in S : \A y \in S : Prio[y] <= Prio[x]}

AInit == /\ contents = {}
         /\ delivered = [c \in Consumers |-> {}]

\* Push of an element that was not handed to the queue before.
Insert(x) == /\ x \notin contents
             /\ \A c \in Consumers : x \notin delivered[c]
             /\ contents' = contents \cup {x}
             /\ UNCHANGED delivered

\* Pop by consumer c: a maximal element moves from the queue to c.
Remove(c, x) == /\ x \in Maximal(contents)
                /\ contents' = contents \ {x}
                /\ delivered' = [delivered EXCEPT ![c] = @ \cup {x}]

ANext == \/ \E x \in Items : Insert(x)
         \/ \E c \in Consumers, x \in Items : Remove(c, x)

ASpec == AInit /\ [][ANext]_avars
=============================================================================

---------------------------- MODULE MCWaitablePQ ----------------------------
(***************************************************************************)
(* Model values for WaitablePQ.  Two elements of equal priority let the    *)
(* heap choose between roots, two consumers let notify_one choose between *)
(* waiters.                                                                *)
(***************************************************************************)
EXTENDS WaitablePQ

CONSTANTS p1, p2, c1, c2

MCProducers == {p1, p2}
MCConsumers == {c1, c2}
MCItems     == {"a", "b", "z"}
MCPrio      == [x \in MCItems |-> IF x = "a" THEN 1 ELSE 2]
=============================================================================

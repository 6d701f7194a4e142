---------------------------- MODULE MCNbdServer -----------------------------
(***************************************************************************)
(* Model values for NbdServer: one READ and one WRITE, two workers.        *)
(***************************************************************************)
EXTENDS NbdServer

CONSTANTS w1, w2

MCWorkers  == {w1, w2}
MCTwo      == {"read", "write1"}
MCOneWrite == {"write1"}

\* q and the newline that ends the line on a terminal.
MCLine == <<"q", "newline">>
MCQ    == <<"q">>

\* Nothing is typed.
MCNothing == <<>>
=============================================================================

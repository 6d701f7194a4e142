------------------------------ MODULE Exercise ------------------------------
(***************************************************************************)
(* What the models of the exercises with threads and processes share.  A   *)
(* behaviour is one program, named by game.                                *)
(***************************************************************************)
EXTENDS Integers, FiniteSetsExt, SequencesExt

VARIABLES game,     \* which program
          shared,   \* what its threads or processes share
          at,       \* where each of them is
          hand      \* what each of them has in its local variables

exVars == <<game, shared, at, hand>>

Free == 0   \* owner of a mutex that nobody holds; threads are numbered from 1

\* t goes from one place to another; the rest of the step says what changes.
Moves(t, from, to) == at[t] = from /\ at' = [at EXCEPT ![t] = to]
Sets(s) == shared' = s /\ UNCHANGED hand
Holds(t, v) == hand' = [hand EXCEPT ![t] = v]
Nothing == UNCHANGED <<shared, hand>>

\* The process ends where it is, with all its threads.
Crashes == at' = [t \in DOMAIN at |-> "crashed"] /\ Nothing

TakesMutex(t, from, to) == /\ Moves(t, from, to) /\ shared.mutex = Free
                           /\ Sets([shared EXCEPT !.mutex = t])
GivesMutex(t, from, to) == Moves(t, from, to) /\ Sets([shared EXCEPT !.mutex = Free])

\* sem_wait and sem_post on the semaphore s of shared.sem
SemWaits(t, s, from, to) == /\ Moves(t, from, to) /\ shared.sem[s] > 0
                            /\ Sets([shared EXCEPT !.sem[s] = @ - 1])
SemPosts(t, s, from, to) == Moves(t, from, to) /\ Sets([shared EXCEPT !.sem[s] = @ + 1])
=============================================================================

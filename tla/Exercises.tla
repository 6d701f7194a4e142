----------------------------- MODULE Exercises ------------------------------
(***************************************************************************)
(* The programs with threads and processes side by side: a behaviour is    *)
(* one of them, named by game.  The variables of Rendezvous belong to      *)
(* exercise6, those of Exercise to all others.                             *)
(***************************************************************************)
EXTENDS Rendezvous, Exchange, Processes, Plugins, Storage,
        Network, NbdDevice, Threads

allVars == <<vars, exVars>>

ExercisesInit ==
    /\ Init
    /\ \/ game = "exercise6" /\ shared = <<>> /\ at = <<>> /\ hand = <<>>
       \/ ExInit \/ PrInit \/ PgInit \/ RamInit \/ NtInit \/ NbdInit \/ RpInit \/ ThInit

\* A step of thread t, of the program that runs.
ThreadStep(t) == /\ t \in DOMAIN at /\ UNCHANGED game
                 /\ \/ game \in ExGames /\ ExStep(t)
                    \/ game \in PrGames /\ PrStep(t)
                    \/ game \in NtGames /\ NtStep(t)
                    \/ game = "nbd" /\ NbdStep(t)
                    \/ game = "replies" /\ RpStep(t)
                    \/ game \in ThGames /\ ThStep(t)

ExercisesNext == \/ game = "exercise6" /\ Next /\ UNCHANGED exVars
                 \/ /\ UNCHANGED vars
                    /\ PgNext \/ RamNext \/ (game = "tcp_udp" /\ SelTypes /\ UNCHANGED game)
                       \/ (game = "nbd" /\ NbdOutside /\ UNCHANGED game)
                       \/ (ThMay /\ UNCHANGED game)
                       \/ \E t \in DOMAIN at : ThreadStep(t)

\* That of LiveSpec for exercise6.  The threads and processes of the others
\* are scheduled too; nobody must write a file.
ExercisesFairness ==
    /\ WF_vars(game = "exercise6" /\ ProducerStep)
    /\ \A c \in Consumers : WF_vars(game = "exercise6" /\ ConsumerStep(c))
    /\ <>[][game = "exercise6" => ~Spurious]_vars
    /\ \A t \in 1..5 : WF_exVars(ThreadStep(t))
    /\ WF_exVars(game = "pnp" /\ PnpStep /\ UNCHANGED game)

ExercisesSpec == ExercisesInit /\ [][ExercisesNext]_allVars /\ ExercisesFairness

-----------------------------------------------------------------------------
\* Numbers arrive once and in order, semaphores count what they say, turns
\* alternate, threads leave what they share as if each had it for itself, chars
\* from 0 on are counted right if the process lives to print, and a storage gives
\* back what was written.  Where the code has no lock, or loses a message, what is
\* left of this is what each program's own property states.
ExercisesAreSafe == /\ game \in ExGames => ExNumbersArrive
                    /\ game \in PrGames => PrAreRight
                    /\ game \in NtGames => NtAreRight
                    /\ game = "nbd" => NbdAnswersInOrder
                    /\ game = "replies" => RepliesAreWhole
                    /\ ThAreRight
                    /\ StorageIsADisk

\* The programs that end do, no turn is waited for in vain and no flag stays
\* set; a behaviour is of one program, so that each gets what it awaits.
ExercisesGoOn == (ExAwaits \/ PrAwaits \/ NtAwaits \/ NbdAwaits \/ RpAwaits \/ ThAwaits)
                    ~> (ExGets \/ PrGets \/ NtGets \/ NbdGets \/ RpGets \/ ThGets)

\* In exercise6 the rounds go on.
RoundsGoOn == game = "exercise6" => RoundsContinue
=============================================================================

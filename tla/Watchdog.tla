------------------------------ MODULE Watchdog -------------------------------
(***************************************************************************)
(* MakeMeImurtal and DoNotResuscitate of Daniel/DAwatchdog: the main       *)
(* thread and the watchdog thread of the user's process, and the watchdog  *)
(* process.  Both sides run WDSchedulerManage and ping each other with     *)
(* SIGUSR1; who misses MaxFails answers is killed and started again.       *)
(*                                                                         *)
(* A signal is handled before its receiver takes another step; ++ of the   *)
(* volatile g_fail_counter is two, a load and a store, and a reset that is *)
(* handled between them is lost.  Time is counted in seconds, and what is  *)
(* due in a second happens in it, in any order.  A process may crash at    *)
(* any moment.  The processes are not root's: they may not signal init.    *)
(* Failing system calls are left out.                                      *)
(*                                                                         *)
(* scheduler.c executes what is due last, so that the task of interval 0   *)
(* (Resucitate, FirstSignal) waits until SigSenderAndCountChecker returns 1. *)
(***************************************************************************)
EXTENDS Integers

CONSTANTS Interval,   \* signal_intervals
          MaxFails,   \* max_fails
          MaxCrashes, \* bound on the crashes
          MaxLosses   \* bound on the handlers that run between load and store

ASSUME WatchdogAssumption == /\ Interval \in Nat \ {0} /\ MaxFails \in Nat \ {0}
                             /\ MaxCrashes \in Nat /\ MaxLosses \in Nat

VARIABLES main,    \* of the user's process: "start", "wait", "work", "join", "done",
                   \* "ended" when it has returned from main, "off" when killed
          thread,  \* WatchdogThread: "none", "new", "nap", "manage", "sched",
                   \* "count", "store", "fork", "last", "lastFork", "tell", "end"
          wd,      \* "off", "copy" until execvp, "start", "post", "manage",
                   \* "sched", "count", "store", "first", "revive"
          user,    \* its g_fail_counter, g_is_child_ready, g_is_not_resucitate,
                   \* what ++ has loaded, the seconds until the thread wakes, and
                   \* the resets that were lost since the last that was not
          dog,     \* the same of the watchdog process, and its signal_pid
          sem,     \* SEM_NAME
          crashes,
          losses   \* how often a handler ran between a load and its store

vars == <<main, thread, wd, user, dog, sem, crashes, losses>>

FreshUser == [count |-> 0, ready |-> FALSE, stop |-> FALSE, due |-> 0,
              load |-> 0, lost |-> 0]
FreshDog  == [count |-> 0, stop |-> FALSE, due |-> 0, pid |-> "user",
              load |-> 0, lost |-> 0]

UserUp == main \notin {"off", "ended"}

Init == /\ main = "start" /\ thread = "none" /\ wd = "off"
        /\ user = FreshUser /\ dog = FreshDog
        /\ sem = 0 /\ crashes = 0 /\ losses = 0

-----------------------------------------------------------------------------
\* ++g_fail_counter, and what a handler that runs meanwhile does to it.

\* SIGUSR1 sets the counter to 0; of a side between load and store it is open
\* yet whether that is lost.
Reset(r, place) ==
    [r EXCEPT !.count = 0, !.lost = IF place = "store" THEN @ ELSE 0]

\* The handler runs in this place of its side; how often it does so between load
\* and store is bounded.
Between(place) == /\ place = "store" => losses < MaxLosses
                  /\ losses' = IF place = "store" THEN losses + 1 ELSE losses

Load(r) == [r EXCEPT !.load = r.count]

\* What was loaded is stored, over a reset that came meanwhile; the task is due
\* again in an interval.
Store(r) == [r EXCEPT !.count = r.load + 1, !.due = Interval, !.load = 0,
                      !.lost = IF r.count = r.load THEN @ ELSE @ + 1]

-----------------------------------------------------------------------------
\* Signals, by what their receiver has installed.

\* WDSchedulerManage has installed SIGUSR1Handler and SIGUSR2Handler.
InTask == {"sched", "count", "store"}
Managed == thread \in InTask \cup {"fork", "last", "lastFork", "tell"}

\* Mutated form: SIGUSR1Handler does not set g_is_child_ready.
PingUserUnready == /\ thread' = IF thread = "nap" THEN "manage" ELSE thread
                   /\ user' = Reset(user, thread) /\ Between(thread)

\* SIGUSR1 interrupts sleep(2) of the thread, and until it has called
\* WDSchedulerManage SignalCountHandle only resets the counter.
PingUser == /\ thread' = IF thread = "nap" THEN "manage" ELSE thread
            /\ user' = [Reset(user, thread) EXCEPT !.ready = @ \/ Managed]
            /\ Between(thread)

\* Before it has a handler SIGUSR1 ends the watchdog.
PingWatchdog == /\ wd' = IF wd = "start" THEN "off" ELSE wd
                /\ dog' = Reset(dog, wd) /\ Between(wd)

\* SIGUSR2 ends it until WDSchedulerManage; a copy of the user's process still
\* has the user's handler, and execvp forgets what it noted.
StopWatchdog == /\ wd' = IF wd \in {"start", "post", "manage"} THEN "off" ELSE wd
                /\ dog' = [dog EXCEPT !.stop = wd \in InTask]

KillUser == /\ main' = IF UserUp THEN "off" ELSE main
            /\ thread' = "none"
            /\ user' = FreshUser

-----------------------------------------------------------------------------
\* The main thread

\* SIGUSR1 and SIGUSR2 are blocked, the semaphore is opened, the thread created.
MakeMeImurtal == /\ main = "start"
                 /\ main' = "wait" /\ thread' = "new"
                 /\ UNCHANGED <<wd, user, dog, sem, crashes, losses>>

SemWait == /\ main = "wait" /\ sem > 0
           /\ sem' = sem - 1
           /\ main' = "work"
           /\ UNCHANGED <<thread, wd, user, dog, crashes, losses>>

\* Mutated form: the semaphore is unlinked and nobody is told.
DoNotResuscitateSilently ==
    /\ main = "work" /\ main' = "join" /\ sem' = 0
    /\ UNCHANGED <<thread, wd, user, dog, crashes, losses>>

\* SIGUSR2 to itself ends the process as long as there is no handler.
DoNotResuscitate ==
    /\ main = "work"
    /\ \/ /\ Managed
          /\ user' = [user EXCEPT !.stop = TRUE]
          /\ sem' = 0
          /\ main' = "join"
          /\ UNCHANGED thread
       \/ ~Managed /\ KillUser /\ UNCHANGED sem
    /\ UNCHANGED <<wd, dog, crashes, losses>>

Joined == /\ main = "join" /\ thread = "end"
          /\ main' = "done"
          /\ UNCHANGED <<thread, wd, user, dog, sem, crashes, losses>>

Exit == /\ main = "done"
        /\ main' = "ended" /\ thread' = "none" /\ user' = FreshUser
        /\ UNCHANGED <<wd, dog, sem, crashes, losses>>

-----------------------------------------------------------------------------
\* The watchdog thread

Fork == /\ thread = "new"
        /\ wd' = "copy" /\ dog' = FreshDog
        /\ thread' = "nap" /\ user' = [user EXCEPT !.due = 2]
        /\ UNCHANGED <<main, sem, crashes, losses>>

Wake == /\ thread = "nap" /\ user.due = 0
        /\ thread' = "manage"
        /\ UNCHANGED <<main, wd, user, dog, sem, crashes, losses>>

Manage == /\ thread = "manage"
          /\ thread' = "sched" /\ user' = [user EXCEPT !.due = Interval]
          /\ UNCHANGED <<main, wd, dog, sem, crashes, losses>>

\* Mutated form: only answers that were asked for are counted.
SigSenderIfReady ==
    /\ thread = "sched" /\ user.due = 0
    /\ \/ /\ user.stop /\ thread' = "last" /\ UNCHANGED <<user, wd, dog, losses>>
       \/ /\ ~user.stop /\ user.count >= MaxFails
          /\ wd' = "off" /\ dog' = FreshDog /\ thread' = "fork"
          /\ UNCHANGED <<user, losses>>
       \/ /\ ~user.stop /\ user.count < MaxFails /\ user.ready
          /\ PingWatchdog /\ thread' = "count" /\ UNCHANGED user
       \/ /\ ~user.stop /\ user.count < MaxFails /\ ~user.ready
          /\ user' = [user EXCEPT !.due = Interval]
          /\ UNCHANGED <<thread, wd, dog, losses>>
    /\ UNCHANGED <<main, sem, crashes>>

\* SigSenderAndCountChecker until its ++: the end of the scheduler, Resucitate
\* until its fork, or a ping if the watchdog was ever heard.
SigSender ==
    /\ thread = "sched" /\ user.due = 0
    /\ \/ /\ user.stop /\ thread' = "last" /\ UNCHANGED <<wd, dog, losses>>
       \/ /\ ~user.stop /\ user.count >= MaxFails
          /\ wd' = "off" /\ dog' = FreshDog /\ thread' = "fork" /\ UNCHANGED losses
       \/ /\ ~user.stop /\ user.count < MaxFails
          /\ IF user.ready THEN PingWatchdog ELSE UNCHANGED <<wd, dog, losses>>
          /\ thread' = "count"
    /\ UNCHANGED <<main, user, sem, crashes>>

\* ++g_fail_counter of the user's side.
SigSenderLoads == /\ thread = "count"
                  /\ thread' = "store" /\ user' = Load(user)
                  /\ UNCHANGED <<main, wd, dog, sem, crashes, losses>>

SigSenderStores == /\ thread = "store"
                   /\ thread' = "sched" /\ user' = Store(user)
                   /\ UNCHANGED <<main, wd, dog, sem, crashes, losses>>

\* The task that waited behind SigSender: Resucitate, until its fork.
LastTask == /\ thread = "last"
            /\ wd' = "off" /\ dog' = FreshDog /\ thread' = "lastFork"
            /\ UNCHANGED <<main, user, sem, crashes, losses>>

\* The rest of Resucitate; SchedRun goes on, or is over.
ForkAgain == /\ thread \in {"fork", "lastFork"}
             /\ wd' = "copy" /\ dog' = FreshDog
             /\ user' = [user EXCEPT !.count = 0, !.ready = FALSE, !.due = Interval,
                                !.lost = 0]
             /\ thread' = IF thread = "fork" THEN "sched" ELSE "tell"
             /\ UNCHANGED <<main, sem, crashes, losses>>

Tell == /\ thread = "tell" /\ StopWatchdog
        /\ thread' = "end"
        /\ UNCHANGED <<main, user, sem, crashes, losses>>

-----------------------------------------------------------------------------
\* The watchdog process

Exec == /\ wd = "copy" /\ wd' = "start"
        /\ UNCHANGED <<main, thread, user, dog, sem, crashes, losses>>

Install == /\ wd = "start" /\ wd' = "post"
           /\ UNCHANGED <<main, thread, user, dog, sem, crashes, losses>>

SemPost == /\ wd = "post" /\ wd' = "manage"
           /\ sem' = sem + 1
           /\ UNCHANGED <<main, thread, user, dog, crashes, losses>>

\* getppid, which is init if the user's process has ended meanwhile.
WatchdogManage ==
    /\ wd = "manage" /\ wd' = "sched"
    /\ dog' = [dog EXCEPT !.due = Interval,
                          !.pid = IF UserUp THEN "user" ELSE "init"]
    /\ UNCHANGED <<main, thread, user, sem, crashes, losses>>

\* Mutated form: to find no process (ESRCH) is an error, too.
WatchdogSigSenderStrict ==
    /\ wd = "sched" /\ dog.due = 0
    /\ IF dog.stop THEN wd' = "first" /\ UNCHANGED <<main, thread, user, losses>>
       ELSE IF dog.count >= MaxFails
            THEN wd' = "revive" /\ KillUser /\ UNCHANGED losses
       ELSE IF ~UserUp
            THEN wd' = "off" /\ UNCHANGED <<main, thread, user, losses>>
       ELSE PingUser /\ wd' = "count" /\ UNCHANGED main
    /\ UNCHANGED <<dog, sem, crashes>>

\* Mutated form: one failure more is tolerated.
WatchdogSigSenderLate ==
    /\ wd = "sched" /\ dog.due = 0
    /\ IF dog.stop THEN wd' = "first" /\ UNCHANGED <<main, thread, user, losses>>
       ELSE IF dog.count > MaxFails
            THEN wd' = "revive" /\ KillUser /\ UNCHANGED losses
       ELSE IF dog.pid = "init"
            THEN wd' = "off" /\ UNCHANGED <<main, thread, user, losses>>
       ELSE PingUser /\ wd' = "count" /\ UNCHANGED main
    /\ UNCHANGED <<dog, sem, crashes>>

\* SigSenderAndCountChecker until its ++: kill fails with ESRCH when the user's
\* process is gone, which is tolerated, and with EPERM when signal_pid is init.
WatchdogSigSender ==
    /\ wd = "sched" /\ dog.due = 0
    /\ \/ dog.stop /\ wd' = "first" /\ UNCHANGED <<main, thread, user, losses>>
       \/ /\ ~dog.stop /\ dog.count >= MaxFails
          /\ wd' = "revive" /\ KillUser /\ UNCHANGED losses
       \/ /\ ~dog.stop /\ dog.count < MaxFails /\ dog.pid = "init"
          /\ wd' = "off" /\ UNCHANGED <<main, thread, user, losses>>
       \/ /\ ~dog.stop /\ dog.count < MaxFails /\ dog.pid = "user"
          /\ PingUser /\ wd' = "count" /\ UNCHANGED main
    /\ UNCHANGED <<dog, sem, crashes>>

\* ++g_fail_counter of the watchdog.
WatchdogLoads == /\ wd = "count"
                 /\ wd' = "store" /\ dog' = Load(dog)
                 /\ UNCHANGED <<main, thread, user, sem, crashes, losses>>

WatchdogStores == /\ wd = "store"
                  /\ wd' = "sched" /\ dog' = Store(dog)
                  /\ UNCHANGED <<main, thread, user, sem, crashes, losses>>

\* It pings once more, and ends whether that succeeds or not.
FirstSignal == /\ wd = "first" /\ wd' = "off"
               /\ IF dog.pid = "user" THEN PingUser
                  ELSE UNCHANGED <<thread, user, losses>>
               /\ dog' = FreshDog
               /\ UNCHANGED <<main, sem, crashes>>

\* execvp: the watchdog process becomes the user's.
ExecUser == /\ wd = "revive" /\ wd' = "off" /\ dog' = FreshDog
            /\ main' = "start" /\ thread' = "none" /\ user' = FreshUser
            /\ UNCHANGED <<sem, crashes, losses>>

-----------------------------------------------------------------------------
UserCrashes == /\ UserUp /\ crashes < MaxCrashes
               /\ KillUser
               /\ crashes' = crashes + 1
               /\ UNCHANGED <<wd, dog, sem, losses>>

WatchdogCrashes == /\ wd # "off" /\ crashes < MaxCrashes
                   /\ wd' = "off" /\ dog' = FreshDog
                   /\ crashes' = crashes + 1
                   /\ UNCHANGED <<main, thread, user, sem, losses>>

MainStep == MakeMeImurtal \/ SemWait \/ Joined
ThreadStep == \/ Fork \/ Wake \/ Manage
              \/ SigSender \/ SigSenderLoads \/ SigSenderStores
              \/ LastTask \/ ForkAgain \/ Tell
WatchdogStep == \/ Exec \/ Install \/ SemPost \/ WatchdogManage
                \/ WatchdogSigSender \/ WatchdogLoads \/ WatchdogStores
                \/ FirstSignal \/ ExecUser

\* Something is to be done in this second.
Busy == \/ main = "start"
        \/ main = "wait" /\ sem > 0
        \/ main = "join" /\ thread = "end"
        \/ thread \notin {"none", "nap", "sched", "end"}
        \/ thread \in {"nap", "sched"} /\ user.due = 0
        \/ wd \notin {"off", "sched"}
        \/ wd = "sched" /\ dog.due = 0

Tick == /\ ~Busy
        /\ user' = [user EXCEPT !.due = IF @ > 0 THEN @ - 1 ELSE 0]
        /\ dog' = [dog EXCEPT !.due = IF @ > 0 THEN @ - 1 ELSE 0]
        /\ UNCHANGED <<main, thread, wd, sem, crashes, losses>>

Next == \/ MainStep
        \/ DoNotResuscitate
        \/ Exit
        \/ ThreadStep
        \/ WatchdogStep
        \/ UserCrashes
        \/ WatchdogCrashes
        \/ Tick

Spec == Init /\ [][Next]_vars

\* Threads and processes are scheduled and time passes; the user's program need
\* not call DoNotResuscitate, nor end.
LiveSpec == /\ Spec
            /\ WF_vars(MainStep) /\ WF_vars(ThreadStep) /\ WF_vars(WatchdogStep)
            /\ WF_vars(Tick)

-----------------------------------------------------------------------------
\* Every variable keeps its type; no more failures are counted than allowed.
TypeOK == /\ main \in {"start", "wait", "work", "join", "done", "ended", "off"}
          /\ thread \in {"none", "new", "nap", "manage", "sched", "count", "store",
                         "fork", "last", "lastFork", "tell", "end"}
          /\ wd \in {"off", "copy", "start", "post", "manage", "sched", "count",
                     "store", "first", "revive"}
          /\ user \in [count : 0..MaxFails, ready : BOOLEAN, stop : BOOLEAN,
                       due : 0..(Interval + 2), load : 0..(MaxFails - 1),
                       lost : Nat]
          /\ thread = "count" => user.count < MaxFails
          /\ dog \in [count : 0..MaxFails, stop : BOOLEAN, due : 0..Interval,
                      pid : {"user", "init"}, load : 0..(MaxFails - 1),
                      lost : Nat]
          /\ wd = "count" => dog.count < MaxFails
          /\ sem \in Nat
          /\ crashes \in 0..MaxCrashes /\ losses \in 0..MaxLosses

\* The watchdog may ping once before WDSchedulerManage of the thread can answer,
\* unless two seconds, the thread's sleep, are less than an interval.
Early == IF Interval >= 3 THEN 0 ELSE 1

\* Who kills the other as dead although it lives and still answers has lost
\* nearly MaxFails answers in a row, each between load and store of its ++: no
\* interleaving of the two sides' starts, restarts and pings does it otherwise.
TheLivingAreSpared ==
    [][ /\ wd' = "revive" => \/ wd = "revive" \/ ~UserUp \/ thread = "end"
                             \/ dog.lost >= MaxFails - 1 - Early
        /\ thread' = "fork" => \/ thread = "fork" \/ wd = "off"
                               \/ user.lost >= MaxFails - 1 ]_vars

\* MakeMeImurtal: a user's process that is killed beside a watchdog that knows
\* it, and was not told to stop, is started again, if the watchdog survives.
UserIsRevived == \A c \in 0..MaxCrashes :
    main = "off" /\ wd = "sched" /\ dog.pid = "user" /\ ~dog.stop /\ crashes = c
        ~> main = "start" \/ crashes > c

\* The watchdog is watched, too: one that is killed is started again.
WatchdogIsRevived == \A c \in 0..MaxCrashes :
    thread = "sched" /\ wd = "off" /\ crashes = c
        ~> wd = "sched" \/ user.stop \/ crashes > c

\* DoNotResuscitate returns, whatever the watchdog is doing.
DoNotResuscitateReturns == main = "join" ~> main \in {"done", "off"}

=============================================================================

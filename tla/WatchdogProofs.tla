--------------------------- MODULE WatchdogProofs ----------------------------
(***************************************************************************)
(* Proofs about Watchdog for any interval, any limit of failures and any   *)
(* number of crashes and of resets that come between load and store.       *)
(***************************************************************************)
EXTENDS Watchdog, TLAPS

\* Where the processes and threads of both sides can be at the same time.
Booting == {"copy", "start", "post", "manage"}

UserPlaces ==
    /\ main \in {"off", "ended"} => thread = "none"
    /\ main = "start" => thread = "none" /\ wd = "off"
    /\ main \in {"wait", "work", "join", "done"} => thread # "none"
    /\ thread = "nap" => user.due <= 2
    /\ thread \in InTask => user.due <= Interval
    /\ thread \in {"none", "new", "nap", "manage"} => user.count = 0 /\ ~user.ready

DogPlaces ==
    /\ thread \in {"new", "fork", "lastFork"} => wd = "off"
    /\ wd \in Booting =>
          /\ dog.count = 0 /\ ~dog.stop
          /\ thread \in {"nap", "sched", "tell", "end", "none"}
          /\ thread = "nap" => user.due = 2
          /\ thread = "sched" => user.due = Interval /\ user.count = 0
    /\ wd \in {"first", "revive"} => thread \in {"end", "none"}
    /\ wd \in InTask /\ dog.stop => thread \in {"end", "none"}
    /\ wd \in InTask /\ dog.pid = "init" => ~UserUp

\* A reset is lost only over a failure that was counted.
Lossy(r, place) == IF place = "store"
                   THEN r.lost <= r.load /\ r.count \in {0, r.load}
                   ELSE r.lost <= r.count

Losses == Lossy(user, thread) /\ Lossy(dog, wd)

-----------------------------------------------------------------------------
\* The two sides' records, and what an update of some of their fields leaves.
Counts == 0..MaxFails

Loads == 0..(MaxFails - 1)

Users == [count : Counts, ready : BOOLEAN, stop : BOOLEAN, due : 0..(Interval + 2),
          load : Loads, lost : Nat]

Dogs == [count : Counts, stop : BOOLEAN, due : 0..Interval, pid : {"user", "init"},
         load : Loads, lost : Nat]

IsUser(u, c, r, s, d, l, x) ==
    /\ u \in Users /\ u.count = c /\ u.ready = r /\ u.stop = s /\ u.due = d
    /\ u.load = l /\ u.lost = x

IsDog(u, c, s, d, p, l, x) ==
    /\ u \in Dogs /\ u.count = c /\ u.stop = s /\ u.due = d /\ u.pid = p
    /\ u.load = l /\ u.lost = x

\* What the handlers and tasks write into the user's side.
LEMMA UserUpdate ==
    ASSUME NEW u \in Users, NEW c \in Counts, NEW r \in BOOLEAN,
           NEW s \in BOOLEAN, NEW d \in 0..(Interval + 2), NEW l \in Loads,
           NEW x \in Nat
    PROVE /\ IsUser([u EXCEPT !.stop = s], u.count, u.ready, s, u.due, u.load, u.lost)
          /\ IsUser([u EXCEPT !.due = d], u.count, u.ready, u.stop, d, u.load, u.lost)
          /\ IsUser([u EXCEPT !.count = c, !.lost = x],
                    c, u.ready, u.stop, u.due, u.load, x)
          /\ IsUser([u EXCEPT !.ready = r], u.count, r, u.stop, u.due, u.load, u.lost)
          /\ IsUser([u EXCEPT !.load = l], u.count, u.ready, u.stop, u.due, l, u.lost)
          /\ IsUser([u EXCEPT !.count = c, !.due = d, !.load = l, !.lost = x],
                    c, u.ready, u.stop, d, l, x)
          /\ IsUser([u EXCEPT !.count = c, !.ready = r, !.due = d, !.lost = x],
                    c, r, u.stop, d, u.load, x)
<1> USE DEF Users, IsUser
<1>1. IsUser([u EXCEPT !.stop = s], u.count, u.ready, s, u.due, u.load, u.lost)
  OBVIOUS
<1>2. IsUser([u EXCEPT !.due = d], u.count, u.ready, u.stop, d, u.load, u.lost)
  OBVIOUS
<1>3. IsUser([u EXCEPT !.count = c, !.lost = x],
             c, u.ready, u.stop, u.due, u.load, x)
  OBVIOUS
<1>4. IsUser([u EXCEPT !.ready = r], u.count, r, u.stop, u.due, u.load, u.lost)
  OBVIOUS
<1>5. IsUser([u EXCEPT !.load = l], u.count, u.ready, u.stop, u.due, l, u.lost)
  OBVIOUS
<1>6. IsUser([u EXCEPT !.count = c, !.due = d, !.load = l, !.lost = x],
             c, u.ready, u.stop, d, l, x)
  OBVIOUS
<1>7. IsUser([u EXCEPT !.count = c, !.ready = r, !.due = d, !.lost = x],
             c, r, u.stop, d, u.load, x)
  OBVIOUS
<1>8. QED
  BY <1>1, <1>2, <1>3, <1>4, <1>5, <1>6, <1>7

\* What they write into the watchdog's side.
LEMMA DogUpdate ==
    ASSUME NEW u \in Dogs, NEW c \in Counts, NEW s \in BOOLEAN,
           NEW d \in 0..Interval, NEW p \in {"user", "init"}, NEW l \in Loads,
           NEW x \in Nat
    PROVE /\ IsDog([u EXCEPT !.count = c, !.lost = x],
                   c, u.stop, u.due, u.pid, u.load, x)
          /\ IsDog([u EXCEPT !.stop = s], u.count, s, u.due, u.pid, u.load, u.lost)
          /\ IsDog([u EXCEPT !.due = d], u.count, u.stop, d, u.pid, u.load, u.lost)
          /\ IsDog([u EXCEPT !.due = d, !.pid = p], u.count, u.stop, d, p, u.load, u.lost)
          /\ IsDog([u EXCEPT !.load = l], u.count, u.stop, u.due, u.pid, l, u.lost)
          /\ IsDog([u EXCEPT !.count = c, !.due = d, !.load = l, !.lost = x],
                   c, u.stop, d, u.pid, l, x)
<1> USE DEF Dogs, IsDog
<1>1. IsDog([u EXCEPT !.count = c, !.lost = x],
            c, u.stop, u.due, u.pid, u.load, x)
  OBVIOUS
<1>2. IsDog([u EXCEPT !.stop = s], u.count, s, u.due, u.pid, u.load, u.lost)
  OBVIOUS
<1>3. IsDog([u EXCEPT !.due = d], u.count, u.stop, d, u.pid, u.load, u.lost)
  OBVIOUS
<1>4. IsDog([u EXCEPT !.due = d, !.pid = p], u.count, u.stop, d, p, u.load, u.lost)
  OBVIOUS
<1>5. IsDog([u EXCEPT !.load = l], u.count, u.stop, u.due, u.pid, l, u.lost)
  OBVIOUS
<1>6. IsDog([u EXCEPT !.count = c, !.due = d, !.load = l, !.lost = x],
            c, u.stop, d, u.pid, l, x)
  OBVIOUS
<1>7. QED
  BY <1>1, <1>2, <1>3, <1>4, <1>5, <1>6

\* A side that starts afresh.
LEMMA Fresh == /\ IsUser(FreshUser, 0, FALSE, FALSE, 0, 0, 0)
               /\ IsDog(FreshDog, 0, FALSE, 0, "user", 0, 0)
<1>1. IsUser(FreshUser, 0, FALSE, FALSE, 0, 0, 0)
  BY WatchdogAssumption DEF IsUser, Users, Counts, Loads, FreshUser
<1>2. IsDog(FreshDog, 0, FALSE, 0, "user", 0, 0)
  BY WatchdogAssumption DEF IsDog, Dogs, Counts, Loads, FreshDog
<1>3. QED
  BY <1>1, <1>2

-----------------------------------------------------------------------------
\* What the steps do to both records.
Less(n) == IF n > 0 THEN n - 1 ELSE 0

\* Every value an update writes is one its field may have.
LEMMA Values ==
    ASSUME TypeOK
    PROVE /\ user \in Users /\ dog \in Dogs
          /\ user.count \in Counts /\ user.ready \in BOOLEAN
          /\ user.stop \in BOOLEAN /\ user.due \in 0..(Interval + 2)
          /\ user.load \in Loads /\ user.lost \in Nat
          /\ dog.count \in Counts /\ dog.stop \in BOOLEAN
          /\ dog.due \in 0..Interval /\ dog.pid \in {"user", "init"}
          /\ dog.load \in Loads /\ dog.lost \in Nat
          /\ 0 \in Counts /\ 0 \in Loads /\ 2 \in 0..(Interval + 2)
          /\ Interval \in 0..(Interval + 2) /\ Interval \in 0..Interval
          /\ user.load + 1 \in Counts /\ dog.load + 1 \in Counts
          /\ user.count < MaxFails => user.count \in Loads
          /\ dog.count < MaxFails => dog.count \in Loads
          /\ Less(user.due) \in 0..(Interval + 2) /\ Less(dog.due) \in 0..Interval
<1>1. user \in Users /\ dog \in Dogs
  BY DEF TypeOK, Users, Dogs, Counts, Loads
<1>2. /\ user.count \in Counts /\ user.ready \in BOOLEAN
      /\ user.stop \in BOOLEAN /\ user.due \in 0..(Interval + 2)
      /\ user.load \in Loads /\ user.lost \in Nat
  BY <1>1 DEF Users
<1>3. /\ dog.count \in Counts /\ dog.stop \in BOOLEAN
      /\ dog.due \in 0..Interval /\ dog.pid \in {"user", "init"}
      /\ dog.load \in Loads /\ dog.lost \in Nat
  BY <1>1 DEF Dogs
<1>4. /\ 0 \in Counts /\ 0 \in Loads /\ 2 \in 0..(Interval + 2)
      /\ Interval \in 0..(Interval + 2) /\ Interval \in 0..Interval
  BY WatchdogAssumption DEF Counts, Loads
<1>5. /\ user.load + 1 \in Counts /\ dog.load + 1 \in Counts
      /\ user.count < MaxFails => user.count \in Loads
      /\ dog.count < MaxFails => dog.count \in Loads
  BY <1>2, <1>3, WatchdogAssumption DEF Counts, Loads
<1>6. Less(user.due) \in 0..(Interval + 2) /\ Less(dog.due) \in 0..Interval
  BY <1>2, <1>3, WatchdogAssumption DEF Less
<1>7. QED
  BY <1>1, <1>2, <1>3, <1>4, <1>5, <1>6

Kept(r, place) == IF place = "store" THEN r.lost ELSE 0

LEMMA PingUserDoes ==
    ASSUME TypeOK, PingUser
    PROVE IsUser(user', 0, user.ready \/ Managed, user.stop, user.due, user.load,
                 Kept(user, thread))
<1> DEFINE u == Reset(user, thread)
<1>1. IsUser(u, 0, user.ready, user.stop, user.due, user.load, Kept(user, thread))
  <2>1. Kept(user, thread) \in Nat
    BY Values DEF Kept
  <2>2. u = [user EXCEPT !.count = 0, !.lost = Kept(user, thread)]
    BY Values DEF Reset, Kept, Users
  <2>3. IsUser([user EXCEPT !.count = 0, !.lost = Kept(user, thread)],
               0, user.ready, user.stop, user.due, user.load, Kept(user, thread))
    <3>1. user \in Users /\ 0 \in Counts
      BY Values
    <3>2. QED
      BY <2>1, <3>1, Values, UserUpdate
  <2>4. QED
    BY <2>2, <2>3
<1> HIDE DEF u
<1>2. u \in Users /\ u.ready = user.ready
  BY <1>1 DEF IsUser
<1>3. user' = [u EXCEPT !.ready = user.ready \/ Managed]
  BY <1>2 DEF PingUser, u
<1>4. (user.ready \/ Managed) \in BOOLEAN
  OBVIOUS
<1>5. IsUser(user', u.count, user.ready \/ Managed, u.stop, u.due, u.load, u.lost)
  BY <1>2, <1>3, <1>4, Values, UserUpdate
<1>6. QED
  BY <1>1, <1>5 DEF IsUser

LEMMA PingWatchdogDoes ==
    ASSUME TypeOK, PingWatchdog
    PROVE IsDog(dog', 0, dog.stop, dog.due, dog.pid, dog.load, Kept(dog, wd))
<1>1. Kept(dog, wd) \in Nat
  BY Values DEF Kept
<1>2. dog' = [dog EXCEPT !.count = 0, !.lost = Kept(dog, wd)]
  BY Values DEF PingWatchdog, Reset, Kept, Dogs
<1>3. QED
  BY <1>1, <1>2, Values, DogUpdate

LEMMA TellDoes ==
    ASSUME TypeOK, Tell
    PROVE IsDog(dog', dog.count, wd \in InTask, dog.due, dog.pid, dog.load, dog.lost)
<1>1. (wd \in InTask) \in BOOLEAN
  OBVIOUS
<1>2. QED
  BY <1>1, Values, DogUpdate DEF Tell, StopWatchdog

LEMMA DoNotResuscitateDoes ==
    ASSUME TypeOK, DoNotResuscitate
    PROVE \/ IsUser(user', user.count, user.ready, TRUE, user.due, user.load, user.lost)
          \/ KillUser
<1>1. TRUE \in BOOLEAN
  OBVIOUS
<1>2. QED
  BY <1>1, Values, UserUpdate DEF DoNotResuscitate

LEMMA ThreadDoes ==
    ASSUME TypeOK
    PROVE /\ Fork => IsUser(user', user.count, user.ready, user.stop, 2,
                            user.load, user.lost)
          /\ Manage => IsUser(user', user.count, user.ready, user.stop, Interval,
                              user.load, user.lost)
          /\ ForkAgain => IsUser(user', 0, FALSE, user.stop, Interval, user.load, 0)
<1>1. FALSE \in BOOLEAN /\ 0 \in Nat
  OBVIOUS
<1>2. Fork => IsUser(user', user.count, user.ready, user.stop, 2,
                     user.load, user.lost)
  BY Values, UserUpdate DEF Fork
<1>3. Manage => IsUser(user', user.count, user.ready, user.stop, Interval,
                       user.load, user.lost)
  <2>1. IsUser([user EXCEPT !.due = Interval], user.count, user.ready, user.stop,
               Interval, user.load, user.lost)
    BY Values, UserUpdate
  <2>2. QED
    BY <2>1 DEF Manage
<1>4. ForkAgain => IsUser(user', 0, FALSE, user.stop, Interval, user.load, 0)
  <2>1. IsUser([user EXCEPT !.count = 0, !.ready = FALSE, !.due = Interval, !.lost = 0],
               0, FALSE, user.stop, Interval, user.load, 0)
    BY <1>1, Values, UserUpdate
  <2>2. QED
    BY <2>1 DEF ForkAgain
<1>5. QED
  BY <1>2, <1>3, <1>4

\* What ++ leaves of the resets that were lost.
After(r) == IF r.count = r.load THEN r.lost ELSE r.lost + 1

LEMMA CountDoes ==
    ASSUME TypeOK
    PROVE /\ SigSenderLoads => IsUser(user', user.count, user.ready, user.stop,
                                      user.due, user.count, user.lost)
          /\ SigSenderStores => IsUser(user', user.load + 1, user.ready, user.stop,
                                       Interval, 0, After(user))
          /\ WatchdogLoads => IsDog(dog', dog.count, dog.stop, dog.due, dog.pid,
                                    dog.count, dog.lost)
          /\ WatchdogStores => IsDog(dog', dog.load + 1, dog.stop, Interval, dog.pid,
                                     0, After(dog))
<1>1. ASSUME SigSenderLoads
      PROVE IsUser(user', user.count, user.ready, user.stop, user.due, user.count,
                   user.lost)
  <2>1. user.count \in Loads
    BY <1>1, Values DEF SigSenderLoads, TypeOK
  <2>2. QED
    BY <1>1, <2>1, Values, UserUpdate DEF SigSenderLoads, Load
<1>2. ASSUME SigSenderStores
      PROVE IsUser(user', user.load + 1, user.ready, user.stop, Interval, 0, After(user))
  <2>1. After(user) \in Nat
    BY Values DEF After
  <2>2. user' = [user EXCEPT !.count = user.load + 1, !.due = Interval, !.load = 0,
                             !.lost = After(user)]
    BY <1>2, Values DEF SigSenderStores, Store, After, Users
  <2>3. QED
    BY <2>1, <2>2, Values, UserUpdate
<1>3. ASSUME WatchdogLoads
      PROVE IsDog(dog', dog.count, dog.stop, dog.due, dog.pid, dog.count, dog.lost)
  <2>1. dog.count \in Loads
    BY <1>3, Values DEF WatchdogLoads, TypeOK
  <2>2. QED
    BY <1>3, <2>1, Values, DogUpdate DEF WatchdogLoads, Load
<1>4. ASSUME WatchdogStores
      PROVE IsDog(dog', dog.load + 1, dog.stop, Interval, dog.pid, 0, After(dog))
  <2>1. After(dog) \in Nat
    BY Values DEF After
  <2>2. dog' = [dog EXCEPT !.count = dog.load + 1, !.due = Interval, !.load = 0,
                           !.lost = After(dog)]
    BY <1>4, Values DEF WatchdogStores, Store, After, Dogs
  <2>3. QED
    BY <2>1, <2>2, Values, DogUpdate
<1>5. QED
  BY <1>1, <1>2, <1>3, <1>4

LEMMA WatchdogManageDoes ==
    ASSUME TypeOK, WatchdogManage
    PROVE IsDog(dog', dog.count, dog.stop, Interval, IF UserUp THEN "user" ELSE "init",
                dog.load, dog.lost)
<1>1. (IF UserUp THEN "user" ELSE "init") \in {"user", "init"}
  OBVIOUS
<1>2. QED
  BY <1>1, Values, DogUpdate DEF WatchdogManage

LEMMA TickDoes ==
    ASSUME TypeOK, Tick
    PROVE /\ IsUser(user', user.count, user.ready, user.stop, Less(user.due),
                    user.load, user.lost)
          /\ IsDog(dog', dog.count, dog.stop, Less(dog.due), dog.pid,
                   dog.load, dog.lost)
<1>1. /\ user' = [user EXCEPT !.due = Less(user.due)]
      /\ dog' = [dog EXCEPT !.due = Less(dog.due)]
  BY DEF Tick, Less
<1>2. QED
  BY <1>1, Values, UserUpdate, DogUpdate

-----------------------------------------------------------------------------
\* Every step keeps the types.
LEMMA TypeStep == ASSUME TypeOK, [Next]_vars PROVE TypeOK'
<1> DEFINE Ok == /\ user' \in Users /\ dog' \in Dogs
                 /\ thread' = "count" => user'.count < MaxFails
                 /\ wd' = "count" => dog'.count < MaxFails
                 /\ losses' \in 0..MaxLosses
<1>1. ASSUME Ok, UNCHANGED <<sem, crashes>> \/ UserCrashes \/ WatchdogCrashes
                 \/ SemWait \/ SemPost \/ DoNotResuscitate,
             main' \in {"start", "wait", "work", "join", "done", "ended", "off"},
             thread' \in {"none", "new", "nap", "manage", "sched", "count", "store",
                          "fork", "last", "lastFork", "tell", "end"},
             wd' \in {"off", "copy", "start", "post", "manage", "sched", "count",
                      "store", "first", "revive"}
      PROVE TypeOK'
  <2>1. sem' \in Nat
    BY <1>1 DEF TypeOK, UserCrashes, WatchdogCrashes, SemWait, SemPost,
                DoNotResuscitate
  <2>2. crashes' \in 0..MaxCrashes
    BY <1>1, WatchdogAssumption
       DEF TypeOK, UserCrashes, WatchdogCrashes, SemWait, SemPost, DoNotResuscitate
  <2>3. QED
    BY <1>1, <2>1, <2>2 DEF TypeOK, Users, Dogs, Counts, Loads
<1> HIDE DEF Ok
<1>2. FreshUser \in Users /\ FreshDog \in Dogs /\ 0 < MaxFails
  BY Fresh, WatchdogAssumption DEF IsUser, IsDog
<1>3. KillUser => user' \in Users /\ thread' = "none"
  BY <1>2 DEF KillUser
<1>4. \A place : Between(place) => losses' \in 0..MaxLosses
  BY WatchdogAssumption DEF Between, TypeOK
<1>5. PingUser => /\ user' \in Users /\ losses' \in 0..MaxLosses
                  /\ user'.count < MaxFails
  BY <1>2, <1>4, PingUserDoes DEF IsUser, PingUser
<1>6. PingWatchdog => /\ dog' \in Dogs /\ losses' \in 0..MaxLosses
                      /\ dog'.count < MaxFails
  BY <1>2, <1>4, PingWatchdogDoes DEF IsDog, PingWatchdog
<1>7. /\ user \in Users /\ dog \in Dogs /\ losses \in 0..MaxLosses
      /\ thread = "count" => user.count < MaxFails
      /\ wd = "count" => dog.count < MaxFails
  BY Values DEF TypeOK
<1>8. CASE UNCHANGED vars
  BY <1>8 DEF vars, TypeOK
<1>9. ASSUME MainStep \/ Exit PROVE TypeOK'
  <2>1. Ok
    BY <1>2, <1>7, <1>9 DEF Ok, MainStep, MakeMeImurtal, SemWait, Joined, Exit
  <2>2. QED
    BY <1>1, <1>9, <2>1 DEF TypeOK, MainStep, MakeMeImurtal, SemWait, Joined, Exit
<1>10. ASSUME DoNotResuscitate PROVE TypeOK'
  <2>1. user' \in Users /\ (thread' = "count" => user'.count < MaxFails)
    BY <1>3, <1>7, <1>10, DoNotResuscitateDoes DEF DoNotResuscitate, IsUser
  <2>2. Ok
    BY <1>7, <1>10, <2>1 DEF Ok, DoNotResuscitate
  <2>3. QED
    BY <1>1, <1>10, <2>2 DEF TypeOK, DoNotResuscitate, KillUser
<1>11. ASSUME Fork \/ Wake \/ Manage \/ LastTask \/ ForkAgain \/ Tell PROVE TypeOK'
  <2>1. user' \in Users /\ thread' # "count"
    BY <1>7, <1>11, ThreadDoes
       DEF Fork, Wake, Manage, LastTask, ForkAgain, Tell, IsUser
  <2>2. dog' \in Dogs /\ (wd' = "count" => dog'.count < MaxFails)
    BY <1>2, <1>7, <1>11, TellDoes
       DEF Fork, Wake, Manage, LastTask, ForkAgain, Tell, IsDog, StopWatchdog
  <2>3. Ok
    BY <1>7, <1>11, <2>1, <2>2 DEF Ok, Fork, Wake, Manage, LastTask, ForkAgain, Tell
  <2>4. QED
    BY <1>1, <1>11, <2>3
       DEF TypeOK, Fork, Wake, Manage, LastTask, ForkAgain, Tell, StopWatchdog
<1>12. ASSUME SigSender PROVE TypeOK'
  <2>1. dog' \in Dogs /\ losses' \in 0..MaxLosses /\ (wd' = "count" => dog'.count < MaxFails)
    BY <1>2, <1>6, <1>7, <1>12 DEF SigSender
  <2>2. Ok
    BY <1>7, <1>12, <2>1 DEF Ok, SigSender
  <2>3. QED
    BY <1>1, <1>12, <2>2 DEF TypeOK, SigSender, PingWatchdog
<1>13. ASSUME SigSenderLoads \/ SigSenderStores \/ WatchdogLoads \/ WatchdogStores
       PROVE TypeOK'
  <2>1. Ok
    BY <1>7, <1>13, CountDoes
       DEF Ok, IsUser, IsDog, SigSenderLoads, SigSenderStores, WatchdogLoads,
           WatchdogStores
  <2>2. QED
    BY <1>1, <1>13, <2>1
       DEF TypeOK, SigSenderLoads, SigSenderStores, WatchdogLoads, WatchdogStores
<1>14. ASSUME Exec \/ Install \/ SemPost \/ WatchdogManage \/ ExecUser PROVE TypeOK'
  <2>1. Ok
    BY <1>2, <1>7, <1>14, WatchdogManageDoes
       DEF Ok, Exec, Install, SemPost, WatchdogManage, ExecUser, IsDog
  <2>2. QED
    BY <1>1, <1>14, <2>1
       DEF TypeOK, Exec, Install, SemPost, WatchdogManage, ExecUser
<1>15. ASSUME FirstSignal PROVE TypeOK'
  <2>1. Ok
    BY <1>2, <1>5, <1>7, <1>15 DEF Ok, FirstSignal
  <2>2. QED
    BY <1>1, <1>15, <2>1 DEF TypeOK, FirstSignal, PingUser
<1>16. ASSUME WatchdogSigSender PROVE TypeOK'
  <2>1. /\ user' \in Users /\ losses' \in 0..MaxLosses
        /\ thread' = "count" => user'.count < MaxFails
    BY <1>3, <1>5, <1>7, <1>16 DEF WatchdogSigSender
  <2>2. Ok
    BY <1>7, <1>16, <2>1 DEF Ok, WatchdogSigSender
  <2>3. QED
    BY <1>1, <1>16, <2>2 DEF TypeOK, WatchdogSigSender, PingUser, KillUser
<1>17. ASSUME UserCrashes \/ WatchdogCrashes PROVE TypeOK'
  <2>1. Ok
    BY <1>2, <1>3, <1>7, <1>17 DEF Ok, UserCrashes, WatchdogCrashes
  <2>2. QED
    BY <1>1, <1>17, <2>1 DEF TypeOK, UserCrashes, WatchdogCrashes, KillUser
<1>18. ASSUME Tick PROVE TypeOK'
  <2>1. Ok
    BY <1>7, <1>18, TickDoes DEF Ok, IsUser, IsDog, Tick
  <2>2. QED
    BY <1>1, <1>18, <2>1 DEF TypeOK, Tick
<1>19. QED
  BY <1>8, <1>9, <1>10, <1>11, <1>12, <1>13, <1>14, <1>15, <1>16, <1>17, <1>18
     DEF Next, ThreadStep, WatchdogStep

\* Type correctness: no more failures are counted than allowed.
THEOREM Typing == Spec => []TypeOK
<1>1. Init => TypeOK
  BY WatchdogAssumption DEF Init, TypeOK, FreshUser, FreshDog
<1>2. TypeOK /\ [Next]_vars => TypeOK'
  BY TypeStep
<1>3. QED
  BY <1>1, <1>2, PTL DEF Spec

-----------------------------------------------------------------------------
\* Where the user's side can be is kept by every step.
LEMMA UserPlacesStep ==
    ASSUME TypeOK, UserPlaces, [Next]_vars
    PROVE UserPlaces'
<1> USE DEF UserPlaces, InTask
<1>1. KillUser => UserPlaces'
  BY Fresh DEF KillUser, IsUser, UserUp
<1>2. ASSUME PingUser, UNCHANGED main, wd # "off" PROVE UserPlaces'
  <2>1. /\ user'.count = 0 /\ user'.due = user.due
        /\ ~Managed => user'.ready = user.ready
    BY <1>2, PingUserDoes, Values DEF IsUser
  <2>2. thread' = IF thread = "nap" THEN "manage" ELSE thread
    BY <1>2 DEF PingUser
  <2>3. CASE thread = "nap"
    BY <1>2, <2>1, <2>2, <2>3 DEF Managed
  <2>4. CASE thread # "nap"
    <3>1. thread' = thread
      BY <2>2, <2>4
    <3>2. thread \in {"none", "new", "manage"} => ~Managed
      BY DEF Managed
    <3>3. thread \in {"none", "new", "manage"} => user'.count = 0 /\ ~user'.ready
      BY <2>1, <3>2
    <3>4. user'.due = user.due
      BY <2>1
    <3>5. QED
      BY <1>2, <2>4, <3>1, <3>3, <3>4
  <2>5. QED
    BY <2>3, <2>4
<1>3. CASE UNCHANGED vars
  BY <1>3 DEF vars
<1>4. ASSUME MainStep \/ Exit PROVE UserPlaces'
  BY <1>4, Fresh DEF MainStep, MakeMeImurtal, SemWait, Joined, Exit, IsUser
<1>5. ASSUME DoNotResuscitate PROVE UserPlaces'
  <2>1. CASE Managed /\ UNCHANGED thread /\ main' = "join" /\ main = "work"
    <3>1. user' = [user EXCEPT !.stop = TRUE] => user'.due = user.due
      BY Values DEF Users
    <3>2. QED
      BY <1>5, <2>1, <3>1 DEF Managed, DoNotResuscitate
  <2>2. QED
    BY <1>1, <1>5, <2>1 DEF DoNotResuscitate
<1>6. ASSUME Fork PROVE UserPlaces'
  BY <1>6, ThreadDoes DEF Fork, IsUser
<1>7. ASSUME Wake \/ LastTask \/ Tell PROVE UserPlaces'
  BY <1>7 DEF Wake, LastTask, Tell
<1>8. ASSUME Manage PROVE UserPlaces'
  BY <1>8, ThreadDoes, WatchdogAssumption DEF Manage, IsUser
<1>9. ASSUME ForkAgain PROVE UserPlaces'
  BY <1>9, ThreadDoes, WatchdogAssumption DEF ForkAgain, IsUser
<1>10. ASSUME SigSender PROVE UserPlaces'
  <2>1. UNCHANGED <<main, user>> /\ thread' \in {"last", "fork", "count"}
    BY <1>10 DEF SigSender
  <2>2. (wd = "off" => wd' = "off") /\ thread = "sched"
    BY <1>10 DEF SigSender, PingWatchdog
  <2>3. QED
    BY <2>1, <2>2
<1>11. ASSUME SigSenderLoads \/ SigSenderStores PROVE UserPlaces'
  BY <1>11, CountDoes, WatchdogAssumption DEF SigSenderLoads, SigSenderStores, IsUser
<1>12. ASSUME Exec \/ Install \/ SemPost \/ WatchdogManage \/ WatchdogLoads
                \/ WatchdogStores \/ WatchdogCrashes
       PROVE UserPlaces'
  BY <1>12 DEF Exec, Install, SemPost, WatchdogManage, WatchdogLoads, WatchdogStores,
               WatchdogCrashes
<1>13. ASSUME WatchdogSigSender PROVE UserPlaces'
  BY <1>1, <1>2, <1>13 DEF WatchdogSigSender
<1>14. ASSUME FirstSignal PROVE UserPlaces'
  BY <1>2, <1>14 DEF FirstSignal
<1>15. ASSUME ExecUser PROVE UserPlaces'
  BY <1>15, Fresh DEF ExecUser, IsUser
<1>16. ASSUME UserCrashes PROVE UserPlaces'
  BY <1>1, <1>16 DEF UserCrashes
<1>17. ASSUME Tick PROVE UserPlaces'
  <2>1. Less(user.due) <= user.due
    BY Values DEF Less
  <2>2. QED
    BY <1>17, <2>1, TickDoes, Values, WatchdogAssumption DEF Tick, IsUser
<1>18. QED
  BY <1>3, <1>4, <1>5, <1>6, <1>7, <1>8, <1>9, <1>10, <1>11, <1>12, <1>13, <1>14,
     <1>15, <1>16, <1>17 DEF Next, ThreadStep, WatchdogStep

\* So is where the watchdog is, beside the user's side.
LEMMA DogPlacesStep ==
    ASSUME TypeOK, UserPlaces, DogPlaces, [Next]_vars
    PROVE DogPlaces'
<1> USE DEF DogPlaces, Booting, UserUp, InTask
<1>1. KillUser /\ UNCHANGED <<wd, dog>> => DogPlaces'
  BY DEF KillUser
<1>2. wd' = "off" => DogPlaces'
  OBVIOUS
<1>3. CASE UNCHANGED vars
  BY <1>3 DEF vars
<1>4. ASSUME MainStep \/ Exit PROVE DogPlaces'
  BY <1>4 DEF MainStep, MakeMeImurtal, SemWait, Joined, Exit, UserPlaces
<1>5. ASSUME DoNotResuscitate PROVE DogPlaces'
  <2>1. CASE KillUser
    BY <1>1, <1>5, <2>1 DEF DoNotResuscitate
  <2>2. CASE ~KillUser
    <3>1. UNCHANGED <<thread, wd, dog>> /\ main = "work" /\ main' = "join"
      BY <1>5, <2>2 DEF DoNotResuscitate
    <3>2. user'.due = user.due /\ user'.count = user.count
      BY <1>5, <2>2, DoNotResuscitateDoes DEF IsUser
    <3>3. QED
      BY <3>1, <3>2
  <2>3. QED
    BY <2>1, <2>2
<1>6. ASSUME Fork PROVE DogPlaces'
  <2>1. dog'.count = 0 /\ dog'.stop = FALSE
    BY <1>6, Fresh DEF Fork, IsDog
  <2>2. user'.due = 2
    BY <1>6, ThreadDoes DEF IsUser
  <2>3. QED
    BY <1>6, <2>1, <2>2 DEF Fork
<1>7. ASSUME Wake PROVE DogPlaces'
  BY <1>7 DEF Wake
<1>8. ASSUME Manage PROVE DogPlaces'
  BY <1>8 DEF Manage
<1>9. ASSUME LastTask PROVE DogPlaces'
  BY <1>2, <1>9 DEF LastTask
<1>10. ASSUME ForkAgain PROVE DogPlaces'
  <2>1. dog'.count = 0 /\ dog'.stop = FALSE
    BY <1>10, Fresh DEF ForkAgain, IsDog
  <2>2. user'.due = Interval /\ user'.count = 0
    BY <1>10, ThreadDoes DEF IsUser
  <2>3. QED
    BY <1>10, <2>1, <2>2 DEF ForkAgain
<1>11. ASSUME SigSender PROVE DogPlaces'
  <2>1. wd \notin Booting
    BY <1>11, WatchdogAssumption DEF SigSender
  <2>2. wd' = "off" \/ (wd' = wd /\ dog'.stop = dog.stop /\ dog'.pid = dog.pid)
    BY <1>11, <2>1, PingWatchdogDoes DEF SigSender, PingWatchdog, IsDog
  <2>3. wd' = "off" \/ thread' \in {"last", "count"}
    BY <1>11 DEF SigSender
  <2>4. thread = "sched" /\ UNCHANGED main
    BY <1>11 DEF SigSender
  <2>5. QED
    BY <1>2, <2>1, <2>2, <2>3, <2>4
<1>12. ASSUME SigSenderLoads \/ SigSenderStores PROVE DogPlaces'
  <2>1. /\ thread \in {"count", "store"} /\ thread' \in {"sched", "store"}
        /\ UNCHANGED <<main, wd, dog>>
    BY <1>12 DEF SigSenderLoads, SigSenderStores
  <2>2. wd \notin Booting
    BY <2>1
  <2>3. QED
    BY <2>1, <2>2
<1>13. ASSUME Tell PROVE DogPlaces'
  <2>1. dog'.count = dog.count /\ dog'.stop = (wd \in InTask) /\ dog'.pid = dog.pid
    BY <1>13, TellDoes DEF IsDog
  <2>2. thread = "tell" /\ thread' = "end" /\ UNCHANGED main
    BY <1>13 DEF Tell
  <2>3. CASE wd' = wd
    BY <2>1, <2>2, <2>3
  <2>4. QED
    BY <1>2, <1>13, <2>3 DEF Tell, StopWatchdog
<1>14. ASSUME Exec \/ Install \/ SemPost PROVE DogPlaces'
  BY <1>14 DEF Exec, Install, SemPost
<1>15. ASSUME WatchdogManage PROVE DogPlaces'
  <2>1. /\ dog'.stop = dog.stop
        /\ dog'.pid = IF UserUp THEN "user" ELSE "init"
    BY <1>15, WatchdogManageDoes DEF IsDog
  <2>2. QED
    BY <1>15, <2>1 DEF WatchdogManage
<1>16. ASSUME WatchdogSigSender PROVE DogPlaces'
  <2>1. CASE dog.stop
    BY <1>16, <2>1 DEF WatchdogSigSender
  <2>2. CASE wd' = "revive"
    BY <1>16, <2>2 DEF WatchdogSigSender, KillUser
  <2>3. CASE wd' = "count"
    <3>1. dog' = dog /\ dog.pid = "user" /\ ~dog.stop /\ wd = "sched"
      BY <1>16, <2>3, Values DEF WatchdogSigSender
    <3>2. thread' = IF thread = "nap" THEN "manage" ELSE thread
      BY <1>16, <2>3 DEF WatchdogSigSender, PingUser
    <3>3. QED
      BY <2>3, <3>1, <3>2
  <2>4. QED
    BY <1>2, <1>16, <2>1, <2>2, <2>3 DEF WatchdogSigSender
<1>17. ASSUME WatchdogLoads \/ WatchdogStores PROVE DogPlaces'
  <2>1. /\ wd \in InTask /\ wd' \in InTask /\ UNCHANGED <<main, thread, user>>
        /\ dog'.stop = dog.stop /\ dog'.pid = dog.pid
    BY <1>17, CountDoes DEF WatchdogLoads, WatchdogStores, IsDog
  <2>2. QED
    BY <2>1
<1>18. ASSUME FirstSignal \/ ExecUser \/ WatchdogCrashes PROVE DogPlaces'
  BY <1>2, <1>18 DEF FirstSignal, ExecUser, WatchdogCrashes
<1>19. ASSUME UserCrashes PROVE DogPlaces'
  BY <1>1, <1>19 DEF UserCrashes
<1>20. ASSUME Tick PROVE DogPlaces'
  <2>1. wd \in Booting \/ thread \in {"new", "fork", "lastFork"} => Busy
    BY DEF Busy
  <2>2. /\ UNCHANGED <<main, thread, wd>>
        /\ dog'.stop = dog.stop /\ dog'.pid = dog.pid
    BY <1>20, TickDoes DEF Tick, IsDog
  <2>3. QED
    BY <1>20, <2>1, <2>2 DEF Tick
<1>21. QED
  BY <1>3, <1>4, <1>5, <1>6, <1>7, <1>8, <1>9, <1>10, <1>11, <1>12, <1>13, <1>14,
     <1>15, <1>16, <1>17, <1>18, <1>19, <1>20 DEF Next, ThreadStep, WatchdogStep

-----------------------------------------------------------------------------
\* The failures a side will have counted when its task is over, without those it
\* counts only because a reset was lost, and when its task is due again.
Eff(r, place) ==
    CASE place = "count" -> r.count + 1 - r.lost
      [] place = "store" -> IF r.count = r.load THEN r.load + 1 - r.lost
                                                ELSE r.load - r.lost
      [] OTHER -> r.count - r.lost

Due(r, place) == IF place \in {"count", "store"} THEN Interval ELSE r.due

Numbers(r) == r.count \in Nat /\ r.load \in Nat /\ r.lost \in Nat

\* A reset leaves nothing to count but the ping that is under way, or else one
\* failure less, unless one came before it.
LEMMA EffReset ==
    ASSUME NEW r, NEW q, NEW place, Numbers(r), Lossy(r, place),
           q.count = 0, q.load = r.load, q.lost = Kept(r, place)
    PROVE /\ Lossy(q, place) /\ Eff(q, place) \in Int
          /\ place \notin {"count", "store"} => Eff(q, place) = 0
          /\ \/ Eff(q, place) <= 1
             \/ place = "store" /\ Eff(q, place) = Eff(r, place) - 1
             \/ /\ place = "store" /\ Eff(q, place) = Eff(r, place)
                /\ r.count # r.load
<1>1. CASE place = "store"
  <2>1. q.lost = r.lost /\ r.lost <= r.load /\ r.count \in {0, r.load}
    BY <1>1 DEF Kept, Lossy
  <2>2. Lossy(q, place)
    BY <1>1, <2>1 DEF Lossy
  <2>3. Eff(r, place) = IF r.count = r.load THEN r.load + 1 - r.lost
                                            ELSE r.load - r.lost
    BY <1>1 DEF Eff
  <2>4. Eff(q, place) = IF 0 = r.load THEN r.load + 1 - r.lost ELSE r.load - r.lost
    BY <1>1, <2>1 DEF Eff
  <2>5. QED
    BY <1>1, <2>1, <2>2, <2>3, <2>4 DEF Numbers
<1>2. CASE place = "count"
  <2>1. q.lost = 0
    BY <1>2 DEF Kept
  <2>2. Eff(q, place) = q.count + 1 - q.lost
    BY <1>2 DEF Eff
  <2>3. QED
    BY <1>2, <2>1, <2>2 DEF Lossy
<1>3. CASE place \notin {"count", "store"}
  <2>1. q.lost = 0
    BY <1>3 DEF Kept
  <2>2. Eff(q, place) = q.count - q.lost
    BY <1>3 DEF Eff
  <2>3. QED
    BY <1>3, <2>1, <2>2 DEF Lossy
<1>4. QED
  BY <1>1, <1>2, <1>3

\* ++ itself changes neither, and the ping before it adds one.
LEMMA EffLoad ==
    ASSUME NEW r, NEW q, Numbers(r), Lossy(r, "count"),
           q.count = r.count, q.load = r.count, q.lost = r.lost
    PROVE Lossy(q, "store") /\ Eff(q, "store") = Eff(r, "count")
  BY DEF Numbers, Lossy, Eff

LEMMA EffStore ==
    ASSUME NEW r, NEW q, Numbers(r), Lossy(r, "store"),
           q.count = r.load + 1, q.lost = After(r)
    PROVE Lossy(q, "sched") /\ Eff(q, "sched") = Eff(r, "store")
  BY DEF Numbers, Lossy, Eff, After

\* What does not change a side's counter.
LEMMA EffSame ==
    ASSUME NEW r, NEW q, NEW p1, NEW p2, p1 = p2 \/ {p1, p2} \cap {"count", "store"} = {},
           q.count = r.count, q.load = r.load, q.lost = r.lost
    PROVE /\ Lossy(r, p1) => Lossy(q, p2)
          /\ Eff(q, p2) = Eff(r, p1)
<1>1. (p1 = "store") = (p2 = "store") /\ (p1 = "count") = (p2 = "count")
  OBVIOUS
<1>2. Lossy(r, p1) => Lossy(q, p2)
  BY <1>1 DEF Lossy
<1>3. Eff(q, p2) = Eff(r, p1)
  BY <1>1 DEF Eff
<1>4. QED
  BY <1>2, <1>3

UserE == Eff(user, thread)
UserD == Due(user, thread)
DogE == Eff(dog, wd)
DogD == Due(dog, wd)

Places == TypeOK /\ UserPlaces /\ DogPlaces

LEMMA PlacesStep == ASSUME Places, [Next]_vars PROVE Places'
  BY TypeStep, UserPlacesStep, DogPlacesStep DEF Places

\* The ranges the arithmetic of the next lemmas needs.
LEMMA Ranges ==
    ASSUME TypeOK, Losses
    PROVE /\ Interval \in Nat /\ Interval > 0 /\ MaxFails \in Nat /\ MaxFails > 0
          /\ Numbers(user) /\ Numbers(dog)
          /\ user.due \in Nat /\ dog.due \in Nat /\ dog.due <= Interval
          /\ UserE \in Int /\ DogE \in Int /\ UserD \in Nat /\ DogD \in Nat
          /\ DogD <= Interval
          /\ user.ready \in BOOLEAN
<1>1. /\ Interval \in Nat /\ Interval > 0 /\ MaxFails \in Nat /\ MaxFails > 0
      /\ Numbers(user) /\ Numbers(dog)
      /\ user.due \in Nat /\ dog.due \in Nat /\ dog.due <= Interval
      /\ user.ready \in BOOLEAN
  BY WatchdogAssumption, Values DEF Counts, Loads, Numbers
<1>2. UserE \in Int
  BY <1>1 DEF UserE, Eff, Numbers
<1>3. DogE \in Int
  BY <1>1 DEF DogE, Eff, Numbers
<1>4. UserD \in Nat /\ DogD \in Nat /\ DogD <= Interval
  BY <1>1 DEF UserD, DogD, Due
<1>5. QED
  BY <1>1, <1>2, <1>3, <1>4

\* What the pings and ++ of both sides do to their own and the other's counter.
LEMMA PingUserCounts ==
    ASSUME TypeOK, Losses, PingUser
    PROVE /\ Lossy(user', thread') /\ UserE' \in Int
          /\ UserD' = UserD
          /\ thread \notin {"count", "store"} => UserE' = 0
          /\ \/ UserE' <= 1
             \/ thread = "store" /\ UserE' = UserE - 1
             \/ thread = "store" /\ UserE' = UserE /\ user.count # user.load
<1>1. /\ user'.count = 0 /\ user'.load = user.load /\ user'.due = user.due
      /\ user'.lost = Kept(user, thread)
  BY PingUserDoes DEF IsUser
<1>2. Numbers(user) /\ Lossy(user, thread)
  BY Ranges DEF Losses
<1>3. /\ Lossy(user', thread) /\ Eff(user', thread) \in Int
      /\ thread \notin {"count", "store"} => Eff(user', thread) = 0
      /\ \/ Eff(user', thread) <= 1
         \/ thread = "store" /\ Eff(user', thread) = UserE - 1
         \/ thread = "store" /\ Eff(user', thread) = UserE /\ user.count # user.load
  BY <1>1, <1>2, EffReset DEF UserE
<1>4. thread' = thread \/ (thread = "nap" /\ thread' = "manage")
  BY DEF PingUser
<1>5. Lossy(user', thread') /\ Eff(user', thread') = Eff(user', thread)
  BY <1>3, <1>4, EffSame
<1>6. UserD' = UserD
  BY <1>1, <1>4 DEF UserD, Due
<1>7. QED
  BY <1>3, <1>5, <1>6 DEF UserE

LEMMA PingWatchdogCounts ==
    ASSUME TypeOK, Losses, PingWatchdog, wd \in InTask
    PROVE /\ Lossy(dog', wd') /\ wd' = wd /\ DogE' \in Int
          /\ DogD' = DogD
          /\ wd = "sched" => DogE' = 0
          /\ \/ DogE' <= 1
             \/ wd = "store" /\ DogE' = DogE - 1
             \/ wd = "store" /\ DogE' = DogE /\ dog.count # dog.load
<1>1. /\ dog'.count = 0 /\ dog'.load = dog.load /\ dog'.due = dog.due
      /\ dog'.lost = Kept(dog, wd)
  BY PingWatchdogDoes DEF IsDog
<1>2. Numbers(dog) /\ Lossy(dog, wd)
  BY Ranges DEF Losses
<1>3. wd' = wd
  BY DEF PingWatchdog, InTask
<1>4. /\ Lossy(dog', wd) /\ Eff(dog', wd) \in Int
      /\ wd \notin {"count", "store"} => Eff(dog', wd) = 0
      /\ \/ Eff(dog', wd) <= 1
         \/ wd = "store" /\ Eff(dog', wd) = DogE - 1
         \/ wd = "store" /\ Eff(dog', wd) = DogE /\ dog.count # dog.load
  BY <1>1, <1>2, EffReset DEF DogE
<1>5. DogD' = DogD
  BY <1>1, <1>3 DEF DogD, Due
<1>6. QED
  BY <1>3, <1>4, <1>5 DEF DogE

LEMMA CountCounts ==
    ASSUME TypeOK, Losses
    PROVE /\ SigSender /\ thread' = "count" =>
                /\ user.due = 0 /\ user' = user /\ Lossy(user', thread')
                /\ UserE' = UserE + 1 /\ UserD = 0 /\ UserD' = Interval
          /\ SigSenderLoads => /\ Lossy(user', thread') /\ UserE' = UserE
                               /\ UserD' = Interval /\ UserD = Interval
                               /\ user'.count = user'.load
          /\ SigSenderStores => /\ Lossy(user', thread') /\ UserE' = UserE
                                /\ UserD' = Interval /\ UserD = Interval
          /\ WatchdogSigSender /\ wd' = "count" =>
                /\ PingUser /\ dog.due = 0 /\ dog' = dog /\ Lossy(dog', wd')
                /\ DogE' = DogE + 1 /\ DogD = 0 /\ DogD' = Interval
          /\ WatchdogLoads => /\ Lossy(dog', wd') /\ DogE' = DogE
                              /\ DogD' = Interval /\ DogD = Interval
                              /\ dog'.count = dog'.load
          /\ WatchdogStores => /\ Lossy(dog', wd') /\ DogE' = DogE
                               /\ DogD' = Interval /\ DogD = Interval
<1>1. Numbers(user) /\ Numbers(dog) /\ Lossy(user, thread) /\ Lossy(dog, wd)
  BY Ranges DEF Losses
<1>2. ASSUME SigSender, thread' = "count"
      PROVE /\ user.due = 0 /\ user' = user /\ Lossy(user', thread')
            /\ UserE' = UserE + 1 /\ UserD = 0 /\ UserD' = Interval
  <2>1. thread = "sched" /\ user.due = 0 /\ user' = user
    BY <1>2 DEF SigSender
  <2>2. UserE = user.count - user.lost /\ UserE' = user.count + 1 - user.lost
    BY <1>2, <2>1 DEF UserE, Eff
  <2>3. QED
    BY <1>1, <1>2, <2>1, <2>2 DEF Lossy, UserD, Due, Numbers
<1>3. ASSUME SigSenderLoads
      PROVE /\ Lossy(user', thread') /\ UserE' = UserE
            /\ UserD' = Interval /\ UserD = Interval
            /\ user'.count = user'.load
  <2>1. thread = "count" /\ thread' = "store"
    BY <1>3 DEF SigSenderLoads
  <2>2. user'.count = user.count /\ user'.load = user.count /\ user'.lost = user.lost
    BY <1>3, CountDoes DEF IsUser
  <2>3. Lossy(user', "store") /\ Eff(user', "store") = Eff(user, "count")
    BY <1>1, <2>1, <2>2, EffLoad
  <2>4. QED
    BY <2>1, <2>2, <2>3 DEF UserE, UserD, Due
<1>4. ASSUME SigSenderStores
      PROVE /\ Lossy(user', thread') /\ UserE' = UserE
            /\ UserD' = Interval /\ UserD = Interval
  <2>1. thread = "store" /\ thread' = "sched"
    BY <1>4 DEF SigSenderStores
  <2>2. user'.count = user.load + 1 /\ user'.lost = After(user) /\ user'.due = Interval
    BY <1>4, CountDoes DEF IsUser
  <2>3. Lossy(user', "sched") /\ Eff(user', "sched") = Eff(user, "store")
    BY <1>1, <2>1, <2>2, EffStore
  <2>4. QED
    BY <2>1, <2>2, <2>3 DEF UserE, UserD, Due
<1>5. ASSUME WatchdogSigSender, wd' = "count"
      PROVE /\ PingUser /\ dog.due = 0 /\ dog' = dog /\ Lossy(dog', wd')
            /\ DogE' = DogE + 1 /\ DogD = 0 /\ DogD' = Interval
  <2>1. wd = "sched" /\ dog.due = 0 /\ dog' = dog /\ PingUser
    BY <1>5 DEF WatchdogSigSender
  <2>2. DogE = dog.count - dog.lost /\ DogE' = dog.count + 1 - dog.lost
    BY <1>5, <2>1 DEF DogE, Eff
  <2>3. QED
    BY <1>1, <1>5, <2>1, <2>2 DEF Lossy, DogD, Due, Numbers
<1>6. ASSUME WatchdogLoads
      PROVE /\ Lossy(dog', wd') /\ DogE' = DogE
            /\ DogD' = Interval /\ DogD = Interval
            /\ dog'.count = dog'.load
  <2>1. wd = "count" /\ wd' = "store"
    BY <1>6 DEF WatchdogLoads
  <2>2. dog'.count = dog.count /\ dog'.load = dog.count /\ dog'.lost = dog.lost
    BY <1>6, CountDoes DEF IsDog
  <2>3. Lossy(dog', "store") /\ Eff(dog', "store") = Eff(dog, "count")
    BY <1>1, <2>1, <2>2, EffLoad
  <2>4. QED
    BY <2>1, <2>2, <2>3 DEF DogE, DogD, Due
<1>7. ASSUME WatchdogStores
      PROVE /\ Lossy(dog', wd') /\ DogE' = DogE
            /\ DogD' = Interval /\ DogD = Interval
  <2>1. wd = "store" /\ wd' = "sched"
    BY <1>7 DEF WatchdogStores
  <2>2. dog'.count = dog.load + 1 /\ dog'.lost = After(dog) /\ dog'.due = Interval
    BY <1>7, CountDoes DEF IsDog
  <2>3. Lossy(dog', "sched") /\ Eff(dog', "sched") = Eff(dog, "store")
    BY <1>1, <2>1, <2>2, EffStore
  <2>4. QED
    BY <2>1, <2>2, <2>3 DEF DogE, DogD, Due
<1>8. QED
  BY <1>2, <1>3, <1>4, <1>5, <1>6, <1>7

\* A side that no step touches, or that starts afresh.
LEMMA SideSame ==
    ASSUME TypeOK, Losses
    PROVE /\ /\ user'.count = user.count /\ user'.load = user.load
             /\ user'.lost = user.lost
             /\ thread' = thread \/ {thread, thread'} \cap {"count", "store"} = {}
             => Lossy(user', thread') /\ UserE' = UserE
          /\ /\ dog'.count = dog.count /\ dog'.load = dog.load
             /\ dog'.lost = dog.lost
             /\ wd' = wd \/ {wd, wd'} \cap {"count", "store"} = {}
             => Lossy(dog', wd') /\ DogE' = DogE
          /\ user' = FreshUser /\ thread' = "none" => Lossy(user', thread')
          /\ dog' = FreshDog /\ wd' \notin {"count", "store"} => Lossy(dog', wd')
<1>1. Lossy(user, thread) /\ Lossy(dog, wd)
  BY DEF Losses
<1>2. ASSUME user'.count = user.count, user'.load = user.load, user'.lost = user.lost,
             thread' = thread \/ {thread, thread'} \cap {"count", "store"} = {}
      PROVE Lossy(user', thread') /\ UserE' = UserE
  BY <1>1, <1>2, EffSame DEF UserE
<1>3. ASSUME dog'.count = dog.count, dog'.load = dog.load, dog'.lost = dog.lost,
             wd' = wd \/ {wd, wd'} \cap {"count", "store"} = {}
      PROVE Lossy(dog', wd') /\ DogE' = DogE
  BY <1>1, <1>3, EffSame DEF DogE
<1>4. user' = FreshUser /\ thread' = "none" => Lossy(user', thread')
  BY DEF FreshUser, Lossy
<1>5. dog' = FreshDog /\ wd' \notin {"count", "store"} => Lossy(dog', wd')
  BY DEF FreshDog, Lossy
<1>6. QED
  BY <1>2, <1>3, <1>4, <1>5

\* Every step keeps what resets are lost over.
LEMMA LossesStep == ASSUME Places, Losses, [Next]_vars PROVE Losses'
<1> USE DEF Losses
<1>1. TypeOK /\ UserPlaces /\ DogPlaces
  BY DEF Places
<1>2. UNCHANGED <<user, thread>> => Lossy(user', thread')
  OBVIOUS
<1>3. UNCHANGED <<dog, wd>> => Lossy(dog', wd')
  OBVIOUS
<1>4. KillUser => Lossy(user', thread')
  BY <1>1, SideSame DEF KillUser
<1>5. CASE UNCHANGED vars
  BY <1>5 DEF vars
<1>6. ASSUME MainStep PROVE Losses'
  <2>1. main = "start" => user.count = 0 /\ thread = "none"
    BY <1>1 DEF UserPlaces
  <2>2. MakeMeImurtal => Lossy(user', thread')
    BY <1>1, <2>1, SideSame DEF MakeMeImurtal
  <2>3. QED
    BY <1>6, <2>2 DEF MainStep, MakeMeImurtal, SemWait, Joined
<1>7. ASSUME Exit \/ UserCrashes PROVE Losses'
  BY <1>1, <1>3, <1>4, <1>7, SideSame DEF Exit, UserCrashes
<1>8. ASSUME DoNotResuscitate PROVE Losses'
  <2>1. CASE KillUser
    BY <1>3, <1>4, <1>8, <2>1 DEF DoNotResuscitate
  <2>2. CASE ~KillUser
    BY <1>1, <1>8, <2>2, SideSame, DoNotResuscitateDoes DEF DoNotResuscitate, IsUser
  <2>3. QED
    BY <2>1, <2>2
<1>9. ASSUME Fork \/ Wake \/ Manage PROVE Losses'
  <2>1. Lossy(user', thread')
    BY <1>1, <1>9, SideSame, ThreadDoes DEF Fork, Wake, Manage, IsUser
  <2>2. Lossy(dog', wd')
    BY <1>1, <1>3, <1>9, SideSame DEF Fork, Wake, Manage
  <2>3. QED
    BY <2>1, <2>2
<1>10. ASSUME LastTask \/ ForkAgain \/ Tell PROVE Losses'
  <2>1. Lossy(user', thread')
    <3>1. CASE LastTask \/ Tell
      BY <1>1, <3>1, SideSame DEF LastTask, Tell
    <3>2. CASE ForkAgain
      <4>1. user'.count = 0 /\ user'.lost = 0 /\ thread' # "store"
        BY <1>1, <3>2, ThreadDoes DEF IsUser, ForkAgain
      <4>2. QED
        BY <4>1 DEF Lossy
    <3>3. QED
      BY <1>10, <3>1, <3>2
  <2>2. Lossy(dog', wd')
    <3>1. CASE LastTask \/ ForkAgain
      BY <1>1, <3>1, SideSame DEF LastTask, ForkAgain
    <3>2. CASE Tell
      <4>1. /\ dog'.count = dog.count /\ dog'.load = dog.load /\ dog'.lost = dog.lost
            /\ wd' = wd \/ {wd, wd'} \cap {"count", "store"} = {}
        BY <1>1, <3>2, TellDoes DEF IsDog, Tell, StopWatchdog
      <4>2. QED
        BY <1>1, <4>1, SideSame
    <3>3. QED
      BY <1>10, <3>1, <3>2
  <2>3. QED
    BY <2>1, <2>2
<1>11. ASSUME SigSender PROVE Losses'
  <2>1. Lossy(user', thread')
    <3>1. CASE thread' = "count"
      BY <1>1, <1>11, <3>1, CountCounts
    <3>2. CASE thread' # "count"
      BY <1>1, <1>11, <3>2, SideSame DEF SigSender
    <3>3. QED
      BY <3>1, <3>2
  <2>2. Lossy(dog', wd')
    <3>1. CASE UNCHANGED <<wd, dog>>
      BY <3>1
    <3>2. CASE wd' = "off" /\ dog' = FreshDog
      BY <1>1, <3>2, SideSame
    <3>3. CASE PingWatchdog /\ wd \in InTask
      BY <1>1, <3>3, PingWatchdogCounts
    <3>4. CASE PingWatchdog /\ wd \notin InTask
      <4>1. dog'.count = 0 /\ dog'.lost = 0 /\ wd' # "store"
        BY <1>1, <3>4, PingWatchdogDoes DEF IsDog, Kept, InTask, PingWatchdog
      <4>2. QED
        BY <4>1 DEF Lossy
    <3>5. QED
      BY <1>11, <3>1, <3>2, <3>3, <3>4 DEF SigSender
  <2>3. QED
    BY <2>1, <2>2
<1>12. ASSUME SigSenderLoads \/ SigSenderStores PROVE Losses'
  BY <1>1, <1>3, <1>12, CountCounts DEF SigSenderLoads, SigSenderStores
<1>13. ASSUME WatchdogLoads \/ WatchdogStores PROVE Losses'
  BY <1>1, <1>2, <1>13, CountCounts DEF WatchdogLoads, WatchdogStores
<1>14. ASSUME Exec \/ Install \/ SemPost \/ WatchdogManage PROVE Losses'
  <2>1. Lossy(dog', wd')
    BY <1>1, <1>14, SideSame, WatchdogManageDoes
       DEF Exec, Install, SemPost, WatchdogManage, IsDog
  <2>2. QED
    BY <1>2, <1>14, <2>1 DEF Exec, Install, SemPost, WatchdogManage
<1>15. ASSUME WatchdogSigSender PROVE Losses'
  <2>1. Lossy(user', thread')
    BY <1>1, <1>2, <1>4, <1>15, PingUserCounts DEF WatchdogSigSender
  <2>2. Lossy(dog', wd')
    <3>1. CASE wd' = "count"
      BY <1>1, <1>15, <3>1, CountCounts
    <3>2. CASE wd' # "count"
      BY <1>1, <1>15, <3>2, SideSame DEF WatchdogSigSender
    <3>3. QED
      BY <3>1, <3>2
  <2>3. QED
    BY <2>1, <2>2
<1>16. ASSUME FirstSignal PROVE Losses'
  BY <1>1, <1>2, <1>16, SideSame, PingUserCounts DEF FirstSignal
<1>17. ASSUME ExecUser \/ WatchdogCrashes PROVE Losses'
  BY <1>1, <1>2, <1>17, SideSame DEF ExecUser, WatchdogCrashes
<1>18. ASSUME Tick PROVE Losses'
  BY <1>1, <1>18, SideSame, TickDoes DEF Tick, IsUser, IsDog
<1>19. QED
  BY <1>5, <1>6, <1>7, <1>8, <1>9, <1>10, <1>11, <1>12, <1>13, <1>14, <1>15, <1>16,
     <1>17, <1>18 DEF Next, ThreadStep, WatchdogStep

-----------------------------------------------------------------------------
\* Without its lost resets the watchdog has counted no more than the user's side
\* can still answer: what may have come before the thread could answer, and one.
Heard == wd \in InTask =>
    /\ thread = "nap" => DogE <= 0 /\ (Early = 0 => DogD > user.due)
    /\ thread = "manage" => /\ DogE <= Early
                            /\ DogE >= 1 => DogD = Interval
                            /\ Early = 0 => DogD >= 1
    /\ thread \in InTask /\ ~user.ready => DogE <= Early
    /\ thread \in InTask /\ user.ready =>
          /\ DogE <= Early + 2
          /\ DogD <= UserD => DogE <= Early + 1
          /\ DogD = 0 /\ UserD = Interval => DogE <= Early
          /\ wd = "store" /\ dog.count # dog.load => DogE <= Early + 1
    /\ thread = "last" /\ DogD = 0 => DogE <= Early + 1
    /\ thread = "tell" => DogD = Interval

\* And the user's side no more than the watchdog can.
Answered == thread \in InTask /\ wd \in InTask =>
    /\ UserE <= 2
    /\ UserD <= DogD => UserE <= 1
    /\ UserD = 0 /\ DogD = Interval => UserE <= 0
    /\ thread = "store" /\ user.count # user.load => UserE <= 1

IInv == Places /\ Losses /\ Heard /\ Answered

LEMMA HeardStep == ASSUME IInv, [Next]_vars PROVE Heard'
<1>1. TypeOK /\ UserPlaces /\ DogPlaces /\ Losses /\ Heard
  BY DEF IInv, Places
<1>2. thread' \in {"none", "end"} \/ wd' \notin InTask => Heard'
  BY DEF Heard, InTask
<1>3. Early \in 0..1 /\ Early' = Early
  BY DEF Early
<1>4. /\ Interval \in Nat /\ Interval > 0 /\ user.due \in Nat /\ DogD \in Nat
      /\ UserD \in Nat /\ DogE \in Int /\ DogD <= Interval
  BY <1>1, Ranges
\* What Heard looks at stays as it is.
<1>5. UNCHANGED <<thread, wd, dog>> /\ user'.ready = user.ready /\ user'.due = user.due
      => Heard'
  <2>1. UNCHANGED <<thread, wd, dog>> /\ user'.due = user.due
        => DogE' = DogE /\ DogD' = DogD /\ UserD' = UserD
    BY DEF DogE, DogD, UserD, Due
  <2>2. QED
    BY <1>1, <1>3, <2>1 DEF Heard
<1>6. CASE UNCHANGED vars
  BY <1>5, <1>6 DEF vars
<1>7. ASSUME MainStep \/ Exit PROVE Heard'
  BY <1>1, <1>2, <1>5, <1>7
     DEF MainStep, MakeMeImurtal, SemWait, Joined, Exit, UserPlaces, InTask
<1>8. ASSUME DoNotResuscitate PROVE Heard'
  <2>1. CASE KillUser
    BY <1>2, <2>1 DEF KillUser
  <2>2. CASE ~KillUser
    BY <1>1, <1>5, <1>8, <2>2, DoNotResuscitateDoes DEF DoNotResuscitate, IsUser
  <2>3. QED
    BY <2>1, <2>2
<1>9. ASSUME Wake PROVE Heard'
  <2>1. /\ UNCHANGED <<wd, user, dog>> /\ thread = "nap" /\ thread' = "manage"
        /\ user.due = 0
    BY <1>9 DEF Wake
  <2>2. DogE' = DogE /\ DogD' = DogD
    BY <2>1 DEF DogE, DogD
  <2>3. QED
    BY <1>1, <1>3, <1>4, <2>1, <2>2 DEF Heard, InTask
<1>10. ASSUME Manage PROVE Heard'
  <2>1. /\ UNCHANGED <<wd, dog>> /\ thread = "manage" /\ thread' = "sched"
        /\ user'.ready = FALSE
    BY <1>1, <1>10, ThreadDoes DEF IsUser, Manage, UserPlaces
  <2>2. DogE' = DogE
    BY <2>1 DEF DogE
  <2>3. QED
    BY <1>1, <1>3, <2>1, <2>2 DEF Heard, InTask
<1>11. ASSUME SigSender PROVE Heard'
  <2>1. CASE user.stop
    <3>1. UNCHANGED <<wd, dog>> /\ thread = "sched" /\ thread' = "last" /\ user.due = 0
      BY <1>11, <2>1 DEF SigSender
    <3>2. DogE' = DogE /\ DogD' = DogD /\ UserD = 0
      BY <3>1 DEF DogE, DogD, UserD, Due
    <3>3. QED
      BY <1>1, <1>3, <1>4, <3>1, <3>2 DEF Heard, InTask
  <2>2. CASE wd \in InTask /\ thread' = "count"
    <3>1. /\ user' = user /\ user.due = 0 /\ UserD = 0 /\ UserD' = Interval
          /\ thread = "sched"
      BY <1>1, <1>11, <2>2, CountCounts DEF SigSender
    <3>2. CASE ~user.ready
      <4>1. UNCHANGED <<wd, dog>>
        BY <1>11, <2>2, <3>2 DEF SigSender
      <4>2. DogE' = DogE
        BY <4>1 DEF DogE
      <4>3. QED
        BY <1>1, <1>3, <2>2, <3>1, <3>2, <4>1, <4>2 DEF Heard, InTask
    <3>3. CASE user.ready
      <4>1. PingWatchdog
        BY <1>11, <2>2, <3>3 DEF SigSender
      <4>2. /\ wd' = wd /\ DogD' = DogD /\ DogE' \in Int
            /\ wd = "sched" => DogE' = 0
            /\ \/ DogE' <= 1
               \/ wd = "store" /\ DogE' = DogE - 1
               \/ wd = "store" /\ DogE' = DogE /\ dog.count # dog.load
        BY <1>1, <2>2, <4>1, PingWatchdogCounts
      <4>3. DogE <= Early + 2 /\ (wd = "store" /\ dog.count # dog.load => DogE <= Early + 1)
        BY <1>1, <2>2, <3>1, <3>3 DEF Heard, InTask
      <4>4. wd # "sched" => DogD' = Interval
        BY <2>2, <4>2 DEF DogD, Due, InTask
      <4>5. wd = "sched" => DogE' = 0
        BY <4>2
      <4>6. DogE' <= Early + 1
        BY <1>3, <1>4, <4>2, <4>3
      <4>7. DogE' \in Int /\ DogE' <= Early + 2
        BY <1>3, <4>2, <4>6
      <4>8. DogD' = 0 => DogE' <= Early
        BY <1>3, <1>4, <4>4, <4>5
      <4>9. QED
        BY <1>3, <2>2, <3>1, <3>3, <4>6, <4>7, <4>8 DEF Heard, InTask
    <3>4. QED
      BY <3>2, <3>3
  <2>3. QED
    BY <1>2, <1>11, <2>1, <2>2 DEF SigSender, PingWatchdog, InTask
<1>12. ASSUME SigSenderLoads \/ SigSenderStores PROVE Heard'
  <2>1. /\ UNCHANGED <<wd, dog>> /\ user'.ready = user.ready
        /\ UserD = Interval /\ UserD' = Interval
    BY <1>1, <1>12, CountCounts, CountDoes DEF SigSenderLoads, SigSenderStores, IsUser
  <2>2. thread \in InTask /\ thread' \in InTask
    BY <1>12 DEF SigSenderLoads, SigSenderStores, InTask
  <2>3. DogE' = DogE /\ DogD' = DogD
    BY <2>1 DEF DogE, DogD
  <2>4. QED
    BY <1>1, <1>3, <2>1, <2>2, <2>3 DEF Heard, InTask
<1>13. ASSUME Fork \/ LastTask \/ ForkAgain \/ Tell PROVE Heard'
  BY <1>2, <1>13 DEF Fork, LastTask, ForkAgain, Tell, InTask
<1>14. ASSUME Exec \/ Install \/ SemPost \/ FirstSignal \/ ExecUser \/ WatchdogCrashes
       PROVE Heard'
  BY <1>2, <1>14
     DEF Exec, Install, SemPost, FirstSignal, ExecUser, WatchdogCrashes, InTask
<1>15. ASSUME WatchdogManage PROVE Heard'
  <2>1. /\ dog'.count = 0 /\ dog'.due = Interval /\ dog'.lost = dog.lost
        /\ dog.count = 0 /\ wd = "manage" /\ wd' = "sched"
    BY <1>1, <1>15, WatchdogManageDoes DEF IsDog, DogPlaces, Booting, WatchdogManage
  <2>2. dog.lost = 0
    BY <1>1, <2>1, Ranges DEF Losses, Lossy, Numbers
  <2>3. DogE' = 0 /\ DogD' = Interval
    BY <2>1, <2>2 DEF DogE, DogD, Eff, Due
  <2>4. /\ UNCHANGED <<thread, user>>
        /\ thread \in {"nap", "sched", "tell", "end", "none"}
        /\ thread = "nap" => user.due = 2
    BY <1>1, <1>15 DEF WatchdogManage, DogPlaces, Booting
  <2>5. Early = 0 => Interval > 2
    BY <1>4 DEF Early
  <2>6. QED
    BY <1>3, <1>4, <2>3, <2>4, <2>5 DEF Heard, InTask
<1>16. ASSUME WatchdogSigSender PROVE Heard'
  <2>1. CASE wd' = "count"
    <3>1. /\ PingUser /\ dog' = dog /\ DogE' = DogE + 1 /\ DogD = 0
          /\ DogD' = Interval /\ wd = "sched"
      BY <1>1, <1>16, <2>1, CountCounts DEF WatchdogSigSender
    <3>2. UserD' = UserD /\ user'.due = user.due
      BY <1>1, <3>1, PingUserCounts, PingUserDoes DEF IsUser
    <3>3. thread' = IF thread = "nap" THEN "manage" ELSE thread
      BY <3>1 DEF PingUser
    <3>4. CASE thread \in {"nap", "manage"}
      <4>1. DogE <= 0 /\ Early = 1
        BY <1>1, <1>3, <1>4, <3>1, <3>4 DEF Heard, InTask
      <4>2. thread' = "manage" /\ DogE' <= 1
        BY <1>4, <3>1, <3>3, <3>4, <4>1
      <4>3. QED
        BY <1>3, <1>4, <3>1, <4>1, <4>2 DEF Heard, InTask
    <3>5. CASE thread \in InTask
      <4>1. user'.ready = TRUE
        BY <1>1, <3>1, <3>5, PingUserDoes DEF IsUser, Managed
      <4>2. DogE <= Early + 1
        BY <1>1, <1>3, <1>4, <3>1, <3>5 DEF Heard, InTask
      <4>3. UserD = Interval => DogE <= Early
        BY <1>1, <1>3, <1>4, <3>1, <3>5 DEF Heard, InTask
      <4>4. UserD <= Interval
        BY <1>1, <1>4, <3>5 DEF UserD, Due, UserPlaces
      <4>5. DogE' <= Early + 2 /\ (DogD' <= UserD' => DogE' <= Early + 1) /\ DogD' # 0
        BY <1>3, <1>4, <3>1, <3>2, <4>2, <4>3, <4>4
      <4>6. thread' \in InTask /\ thread' = thread
        BY <3>3, <3>5 DEF InTask
      <4>7. QED
        BY <1>3, <2>1, <4>1, <4>5, <4>6 DEF Heard, InTask
    <3>6. CASE thread \notin InTask \cup {"nap", "manage"}
      <4>1. DogD' # 0 /\ thread' = thread
        BY <1>4, <3>1, <3>3, <3>6
      <4>2. QED
        BY <3>1, <3>6, <4>1 DEF Heard, InTask
    <3>7. QED
      BY <3>4, <3>5, <3>6
  <2>2. QED
    BY <1>2, <1>16, <2>1 DEF WatchdogSigSender, InTask
<1>17. ASSUME WatchdogLoads \/ WatchdogStores PROVE Heard'
  <2>1. /\ UNCHANGED <<thread, user>> /\ DogE' = DogE /\ DogD = Interval /\ DogD' = Interval
        /\ wd \in InTask
        /\ wd' = "store" => dog'.count = dog'.load
    BY <1>1, <1>17, CountCounts DEF WatchdogLoads, WatchdogStores, InTask
  <2>2. UserD' = UserD
    BY <2>1 DEF UserD
  <2>3. QED
    BY <1>1, <1>3, <2>1, <2>2 DEF Heard
<1>18. ASSUME UserCrashes PROVE Heard'
  BY <1>2, <1>18 DEF UserCrashes, KillUser
<1>19. ASSUME Tick PROVE Heard'
  <2>1. UNCHANGED <<thread, wd>> /\ ~Busy
    BY <1>19 DEF Tick
  <2>2. CASE wd \in InTask /\ thread \in {"nap", "sched"}
    <3>1. user.due > 0 /\ dog.due > 0 /\ wd = "sched"
      BY <1>1, <2>1, <2>2, Ranges DEF Busy, InTask
    <3>2. /\ user'.due = user.due - 1 /\ user'.ready = user.ready
          /\ dog'.due = dog.due - 1 /\ dog'.count = dog.count
          /\ dog'.load = dog.load /\ dog'.lost = dog.lost
      BY <1>1, <1>19, <3>1, TickDoes DEF IsUser, IsDog, Less
    <3>3. /\ DogE' = DogE
          /\ DogD' = DogD - 1 /\ UserD' = UserD - 1 /\ DogD = dog.due
          /\ UserD = user.due
      BY <1>1, <2>1, <2>2, <3>1, <3>2, SideSame DEF DogD, UserD, Due
    <3>4. thread = "sched" => UserD <= Interval
      BY <1>1, <3>3 DEF UserPlaces, InTask
    <3>5. CASE thread = "nap"
      BY <1>1, <1>3, <1>4, <2>1, <2>2, <3>2, <3>3, <3>5 DEF Heard, InTask
    <3>6. CASE thread = "sched"
      <4>1. UserD' # Interval /\ (DogD' <= UserD' => DogD <= UserD)
        BY <1>4, <3>3, <3>4, <3>6
      <4>2. QED
        BY <1>1, <1>3, <1>4, <2>1, <2>2, <3>1, <3>2, <3>3, <3>6, <4>1 DEF Heard, InTask
    <3>7. QED
      BY <2>2, <3>5, <3>6
  <2>3. QED
    BY <1>2, <2>1, <2>2 DEF Busy, Heard, InTask
<1>20. QED
  BY <1>6, <1>7, <1>8, <1>9, <1>10, <1>11, <1>12, <1>13, <1>14, <1>15, <1>16, <1>17,
     <1>18, <1>19 DEF Next, ThreadStep, WatchdogStep

LEMMA AnsweredStep == ASSUME IInv, [Next]_vars PROVE Answered'
<1>1. TypeOK /\ UserPlaces /\ DogPlaces /\ Losses /\ Answered
  BY DEF IInv, Places
<1>2. thread' \notin InTask \/ wd' \notin InTask => Answered'
  BY DEF Answered
<1>3. UserE' = 0 /\ thread' # "store" => Answered'
  BY DEF Answered
<1>4. /\ Interval \in Nat /\ Interval > 0 /\ user.due \in Nat /\ DogD \in Nat
      /\ UserD \in Nat /\ UserE \in Int /\ DogD <= Interval
  BY <1>1, Ranges
<1>5. UNCHANGED <<thread, wd, dog>> /\ user'.count = user.count /\ user'.due = user.due
      /\ user'.load = user.load /\ user'.lost = user.lost => Answered'
  <2>1. UNCHANGED <<thread, wd, dog>> /\ user'.count = user.count
        /\ user'.due = user.due /\ user'.load = user.load /\ user'.lost = user.lost
        => DogD' = DogD /\ UserD' = UserD /\ UserE' = UserE
    BY <1>1, SideSame DEF DogD, UserD, Due
  <2>2. QED
    BY <1>1, <2>1 DEF Answered
<1>6. CASE UNCHANGED vars
  BY <1>5, <1>6 DEF vars
<1>7. ASSUME MainStep \/ Exit PROVE Answered'
  BY <1>2, <1>5, <1>7 DEF MainStep, MakeMeImurtal, SemWait, Joined, Exit, InTask
<1>8. ASSUME Fork \/ Wake \/ LastTask \/ ForkAgain \/ Tell PROVE Answered'
  BY <1>2, <1>8 DEF Fork, Wake, LastTask, ForkAgain, Tell, InTask
<1>9. ASSUME DoNotResuscitate PROVE Answered'
  <2>1. CASE KillUser
    BY <1>2, <2>1 DEF KillUser, InTask
  <2>2. CASE ~KillUser
    BY <1>1, <1>5, <1>9, <2>2, DoNotResuscitateDoes DEF DoNotResuscitate, IsUser
  <2>3. QED
    BY <2>1, <2>2
<1>10. ASSUME Manage PROVE Answered'
  <2>1. user.count = 0 /\ thread = "manage" /\ thread' = "sched"
        /\ user'.count = user.count /\ user'.lost = user.lost
    BY <1>1, <1>10, ThreadDoes DEF IsUser, Manage, UserPlaces
  <2>2. user.lost = 0
    BY <1>1, <2>1, Ranges DEF Losses, Lossy, Numbers
  <2>3. UserE' = 0
    BY <2>1, <2>2 DEF UserE, Eff
  <2>4. QED
    BY <1>3, <2>1, <2>3
<1>11. ASSUME SigSender PROVE Answered'
  <2>1. CASE wd \in InTask /\ wd' \in InTask /\ thread' = "count"
    <3>1. /\ UserE' = UserE + 1 /\ UserD = 0 /\ UserD' = Interval /\ thread = "sched"
      BY <1>1, <1>11, <2>1, CountCounts DEF SigSender
    <3>2. DogD' = DogD
      BY <1>1, <1>11, <2>1, PingWatchdogCounts DEF SigSender, DogD
    <3>3. UserE <= 1 /\ (DogD = Interval => UserE <= 0)
      BY <1>1, <1>4, <2>1, <3>1 DEF Answered, InTask
    <3>4. UserE' <= 2 /\ (UserD' <= DogD' => UserE' <= 1) /\ UserD' # 0
      BY <1>4, <3>1, <3>2, <3>3
    <3>5. QED
      BY <2>1, <3>4 DEF Answered
  <2>2. QED
    BY <1>2, <1>11, <2>1 DEF SigSender, PingWatchdog, InTask
<1>12. ASSUME SigSenderLoads \/ SigSenderStores PROVE Answered'
  <2>1. /\ UNCHANGED <<wd, dog>> /\ UserE' = UserE /\ UserD = Interval
        /\ UserD' = Interval /\ thread \in InTask
        /\ thread' = "store" => user'.count = user'.load
    BY <1>1, <1>12, CountCounts DEF SigSenderLoads, SigSenderStores, InTask
  <2>2. DogD' = DogD
    BY <2>1 DEF DogD
  <2>3. QED
    BY <1>1, <2>1, <2>2 DEF Answered
<1>13. ASSUME Exec \/ Install \/ SemPost \/ FirstSignal \/ ExecUser \/ WatchdogCrashes
       PROVE Answered'
  BY <1>2, <1>13
     DEF Exec, Install, SemPost, FirstSignal, ExecUser, WatchdogCrashes, InTask
<1>14. ASSUME WatchdogManage PROVE Answered'
  <2>1. wd \in Booting /\ UNCHANGED <<thread, user>>
    BY <1>14 DEF WatchdogManage, Booting
  <2>2. thread \in InTask => thread = "sched" /\ user.count = 0
    BY <1>1, <2>1 DEF DogPlaces, InTask
  <2>3. thread \in InTask => user.lost = 0
    BY <1>1, <2>2, Ranges DEF Losses, Lossy, Numbers
  <2>4. thread \in InTask => UserE' = 0 /\ thread' = "sched"
    BY <2>1, <2>2, <2>3 DEF UserE, Eff
  <2>5. QED
    BY <1>2, <1>3, <2>1, <2>4
<1>15. ASSUME WatchdogSigSender PROVE Answered'
  <2>1. CASE wd' = "count" /\ thread' \in InTask
    <3>1. PingUser /\ DogD' = Interval /\ wd = "sched"
      BY <1>1, <1>15, <2>1, CountCounts DEF WatchdogSigSender
    <3>2. thread' = thread
      BY <2>1, <3>1 DEF PingUser, InTask
    <3>3. /\ UserD' = UserD /\ UserE' \in Int
          /\ thread \notin {"count", "store"} => UserE' = 0
          /\ \/ UserE' <= 1
             \/ thread = "store" /\ UserE' = UserE - 1
             \/ thread = "store" /\ UserE' = UserE /\ user.count # user.load
      BY <1>1, <3>1, PingUserCounts
    <3>4. UserE <= 2 /\ (thread = "store" /\ user.count # user.load => UserE <= 1)
      BY <1>1, <2>1, <3>1, <3>2 DEF Answered, InTask
    <3>5. UserE' <= 1
      BY <1>4, <3>3, <3>4
    <3>6. thread # "sched" => UserD' = Interval
      BY <2>1, <3>2, <3>3 DEF UserD, Due, InTask
    <3>7. UserD' = 0 => UserE' <= 0
      BY <1>4, <2>1, <3>2, <3>3, <3>6 DEF InTask
    <3>8. QED
      BY <3>3, <3>5, <3>7 DEF Answered
  <2>2. QED
    BY <1>2, <1>15, <2>1 DEF WatchdogSigSender, InTask
<1>16. ASSUME WatchdogLoads \/ WatchdogStores PROVE Answered'
  <2>1. /\ UNCHANGED <<thread, user>> /\ DogD = Interval /\ DogD' = Interval
        /\ wd \in InTask
    BY <1>1, <1>16, CountCounts DEF WatchdogLoads, WatchdogStores, InTask
  <2>2. UserD' = UserD /\ UserE' = UserE
    BY <2>1 DEF UserD, UserE
  <2>3. QED
    BY <1>1, <2>1, <2>2 DEF Answered
<1>17. ASSUME UserCrashes PROVE Answered'
  BY <1>2, <1>17 DEF UserCrashes, KillUser, InTask
<1>18. ASSUME Tick PROVE Answered'
  <2>1. UNCHANGED <<thread, wd>> /\ ~Busy
    BY <1>18 DEF Tick
  <2>2. CASE wd \in InTask /\ thread \in InTask
    <3>1. user.due > 0 /\ dog.due > 0 /\ wd = "sched" /\ thread = "sched"
      BY <1>1, <2>1, <2>2, Ranges DEF Busy, InTask
    <3>2. /\ user'.due = user.due - 1 /\ user'.count = user.count
          /\ user'.load = user.load /\ user'.lost = user.lost
          /\ dog'.due = dog.due - 1
      BY <1>1, <1>18, <3>1, TickDoes DEF IsUser, IsDog, Less
    <3>3. /\ UserE' = UserE
          /\ DogD' = DogD - 1 /\ UserD' = UserD - 1 /\ DogD = dog.due
          /\ UserD = user.due
      BY <1>1, <2>1, <3>1, <3>2, SideSame DEF DogD, UserD, Due
    <3>4. DogD' # Interval /\ (UserD' <= DogD' => UserD <= DogD)
      BY <1>4, <3>3
    <3>5. QED
      BY <1>1, <2>1, <2>2, <3>1, <3>3, <3>4 DEF Answered
  <2>3. QED
    BY <1>2, <2>1, <2>2
<1>19. QED
  BY <1>6, <1>7, <1>8, <1>9, <1>10, <1>11, <1>12, <1>13, <1>14, <1>15, <1>16, <1>17,
     <1>18 DEF Next, ThreadStep, WatchdogStep

\* The invariant the sparing of the living rests on.
LEMMA IInvHolds == Spec => []IInv
<1>1. Init => IInv
  <2>1. ASSUME Init PROVE TypeOK
    BY <2>1, WatchdogAssumption DEF Init, TypeOK, FreshUser, FreshDog
  <2>2. ASSUME Init PROVE UserPlaces /\ DogPlaces /\ Losses /\ Heard /\ Answered
    BY <2>2, WatchdogAssumption
       DEF Init, UserPlaces, DogPlaces, Losses, Lossy, Heard, Answered, FreshUser,
           FreshDog, Booting, InTask
  <2>3. QED
    BY <2>1, <2>2 DEF IInv, Places
<1>2. IInv /\ [Next]_vars => IInv'
  BY PlacesStep, LossesStep, HeardStep, AnsweredStep DEF IInv
<1>3. QED
  BY <1>1, <1>2, PTL DEF Spec

\* TheLivingAreSpared (SigSenderAndCountChecker): whichever way the starts,
\* restarts, crashes and pings of both sides interleave, and for any interval and
\* limit, a side that kills a living other has lost at least as many of its
\* answers between load and store of ++ as the limit allows, but for the ones
\* that come before the thread can answer.
THEOREM LivingAreSpared == Spec => TheLivingAreSpared
<1> DEFINE Spared ==
      /\ wd' = "revive" => \/ wd = "revive" \/ ~UserUp \/ thread = "end"
                           \/ dog.lost >= MaxFails - 1 - Early
      /\ thread' = "fork" => \/ thread = "fork" \/ wd = "off"
                             \/ user.lost >= MaxFails - 1
<1>1. ASSUME IInv, [Next]_vars PROVE [Spared]_vars
  <2>1. /\ Early \in 0..1 /\ MaxFails \in Nat /\ Numbers(user) /\ Numbers(dog)
        /\ Interval > 0 /\ Interval \in Nat /\ UserD \in Nat /\ DogD \in Nat
        /\ user.ready \in BOOLEAN
    BY <1>1, Ranges DEF IInv, Places, Early
  <2>2. ASSUME wd' = "revive", wd # "revive", UserUp, thread # "end"
        PROVE dog.lost >= MaxFails - 1 - Early
    <3>1. /\ wd = "sched" /\ dog.due = 0 /\ ~dog.stop /\ dog.count >= MaxFails
      BY <1>1, <2>2
         DEF Next, vars, MainStep, MakeMeImurtal, SemWait, Joined, DoNotResuscitate,
             Exit, ThreadStep, Fork, Wake, Manage, SigSender, SigSenderLoads,
             SigSenderStores, LastTask, ForkAgain, Tell, StopWatchdog, PingWatchdog,
             WatchdogStep, Exec, Install, SemPost, WatchdogManage, WatchdogSigSender,
             WatchdogLoads, WatchdogStores, FirstSignal, ExecUser, UserCrashes,
             WatchdogCrashes, Tick
    <3>2. DogE = dog.count - dog.lost /\ DogD = 0
      BY <3>1 DEF DogE, DogD, Eff, Due
    <3>3. thread \notin {"none", "new", "fork", "lastFork", "tell"}
      BY <1>1, <2>1, <2>2, <3>1, <3>2
         DEF IInv, Places, UserPlaces, DogPlaces, TypeOK, UserUp, Heard, InTask
    <3>4. thread \in {"nap", "manage", "last"} \cup InTask
      BY <1>1, <2>2, <3>3 DEF IInv, Places, TypeOK, InTask
    <3>5. DogE <= Early + 1
      BY <1>1, <2>1, <3>1, <3>2, <3>4 DEF IInv, Heard, InTask
    <3>6. QED
      BY <2>1, <3>1, <3>2, <3>5 DEF Numbers
  <2>3. ASSUME thread' = "fork", thread # "fork", wd # "off"
        PROVE user.lost >= MaxFails - 1
    <3>1. thread = "sched" /\ user.due = 0 /\ user.count >= MaxFails
      BY <1>1, <2>3
         DEF Next, vars, MainStep, MakeMeImurtal, SemWait, Joined, DoNotResuscitate,
             KillUser, Exit, ThreadStep, Fork, Wake, Manage, SigSender,
             SigSenderLoads, SigSenderStores, LastTask, ForkAgain, Tell,
             WatchdogStep, Exec, Install, SemPost, WatchdogManage, WatchdogSigSender,
             WatchdogLoads, WatchdogStores, PingUser, FirstSignal, ExecUser,
             UserCrashes, WatchdogCrashes, Tick
    <3>2. wd \notin Booting \cup {"first", "revive"}
      BY <1>1, <3>1, WatchdogAssumption DEF IInv, Places, DogPlaces, Booting
    <3>3. wd \in InTask
      BY <1>1, <2>3, <3>2 DEF IInv, Places, TypeOK, Booting, InTask
    <3>4. UserE = user.count - user.lost /\ UserD = 0
      BY <3>1 DEF UserE, UserD, Eff, Due
    <3>5. UserE <= 1
      BY <1>1, <2>1, <3>1, <3>3, <3>4 DEF IInv, Answered, InTask
    <3>6. QED
      BY <2>1, <3>1, <3>4, <3>5 DEF Numbers
  <2>4. QED
    BY <2>2, <2>3
<1>2. QED
  BY <1>1, IInvHolds, PTL DEF Spec, TheLivingAreSpared
=============================================================================

--------------------------- MODULE LibrariesProofs --------------------------
(***************************************************************************)
(* Proofs about what Libraries has side by side: the Scheduler, where its  *)
(* tasks are whatever the client and the op_funcs call; and the Stores,    *)
(* strings, allocators, dispatcher, engine and sorts.                      *)
(***************************************************************************)
EXTENDS Stores, Scheduler, FiniteSetTheorems, WellFoundedInduction, TLAPS

-----------------------------------------------------------------------------
\* Lemmas on the sequences that the sorted list goes through.

\* r is q with t inserted at position i.
IsInsertion(r, q, i, t) ==
    /\ Len(r) = Len(q) + 1
    /\ \A j \in 1..Len(q)+1 :
           r[j] = IF j < i THEN q[j] ELSE IF j = i THEN t ELSE q[j-1]

LEMMA InsertAtInserts ==
    ASSUME NEW S, NEW q \in Seq(S), NEW t \in S, NEW i \in 1..Len(q)+1
    PROVE  InsertAt(q, i, t) \in Seq(S) /\ IsInsertion(InsertAt(q, i, t), q, i, t)
  <1> DEFINE a == SubSeq(q, 1, i-1)
             b == SubSeq(q, i, Len(q))
             r == InsertAt(q, i, t)
  <1>1. a \in Seq(S) /\ Len(a) = i - 1 /\ \A j \in 1..i-1 : a[j] = q[j]
    OBVIOUS
  <1>2. /\ b \in Seq(S) /\ Len(b) = Len(q) - i + 1
        /\ \A j \in 1..Len(q)-i+1 : b[j] = q[j + i - 1]
    OBVIOUS
  <1>3. r = (a \o <<t>>) \o b  BY DEF InsertAt
  <1> HIDE DEF a, b, r
  <1>4. /\ a \o <<t>> \in Seq(S) /\ Len(a \o <<t>>) = i
        /\ \A j \in 1..i-1 : (a \o <<t>>)[j] = q[j]
        /\ (a \o <<t>>)[i] = t
    BY <1>1
  <1>5. r \in Seq(S) /\ Len(r) = Len(q) + 1  BY <1>2, <1>3, <1>4
  <1>6. ASSUME NEW j \in 1..Len(q)+1
        PROVE  r[j] = IF j < i THEN q[j] ELSE IF j = i THEN t ELSE q[j-1]
    <2>1. CASE j <= i
      <3>1. j \in 1..Len(a \o <<t>>)  BY <2>1, <1>4
      <3>2. r[j] = (a \o <<t>>)[j]  BY <3>1, <1>2, <1>3, <1>4
      <3> QED BY <2>1, <3>2, <1>4
    <2>2. CASE j > i
      <3>1. r[j] = b[j - i]  BY <2>2, <1>2, <1>3, <1>4, <1>5
      <3>2. j - i \in 1..Len(q)-i+1  BY <2>2
      <3>3. b[j - i] = q[j - i + i - 1]  BY <3>2, <1>2
      <3> QED BY <3>1, <3>3, <2>2
    <2> QED BY <2>1, <2>2
  <1> QED BY <1>5, <1>6 DEF IsInsertion, r

LEMMA InsertionSet ==
    ASSUME NEW S, NEW q \in Seq(S), NEW t \in S, NEW i \in 1..Len(q)+1,
           NEW r \in Seq(S), IsInsertion(r, q, i, t)
    PROVE  ToSet(r) = ToSet(q) \cup {t}
  <1>1. ToSet(r) \subseteq ToSet(q) \cup {t}
    <2> SUFFICES ASSUME NEW x \in ToSet(r) PROVE x \in ToSet(q) \cup {t}  OBVIOUS
    <2>1. PICK j \in 1..Len(q)+1 : r[j] = x  BY DEF ToSet, IsInsertion
    <2>2. CASE j < i
      <3>1. q[j] = x /\ j \in 1..Len(q)  BY <2>1, <2>2 DEF IsInsertion
      <3> QED BY <3>1 DEF ToSet
    <2>3. CASE j = i  BY <2>1, <2>3 DEF IsInsertion
    <2>4. CASE j > i
      <3>1. q[j-1] = x /\ j-1 \in 1..Len(q)  BY <2>1, <2>4 DEF IsInsertion
      <3> QED BY <3>1 DEF ToSet
    <2> QED BY <2>2, <2>3, <2>4
  <1>2. ASSUME NEW x \in ToSet(q) PROVE x \in ToSet(r)
    <2>1. PICK j \in 1..Len(q) : q[j] = x  BY DEF ToSet
    <2>2. CASE j < i
      <3>1. r[j] = x  BY <2>1, <2>2 DEF IsInsertion
      <3> QED BY <3>1, <2>1 DEF ToSet, IsInsertion
    <2>3. CASE j >= i
      <3>1. j + 1 \in 1..Len(q)+1 /\ ~(j + 1 < i) /\ j + 1 # i  BY <2>3
      <3>2. r[j+1] = q[j+1-1]  BY <3>1 DEF IsInsertion
      <3>3. r[j+1] = x  BY <3>2, <2>1
      <3>4. j + 1 \in DOMAIN r  BY <3>1 DEF IsInsertion
      <3> QED BY <3>3, <3>4 DEF ToSet
    <2> QED BY <2>2, <2>3
  <1>3. t \in ToSet(r)
    <2>1. r[i] = t  BY DEF IsInsertion
    <2> QED BY <2>1 DEF ToSet, IsInsertion
  <1> QED BY <1>1, <1>2, <1>3

LEMMA InsertionInjective ==
    ASSUME NEW S, NEW q \in Seq(S), NEW t \in S, NEW i \in 1..Len(q)+1,
           NEW r \in Seq(S), IsInsertion(r, q, i, t),
           IsInjective(q), t \notin ToSet(q)
    PROVE  IsInjective(r)
  <1> DEFINE at(j) == IF j < i THEN j ELSE j - 1
  <1>1. \A j \in 1..Len(q) : q[j] # t  BY DEF ToSet
  <1>2. \A a, b \in 1..Len(q) : q[a] = q[b] => a = b  BY DEF IsInjective
  <1>3. \A j \in 1..Len(r) : j # i => at(j) \in 1..Len(q) /\ r[j] = q[at(j)]
    BY DEF IsInsertion
  <1>4. r[i] = t  BY DEF IsInsertion
  <1>5. \A a, b \in 1..Len(r) : a # i /\ b # i /\ at(a) = at(b) => a = b  OBVIOUS
  <1> HIDE DEF at
  <1>6. \A a, b \in 1..Len(r) : r[a] = r[b] => a = b
    BY <1>1, <1>2, <1>3, <1>4, <1>5
  <1> QED BY <1>6 DEF IsInjective

\* Removing one position of a list without duplicates removes one element.
LEMMA RemoveAtRemoves ==
    ASSUME NEW S, NEW q \in Seq(S), NEW i \in 1..Len(q), IsInjective(q)
    PROVE  /\ RemoveAt(q, i) \in Seq(S)
           /\ IsInjective(RemoveAt(q, i))
           /\ ToSet(RemoveAt(q, i)) = ToSet(q) \ {q[i]}
  <1> DEFINE r == RemoveAt(q, i)
             at(j) == IF j < i THEN j ELSE j + 1
             pre == SubSeq(q, 1, i - 1)
             post == SubSeq(q, i + 1, Len(q))
  <1>a. pre \in Seq(S) /\ Len(pre) = i - 1 /\ \A j \in 1..i-1 : pre[j] = q[j]
    OBVIOUS
  <1>b. /\ post \in Seq(S) /\ Len(post) = Len(q) - i
        /\ \A j \in 1..Len(q)-i : post[j] = q[j + i]
    OBVIOUS
  <1>c. r = pre \o post  BY DEF RemoveAt
  <1> HIDE DEF r, pre, post
  <1>1. r \in Seq(S) /\ Len(r) = Len(q) - 1  BY <1>a, <1>b, <1>c
  <1>2. ASSUME NEW j \in 1..Len(r) PROVE r[j] = q[at(j)]
    <2>1. CASE j < i
      <3>1. r[j] = pre[j]  BY <1>a, <1>b, <1>c, <2>1
      <3> QED BY <3>1, <1>a, <2>1
    <2>2. CASE j >= i
      <3>1. r[j] = post[j - (i - 1)]  BY <1>1, <1>a, <1>b, <1>c, <2>2
      <3>2. j - (i - 1) \in 1..Len(q)-i  BY <1>1, <2>2
      <3>3. post[j - (i - 1)] = q[j + 1]  BY <1>b, <3>2
      <3> QED BY <3>1, <3>3, <2>2
    <2> QED BY <2>1, <2>2
  <1>3. \A j \in 1..Len(r) : at(j) \in 1..Len(q) /\ at(j) # i  BY <1>1
  <1>4. \A a, b \in 1..Len(r) : at(a) = at(b) => a = b  BY <1>1
  <1>5. \A j \in 1..Len(q) : j # i => \E a \in 1..Len(r) : at(a) = j
    <2> SUFFICES ASSUME NEW j \in 1..Len(q), j # i
                 PROVE  \E a \in 1..Len(r) : at(a) = j
      OBVIOUS
    <2>1. CASE j < i
      <3>1. j \in 1..Len(r) /\ at(j) = j  BY <2>1, <1>1
      <3> QED BY <3>1
    <2>2. CASE j > i
      <3>1. j - 1 \in 1..Len(r) /\ at(j - 1) = j  BY <2>2, <1>1
      <3> QED BY <3>1
    <2> QED BY <2>1, <2>2
  <1>6. \A a, b \in 1..Len(q) : q[a] = q[b] => a = b  BY DEF IsInjective
  <1> HIDE DEF at
  <1>7. IsInjective(r)
    <2>1. \A a, b \in 1..Len(r) : r[a] = r[b] => a = b  BY <1>2, <1>3, <1>4, <1>6
    <2> QED BY <2>1, <1>1 DEF IsInjective
  <1>8. ToSet(r) = {r[j] : j \in 1..Len(r)} /\ ToSet(q) = {q[j] : j \in 1..Len(q)}
    BY <1>1 DEF ToSet
  <1>9. ToSet(r) = ToSet(q) \ {q[i]}
    <2>1. ASSUME NEW x \in ToSet(r) PROVE x \in ToSet(q) /\ x # q[i]
      <3>1. PICK j \in 1..Len(r) : x = r[j]  BY <1>8
      <3> QED BY <3>1, <1>2, <1>3, <1>6, <1>8
    <2>2. ASSUME NEW x \in ToSet(q), x # q[i] PROVE x \in ToSet(r)
      <3>1. PICK j \in 1..Len(q) : x = q[j]  BY <1>8
      <3>2. PICK m \in 1..Len(r) : at(m) = j  BY <3>1, <2>2, <1>5
      <3>3. r[m] = x  BY <3>1, <3>2, <1>2
      <3> QED BY <3>3, <1>8
    <2> QED BY <2>1, <2>2
  <1> QED BY <1>1, <1>7, <1>9 DEF r

LEMMA FrontAndLast ==
    ASSUME NEW S, NEW q \in Seq(S), q # <<>>, IsInjective(q)
    PROVE  /\ Front(q) \in Seq(S) /\ Last(q) \in S
           /\ IsInjective(Front(q))
           /\ ToSet(Front(q)) = ToSet(q) \ {Last(q)}
           /\ Last(q) \in ToSet(q)
  <1>1. Len(q) \in Nat \ {0}  OBVIOUS
  <1>2. Last(q) = q[Len(q)] /\ Len(q) \in 1..Len(q)  BY <1>1 DEF Last
  <1>3. RemoveAt(q, Len(q)) = Front(q)  BY <1>1 DEF RemoveAt, Front
  <1>4. Last(q) \in S /\ Last(q) \in ToSet(q)  BY <1>2 DEF ToSet
  <1> QED BY <1>2, <1>3, <1>4, RemoveAtRemoves

-----------------------------------------------------------------------------
\* Min of the positions is one of them.
LEMMA LeastElement ==
    ASSUME NEW S \in (SUBSET Nat) \ {{}}
    PROVE  \E x \in S : \A y \in S : x =< y
  <1> DEFINE R == {p \in Nat \X Nat : p[1] < p[2]}
  <1>0. S \subseteq Nat  OBVIOUS
  <1>1. R = OpToRel(<, Nat)  BY DEF OpToRel
  <1>2. \A y, x \in Nat : <<y, x>> \in R <=> y < x  OBVIOUS
  <1> HIDE DEF R
  <1>3. IsWellFoundedOn(R, Nat)  BY <1>1, NatLessThanWellFounded
  <1>4. PICK x \in S : \A y \in S : ~ (<<y, x>> \in R)  BY <1>0, <1>3, WFMin
  <1>5. ASSUME NEW y \in S PROVE x =< y
    <2>1. y \in Nat /\ x \in Nat /\ <<y, x>> \notin R  BY <1>0, <1>4
    <2>2. ~ (y < x)  BY <2>1, <1>2
    <2> QED BY <2>1, <2>2
  <1> QED BY <1>5

\* Queueing a task that is not in the queue, wherever its key puts it.
LEMMA EnqueuedProperties ==
    ASSUME queue \in Seq(Tasks), IsInjective(queue),
           NEW t \in Tasks, t \notin Queued, NEW key
    PROVE  /\ Enqueued(t, key) \in Seq(Tasks)
           /\ IsInjective(Enqueued(t, key))
           /\ ToSet(Enqueued(t, key)) = Queued \cup {t}
  <1> DEFINE notSmaller == {i \in DOMAIN queue : due[queue[i]] >= key}
             where == IF notSmaller = {} THEN Len(queue) + 1 ELSE Min(notSmaller)
  <1>1. where \in 1..Len(queue)+1
    <2>1. CASE notSmaller = {}  BY <2>1
    <2>2. CASE notSmaller # {}
      <3>1. notSmaller \in (SUBSET Nat) \ {{}}  BY <2>2
      <3>2. \E x \in notSmaller : \A y \in notSmaller : x =< y
        BY <3>1, LeastElement
      <3>3. Min(notSmaller) \in notSmaller  BY <3>2 DEF Min
      <3> QED BY <3>3, <2>2
    <2> QED BY <2>1, <2>2
  <1>2. Enqueued(t, key) = InsertAt(queue, where, t)  BY DEF Enqueued
  <1> HIDE DEF where
  <1>3. /\ Enqueued(t, key) \in Seq(Tasks)
        /\ IsInsertion(Enqueued(t, key), queue, where, t)
    BY <1>1, <1>2, InsertAtInserts
  <1>4. ToSet(Enqueued(t, key)) = ToSet(queue) \cup {t}
    BY <1>1, <1>3, InsertionSet
  <1>5. IsInjective(Enqueued(t, key))
    BY <1>1, <1>3, InsertionInjective DEF Queued
  <1> QED BY <1>3, <1>4, <1>5 DEF Queued

LEMMA EmptyQueue == /\ <<>> \in Seq(Tasks)
                    /\ IsInjective(<<>>)
                    /\ ToSet(<<>>) = {}
  <1>1. DOMAIN <<>> = {}  OBVIOUS
  <1> QED BY <1>1 DEF IsInjective, ToSet

-----------------------------------------------------------------------------
\* The inductive invariant: besides the properties, SchedRun sleeps only with a
\* task to wait for, and time is accounted for.

SleepsForATask == pc = "sleep" => queue # <<>>

TimeIsKept == \A t \in Queued \cup Executed :
    IF due[t] > 0 THEN since[t] + due[t] >= Interval[t]
                  ELSE since[t] >= Interval[t]

IInv == /\ TypeOK /\ TasksAreOwned /\ NoTaskIsLost
        /\ SleepsForATask /\ TimeIsKept

USE IntervalAssumption

LEMMA InitIInv == Init => IInv
  <1> SUFFICES ASSUME Init PROVE IInv
    OBVIOUS
  <1>1. Queued = {} /\ Executed = {} /\ Live = {}
    BY EmptyQueue DEF Init, Queued, Executed, Live
  <1>2. TypeOK
    <2>1. queue \in Seq(Tasks)  BY EmptyQueue DEF Init
    <2>2. due = [t \in Tasks |-> 0] /\ since = [t \in Tasks |-> 0]  BY DEF Init
    <2>3. \A t \in Tasks : -MaxLate <= due[t] /\ due[t] <= Interval[t]
      BY <2>2
    <2>4. due \in [Tasks -> Int] /\ since \in [Tasks -> 0..MaxInterval]
      BY <2>2
    <2> QED BY <2>1, <2>3, <2>4 DEF Init, TypeOK
  <1>3. IsInjective(queue)  BY EmptyQueue DEF Init
  <1> QED BY <1>1, <1>2, <1>3 DEF Init, IInv, TasksAreOwned, NoTaskIsLost,
                                   SleepsForATask, TimeIsKept

LEMMA AddStep ==
    ASSUME IInv, NEW t \in Tasks, SchedAdd(t)
    PROVE  IInv'
  <1>1. t \notin Queued /\ t \notin Executed
    BY DEF IInv, TasksAreOwned, SchedAdd, Live
  <1>2. queue \in Seq(Tasks) /\ IsInjective(queue)
    BY DEF IInv, TypeOK, TasksAreOwned
  <1>3. queue' \in Seq(Tasks) /\ IsInjective(queue') /\ Queued' = Queued \cup {t}
    BY <1>1, <1>2, EnqueuedProperties DEF SchedAdd, Queued
  <1>4. Executed' = Executed  BY DEF SchedAdd, Executed
  <1>5. Live' = Live \cup {t}  BY DEF SchedAdd, Live, IInv, TypeOK
  <1>6. TypeOK'
    BY <1>3 DEF SchedAdd, IInv, TypeOK
  <1>7. TasksAreOwned' /\ NoTaskIsLost'
    BY <1>1, <1>3, <1>4, <1>5 DEF SchedAdd, IInv, TasksAreOwned, NoTaskIsLost
  <1>8. SleepsForATask'  BY DEF SchedAdd, UserCode, SleepsForATask
  <1>9. TimeIsKept'
    BY <1>3, <1>4 DEF SchedAdd, IInv, TypeOK, TimeIsKept
  <1> QED BY <1>6, <1>7, <1>8, <1>9 DEF IInv

LEMMA RemoveStep ==
    ASSUME IInv, NEW t \in Tasks, SchedRemove(t)
    PROVE  IInv'
  <1>1. queue \in Seq(Tasks) /\ IsInjective(queue)
    BY DEF IInv, TypeOK, TasksAreOwned
  <1>2. /\ queue' \in Seq(Tasks) /\ IsInjective(queue')
        /\ Queued' = Queued \ {t}
        /\ Live' = IF t \in Queued THEN Live \ {t} ELSE Live
        /\ mem' \in [Tasks -> {"new", "live", "freed"}]
    <2>1. CASE t \in Queued
      <3>1. PICK i \in DOMAIN queue : queue[i] = t /\ queue' = RemoveAt(queue, i)
        BY <2>1 DEF SchedRemove
      <3>2. i \in 1..Len(queue)  BY <1>1
      <3>3. /\ queue' \in Seq(Tasks) /\ IsInjective(queue')
            /\ ToSet(queue') = ToSet(queue) \ {t}
        BY <1>1, <3>1, <3>2, RemoveAtRemoves
      <3>4. mem' = Freed({t})  BY <2>1 DEF SchedRemove
      <3> QED BY <2>1, <3>3, <3>4 DEF Queued, Live, Freed, IInv, TypeOK
    <2>2. CASE t \notin Queued
      BY <1>1, <2>2 DEF SchedRemove, Queued, Live, IInv, TypeOK
    <2> QED BY <2>1, <2>2
  <1>3. Executed' = Executed  BY DEF SchedRemove, Executed
  <1>4. TypeOK'  BY <1>2 DEF SchedRemove, IInv, TypeOK
  <1>5. TasksAreOwned' /\ NoTaskIsLost'
    BY <1>2, <1>3 DEF SchedRemove, IInv, TasksAreOwned, NoTaskIsLost
  <1>6. SleepsForATask'  BY DEF SchedRemove, UserCode, SleepsForATask
  <1>7. TimeIsKept'  BY <1>2, <1>3 DEF SchedRemove, IInv, TimeIsKept
  <1> QED BY <1>4, <1>5, <1>6, <1>7 DEF IInv

LEMMA ClearStep ==
    ASSUME IInv, SchedClear \/ SchedDestroy
    PROVE  IInv'
  <1>1. queue' = <<>> /\ mem' = Freed(Queued)  BY DEF SchedClear, SchedDestroy
  <1>2. queue' \in Seq(Tasks) /\ IsInjective(queue') /\ Queued' = {}
    BY <1>1, EmptyQueue DEF Queued
  <1>3. Live' = Live \ Queued
    BY <1>1 DEF Live, Freed
  <1>4. Executed' = Executed  BY DEF SchedClear, SchedDestroy, Executed
  <1>5. TypeOK'
    BY <1>1, <1>2 DEF SchedClear, SchedDestroy, IInv, TypeOK, Freed
  <1>6. TasksAreOwned' /\ NoTaskIsLost'
    BY <1>2, <1>3, <1>4 DEF SchedClear, SchedDestroy, IInv, TasksAreOwned, NoTaskIsLost
  <1>7. SleepsForATask'
    BY DEF SchedClear, SchedDestroy, UserCode, SleepsForATask
  <1>8. TimeIsKept'
    BY <1>2, <1>4 DEF SchedClear, SchedDestroy, IInv, TimeIsKept
  <1> QED BY <1>5, <1>6, <1>7, <1>8 DEF IInv

\* Steps that leave the queue and the tasks alone.
LEMMA ControlStep ==
    ASSUME IInv, SchedStop \/ Run \/ Loop
    PROVE  IInv'
  <1>1. queue' = queue /\ mem' = mem /\ due' = due /\ since' = since
        /\ is_self_remove' = is_self_remove
    BY DEF SchedStop, Run, Loop
  <1>2. Queued' = Queued /\ Live' = Live  BY <1>1 DEF Queued, Live
  <1>3. Executed' = Executed  BY DEF SchedStop, Run, Loop, Executed
  <1>4. TypeOK'  BY DEF SchedStop, Run, Loop, IInv, TypeOK
  <1>5. TasksAreOwned' /\ NoTaskIsLost'
    BY <1>1, <1>2, <1>3 DEF IInv, TasksAreOwned, NoTaskIsLost
  <1>6. SleepsForATask'
    BY <1>1 DEF SchedStop, Run, Loop, IInv, SleepsForATask
  <1>7. TimeIsKept'  BY <1>1, <1>2, <1>3 DEF IInv, TimeIsKept
  <1> QED BY <1>4, <1>5, <1>6, <1>7 DEF IInv

LEMMA StartStep ==
    ASSUME IInv, StartTask
    PROVE  IInv'
  <1>1. queue \in Seq(Tasks) /\ IsInjective(queue) /\ queue # <<>>
    BY DEF IInv, TypeOK, TasksAreOwned, SleepsForATask, StartTask
  <1>2. /\ Front(queue) \in Seq(Tasks) /\ Last(queue) \in Tasks
        /\ IsInjective(Front(queue))
        /\ ToSet(Front(queue)) = ToSet(queue) \ {Last(queue)}
        /\ Last(queue) \in ToSet(queue)
    BY <1>1, FrontAndLast
  <1>3. /\ queue' \in Seq(Tasks) /\ IsInjective(queue')
        /\ Queued' = Queued \ {Peek} /\ Peek \in Queued /\ Peek \in Tasks
    BY <1>2 DEF StartTask, Queued, Peek, Dequeued
  <1>4. Executed = {} /\ Executed' = {Peek}  BY DEF StartTask, Executed
  <1>5. Live' = Live  BY DEF StartTask, Live
  <1>6. TypeOK'  BY <1>3 DEF StartTask, IInv, TypeOK
  <1>7. TasksAreOwned' /\ NoTaskIsLost'
    BY <1>3, <1>4, <1>5 DEF StartTask, IInv, TasksAreOwned, NoTaskIsLost
  <1>8. SleepsForATask'  BY DEF StartTask, SleepsForATask
  <1>9. TimeIsKept'  BY <1>3, <1>4 DEF StartTask, IInv, TimeIsKept
  <1> QED BY <1>6, <1>7, <1>8, <1>9 DEF IInv

LEMMA RepeatStep ==
    ASSUME IInv, Repeat
    PROVE  IInv'
  <1>1. /\ runnig_task \in Tasks /\ runnig_task \notin Queued
        /\ runnig_task \in Live /\ Executed = {runnig_task}
    BY DEF IInv, TasksAreOwned, Repeat, Executed, Live
  <1>2. queue \in Seq(Tasks) /\ IsInjective(queue)
    BY DEF IInv, TypeOK, TasksAreOwned
  <1>3. Executed' = {} /\ Live' = Live  BY DEF Repeat, Executed, Live
  <1>4. /\ queue' \in Seq(Tasks) /\ IsInjective(queue')
        /\ Queued' = IF is_self_remove THEN Queued ELSE Queued \cup {runnig_task}
    <2>1. CASE is_self_remove  BY <1>2, <2>1 DEF Repeat, Queued
    <2>2. CASE ~is_self_remove
      <3>1. queue' = Enqueued(runnig_task, due[runnig_task])  BY <2>2 DEF Repeat
      <3> QED BY <1>1, <1>2, <2>2, <3>1, EnqueuedProperties DEF Queued
    <2> QED BY <2>1, <2>2
  <1>5. TypeOK'  BY <1>1, <1>4 DEF Repeat, IInv, TypeOK
  <1>6. TasksAreOwned' /\ NoTaskIsLost'
    BY <1>1, <1>3, <1>4 DEF Repeat, IInv, TasksAreOwned, NoTaskIsLost
  <1>7. SleepsForATask'  BY DEF Repeat, SleepsForATask
  <1>8. TimeIsKept'
    BY <1>1, <1>3, <1>4 DEF Repeat, IInv, TypeOK, TimeIsKept
  <1> QED BY <1>5, <1>6, <1>7, <1>8 DEF IInv

LEMMA EndStep ==
    ASSUME IInv, Done \/ Fail
    PROVE  IInv'
  <1>1. Executed = {runnig_task} /\ Executed' = {}  BY DEF Done, Fail, Executed
  <1>2. queue' = queue /\ Queued' = Queued  BY DEF Done, Fail, Queued
  <1>3. Live' = Live \ {runnig_task}  BY DEF Done, Fail, Live, Freed
  <1>4. TypeOK'  BY DEF Done, Fail, IInv, TypeOK, Freed
  <1>5. TasksAreOwned' /\ NoTaskIsLost'
    BY <1>1, <1>2, <1>3 DEF Done, Fail, IInv, TasksAreOwned, NoTaskIsLost
  <1>6. SleepsForATask'  BY DEF Done, Fail, SleepsForATask
  <1>7. TimeIsKept'  BY <1>1, <1>2 DEF Done, Fail, IInv, TimeIsKept
  <1> QED BY <1>4, <1>5, <1>6, <1>7 DEF IInv

LEMMA TickStep ==
    ASSUME IInv, Tick
    PROVE  IInv'
  <1>1. queue' = queue /\ Queued' = Queued /\ Live' = Live /\ Executed' = Executed
    BY DEF Tick, Queued, Live, Executed
  <1>2. /\ due \in [Tasks -> Int] /\ since \in [Tasks -> 0..MaxInterval]
        /\ due' = [t \in Tasks |-> Later(due[t])]
        /\ since' = [t \in Tasks |-> Capped(since[t] + 1)]
    BY DEF IInv, TypeOK, Tick
  <1>3. TypeOK'
    <2>1. /\ due' \in [Tasks -> Int] /\ since' \in [Tasks -> 0..MaxInterval]
          /\ \A t \in Tasks : -MaxLate <= due[t]' /\ due[t]' <= Interval[t]
      BY <1>2 DEF IInv, TypeOK, Later, Capped
    <2> QED BY <2>1, <1>1 DEF Tick, IInv, TypeOK
  <1>4. TasksAreOwned' /\ NoTaskIsLost'
    BY <1>1 DEF Tick, IInv, TasksAreOwned, NoTaskIsLost
  <1>5. SleepsForATask'  BY DEF Tick, IInv, SleepsForATask
  <1>6. TimeIsKept'
    <2> SUFFICES ASSUME NEW t \in Queued \cup Executed
                 PROVE  IF due'[t] > 0 THEN since'[t] + due'[t] >= Interval[t]
                                       ELSE since'[t] >= Interval[t]
      BY <1>1 DEF TimeIsKept
    <2>1. t \in Tasks  BY DEF IInv, TasksAreOwned, Live
    <2>2. IF due[t] > 0 THEN since[t] + due[t] >= Interval[t]
                        ELSE since[t] >= Interval[t]
      BY DEF IInv, TimeIsKept
    <2> QED BY <2>1, <2>2, <1>2 DEF Later, Capped
  <1> QED BY <1>3, <1>4, <1>5, <1>6 DEF IInv

LEMMA StutterStep ==
    ASSUME IInv, UNCHANGED vars
    PROVE  IInv'
  BY DEF IInv, TypeOK, TasksAreOwned, NoTaskIsLost, SleepsForATask, TimeIsKept,
     Queued, Executed, Live, vars

LEMMA NextIInv == IInv /\ [Next]_vars => IInv'
  BY AddStep, RemoveStep, ClearStep, ControlStep, StartStep, RepeatStep, EndStep,
     TickStep, StutterStep DEF Next, UserCall, Return

-----------------------------------------------------------------------------
THEOREM Invariance == Spec => []IInv
  BY InitIInv, NextIInv, PTL DEF Spec

\* Every variable keeps its type, and no task is due later than its interval.
THEOREM Typing == Spec => []TypeOK
  <1>1. IInv => TypeOK  BY DEF IInv
  <1> QED BY <1>1, Invariance, PTL

\* SchedAdd, SchedRemove, SchedClear and the run, in any order: a task is queued
\* once or executed, not both, and never once it was freed.
THEOREM Ownership == Spec => []TasksAreOwned
  <1>1. IInv => TasksAreOwned  BY DEF IInv
  <1> QED BY <1>1, Invariance, PTL

\* As long as no task removed itself, SchedRun and SchedRemove lose none.
THEOREM NothingIsLost == Spec => []NoTaskIsLost
  <1>1. IInv => NoTaskIsLost  BY DEF IInv
  <1> QED BY <1>1, Invariance, PTL

\* SchedRun never executes a task before its interval has passed.
THEOREM IntervalsAreKept == Spec => []NeverTooSoon
  <1>1. IInv => NeverTooSoon
    <2> SUFFICES ASSUME IInv, NEW t \in Queued \cup Executed, due[t] <= 0
                 PROVE  since[t] >= Interval[t]
      BY DEF NeverTooSoon
    <2>1. due[t] \in Int  BY DEF IInv, TypeOK, TasksAreOwned, Live
    <2> QED BY <2>1 DEF IInv, TimeIsKept
  <1> QED BY <1>1, Invariance, PTL

HIDE IntervalAssumption

-----------------------------------------------------------------------------
\* Strings that share buffers, and strings with one each.

LEMMA MinIsSmallest ==
    ASSUME NEW T \in SUBSET Nat, T # {}
    PROVE  Min(T) \in T /\ \A m \in T : Min(T) <= m
  BY LeastElement DEF Min

\* malloc gives a block that is not in use, if any.
LEMMA MallocGives ==
    ASSUME NEW used, NEW b \in UNION Malloc(used)
    PROVE  b \in 1..Cells /\ b \notin used
  <1>1. (1..Cells) \ used \in SUBSET Nat  BY LibraryAssumption
  <1>2. (1..Cells) \ used # {} /\ b = Min((1..Cells) \ used)  BY DEF Malloc
  <1> QED BY <1>1, <1>2, MinIsSmallest

Owners(str, b) == {s \in StrNames : str[s] = b}

LEMMA OwnersCount ==
    ASSUME NEW str, NEW b
    PROVE  /\ IsFiniteSet(Owners(str, b))
           /\ Cardinality(Owners(str, b)) \in Nat
           /\ Cardinality(Owners(str, b)) = 0 <=> Owners(str, b) = {}
           /\ Cardinality(Owners(str, b)) = 1 =>
                 \A t, u \in Owners(str, b) : t = u
  <1>1. IsFiniteSet(Owners(str, b))  BY StringsAssumption, FS_Subset DEF Owners
  <1> QED BY <1>1, FS_CardinalityType, FS_EmptySet, FS_Singleton

StFieldNames == {"v", "str", "m_ref_count", "buffer", "used", "reference", "crashed"}

StTyped(m) == /\ DOMAIN m = StFieldNames
              /\ m.v \in {"rc", "plain"}
              /\ m.str \in [StrNames -> 0..Cells]
              /\ m.m_ref_count \in [1..Cells -> Int]
              /\ m.buffer \in [1..Cells -> Nat]
              /\ m.used \in SUBSET (1..Cells)
              /\ m.reference \in 0..Cells
              /\ m.crashed \in BOOLEAN

\* The buffers in use are those that a string has, counted.
StCounted(m) ==
    \A b \in 1..Cells : /\ b \in m.used <=> Owners(m.str, b) # {}
                        /\ m.v = "rc" /\ b \in m.used =>
                              m.m_ref_count[b] = Cardinality(Owners(m.str, b))

USE LibraryAssumption

LEMMA Attached ==
    ASSUME NEW m, StTyped(m), NEW b \in 1..Cells
    PROVE  /\ StTyped(Attach(m, b)) /\ Attach(m, b).v = m.v /\ Attach(m, b).str = m.str
           /\ Attach(m, b).buffer = m.buffer /\ Attach(m, b).used = m.used
           /\ Attach(m, b).reference = m.reference /\ Attach(m, b).crashed = m.crashed
           /\ Attach(m, b).m_ref_count = [m.m_ref_count EXCEPT ![b] = m.m_ref_count[b] + 1]
  <1> DEFINE n == Attach(m, b)
  <1>1. n = [m EXCEPT !.m_ref_count[b] = @ + 1]  BY DEF Attach
  <1> HIDE DEF n
  <1>2. /\ DOMAIN n = DOMAIN m /\ n.v = m.v /\ n.str = m.str
        /\ n.buffer = m.buffer /\ n.used = m.used /\ n.reference = m.reference
        /\ n.crashed = m.crashed
    BY <1>1 DEF StTyped, StFieldNames
  <1>3. n.m_ref_count = [m.m_ref_count EXCEPT ![b] = m.m_ref_count[b] + 1]
    BY <1>1 DEF StTyped, StFieldNames
  <1>4. StTyped(n)  BY <1>2, <1>3 DEF StTyped
  <1> QED BY <1>2, <1>3, <1>4 DEF n

LEMMA Detached ==
    ASSUME NEW m, StTyped(m), NEW b \in 1..Cells
    PROVE  LET n == DetachNDestroy(m, b)
               k == m.m_ref_count[b] - 1
           IN  /\ StTyped(n) /\ n.v = m.v /\ n.str = m.str /\ n.buffer = m.buffer
               /\ n.crashed = m.crashed
               /\ n.used = IF k = 0 THEN m.used \ {b} ELSE m.used
               /\ n.reference = IF k = 0 /\ m.reference = b THEN NULL ELSE m.reference
               /\ n.m_ref_count = [m.m_ref_count EXCEPT ![b] = k]
  <1> DEFINE n == DetachNDestroy(m, b)
             k == m.m_ref_count[b] - 1
  <1>1. n = [m EXCEPT !.m_ref_count[b] = k, !.used = IF k = 0 THEN @ \ {b} ELSE @,
                      !.reference = IF k = 0 /\ @ = b THEN NULL ELSE @]
    BY DEF DetachNDestroy
  <1>5. k \in Int  BY DEF StTyped
  <1> HIDE DEF n, k
  <1>2. /\ DOMAIN n = DOMAIN m /\ n.v = m.v /\ n.str = m.str
        /\ n.buffer = m.buffer /\ n.crashed = m.crashed
        /\ n.used = IF k = 0 THEN m.used \ {b} ELSE m.used
        /\ n.reference = IF k = 0 /\ m.reference = b THEN NULL ELSE m.reference
    BY <1>1 DEF StTyped, StFieldNames
  <1>3. n.m_ref_count = [m.m_ref_count EXCEPT ![b] = k]
    BY <1>1 DEF StTyped, StFieldNames
  <1>4. StTyped(n)  BY <1>2, <1>3, <1>5, LibraryAssumption DEF StTyped, NULL
  <1> QED BY <1>2, <1>3, <1>4 DEF n, k

LEMMA NewBuffer ==
    ASSUME NEW m, StTyped(m), NEW text \in Nat, NEW n \in InitNewSharedBuf(m, text)
    PROVE  LET k == n.mem IN
           /\ n.buf \in 1..Cells /\ n.buf \notin m.used
           /\ StTyped(k) /\ k.v = m.v /\ k.str = m.str /\ k.crashed = m.crashed
           /\ k.used = m.used \cup {n.buf} /\ k.reference = m.reference
           /\ k.m_ref_count = [m.m_ref_count EXCEPT ![n.buf] = 0]
           /\ k.buffer = [m.buffer EXCEPT ![n.buf] = text]
  <1>0. PICK a \in AllocSharedBuffer(m) : n = [a EXCEPT !.mem.buffer[a.buf] = text]
    BY Zenon DEF InitNewSharedBuf
  <1>1. PICK b \in UNION Malloc(m.used) :
           a = [mem |-> [m EXCEPT !.used = @ \cup {b}, !.m_ref_count[b] = 0], buf |-> b]
    BY Zenon DEF AllocSharedBuffer
  <1>2. b \in 1..Cells /\ b \notin m.used  BY MallocGives
  <1> DEFINE k == [m EXCEPT !.used = @ \cup {b}, !.m_ref_count[b] = 0]
  <1>3. /\ DOMAIN k = DOMAIN m /\ k.v = m.v /\ k.str = m.str /\ k.crashed = m.crashed
        /\ k.used = m.used \cup {b} /\ k.reference = m.reference /\ k.buffer = m.buffer
        /\ k.m_ref_count = [m.m_ref_count EXCEPT ![b] = 0]
    BY DEF StTyped, StFieldNames
  <1>4. n = [[mem |-> k, buf |-> b] EXCEPT !.mem.buffer[b] = text]  BY <1>0, <1>1
  <1> HIDE DEF k
  <1>5. n.buf = b /\ n.mem = [k EXCEPT !.buffer[b] = text]  BY <1>4
  <1> DEFINE l == n.mem
  <1>6. /\ DOMAIN l = DOMAIN k /\ l.v = k.v /\ l.str = k.str /\ l.crashed = k.crashed
        /\ l.used = k.used /\ l.reference = k.reference /\ l.m_ref_count = k.m_ref_count
        /\ l.buffer = [k.buffer EXCEPT ![b] = text]
    BY <1>3, <1>5 DEF StTyped, StFieldNames
  <1> HIDE DEF l
  <1>7. StTyped(l)  BY <1>2, <1>3, <1>6 DEF StTyped
  <1> QED BY <1>2, <1>3, <1>5, <1>6, <1>7 DEF l

LEMMA StringSet ==
    ASSUME NEW m, StTyped(m), NEW s \in StrNames, NEW c \in 0..Cells
    PROVE  LET n == [m EXCEPT !.str[s] = c] IN
           /\ StTyped(n) /\ n.v = m.v /\ n.str = [m.str EXCEPT ![s] = c] /\ n.buffer = m.buffer
           /\ n.used = m.used /\ n.reference = m.reference /\ n.crashed = m.crashed
           /\ n.m_ref_count = m.m_ref_count
  <1> DEFINE n == [m EXCEPT !.str[s] = c]
  <1>1. /\ DOMAIN n = DOMAIN m /\ n.v = m.v /\ n.buffer = m.buffer
        /\ n.used = m.used /\ n.reference = m.reference /\ n.crashed = m.crashed
        /\ n.m_ref_count = m.m_ref_count /\ n.str = [m.str EXCEPT ![s] = c]
    BY DEF StTyped, StFieldNames
  <1> HIDE DEF n
  <1>2. StTyped(n)  BY <1>1 DEF StTyped
  <1> QED BY <1>1, <1>2 DEF n

\* A step in which string s lets go of its buffer and takes c, counted on both.
LEMMA StringMoves ==
    ASSUME NEW m, StTyped(m), StCounted(m), m.v = "rc", NEW n, StTyped(n), n.v = "rc",
           NEW s \in StrNames, NEW c \in 0..Cells,
           n.str = [m.str EXCEPT ![s] = c],
           c \in n.used \cup {NULL}, m.str[s] # c \/ c # NULL,
           \A b \in 1..Cells : b \in n.used =>
              /\ b \in m.used =>
                    n.m_ref_count[b] = m.m_ref_count[b] + (IF b = c THEN 1 ELSE 0)
                                       - (IF b = m.str[s] THEN 1 ELSE 0)
              /\ b \notin m.used => b = c /\ n.m_ref_count[b] = 1,
           \A b \in 1..Cells : b \in m.used /\ b \notin n.used <=>
              b = m.str[s] /\ b # c /\ m.m_ref_count[b] = 1
    PROVE  StCounted(n)
  <1> SUFFICES ASSUME NEW b \in 1..Cells
               PROVE  /\ b \in n.used <=> Owners(n.str, b) # {}
                      /\ b \in n.used => n.m_ref_count[b] = Cardinality(Owners(n.str, b))
    BY DEF StCounted
  <1> DEFINE O == Owners(m.str, b)
             P == Owners(n.str, b)
  <1>1. DOMAIN m.str = StrNames /\ m.m_ref_count[b] \in Int /\ n.m_ref_count[b] \in Int  BY DEF StTyped
  <1>2. /\ b \in m.used <=> O # {}
        /\ b \in m.used => m.m_ref_count[b] = Cardinality(O)
    BY DEF StCounted
  <1>8. (\A t \in StrNames : t # s => n.str[t] = m.str[t]) /\ n.str[s] = c  BY <1>1
  <1>9. /\ b = c => P = O \cup {s}
        /\ b # c => P = O \ {s}
        /\ s \in O <=> b = m.str[s]
    BY <1>8 DEF Owners
  <1>10. IsFiniteSet(O) /\ Cardinality(O) \in Nat /\ (Cardinality(O) = 0 <=> O = {})  BY OwnersCount
  <1>3. /\ (b = c) = (b = m.str[s]) => Cardinality(P) = Cardinality(O)
        /\ b = c /\ b # m.str[s] => Cardinality(P) = Cardinality(O) + 1
        /\ b # c /\ b = m.str[s] => Cardinality(P) = Cardinality(O) - 1
        /\ b = c => P # {}
    <2> HIDE DEF O, P
    <2> QED BY <1>9, <1>10, FS_AddElement, FS_RemoveElement
  <1>4. Cardinality(P) = 0 <=> P = {}
    BY OwnersCount
  <1>5. m.str[s] = b => O # {}  BY DEF Owners
  <1> HIDE DEF O, P
  <1>6. b \in n.used => n.m_ref_count[b] = Cardinality(P)
    <2>1. CASE b \in m.used /\ b \in n.used  BY <2>1, <1>1, <1>2, <1>3, <1>10
    <2>2. CASE b \notin m.used /\ b \in n.used  BY <2>2, <1>1, <1>2, <1>3, <1>5, <1>10
    <2> QED BY <2>1, <2>2
  <1>7. b \in n.used <=> P # {}
    <2>1. CASE b = c  BY <2>1, <1>3 DEF NULL
    <2>2. CASE b # c /\ b \in m.used  BY <2>2, <1>1, <1>2, <1>3, <1>4, <1>5, <1>10
    <2>3. CASE b # c /\ b \notin m.used
      <3>1. b \notin n.used  BY <2>3
      <3> QED BY <3>1, <2>3, <1>2, <1>3, <1>4, <1>5, <1>10
    <2> QED BY <2>1, <2>2, <2>3
  <1> QED BY <1>6, <1>7 DEF P

\* What the step of a shared string leaves: its record and its counts.
\* String s of n has a buffer of its own that was not in use, with text in it.
HasFresh(m, n, s, text) ==
    \E b \in 1..Cells : /\ b \notin m.used /\ n.str = [m.str EXCEPT ![s] = b]
                         /\ n.buffer = [m.buffer EXCEPT ![b] = text]

RcReady(m) == StTyped(m) /\ StCounted(m) /\ m.v = "rc"

LEMMA RcConstructs ==
    ASSUME NEW m, RcReady(m), NEW s \in StrNames, m.str[s] = NULL, NEW text \in Nat,
           NEW n \in RcConstruct(m, s, text), n # m
    PROVE  /\ RcReady(n) /\ n.crashed = m.crashed
           /\ n.reference = m.reference /\ m.used \subseteq n.used
           /\ HasFresh(m, n, s, text)
  <1>1. PICK k \in InitNewSharedBuf(m, text) : n = [Attach(k.mem, k.buf) EXCEPT !.str[s] = k.buf]
    BY Zenon DEF RcConstruct
  <1> DEFINE b == k.buf
             a == Attach(k.mem, b)
  <1>2. StTyped(m) /\ StCounted(m) /\ m.v = "rc"  BY DEF RcReady
  <1>3. /\ b \in 1..Cells /\ b \notin m.used
        /\ StTyped(k.mem) /\ k.mem.v = m.v /\ k.mem.str = m.str /\ k.mem.crashed = m.crashed
        /\ k.mem.used = m.used \cup {b} /\ k.mem.reference = m.reference
        /\ k.mem.m_ref_count = [m.m_ref_count EXCEPT ![b] = 0]
        /\ k.mem.buffer = [m.buffer EXCEPT ![b] = text]
    BY <1>1, <1>2, NewBuffer
  <1>4. /\ StTyped(a) /\ a.v = m.v /\ a.str = m.str /\ a.crashed = m.crashed
        /\ a.used = m.used \cup {b} /\ a.reference = m.reference
        /\ a.m_ref_count = [k.mem.m_ref_count EXCEPT ![b] = k.mem.m_ref_count[b] + 1]
        /\ a.buffer = [m.buffer EXCEPT ![b] = text]
    BY <1>3, Attached
  <1> HIDE DEF a, b
  <1>5. n = [a EXCEPT !.str[s] = b]  BY <1>1 DEF a, b
  <1>6. /\ StTyped(n) /\ n.v = m.v /\ n.str = [m.str EXCEPT ![s] = b] /\ n.crashed = m.crashed
        /\ n.used = m.used \cup {b} /\ n.reference = m.reference /\ n.m_ref_count = a.m_ref_count
        /\ n.buffer = [m.buffer EXCEPT ![b] = text]
    <2>1. b \in 0..Cells  BY <1>3
    <2> QED BY <1>4, <1>5, <2>1, StringSet
  <1>7. \A d \in 1..Cells : n.m_ref_count[d] = IF d = b THEN 1 ELSE m.m_ref_count[d]
    BY <1>2, <1>3, <1>4, <1>6 DEF StTyped
  <1>8. StCounted(n)
    <2>1. b \in 0..Cells /\ b # NULL  BY <1>3 DEF NULL
    <2>2. \A d \in 1..Cells : d # NULL  BY DEF NULL
    <2>3. \A d \in 1..Cells : m.m_ref_count[d] \in Int  BY <1>2 DEF StTyped
    <2>4. \A d \in 1..Cells : d \in n.used =>
              /\ d \in m.used =>
                    n.m_ref_count[d] = m.m_ref_count[d] + (IF d = b THEN 1 ELSE 0)
                                       - (IF d = m.str[s] THEN 1 ELSE 0)
              /\ d \notin m.used => d = b /\ n.m_ref_count[d] = 1
      BY <1>3, <1>6, <1>7, <2>2, <2>3
    <2>5. \A d \in 1..Cells : d \in m.used /\ d \notin n.used <=>
              d = m.str[s] /\ d # b /\ m.m_ref_count[d] = 1
      BY <1>6, <2>2
    <2> QED BY <1>2, <1>3, <1>6, <2>1, <2>4, <2>5, StringMoves
  <1> QED BY <1>2, <1>3, <1>6, <1>8 DEF RcReady, HasFresh

LEMMA RcCopies ==
    ASSUME NEW m, RcReady(m), NEW s \in StrNames, m.str[s] = NULL, NEW o \in StrNames,
           m.str[o] # NULL, NEW n \in RcCopy(m, s, o)
    PROVE  /\ RcReady(n) /\ n.crashed = m.crashed /\ n.buffer = m.buffer
           /\ n.reference = m.reference /\ n.used = m.used
           /\ n.str = [m.str EXCEPT ![s] = m.str[o]]
  <1> DEFINE b == m.str[o]
             a == Attach(m, b)
  <1>1. n = [a EXCEPT !.str[s] = b]  BY DEF RcCopy
  <1>2. StTyped(m) /\ StCounted(m) /\ m.v = "rc"  BY DEF RcReady
  <1>3. b \in 1..Cells /\ b \in m.used
    <2>1. b \in 1..Cells  BY <1>2 DEF StTyped, NULL
    <2> QED BY <1>2, <2>1 DEF StCounted, Owners
  <1>4. /\ StTyped(a) /\ a.v = m.v /\ a.str = m.str /\ a.crashed = m.crashed
        /\ a.used = m.used /\ a.reference = m.reference /\ a.buffer = m.buffer
        /\ a.m_ref_count = [m.m_ref_count EXCEPT ![b] = m.m_ref_count[b] + 1]
    BY <1>2, <1>3, Attached
  <1> HIDE DEF a, b
  <1>6. /\ StTyped(n) /\ n.v = m.v /\ n.str = [m.str EXCEPT ![s] = b] /\ n.crashed = m.crashed
        /\ n.used = m.used /\ n.reference = m.reference /\ n.m_ref_count = a.m_ref_count
        /\ n.buffer = m.buffer
    <2>1. b \in 0..Cells  BY <1>3
    <2> QED BY <1>1, <1>4, <2>1, StringSet
  <1>8. StCounted(n)
    <2>1. b \in 0..Cells /\ b # NULL  BY <1>3 DEF NULL
    <2>2. \A d \in 1..Cells : d # NULL  BY DEF NULL
    <2>3. \A d \in 1..Cells : m.m_ref_count[d] \in Int  BY <1>2 DEF StTyped
    <2>6. \A d \in 1..Cells : n.m_ref_count[d] = IF d = b THEN m.m_ref_count[d] + 1 ELSE m.m_ref_count[d]
      <3>1. m.m_ref_count \in [1..Cells -> Int]  BY <1>2 DEF StTyped
      <3>2. n.m_ref_count = [m.m_ref_count EXCEPT ![b] = m.m_ref_count[b] + 1]  BY <1>4, <1>6
      <3> QED BY <3>1, <3>2
    <2>4. \A d \in 1..Cells : d \in n.used =>
              /\ d \in m.used =>
                    n.m_ref_count[d] = m.m_ref_count[d] + (IF d = b THEN 1 ELSE 0)
                                       - (IF d = m.str[s] THEN 1 ELSE 0)
              /\ d \notin m.used => d = b /\ n.m_ref_count[d] = 1
      BY <1>6, <2>2, <2>3, <2>6
    <2>5. \A d \in 1..Cells : d \in m.used /\ d \notin n.used <=>
              d = m.str[s] /\ d # b /\ m.m_ref_count[d] = 1
      BY <1>6, <2>2
    <2> QED BY <1>2, <1>3, <1>6, <2>1, <2>4, <2>5, StringMoves
  <1> QED BY <1>2, <1>6, <1>8 DEF RcReady, b

LEMMA HeldIsUsed ==
    ASSUME NEW m, RcReady(m), NEW s \in StrNames, m.str[s] # NULL
    PROVE  /\ m.str[s] \in 1..Cells /\ m.str[s] \in m.used
           /\ m.m_ref_count[m.str[s]] \in Int /\ m.m_ref_count[m.str[s]] >= 1
  <1> DEFINE b == m.str[s]
  <1>1. b \in 1..Cells /\ m.m_ref_count \in [1..Cells -> Int]  BY DEF RcReady, StTyped, NULL
  <1>2. Owners(m.str, b) # {}  BY DEF Owners
  <1>3. b \in m.used /\ m.m_ref_count[b] = Cardinality(Owners(m.str, b))
    BY <1>1, <1>2 DEF RcReady, StCounted
  <1>4. Cardinality(Owners(m.str, b)) \in Nat /\ Cardinality(Owners(m.str, b)) # 0
    BY <1>2, OwnersCount
  <1> HIDE DEF b
  <1>5. m.m_ref_count[b] \in Int /\ m.m_ref_count[b] >= 1  BY <1>3, <1>4
  <1> QED BY <1>1, <1>3, <1>5 DEF b

LEMMA RcAssigns ==
    ASSUME NEW m, RcReady(m), NEW s \in StrNames, m.str[s] # NULL, NEW o \in StrNames,
           m.str[o] # NULL, NEW n \in RcAssign(m, s, o)
    PROVE  /\ RcReady(n) /\ n.crashed = m.crashed /\ n.buffer = m.buffer
           /\ n.reference = NULL \/ (n.reference = m.reference /\ (m.reference \in m.used => n.reference \in n.used))
           /\ n.str = [m.str EXCEPT ![s] = m.str[o]]
  <1> DEFINE b == m.str[o]
             old == m.str[s]
             a == Attach(m, b)
             d == DetachNDestroy(a, old)
             k == a.m_ref_count[old] - 1
  <1>1. n = [d EXCEPT !.str[s] = b]  BY DEF RcAssign
  <1>2. StTyped(m) /\ StCounted(m) /\ m.v = "rc"  BY DEF RcReady
  <1>3. /\ b \in 1..Cells /\ b \in m.used /\ m.m_ref_count[b] \in Int /\ m.m_ref_count[b] >= 1
        /\ old \in 1..Cells /\ old \in m.used /\ m.m_ref_count[old] \in Int /\ m.m_ref_count[old] >= 1
    BY HeldIsUsed
  <1>4. /\ StTyped(a) /\ a.v = m.v /\ a.str = m.str /\ a.crashed = m.crashed
        /\ a.used = m.used /\ a.reference = m.reference /\ a.buffer = m.buffer
        /\ a.m_ref_count = [m.m_ref_count EXCEPT ![b] = m.m_ref_count[b] + 1]
    BY <1>2, <1>3, Attached
  <1>10. m.str[s] = old  OBVIOUS
  <1> HIDE DEF b, old, a, k
  <1>5. /\ StTyped(d) /\ d.v = m.v /\ d.str = m.str /\ d.crashed = m.crashed /\ d.buffer = m.buffer
        /\ d.used = IF k = 0 THEN m.used \ {old} ELSE m.used
        /\ d.reference = IF k = 0 /\ m.reference = old THEN NULL ELSE m.reference
        /\ d.m_ref_count = [a.m_ref_count EXCEPT ![old] = k]
    <2>1. /\ StTyped(d) /\ d.v = a.v /\ d.str = a.str /\ d.crashed = a.crashed /\ d.buffer = a.buffer
          /\ d.used = IF k = 0 THEN a.used \ {old} ELSE a.used
          /\ d.reference = IF k = 0 /\ a.reference = old THEN NULL ELSE a.reference
          /\ d.m_ref_count = [a.m_ref_count EXCEPT ![old] = k]
      <3>1. StTyped(a) /\ old \in 1..Cells  BY <1>3, <1>4
      <3> QED BY <3>1, Detached DEF k
    <2> HIDE DEF d
    <2> QED BY <2>1, <1>4
  <1>7. k = IF old = b THEN m.m_ref_count[old] ELSE m.m_ref_count[old] - 1
    <2>1. m.m_ref_count \in [1..Cells -> Int]  BY <1>2 DEF StTyped
    <2>2. a.m_ref_count[old] = IF old = b THEN m.m_ref_count[old] + 1 ELSE m.m_ref_count[old]
      BY <2>1, <1>3, <1>4
    <2> QED BY <2>2, <1>3 DEF k
  <1> HIDE DEF d
  <1>6. /\ StTyped(n) /\ n.v = m.v /\ n.str = [m.str EXCEPT ![s] = b] /\ n.crashed = m.crashed
        /\ n.used = d.used /\ n.reference = d.reference /\ n.m_ref_count = d.m_ref_count
        /\ n.buffer = m.buffer
    <2>1. b \in 0..Cells  BY <1>3
    <2> QED BY <1>1, <1>5, <2>1, StringSet
  <1>8. StCounted(n)
    <2>1. b \in 0..Cells /\ b # NULL  BY <1>3 DEF NULL
    <2>3. \A e \in 1..Cells : m.m_ref_count[e] \in Int  BY <1>2 DEF StTyped
    <2>6. \A e \in 1..Cells : n.m_ref_count[e] = IF e = old THEN k ELSE
                                IF e = b THEN m.m_ref_count[e] + 1 ELSE m.m_ref_count[e]
      <3>1. m.m_ref_count \in [1..Cells -> Int]  BY <1>2 DEF StTyped
      <3>2. a.m_ref_count \in [1..Cells -> Int]  BY <1>4 DEF StTyped
      <3> QED BY <3>1, <3>2, <1>4, <1>5, <1>6
    <2>4. \A e \in 1..Cells : e \in n.used =>
              /\ e \in m.used =>
                    n.m_ref_count[e] = m.m_ref_count[e] + (IF e = b THEN 1 ELSE 0)
                                       - (IF e = m.str[s] THEN 1 ELSE 0)
              /\ e \notin m.used => e = b /\ n.m_ref_count[e] = 1
      BY <1>5, <1>6, <1>7, <1>10, <2>3, <2>6
    <2>5. \A e \in 1..Cells : e \in m.used /\ e \notin n.used <=>
              e = m.str[s] /\ e # b /\ m.m_ref_count[e] = 1
      BY <1>3, <1>5, <1>6, <1>7, <1>10
    <2>7. b \in n.used  BY <1>3, <1>5, <1>6, <1>7
    <2> QED BY <1>2, <1>3, <1>6, <2>1, <2>4, <2>5, <2>7, StringMoves
  <1>9. n.reference = NULL \/ (n.reference = m.reference /\ (m.reference \in m.used => n.reference \in n.used))
    BY <1>5, <1>6
  <1> QED BY <1>2, <1>6, <1>8, <1>9 DEF RcReady, b

LEMMA RcDestroys ==
    ASSUME NEW m, RcReady(m), NEW s \in StrNames, m.str[s] # NULL, NEW n, n = RcDestroy(m, s)
    PROVE  /\ RcReady(n) /\ n.crashed = m.crashed /\ n.buffer = m.buffer
           /\ n.reference = NULL \/ (n.reference = m.reference /\ (m.reference \in m.used => n.reference \in n.used))
           /\ n.str = [m.str EXCEPT ![s] = NULL]
  <1> DEFINE old == m.str[s]
             d == DetachNDestroy(m, old)
             k == m.m_ref_count[old] - 1
  <1>1. n = [d EXCEPT !.str[s] = NULL]  BY DEF RcDestroy
  <1>2. StTyped(m) /\ StCounted(m) /\ m.v = "rc"  BY DEF RcReady
  <1>3. old \in 1..Cells /\ old \in m.used /\ m.m_ref_count[old] \in Int /\ m.m_ref_count[old] >= 1
    BY HeldIsUsed
  <1>10. m.str[s] = old  OBVIOUS
  <1> HIDE DEF old, k
  <1>5. /\ StTyped(d) /\ d.v = m.v /\ d.str = m.str /\ d.crashed = m.crashed /\ d.buffer = m.buffer
        /\ d.used = IF k = 0 THEN m.used \ {old} ELSE m.used
        /\ d.reference = IF k = 0 /\ m.reference = old THEN NULL ELSE m.reference
        /\ d.m_ref_count = [m.m_ref_count EXCEPT ![old] = k]
    BY <1>2, <1>3, Detached DEF k
  <1> HIDE DEF d
  <1>6. /\ StTyped(n) /\ n.v = m.v /\ n.str = [m.str EXCEPT ![s] = NULL] /\ n.crashed = m.crashed
        /\ n.used = d.used /\ n.reference = d.reference /\ n.m_ref_count = d.m_ref_count
        /\ n.buffer = m.buffer
    <2>1. NULL \in 0..Cells  BY DEF NULL
    <2> QED BY <1>1, <1>5, <2>1, StringSet
  <1>8. StCounted(n)
    <2>1. NULL \in 0..Cells /\ old # NULL /\ \A e \in 1..Cells : e # NULL  BY <1>3 DEF NULL
    <2>3. \A e \in 1..Cells : m.m_ref_count[e] \in Int  BY <1>2 DEF StTyped
    <2>6. \A e \in 1..Cells : n.m_ref_count[e] = IF e = old THEN m.m_ref_count[e] - 1 ELSE m.m_ref_count[e]
      BY <1>2, <1>5, <1>6 DEF StTyped, k
    <2>4. \A e \in 1..Cells : e \in n.used =>
              /\ e \in m.used =>
                    n.m_ref_count[e] = m.m_ref_count[e] + (IF e = NULL THEN 1 ELSE 0)
                                       - (IF e = m.str[s] THEN 1 ELSE 0)
              /\ e \notin m.used => e = NULL /\ n.m_ref_count[e] = 1
      BY <1>5, <1>6, <1>10, <2>1, <2>3, <2>6
    <2>5. \A e \in 1..Cells : e \in m.used /\ e \notin n.used <=>
              e = m.str[s] /\ e # NULL /\ m.m_ref_count[e] = 1
      BY <1>3, <1>5, <1>6, <1>10, <2>1 DEF k
    <2> QED BY <1>2, <1>3, <1>6, <1>10, <2>1, <2>4, <2>5, StringMoves
  <1>9. n.reference = NULL \/ (n.reference = m.reference /\ (m.reference \in m.used => n.reference \in n.used))
    BY <1>5, <1>6
  <1> QED BY <1>2, <1>6, <1>8, <1>9 DEF RcReady

\* The write through the char& of string s to its buffer b.
Written(a, s, b, text) == [a EXCEPT !.str[s] = b, !.buffer[b] = text, !.reference = b]

LEMMA WrittenTo ==
    ASSUME NEW a, StTyped(a), NEW s \in StrNames, NEW b \in 1..Cells, NEW text \in Nat,
           NEW n, n = Written(a, s, b, text)
    PROVE  /\ StTyped(n) /\ n.v = a.v /\ n.str = [a.str EXCEPT ![s] = b] /\ n.crashed = a.crashed
           /\ n.used = a.used /\ n.reference = b /\ n.m_ref_count = a.m_ref_count
           /\ n.buffer = [a.buffer EXCEPT ![b] = text]
  <1>1. /\ DOMAIN n = DOMAIN a /\ n.v = a.v /\ n.buffer = [a.buffer EXCEPT ![b] = text]
        /\ n.used = a.used /\ n.reference = b /\ n.crashed = a.crashed
        /\ n.m_ref_count = a.m_ref_count /\ n.str = [a.str EXCEPT ![s] = b]
    BY DEF StTyped, StFieldNames, Written
  <1>2. StTyped(n)  BY <1>1 DEF StTyped
  <1> QED BY <1>1, <1>2

RcRewritten(m, n, s, text) ==
    /\ RcReady(n) /\ n.crashed = m.crashed /\ n.reference \in n.used
    /\ \E b \in 1..Cells :
           /\ n.str = [m.str EXCEPT ![s] = b]
           /\ b \in m.used => Owners(m.str, b) = {s}
           /\ \A d \in 1..Cells : d # b => n.buffer[d] = m.buffer[d]
           /\ n.buffer[b] = text

LEMMA RcWrites ==
    ASSUME NEW m, RcReady(m), NEW s \in StrNames, m.str[s] # NULL, NEW text \in Nat,
           NEW n \in RcWrite(m, s, text), n # m
    PROVE  RcRewritten(m, n, s, text)
  <1> DEFINE old == m.str[s]
  <1>2. StTyped(m) /\ StCounted(m) /\ m.v = "rc"  BY DEF RcReady
  <1>3. old \in 1..Cells /\ old \in m.used /\ m.m_ref_count[old] \in Int /\ m.m_ref_count[old] >= 1
    BY HeldIsUsed
  <1>10. m.str[s] = old /\ m.m_ref_count \in [1..Cells -> Int] /\ m.buffer \in [1..Cells -> Nat]
         /\ m.str \in [StrNames -> 0..Cells]
    BY <1>2 DEF StTyped
  <1>11. m.buffer[old] \in Nat  BY <1>3, <1>10
  <1>1. \/ m.m_ref_count[old] = 1 /\ n = [m EXCEPT !.str[s] = old, !.buffer[old] = text, !.reference = old]
        \/ m.m_ref_count[old] # 1 /\ \E k \in InitNewSharedBuf(m, m.buffer[old]) :
              n = [Attach(DetachNDestroy(k.mem, old), k.buf)
                     EXCEPT !.str[s] = k.buf, !.buffer[k.buf] = text, !.reference = k.buf]
    <2>1. CASE m.m_ref_count[old] = 1
      <3>1. n \in {m} \cup {[k.mem EXCEPT !.str[s] = k.buf, !.buffer[k.buf] = text, !.reference = k.buf]
                    : k \in {[mem |-> m, buf |-> old]}}
        BY <2>1 DEF RcWrite, IsSinglyAttached
      <3> HIDE DEF old
      <3>2. PICK k \in {[mem |-> m, buf |-> old]} :
              n = [k.mem EXCEPT !.str[s] = k.buf, !.buffer[k.buf] = text, !.reference = k.buf]
        BY <3>1, Zenon
      <3>3. k.mem = m /\ k.buf = old  BY <3>2
      <3> QED BY <2>1, <3>2, <3>3, Zenon
    <2>2. CASE m.m_ref_count[old] # 1
      <3> DEFINE new == InitNewSharedBuf(m, m.buffer[old])
                 P(k) == [mem |-> Attach(DetachNDestroy(k.mem, old), k.buf), buf |-> k.buf]
      <3>1. n \in {m} \cup {[p.mem EXCEPT !.str[s] = p.buf, !.buffer[p.buf] = text, !.reference = p.buf]
                    : p \in {P(k) : k \in new}}
        BY <2>2 DEF RcWrite, IsSinglyAttached
      <3> HIDE DEF new, P, old
      <3>2. PICK k \in new : n = [P(k).mem EXCEPT !.str[s] = P(k).buf, !.buffer[P(k).buf] = text,
                                                !.reference = P(k).buf]
        BY <3>1, Zenon
      <3>3. P(k).mem = Attach(DetachNDestroy(k.mem, old), k.buf) /\ P(k).buf = k.buf  BY DEF P
      <3>4. n = [Attach(DetachNDestroy(k.mem, old), k.buf)
                     EXCEPT !.str[s] = k.buf, !.buffer[k.buf] = text, !.reference = k.buf]
        BY <3>2, <3>3, Zenon
      <3> QED BY <2>2, <3>4, Zenon DEF new, old
    <2> QED BY <2>1, <2>2
  <1> HIDE DEF old
  <1>4. CASE m.m_ref_count[old] = 1
    <2>1. n = Written(m, s, old, text)  BY <1>1, <1>4 DEF Written
    <2>2. /\ StTyped(n) /\ n.v = m.v /\ n.str = [m.str EXCEPT ![s] = old] /\ n.crashed = m.crashed
          /\ n.used = m.used /\ n.reference = old /\ n.m_ref_count = m.m_ref_count
          /\ n.buffer = [m.buffer EXCEPT ![old] = text]
      BY <1>2, <1>3, <2>1, WrittenTo
    <2>3. n.str = m.str  BY <2>2, <1>10
    <2>4. StCounted(n)  BY <1>2, <2>2, <2>3 DEF StCounted
    <2>5. Owners(m.str, old) = {s}
      <3>1. s \in Owners(m.str, old)  BY <1>10 DEF Owners
      <3>2. Cardinality(Owners(m.str, old)) = 1  BY <1>2, <1>3, <1>4 DEF StCounted
      <3> QED BY <3>1, <3>2, OwnersCount
    <2>6. /\ \A d \in 1..Cells : d # old => n.buffer[d] = m.buffer[d]
          /\ n.buffer[old] = text
      BY <2>2, <1>3, <1>10
    <2>7. RcReady(n) /\ n.reference \in n.used  BY <1>2, <1>3, <2>2, <2>4 DEF RcReady
    <2> QED BY <1>3, <2>2, <2>5, <2>6, <2>7 DEF RcRewritten
  <1>5. CASE m.m_ref_count[old] # 1
    <2>1. PICK k \in InitNewSharedBuf(m, m.buffer[old]) :
              n = [Attach(DetachNDestroy(k.mem, old), k.buf)
                     EXCEPT !.str[s] = k.buf, !.buffer[k.buf] = text, !.reference = k.buf]
      BY <1>1, <1>5
    <2> DEFINE b == k.buf
               i == k.mem
               d == DetachNDestroy(i, old)
               a == Attach(d, b)
    <2>2. /\ b \in 1..Cells /\ b \notin m.used
          /\ StTyped(i) /\ i.v = m.v /\ i.str = m.str /\ i.crashed = m.crashed
          /\ i.used = m.used \cup {b} /\ i.reference = m.reference
          /\ i.m_ref_count = [m.m_ref_count EXCEPT ![b] = 0]
          /\ i.buffer = [m.buffer EXCEPT ![b] = m.buffer[old]]
      BY <1>2, <1>11, NewBuffer
    <2> HIDE DEF b, i
    <2>3. i.m_ref_count[old] = m.m_ref_count[old] /\ old # b  BY <1>3, <1>10, <2>2
    <2>4. i.m_ref_count[old] - 1 # 0  BY <2>3, <1>3, <1>5
    <2>5. /\ StTyped(d) /\ d.v = i.v /\ d.str = i.str /\ d.crashed = i.crashed /\ d.buffer = i.buffer
          /\ d.used = i.used /\ d.reference = i.reference
          /\ d.m_ref_count = [i.m_ref_count EXCEPT ![old] = i.m_ref_count[old] - 1]
      <3>1. StTyped(i) /\ old \in 1..Cells  BY <1>3, <2>2
      <3> QED BY <3>1, <2>4, Detached
    <2> HIDE DEF d
    <2>6. /\ StTyped(a) /\ a.v = d.v /\ a.str = d.str /\ a.crashed = d.crashed /\ a.buffer = d.buffer
          /\ a.used = d.used /\ a.reference = d.reference
          /\ a.m_ref_count = [d.m_ref_count EXCEPT ![b] = d.m_ref_count[b] + 1]
      <3>1. StTyped(d) /\ b \in 1..Cells  BY <2>2, <2>5
      <3> QED BY <3>1, Attached
    <2> HIDE DEF a
    <2>7. n = Written(a, s, b, text)  BY <2>1 DEF a, b, d, i, Written
    <2>8. /\ StTyped(n) /\ n.v = a.v /\ n.str = [a.str EXCEPT ![s] = b] /\ n.crashed = a.crashed
          /\ n.used = a.used /\ n.reference = b /\ n.m_ref_count = a.m_ref_count
          /\ n.buffer = [a.buffer EXCEPT ![b] = text]
      <3>1. StTyped(a) /\ b \in 1..Cells  BY <2>2, <2>6
      <3> QED BY <3>1, <2>7, WrittenTo
    <2>9. /\ n.str = [m.str EXCEPT ![s] = b] /\ n.v = "rc" /\ n.crashed = m.crashed
          /\ n.used = m.used \cup {b} /\ n.reference = b
      BY <1>2, <2>2, <2>5, <2>6, <2>8
    <2>10. \A e \in 1..Cells : n.m_ref_count[e] = IF e = old THEN m.m_ref_count[e] - 1
                                   ELSE IF e = b THEN 1 ELSE m.m_ref_count[e]
      <3>1. i.m_ref_count \in [1..Cells -> Int] /\ d.m_ref_count \in [1..Cells -> Int]
        BY <2>2, <2>5 DEF StTyped
      <3>2. \A e \in 1..Cells : i.m_ref_count[e] = IF e = b THEN 0 ELSE m.m_ref_count[e]
        BY <1>10, <2>2
      <3>3. \A e \in 1..Cells : d.m_ref_count[e] = IF e = old THEN m.m_ref_count[e] - 1
                                   ELSE IF e = b THEN 0 ELSE m.m_ref_count[e]
        BY <3>1, <3>2, <2>3, <2>5
      <3>4. d.m_ref_count[b] + 1 = 1  BY <3>3, <2>2, <2>3
      <3>5. n.m_ref_count = [d.m_ref_count EXCEPT ![b] = d.m_ref_count[b] + 1]  BY <2>6, <2>8
      <3>6. \A e \in 1..Cells : n.m_ref_count[e] = IF e = b THEN d.m_ref_count[b] + 1 ELSE d.m_ref_count[e]
        BY <3>1, <3>5
      <3> QED BY <3>3, <3>4, <3>6, <2>3
    <2>11. StCounted(n)
      <3>1. b \in 0..Cells /\ b # NULL  BY <2>2 DEF NULL
      <3>3. \A e \in 1..Cells : m.m_ref_count[e] \in Int  BY <1>10
      <3>4. \A e \in 1..Cells : e \in n.used =>
              /\ e \in m.used =>
                    n.m_ref_count[e] = m.m_ref_count[e] + (IF e = b THEN 1 ELSE 0)
                                       - (IF e = m.str[s] THEN 1 ELSE 0)
              /\ e \notin m.used => e = b /\ n.m_ref_count[e] = 1
        <4>1. n.used = m.used \cup {b} /\ b \notin m.used /\ m.str[s] = old  BY <1>10, <2>2, <2>9
        <4> QED BY <4>1, <1>3, <2>3, <2>10, <3>3
      <3>5. \A e \in 1..Cells : e \in m.used /\ e \notin n.used <=>
              e = m.str[s] /\ e # b /\ m.m_ref_count[e] = 1
        BY <1>3, <1>5, <1>10, <2>9
      <3> QED BY <1>2, <2>8, <2>9, <3>1, <3>4, <3>5, StringMoves
    <2>12. /\ \A e \in 1..Cells : e # b => n.buffer[e] = m.buffer[e]
           /\ n.buffer[b] = text
      <3>1. a.buffer = [m.buffer EXCEPT ![b] = m.buffer[old]]  BY <2>2, <2>5, <2>6
      <3>2. n.buffer = [a.buffer EXCEPT ![b] = text] /\ m.buffer \in [1..Cells -> Nat] /\ b \in 1..Cells
        BY <1>10, <2>2, <2>8
      <3> QED BY <3>1, <3>2
    <2>13. RcReady(n) /\ n.reference \in n.used  BY <2>8, <2>9, <2>11 DEF RcReady
    <2> QED BY <2>2, <2>9, <2>12, <2>13 DEF RcRewritten
  <1> QED BY <1>4, <1>5

PlainReady(m) ==
    /\ StTyped(m) /\ StCounted(m) /\ m.v = "plain" /\ m.reference = NULL
    /\ \A s, o \in StLive(m) : m.str[s] = m.str[o] => s = o

Crashed(m)           == [m EXCEPT !.crashed = TRUE]
PlainSet(a, s, b, d) == [a EXCEPT !.str[s] = b, !.used = @ \ {d}]

LEMMA CrashedFields ==
    ASSUME NEW m, StTyped(m), NEW n, n = Crashed(m)
    PROVE  /\ StTyped(n) /\ n.v = m.v /\ n.str = m.str /\ n.crashed = TRUE
  <1>1. /\ DOMAIN n = DOMAIN m /\ n.v = m.v /\ n.buffer = m.buffer
        /\ n.used = m.used /\ n.reference = m.reference /\ n.crashed = TRUE
        /\ n.m_ref_count = m.m_ref_count /\ n.str = m.str
    BY DEF StTyped, StFieldNames, Crashed
  <1>2. StTyped(n)  BY <1>1 DEF StTyped
  <1> QED BY <1>1, <1>2

LEMMA PlainSetFields ==
    ASSUME NEW a, StTyped(a), NEW s \in StrNames, NEW b \in 0..Cells, NEW d,
           NEW n, n = PlainSet(a, s, b, d)
    PROVE  /\ StTyped(n) /\ n.v = a.v /\ n.str = [a.str EXCEPT ![s] = b]
           /\ n.crashed = a.crashed /\ n.used = a.used \ {d}
           /\ n.reference = a.reference /\ n.buffer = a.buffer
  <1>1. /\ DOMAIN n = DOMAIN a /\ n.v = a.v /\ n.buffer = a.buffer
        /\ n.used = a.used \ {d} /\ n.reference = a.reference /\ n.crashed = a.crashed
        /\ n.m_ref_count = a.m_ref_count /\ n.str = [a.str EXCEPT ![s] = b]
    BY DEF StTyped, StFieldNames, PlainSet
  <1>2. StTyped(n)  BY <1>1 DEF StTyped
  <1> QED BY <1>1, <1>2

\* A copy of text is in a block that was not in use, or nowhere.
LEMMA PlainCopied ==
    ASSUME NEW m, StTyped(m), NEW text \in Nat, NEW k \in AllocAndCpy(m, text)
    PROVE  \/ k.mem = Crashed(m) /\ k.buf = NULL
           \/ k \in InitNewSharedBuf(m, text)
  <1> DEFINE c == [mem |-> Crashed(m), buf |-> NULL]
  <1>1. k = c \/ k \in InitNewSharedBuf(m, text)  BY Zenon DEF AllocAndCpy, Crashed
  <1>2. c.mem = Crashed(m) /\ c.buf = NULL  OBVIOUS
  <1> QED BY <1>1, <1>2, Zenon

\* A step that gives string s the fresh block b, or none, and frees its old one.
LEMMA PlainMoves ==
    ASSUME NEW m, PlainReady(m), NEW n, StTyped(n), n.v = "plain", n.reference = NULL,
           NEW s \in StrNames, NEW b \in ((1..Cells) \ m.used) \cup {NULL},
           n.str = [m.str EXCEPT ![s] = b], n.used = (m.used \cup ({b} \ {NULL})) \ {m.str[s]}
    PROVE  PlainReady(n)
  <1>1. /\ m.str \in [StrNames -> 0..Cells] /\ m.used \in SUBSET (1..Cells)
        /\ \A d \in 1..Cells : d \in m.used <=> \E o \in StrNames : m.str[o] = d
        /\ \A o, p \in StrNames : m.str[o] # NULL /\ m.str[o] = m.str[p] => o = p
    <2>1. m.str \in [StrNames -> 0..Cells] /\ m.used \in SUBSET (1..Cells)
      BY DEF PlainReady, StTyped
    <2>2. \A d \in 1..Cells : d \in m.used <=> \E o \in StrNames : m.str[o] = d
      BY DEF PlainReady, StCounted, Owners
    <2>3. \A o, p \in StrNames : m.str[o] # NULL /\ m.str[o] = m.str[p] => o = p
      BY DEF PlainReady, StLive
    <2> QED BY <2>1, <2>2, <2>3
  <1>2. \A o \in StrNames : n.str[o] = IF o = s THEN b ELSE m.str[o]  BY <1>1
  <1>3. \A d \in 1..Cells : d # NULL  BY DEF NULL
  <1>4. \A o \in StrNames : m.str[o] # NULL => m.str[o] \in m.used  BY <1>1, <1>3 DEF NULL
  <1>5. \A o, p \in StrNames : n.str[o] # NULL /\ n.str[o] = n.str[p] => o = p
    BY <1>1, <1>2, <1>4
  <1>6. ASSUME NEW d \in 1..Cells PROVE d \in n.used <=> \E o \in StrNames : n.str[o] = d
    <2>1. CASE d = b  BY <2>1, <1>2, <1>3, <1>4
    <2>2. CASE d # b /\ d = m.str[s]
      <3>1. d \notin n.used  BY <2>2
      <3>2. ASSUME NEW o \in StrNames, n.str[o] = d PROVE FALSE
        <4>1. o # s /\ m.str[o] = d  BY <3>2, <2>2, <1>2
        <4> QED BY <4>1, <2>2, <1>1, <1>3
      <3> QED BY <3>1, <3>2
    <2>3. CASE d # b /\ d # m.str[s]
      <3>1. d \in n.used <=> d \in m.used  BY <2>3
      <3>2. \A o \in StrNames : n.str[o] = d <=> m.str[o] = d  BY <2>3, <1>2
      <3> QED BY <3>1, <3>2, <1>1
    <2> QED BY <2>1, <2>2, <2>3
  <1>7. StCounted(n)  BY <1>6 DEF StCounted, Owners
  <1> QED BY <1>5, <1>7 DEF PlainReady, StLive

LEMMA PlainConstructs ==
    ASSUME NEW m, PlainReady(m), NEW s \in StrNames, m.str[s] = NULL, NEW text \in Nat,
           NEW n \in PlainConstruct(m, s, text)
    PROVE  \/ StTyped(n) /\ n.crashed
           \/ /\ PlainReady(n) /\ n.crashed = m.crashed
              /\ HasFresh(m, n, s, text)
  <1>1. PICK k \in AllocAndCpy(m, text) : n = [k.mem EXCEPT !.str[s] = k.buf]
    BY Zenon DEF PlainConstruct
  <1>2. StTyped(m) /\ m.v = "plain" /\ m.reference = NULL  BY DEF PlainReady
  <1>3. CASE k.mem = Crashed(m) /\ k.buf = NULL
    <2> DEFINE a == Crashed(m)
    <2>1. StTyped(a) /\ a.crashed = TRUE  BY <1>2, CrashedFields
    <2>2. n = [a EXCEPT !.str[s] = NULL]  BY <1>1, <1>3
    <2> HIDE DEF a
    <2>3. NULL \in 0..Cells  BY DEF NULL
    <2> QED BY <2>1, <2>2, <2>3, StringSet
  <1>4. CASE k \in InitNewSharedBuf(m, text)
    <2> DEFINE b == k.buf
               i == k.mem
    <2>2. /\ b \in 1..Cells /\ b \notin m.used
          /\ StTyped(i) /\ i.v = m.v /\ i.str = m.str /\ i.crashed = m.crashed
          /\ i.used = m.used \cup {b} /\ i.reference = m.reference
          /\ i.m_ref_count = [m.m_ref_count EXCEPT ![b] = 0]
          /\ i.buffer = [m.buffer EXCEPT ![b] = text]
      <3>1. StTyped(m) /\ text \in Nat /\ k \in InitNewSharedBuf(m, text)  BY <1>2, <1>4
      <3> QED BY <3>1, NewBuffer
    <2>1. n = [i EXCEPT !.str[s] = b]  BY <1>1
    <2> HIDE DEF b, i
    <2>3. /\ StTyped(n) /\ n.v = i.v /\ n.str = [i.str EXCEPT ![s] = b] /\ n.buffer = i.buffer
          /\ n.used = i.used /\ n.reference = i.reference /\ n.crashed = i.crashed
      <3>1. b \in 0..Cells /\ StTyped(i)  BY <2>2
      <3> QED BY <2>1, <3>1, StringSet
    <2>4. PlainReady(n)
      <3>1. n.used = (m.used \cup ({b} \ {NULL})) \ {m.str[s]}
        <4>1. NULL \notin m.used /\ b # NULL  BY <1>2, <2>2 DEF StTyped, NULL
        <4> QED BY <4>1, <2>2, <2>3
      <3>2. /\ StTyped(n) /\ n.v = "plain" /\ n.reference = NULL /\ b \in ((1..Cells) \ m.used) \cup {NULL}
            /\ n.str = [m.str EXCEPT ![s] = b]
        BY <1>2, <2>2, <2>3
      <3> QED BY <3>1, <3>2, PlainMoves
    <2>5. HasFresh(m, n, s, text)  BY <2>2, <2>3 DEF HasFresh
    <2> QED BY <2>2, <2>3, <2>4, <2>5
  <1> QED BY <1>2, <1>3, <1>4, PlainCopied

LEMMA PlainAssigns ==
    ASSUME NEW m, PlainReady(m), NEW s \in StrNames, m.str[s] # NULL, NEW o \in StrNames,
           m.str[o] # NULL, NEW n \in PlainAssign(m, s, o)
    PROVE  \/ StTyped(n) /\ n.crashed
           \/ /\ PlainReady(n) /\ n.crashed = m.crashed
              /\ HasFresh(m, n, s, m.buffer[m.str[o]])
  <1> DEFINE text == m.buffer[m.str[o]]
             old == m.str[s]
  <1>1. PICK k \in AllocAndCpy(m, text) : n = PlainSet(k.mem, s, k.buf, old)
    BY Zenon DEF PlainAssign, PlainSet
  <1>2. StTyped(m) /\ m.v = "plain" /\ m.reference = NULL  BY DEF PlainReady
  <1>5. text \in Nat
    <2>1. m.str[o] \in 1..Cells /\ m.buffer \in [1..Cells -> Nat]  BY <1>2 DEF StTyped, NULL
    <2> QED BY <2>1
  <1>6. old = m.str[s]  OBVIOUS
  <1> HIDE DEF text, old
  <1>3. CASE k.mem = Crashed(m) /\ k.buf = NULL
    <2> DEFINE a == Crashed(m)
    <2>1. StTyped(a) /\ a.crashed = TRUE  BY <1>2, CrashedFields
    <2>2. n = PlainSet(a, s, NULL, old)  BY <1>1, <1>3
    <2> HIDE DEF a
    <2>3. NULL \in 0..Cells  BY DEF NULL
    <2> QED BY <2>1, <2>2, <2>3, PlainSetFields
  <1>4. CASE k \in InitNewSharedBuf(m, text)
    <2> DEFINE b == k.buf
               i == k.mem
    <2>2. /\ b \in 1..Cells /\ b \notin m.used
          /\ StTyped(i) /\ i.v = m.v /\ i.str = m.str /\ i.crashed = m.crashed
          /\ i.used = m.used \cup {b} /\ i.reference = m.reference
          /\ i.m_ref_count = [m.m_ref_count EXCEPT ![b] = 0]
          /\ i.buffer = [m.buffer EXCEPT ![b] = text]
      <3>1. StTyped(m) /\ text \in Nat /\ k \in InitNewSharedBuf(m, text)  BY <1>2, <1>4, <1>5
      <3> QED BY <3>1, NewBuffer
    <2>1. n = PlainSet(i, s, b, old)  BY <1>1
    <2> HIDE DEF b, i
    <2>3. /\ StTyped(n) /\ n.v = i.v /\ n.str = [i.str EXCEPT ![s] = b] /\ n.buffer = i.buffer
          /\ n.used = i.used \ {old} /\ n.reference = i.reference /\ n.crashed = i.crashed
      <3>1. b \in 0..Cells /\ StTyped(i)  BY <2>2
      <3> QED BY <2>1, <3>1, PlainSetFields
    <2>4. PlainReady(n)
      <3>1. n.used = (m.used \cup ({b} \ {NULL})) \ {m.str[s]}
        <4>1. b # NULL  BY <2>2 DEF NULL
        <4> QED BY <4>1, <1>6, <2>2, <2>3
      <3>2. /\ StTyped(n) /\ n.v = "plain" /\ n.reference = NULL /\ b \in ((1..Cells) \ m.used) \cup {NULL}
            /\ n.str = [m.str EXCEPT ![s] = b]
        BY <1>2, <2>2, <2>3
      <3>3. PlainReady(m) /\ s \in StrNames  OBVIOUS
      <3> HIDE DEF text
      <3> QED BY ONLY <3>1, <3>2, <3>3, PlainMoves
    <2>5. n.buffer = [m.buffer EXCEPT ![b] = m.buffer[m.str[o]]]  BY <2>2, <2>3 DEF text
    <2>6. HasFresh(m, n, s, m.buffer[m.str[o]])  BY <2>2, <2>3, <2>5 DEF HasFresh
    <2> QED BY <2>2, <2>3, <2>4, <2>6
  <1> QED BY <1>2, <1>3, <1>4, <1>5, PlainCopied

LEMMA PlainDestroys ==
    ASSUME NEW m, PlainReady(m), NEW s \in StrNames, m.str[s] # NULL, NEW n, n = PlainDestroy(m, s)
    PROVE  /\ PlainReady(n) /\ n.crashed = m.crashed /\ n.buffer = m.buffer
           /\ n.str = [m.str EXCEPT ![s] = NULL]
  <1>1. StTyped(m) /\ m.v = "plain" /\ m.reference = NULL  BY DEF PlainReady
  <1> DEFINE old == m.str[s]
  <1>6. old = m.str[s]  OBVIOUS
  <1>2. n = [m EXCEPT !.used = @ \ {old}, !.str[s] = NULL]  BY DEF PlainDestroy
  <1> HIDE DEF old
  <1>3. /\ DOMAIN n = DOMAIN m /\ n.v = m.v /\ n.buffer = m.buffer
        /\ n.used = m.used \ {old} /\ n.reference = m.reference /\ n.crashed = m.crashed
        /\ n.m_ref_count = m.m_ref_count /\ n.str = [m.str EXCEPT ![s] = NULL]
    BY <1>1, <1>2 DEF StTyped, StFieldNames
  <1>4. StTyped(n)  BY <1>1, <1>3 DEF StTyped, NULL
  <1>5. PlainReady(n)
    <2>1. n.used = (m.used \cup ({NULL} \ {NULL})) \ {m.str[s]}  BY <1>3, <1>6
    <2>2. NULL \in ((1..Cells) \ m.used) \cup {NULL}  OBVIOUS
    <2>3. /\ n.v = "plain" /\ n.reference = NULL /\ n.str = [m.str EXCEPT ![s] = NULL]  BY <1>1, <1>3
    <2> DEFINE b == NULL
    <2>4. /\ PlainReady(m) /\ StTyped(n) /\ n.v = "plain" /\ n.reference = NULL
          /\ b \in ((1..Cells) \ m.used) \cup {NULL} /\ n.str = [m.str EXCEPT ![s] = b]
          /\ n.used = (m.used \cup ({b} \ {NULL})) \ {m.str[s]}
      BY <1>4, <2>1, <2>2, <2>3
    <2> HIDE DEF b
    <2> QED BY <2>4, PlainMoves
  <1> QED BY <1>3, <1>5

\* Every string reads as its client remembers.
TextsKept(m, l) == \A s \in StrNames : m.str[s] # NULL => m.buffer[m.str[s]] = l[s]

StKept(m, l) == /\ \/ RcReady(m) /\ (m.reference = NULL \/ m.reference \in m.used)
                   \/ PlainReady(m)
                /\ TextsKept(m, l)

StInv == /\ StTyped(store) /\ log \in [StrNames -> Nat]
         /\ ~store.crashed => StKept(store, log)

\* Only string s has another buffer, b or none, and it alone reads otherwise.
StringTakes(m, n, l, k, s, b) ==
    /\ StTyped(m) /\ StTyped(n) /\ l \in [StrNames -> Nat] /\ TextsKept(m, l)
    /\ s \in StrNames /\ b \in 0..Cells /\ n.str = [m.str EXCEPT ![s] = b]
    /\ \A o \in StrNames : o # s /\ m.str[o] # NULL => n.buffer[m.str[o]] = m.buffer[m.str[o]]
    /\ \A o \in StrNames : o # s => k[o] = l[o]
    /\ b # NULL => n.buffer[b] = k[s]

LEMMA TextsStay ==
    ASSUME NEW m, NEW n, NEW l, NEW k, NEW s, NEW b, StringTakes(m, n, l, k, s, b)
    PROVE  TextsKept(n, k)
  <1> USE DEF StringTakes
  <1>1. m.str \in [StrNames -> 0..Cells]  BY DEF StTyped
  <1>2. \A o \in StrNames : n.str[o] = IF o = s THEN b ELSE m.str[o]  BY <1>1
  <1>3. ASSUME NEW o \in StrNames, n.str[o] # NULL PROVE n.buffer[n.str[o]] = k[o]
    <2>1. CASE o = s  BY <2>1, <1>2, <1>3
    <2>2. CASE o # s
      <3>1. n.str[o] = m.str[o] /\ k[o] = l[o]  BY <2>2, <1>2
      <3> QED BY <3>1, <2>2, <1>3 DEF TextsKept
    <2> QED BY <2>1, <2>2
  <1> QED BY <1>3 DEF TextsKept

LEMMA HeldElsewhere ==
    ASSUME NEW m, RcReady(m) \/ PlainReady(m), NEW o \in StrNames, m.str[o] # NULL
    PROVE  m.str[o] \in 1..Cells /\ m.str[o] \in m.used
  <1>1. StTyped(m) /\ StCounted(m)  BY DEF RcReady, PlainReady
  <1>2. m.str[o] \in 1..Cells  BY <1>1 DEF StTyped, NULL
  <1> QED BY <1>1, <1>2 DEF StCounted, Owners

LEMMA StInvInit ==
    ASSUME StInit PROVE StInv
  <1>1. PICK v \in {"rc", "plain"} :
           store = [v |-> v, str |-> [s \in StrNames |-> NULL],
                         m_ref_count |-> [b \in 1..Cells |-> 0],
                         buffer |-> [b \in 1..Cells |-> 0], used |-> {},
                         reference |-> NULL, crashed |-> FALSE]
    BY DEF StInit
  <1>2. log = [s \in StrNames |-> NULL]  BY DEF StInit
  <1>3. /\ DOMAIN store = StFieldNames /\ store.v \in {"rc", "plain"}
        /\ store.str = [s \in StrNames |-> NULL] /\ store.m_ref_count = [b \in 1..Cells |-> 0]
        /\ store.buffer = [b \in 1..Cells |-> 0] /\ store.used = {} /\ store.reference = NULL
        /\ store.crashed = FALSE
    BY <1>1 DEF StFieldNames
  <1>4. StTyped(store)
    <2> DEFINE names == [s \in StrNames |-> NULL]
               counts == [b \in 1..Cells |-> 0]
    <2>1. names \in [StrNames -> 0..Cells]  BY DEF NULL
    <2>2. counts \in [1..Cells -> Int] /\ counts \in [1..Cells -> Nat]  OBVIOUS
    <2>3. store.str = names /\ store.m_ref_count = counts /\ store.buffer = counts  BY <1>3
    <2> HIDE DEF names, counts
    <2>4. store.reference = NULL /\ store.crashed = FALSE /\ store.used = {}
      BY <1>3
    <2>5. NULL \in 0..Cells /\ FALSE \in BOOLEAN /\ {} \in SUBSET (1..Cells)
      BY DEF NULL
    <2> QED BY <1>3, <2>1, <2>2, <2>3, <2>4, <2>5 DEF StTyped
  <1>5. \A b \in 1..Cells : b # NULL  BY DEF NULL
  <1>6. \A s \in StrNames : store.str[s] = NULL  BY <1>3
  <1>7. StCounted(store)  BY <1>3, <1>5, <1>6 DEF StCounted, Owners
  <1>8. TextsKept(store, log)  BY <1>6 DEF TextsKept
  <1>9. \/ RcReady(store) /\ store.reference = NULL
        \/ PlainReady(store)
    BY <1>3, <1>4, <1>6, <1>7 DEF RcReady, PlainReady, StLive
  <1>10. log \in [StrNames -> Nat]  BY <1>2 DEF NULL
  <1> QED BY <1>4, <1>8, <1>9, <1>10 DEF StInv, StKept

\* A string that was not constructed is given a fresh buffer.
LEMMA FreshKept ==
    ASSUME NEW m, NEW n, NEW l, NEW k, RcReady(m) \/ PlainReady(m), StTyped(n),
           l \in [StrNames -> Nat], TextsKept(m, l), NEW s \in StrNames, NEW text,
           \A o \in StrNames : o # s => k[o] = l[o], n.str[s] # NULL => k[s] = text,
           HasFresh(m, n, s, text)
    PROVE  TextsKept(n, k)
  <1>1. PICK b \in 1..Cells : /\ b \notin m.used /\ n.str = [m.str EXCEPT ![s] = b]
                               /\ n.buffer = [m.buffer EXCEPT ![b] = text]
    BY DEF HasFresh
  <1>2. StTyped(m)  BY DEF RcReady, PlainReady
  <1>3. m.str \in [StrNames -> 0..Cells] /\ m.buffer \in [1..Cells -> Nat]  BY <1>2 DEF StTyped
  <1>4. \A o \in StrNames : o # s /\ m.str[o] # NULL => n.buffer[m.str[o]] = m.buffer[m.str[o]]
    BY <1>1, <1>3, HeldElsewhere
  <1>5. n.str[s] = b /\ b # NULL /\ b \in 0..Cells  BY <1>1, <1>3 DEF NULL
  <1>7. n.buffer[b] = k[s]  BY <1>1, <1>3, <1>5
  <1>8. StringTakes(m, n, l, k, s, b)  BY <1>1, <1>2, <1>4, <1>5, <1>7 DEF StringTakes
  <1> QED BY <1>8, TextsStay

LEMMA StConstructKeeps ==
    ASSUME StInv, ~store.crashed, NEW s \in StrNames, NEW text \in StrTexts, StConstruct(s, text)
    PROVE  StInv'
  <1>1. /\ StTyped(store) /\ log \in [StrNames -> Nat] /\ StKept(store, log) /\ TextsKept(store, log)
    BY DEF StInv, StKept
  <1>2. /\ store.str[s] = NULL /\ text \in Nat
        /\ log' = [log EXCEPT ![s] = IF store'.str[s] = NULL THEN NULL ELSE text]
    BY StringsAssumption DEF StConstruct, StTake
  <1>3. /\ log' \in [StrNames -> Nat] /\ \A o \in StrNames : o # s => log'[o] = log[o]
        /\ store'.str[s] # NULL => log'[s] = text
    BY <1>1, <1>2 DEF NULL
  <1>4. CASE store.v = "rc"
    <2>1. store' \in RcConstruct(store, s, text)  BY <1>4 DEF StConstruct
    <2>2. RcReady(store) /\ (store.reference = NULL \/ store.reference \in store.used)
      BY <1>1, <1>4 DEF StKept, PlainReady
    <2>3. CASE store' = store
      <3>1. \A o \in StrNames : store.str[o] # NULL => log'[o] = log[o]  BY <1>1, <1>2
      <3>2. TextsKept(store, log')  BY <1>1, <3>1 DEF TextsKept
      <3> QED BY <1>1, <1>3, <2>2, <2>3, <3>2 DEF StInv, StKept
    <2>4. CASE store' # store
      <3>1. /\ RcReady(store') /\ store'.crashed = store.crashed
            /\ store'.reference = store.reference /\ store.used \subseteq store'.used
            /\ HasFresh(store, store', s, text)
        BY <1>2, <2>1, <2>2, <2>4, RcConstructs
      <3>2. StTyped(store')  BY <3>1 DEF RcReady
      <3>3. TextsKept(store', log')  BY <1>1, <1>3, <2>2, <3>1, <3>2, FreshKept
      <3> QED BY <1>3, <2>2, <3>1, <3>2, <3>3 DEF StInv, StKept
    <2> QED BY <2>3, <2>4
  <1>5. CASE store.v # "rc"
    <2>1. store' \in PlainConstruct(store, s, text)  BY <1>5 DEF StConstruct
    <2>2. PlainReady(store)  BY <1>1, <1>5 DEF StKept, RcReady
    <2>3. \/ StTyped(store') /\ store'.crashed
          \/ /\ PlainReady(store')
             /\ HasFresh(store, store', s, text)
      BY <1>2, <2>1, <2>2, PlainConstructs
    <2>4. CASE StTyped(store') /\ store'.crashed  BY <1>3, <2>4 DEF StInv
    <2>5. CASE /\ PlainReady(store')
               /\ HasFresh(store, store', s, text)
      <3>2. StTyped(store')  BY <2>5 DEF PlainReady
      <3>3. TextsKept(store', log')  BY <1>1, <1>3, <2>2, <2>5, <3>2, FreshKept
      <3> QED BY <1>3, <2>5, <3>2, <3>3 DEF StInv, StKept
    <2> QED BY <2>3, <2>4, <2>5
  <1> QED BY <1>4, <1>5

LEMMA StCopyKeeps ==
    ASSUME StInv, ~store.crashed, NEW s \in StrNames, NEW o \in StrNames, StCopy(s, o)
    PROVE  StInv'
  <1>1. /\ StTyped(store) /\ log \in [StrNames -> Nat] /\ StKept(store, log) /\ TextsKept(store, log)
    BY DEF StInv, StKept
  <1>2. /\ store.str[s] = NULL /\ store.str[o] # NULL
        /\ log' = [log EXCEPT ![s] = IF store'.str[s] = NULL THEN NULL ELSE log[o]]
    BY DEF StCopy, StTake
  <1>3. /\ log' \in [StrNames -> Nat] /\ \A t \in StrNames : t # s => log'[t] = log[t]
        /\ store'.str[s] # NULL => log'[s] = log[o]
    BY <1>1, <1>2 DEF NULL
  <1>6. store.buffer[store.str[o]] = log[o] /\ log[o] \in Nat  BY <1>1, <1>2 DEF TextsKept
  <1>4. CASE store.v = "rc"
    <2>1. store' \in RcCopy(store, s, o)  BY <1>4 DEF StCopy
    <2>2. RcReady(store) /\ (store.reference = NULL \/ store.reference \in store.used)
      BY <1>1, <1>4 DEF StKept, PlainReady
    <2>3. /\ RcReady(store') /\ store'.crashed = store.crashed /\ store'.buffer = store.buffer
          /\ store'.reference = store.reference /\ store'.used = store.used
          /\ store'.str = [store.str EXCEPT ![s] = store.str[o]]
      BY <1>2, <2>1, <2>2, RcCopies
    <2>4. StTyped(store')  BY <2>3 DEF RcReady
    <2>5. store.str[o] \in 0..Cells /\ store'.str[s] # NULL  BY <1>1, <1>2, <2>3 DEF StTyped
    <2>6. StringTakes(store, store', log, log', s, store.str[o])
      BY <1>1, <1>3, <1>6, <2>3, <2>4, <2>5 DEF StringTakes
    <2>7. TextsKept(store', log')  BY <2>6, TextsStay
    <2> QED BY <1>3, <2>2, <2>3, <2>4, <2>7 DEF StInv, StKept
  <1>5. CASE store.v # "rc"
    <2>1. store' \in PlainConstruct(store, s, log[o])  BY <1>5, <1>6 DEF StCopy, PlainCopy
    <2>2. PlainReady(store)  BY <1>1, <1>5 DEF StKept, RcReady
    <2>3. \/ StTyped(store') /\ store'.crashed
          \/ /\ PlainReady(store')
             /\ HasFresh(store, store', s, log[o])
      BY <1>2, <1>6, <2>1, <2>2, PlainConstructs
    <2>4. CASE StTyped(store') /\ store'.crashed  BY <1>3, <2>4 DEF StInv
    <2>5. CASE /\ PlainReady(store')
               /\ HasFresh(store, store', s, log[o])
      <3>2. StTyped(store')  BY <2>5 DEF PlainReady
      <3>3. TextsKept(store', log')  BY <1>1, <1>3, <2>2, <2>5, <3>2, FreshKept
      <3> QED BY <1>3, <2>5, <3>2, <3>3 DEF StInv, StKept
    <2> QED BY <2>3, <2>4, <2>5
  <1> QED BY <1>4, <1>5

LEMMA StAssignKeeps ==
    ASSUME StInv, ~store.crashed, NEW s \in StrNames, NEW o \in StrNames, StAssign(s, o)
    PROVE  StInv'
  <1>1. /\ StTyped(store) /\ log \in [StrNames -> Nat] /\ StKept(store, log) /\ TextsKept(store, log)
    BY DEF StInv, StKept
  <1>2. /\ store.str[s] # NULL /\ store.str[o] # NULL
        /\ log' = [log EXCEPT ![s] = IF store'.str[s] = NULL THEN NULL ELSE log[o]]
    BY DEF StAssign, StTake
  <1>3. /\ log' \in [StrNames -> Nat] /\ \A t \in StrNames : t # s => log'[t] = log[t]
        /\ store'.str[s] # NULL => log'[s] = log[o]
    BY <1>1, <1>2 DEF NULL
  <1>6. store.buffer[store.str[o]] = log[o] /\ log[o] \in Nat  BY <1>1, <1>2 DEF TextsKept
  <1>4. CASE store.v = "rc"
    <2>1. store' \in RcAssign(store, s, o)  BY <1>4 DEF StAssign
    <2>2. RcReady(store) /\ (store.reference = NULL \/ store.reference \in store.used)
      BY <1>1, <1>4 DEF StKept, PlainReady
    <2>3. /\ RcReady(store') /\ store'.crashed = store.crashed /\ store'.buffer = store.buffer
          /\ store'.reference = NULL \/ (store'.reference = store.reference
                /\ (store.reference \in store.used => store'.reference \in store'.used))
          /\ store'.str = [store.str EXCEPT ![s] = store.str[o]]
      BY <1>2, <2>1, <2>2, RcAssigns
    <2>4. StTyped(store')  BY <2>3 DEF RcReady
    <2>5. store.str[o] \in 0..Cells /\ store'.str[s] # NULL  BY <1>1, <1>2, <2>3 DEF StTyped
    <2>6. StringTakes(store, store', log, log', s, store.str[o])
      BY <1>1, <1>3, <1>6, <2>3, <2>4, <2>5 DEF StringTakes
    <2>7. TextsKept(store', log')  BY <2>6, TextsStay
    <2>8. store'.reference = NULL \/ store'.reference \in store'.used  BY <2>2, <2>3
    <2> QED BY <1>3, <2>3, <2>4, <2>7, <2>8 DEF StInv, StKept
  <1>5. CASE store.v # "rc"
    <2>1. store' \in PlainAssign(store, s, o)  BY <1>5 DEF StAssign
    <2>2. PlainReady(store)  BY <1>1, <1>5 DEF StKept, RcReady
    <2>3. \/ StTyped(store') /\ store'.crashed
          \/ /\ PlainReady(store')
             /\ HasFresh(store, store', s, log[o])
      BY <1>2, <1>6, <2>1, <2>2, PlainAssigns
    <2>4. CASE StTyped(store') /\ store'.crashed  BY <1>3, <2>4 DEF StInv
    <2>5. CASE /\ PlainReady(store')
               /\ HasFresh(store, store', s, log[o])
      <3>2. StTyped(store')  BY <2>5 DEF PlainReady
      <3>3. TextsKept(store', log')  BY <1>1, <1>3, <2>2, <2>5, <3>2, FreshKept
      <3> QED BY <1>3, <2>5, <3>2, <3>3 DEF StInv, StKept
    <2> QED BY <2>3, <2>4, <2>5
  <1> QED BY <1>4, <1>5

LEMMA StDestroyKeeps ==
    ASSUME StInv, ~store.crashed, NEW s \in StrNames, StDestroy(s)
    PROVE  StInv'
  <1>1. /\ StTyped(store) /\ log \in [StrNames -> Nat] /\ StKept(store, log) /\ TextsKept(store, log)
    BY DEF StInv, StKept
  <1>2. store.str[s] # NULL /\ log' = [log EXCEPT ![s] = NULL]  BY DEF StDestroy
  <1>3. log' \in [StrNames -> Nat] /\ \A t \in StrNames : t # s => log'[t] = log[t]
    BY <1>1, <1>2 DEF NULL
  <1>4. /\ StTyped(store') /\ store'.buffer = store.buffer
        /\ store'.str = [store.str EXCEPT ![s] = NULL]
        /\ \/ RcReady(store') /\ (store'.reference = NULL \/ store'.reference \in store'.used)
           \/ PlainReady(store')
    <2>1. CASE store.v = "rc"
      <3>1. RcReady(store) /\ (store.reference = NULL \/ store.reference \in store.used)
        BY <1>1, <2>1 DEF StKept, PlainReady
      <3>2. store' = RcDestroy(store, s)  BY <2>1 DEF StDestroy
      <3>3. /\ RcReady(store') /\ store'.crashed = store.crashed /\ store'.buffer = store.buffer
            /\ store'.reference = NULL \/ (store'.reference = store.reference
                /\ (store.reference \in store.used => store'.reference \in store'.used))
            /\ store'.str = [store.str EXCEPT ![s] = NULL]
        BY <1>2, <3>1, <3>2, RcDestroys
      <3>4. StTyped(store')  BY <3>3 DEF RcReady
      <3> QED BY <3>1, <3>3, <3>4
    <2>2. CASE store.v # "rc"
      <3>1. PlainReady(store)  BY <1>1, <2>2 DEF StKept, RcReady
      <3>2. store' = PlainDestroy(store, s)  BY <2>2 DEF StDestroy
      <3>3. /\ PlainReady(store') /\ store'.crashed = store.crashed /\ store'.buffer = store.buffer
            /\ store'.str = [store.str EXCEPT ![s] = NULL]
        BY <1>2, <3>1, <3>2, PlainDestroys
      <3>4. StTyped(store')  BY <3>3 DEF PlainReady
      <3> QED BY <3>3, <3>4
    <2> QED BY <2>1, <2>2
  <1>5. NULL \in 0..Cells  BY DEF NULL
  <1>6. StringTakes(store, store', log, log', s, NULL)
    BY <1>1, <1>2, <1>3, <1>4, <1>5 DEF StringTakes
  <1>7. TextsKept(store', log')  BY <1>6, TextsStay
  <1> QED BY <1>3, <1>4, <1>7 DEF StInv, StKept

LEMMA StWriteKeeps ==
    ASSUME StInv, ~store.crashed, NEW s \in StrNames, NEW text \in StrTexts, StWrite(s, text)
    PROVE  StInv'
  <1>1. /\ StTyped(store) /\ log \in [StrNames -> Nat] /\ StKept(store, log) /\ TextsKept(store, log)
    BY DEF StInv, StKept
  <1>2. /\ store.v = "rc" /\ store.str[s] # NULL /\ text \in Nat
        /\ store' \in RcWrite(store, s, text)
        /\ log' = IF store' = store THEN log ELSE [log EXCEPT ![s] = text]
    BY StringsAssumption DEF StWrite
  <1>3. CASE store' = store
    <2>1. log' = log  BY <1>2, <1>3
    <2> QED BY <1>1, <1>3, <2>1 DEF StInv, StKept
  <1>4. CASE store' # store
    <2>1. log' = [log EXCEPT ![s] = text]  BY <1>2, <1>4
    <2>2. /\ log' \in [StrNames -> Nat] /\ \A t \in StrNames : t # s => log'[t] = log[t]
          /\ log'[s] = text
      BY <1>1, <1>2, <2>1
    <2>3. RcReady(store)  BY <1>1, <1>2 DEF StKept, PlainReady
    <2>4. RcRewritten(store, store', s, text)
      <3>1. RcReady(store) /\ store.str[s] # NULL /\ text \in Nat
            /\ store' \in RcWrite(store, s, text) /\ store' # store
        BY <1>2, <1>4, <2>3
      <3> QED BY <3>1, RcWrites
    <2>10. RcReady(store') /\ store'.crashed = store.crashed /\ store'.reference \in store'.used
      BY <2>4 DEF RcRewritten
    <2>5. PICK b \in 1..Cells :
                 /\ store'.str = [store.str EXCEPT ![s] = b]
                 /\ b \in store.used => Owners(store.str, b) = {s}
                 /\ \A d \in 1..Cells : d # b => store'.buffer[d] = store.buffer[d]
                 /\ store'.buffer[b] = text
      BY <2>4 DEF RcRewritten
    <2>6. \A o \in StrNames : o # s /\ store.str[o] # NULL
              => store'.buffer[store.str[o]] = store.buffer[store.str[o]]
      <3> SUFFICES ASSUME NEW o \in StrNames, o # s, store.str[o] # NULL
                   PROVE  store'.buffer[store.str[o]] = store.buffer[store.str[o]]
        OBVIOUS
      <3>1. store.str[o] \in 1..Cells /\ store.str[o] \in store.used  BY <2>3, HeldElsewhere
      <3>2. o \in Owners(store.str, store.str[o])  BY DEF Owners
      <3>3. store.str[o] # b  BY <3>1, <3>2, <2>5
      <3> QED BY <3>1, <3>3, <2>5
    <2>7. StTyped(store') /\ b \in 0..Cells  BY <2>10 DEF RcReady
    <2>8. StringTakes(store, store', log, log', s, b)
      BY <1>1, <2>2, <2>5, <2>6, <2>7 DEF StringTakes
    <2>9. TextsKept(store', log')  BY <2>8, TextsStay
    <2> QED BY <2>2, <2>10, <2>7, <2>9 DEF StInv, StKept
  <1> QED BY <1>3, <1>4

LEMMA StWriteKeptKeeps ==
    ASSUME StInv, ~store.crashed, NEW text \in StrTexts, StWriteKept(text)
    PROVE  StInv'
  <1>1. /\ StTyped(store) /\ log \in [StrNames -> Nat] /\ StKept(store, log) /\ TextsKept(store, log)
    BY DEF StInv, StKept
  <1> DEFINE b == store.reference
  <1>2. /\ b # NULL /\ text \in Nat
        /\ store' = [store EXCEPT !.buffer[b] = text]
        /\ log' = [s \in StrNames |-> IF store.str[s] = b THEN text ELSE log[s]]
    BY StringsAssumption DEF StWriteKept
  <1>3. b \in 1..Cells  BY <1>1, <1>2 DEF StTyped, NULL
  <1>4. RcReady(store) /\ b \in store.used  BY <1>1, <1>2 DEF StKept, PlainReady
  <1>9. store.reference = b  OBVIOUS
  <1> HIDE DEF b
  <1>5. /\ DOMAIN store' = DOMAIN store /\ store'.v = store.v /\ store'.str = store.str
        /\ store'.m_ref_count = store.m_ref_count /\ store'.used = store.used
        /\ store'.reference = store.reference /\ store'.crashed = store.crashed
        /\ store'.buffer = [store.buffer EXCEPT ![b] = text]
    BY <1>1, <1>2 DEF StTyped, StFieldNames
  <1>6. StTyped(store')  BY <1>1, <1>2, <1>3, <1>5 DEF StTyped
  <1>7. RcReady(store')  BY <1>4, <1>5, <1>6 DEF RcReady, StCounted
  <1>8. log' \in [StrNames -> Nat]  BY <1>1, <1>2
  <1>10. TextsKept(store', log')
    <2> SUFFICES ASSUME NEW o \in StrNames, store.str[o] # NULL
                 PROVE  store'.buffer[store.str[o]] = log'[o]
      BY <1>5 DEF TextsKept
    <2>1. store.str[o] \in 1..Cells /\ store.buffer \in [1..Cells -> Nat]  BY <1>1 DEF StTyped, NULL
    <2>2. store.buffer[store.str[o]] = log[o]  BY <1>1 DEF TextsKept
    <2>3. log'[o] = IF store.str[o] = b THEN text ELSE log[o]  BY <1>2
    <2> QED BY <2>1, <2>2, <2>3, <1>3, <1>5
  <1> QED BY <1>4, <1>5, <1>6, <1>7, <1>8, <1>9, <1>10 DEF StInv, StKept

\* The strings' inductive invariant: what a string holds is in use, counted
\* and read as it was written.
LEMMA StInvNext ==
    ASSUME StInv, StNext PROVE StInv'
  <1>1. PICK s \in StrNames, o \in StrNames, text \in StrTexts :
           StConstruct(s, text) \/ StCopy(s, o) \/ StAssign(s, o) \/ StDestroy(s)
           \/ StWrite(s, text) \/ StWriteKept(text)
    BY DEF StNext
  <1>2. ~store.crashed  BY DEF StNext
  <1> QED BY <1>1, <1>2, StConstructKeeps, StCopyKeeps, StAssignKeeps, StDestroyKeeps,
             StWriteKeeps, StWriteKeptKeeps

LEMMA StInvKeepsText ==
    ASSUME StInv PROVE StringsKeepTheirText
  <1> SUFFICES ASSUME ~store.crashed
               PROVE  /\ store.used = {store.str[s] : s \in StLive(store)}
                      /\ \A s \in StLive(store) : ToCStr(store, s) = log[s]
                      /\ \A s, o \in StLive(store) :
                            /\ StrEqual(store, s, o) = (log[s] = log[o])
                            /\ StrNotEqual(store, s, o) = (log[s] # log[o])
                            /\ StrLess(store, s, o) = (log[s] < log[o])
                      /\ \A b \in store.used : Cardinality({s \in StrNames : store.str[s] = b}) =
                            IF store.v = "rc" THEN store.m_ref_count[b] ELSE 1
    BY DEF StringsKeepTheirText
  <1>1. /\ StTyped(store) /\ log \in [StrNames -> Nat] /\ StKept(store, log) /\ TextsKept(store, log)
        /\ StCounted(store) /\ store.used \in SUBSET (1..Cells)
    BY DEF StInv, StKept, RcReady, PlainReady, StTyped
  <1>2. \A s \in StLive(store) : s \in StrNames /\ store.str[s] # NULL
                                 /\ store.str[s] \in 1..Cells /\ store.str[s] \in store.used
    <2> SUFFICES ASSUME NEW s \in StrNames, store.str[s] # NULL
                 PROVE  store.str[s] \in 1..Cells /\ store.str[s] \in store.used
      BY DEF StLive
    <2>1. RcReady(store) \/ PlainReady(store)  BY <1>1 DEF StKept
    <2> QED BY <2>1, HeldElsewhere
  <1>3. store.used = {store.str[s] : s \in StLive(store)}
    <2>0. \A b \in store.used : b \in 1..Cells /\ b # NULL  BY <1>1 DEF NULL
    <2>3. \A b \in store.used : Owners(store.str, b) # {}  BY <1>1, <2>0 DEF StCounted
    <2>1. \A b \in store.used : \E s \in StrNames : store.str[s] = b /\ b # NULL
      BY <2>0, <2>3 DEF Owners
    <2>2. \A b \in store.used : \E s \in StLive(store) : store.str[s] = b
      BY <2>1 DEF StLive
    <2> QED BY <1>2, <2>2
  <1>4. \A s \in StLive(store) : ToCStr(store, s) = log[s] /\ log[s] \in Nat
    BY <1>1, <1>2 DEF ToCStr, TextsKept
  <1>5. \A s, o \in StLive(store) :
            /\ StrEqual(store, s, o) = (log[s] = log[o])
            /\ StrNotEqual(store, s, o) = (log[s] # log[o])
            /\ StrLess(store, s, o) = (log[s] < log[o])
    BY <1>4 DEF StrEqual, StrNotEqual, StrLess, StrGreater
  <1>6. ASSUME NEW b \in store.used
        PROVE  Cardinality({s \in StrNames : store.str[s] = b}) =
                            IF store.v = "rc" THEN store.m_ref_count[b] ELSE 1
    <2>0. b \in 1..Cells /\ Owners(store.str, b) # {}  BY <1>1 DEF StCounted
    <2>1. CASE store.v = "rc"  BY <2>0, <2>1, <1>1 DEF StCounted, Owners
    <2>2. CASE store.v # "rc"
      <3>1. PlainReady(store)  BY <1>1, <2>2 DEF StKept, RcReady
      <3>2. PICK s \in StrNames : store.str[s] = b  BY <2>0 DEF Owners
      <3>3. \A o \in Owners(store.str, b) : o = s
        <4>1. \A o \in Owners(store.str, b) : o \in StLive(store) /\ store.str[o] = b
          BY <2>0 DEF Owners, StLive, NULL
        <4>2. s \in StLive(store)  BY <2>0, <3>2 DEF StLive, NULL
        <4> QED BY <3>1, <3>2, <4>1, <4>2 DEF PlainReady
      <3>4. Owners(store.str, b) = {s}  BY <3>2, <3>3 DEF Owners
      <3>5. Cardinality({s}) = 1  BY FS_Singleton
      <3> QED BY <2>2, <3>4, <3>5 DEF Owners
    <2> QED BY <2>1, <2>2
  <1> QED BY <1>3, <1>4, <1>5, <1>6

HIDE LibraryAssumption

-----------------------------------------------------------------------------
\* The pool of blocks, and the table of what was allocated.

\* Two sequences that share out a set: every member is in one place of one.
Parted(f, l, A) ==
    /\ f \in Seq(A) /\ l \in Seq(A)
    /\ \A i, j \in 1..Len(f) : f[i] = f[j] => i = j
    /\ \A i, j \in 1..Len(l) : l[i] = l[j] => i = j
    /\ \A i \in 1..Len(f), j \in 1..Len(l) : f[i] # l[j]
    /\ \A a \in A : \/ \E i \in 1..Len(f) : f[i] = a
                    \/ \E j \in 1..Len(l) : l[j] = a

\* The elements of q without the one at i.
LEMMA RemovedAt ==
    ASSUME NEW S, NEW q \in Seq(S), NEW i \in 1..Len(q)
    PROVE  LET r == RemoveAt(q, i) IN
           /\ r \in Seq(S) /\ Len(r) = Len(q) - 1
           /\ \A j \in 1..Len(r) : r[j] = IF j < i THEN q[j] ELSE q[j + 1]
  <1> DEFINE r == RemoveAt(q, i)
             pre == SubSeq(q, 1, i - 1)
             post == SubSeq(q, i + 1, Len(q))
  <1>a. pre \in Seq(S) /\ Len(pre) = i - 1 /\ \A j \in 1..i-1 : pre[j] = q[j]
    OBVIOUS
  <1>b. /\ post \in Seq(S) /\ Len(post) = Len(q) - i
        /\ \A j \in 1..Len(q)-i : post[j] = q[j + i]
    OBVIOUS
  <1>c. r = pre \o post  BY DEF RemoveAt
  <1> HIDE DEF r, pre, post
  <1>1. r \in Seq(S) /\ Len(r) = Len(q) - 1  BY <1>a, <1>b, <1>c
  <1>2. ASSUME NEW j \in 1..Len(r) PROVE r[j] = IF j < i THEN q[j] ELSE q[j + 1]
    <2>1. CASE j < i
      <3>1. r[j] = pre[j]  BY <1>a, <1>b, <1>c, <2>1
      <3> QED BY <3>1, <1>a, <2>1
    <2>2. CASE j >= i
      <3>1. r[j] = post[j - (i - 1)]  BY <1>1, <1>a, <1>b, <1>c, <2>2
      <3>2. j - (i - 1) \in 1..Len(q)-i  BY <1>1, <2>2
      <3>3. post[j - (i - 1)] = q[j + 1]  BY <1>b, <3>2
      <3> QED BY <3>1, <3>3, <2>2
    <2> QED BY <2>1, <2>2
  <1> QED BY <1>1, <1>2 DEF r

LEMMA HeadGiven ==
    ASSUME NEW A, NEW f, NEW l, Parted(f, l, A), f # <<>>
    PROVE  Parted(Tail(f), Append(l, f[1]), A)
  <1> DEFINE g == Tail(f)
             k == Append(l, f[1])
  <1>1. f \in Seq(A) /\ l \in Seq(A) /\ f[1] \in A  BY DEF Parted
  <1>2. /\ g \in Seq(A) /\ Len(g) = Len(f) - 1 /\ Len(f) \in Nat
        /\ \A i \in 1..Len(g) : g[i] = f[i + 1]
    BY <1>1
  <1>3. /\ k \in Seq(A) /\ Len(k) = Len(l) + 1 /\ Len(l) \in Nat
        /\ \A i \in 1..Len(l) : k[i] = l[i]
        /\ k[Len(l) + 1] = f[1]
    BY <1>1
  <1> HIDE DEF g, k
  <1>4. /\ \A i, j \in 1..Len(f) : f[i] = f[j] => i = j
        /\ \A i, j \in 1..Len(l) : l[i] = l[j] => i = j
        /\ \A i \in 1..Len(f), j \in 1..Len(l) : f[i] # l[j]
    BY DEF Parted
  <1>5. \A i, j \in 1..Len(g) : g[i] = g[j] => i = j  BY <1>2, <1>4
  <1>10. 1 \in 1..Len(f)  BY <1>1
  <1>6. \A i, j \in 1..Len(k) : k[i] = k[j] => i = j
    <2>1. \A j \in 1..Len(l) : k[j] # f[1]  BY <1>3, <1>4, <1>10
    <2>2. \A i \in 1..Len(k) : i \in 1..Len(l) \/ i = Len(l) + 1  BY <1>3
    <2> QED BY <1>3, <1>4, <2>1, <2>2
  <1>7. \A i \in 1..Len(g), j \in 1..Len(k) : g[i] # k[j]
    <2>1. \A i \in 1..Len(g) : i + 1 \in 1..Len(f) /\ i + 1 # 1  BY <1>2
    <2>2. \A i \in 1..Len(k) : i \in 1..Len(l) \/ i = Len(l) + 1  BY <1>3
    <2> QED BY <1>2, <1>3, <1>4, <1>10, <2>1, <2>2
  <1>8. ASSUME NEW a \in A PROVE (\E i \in 1..Len(g) : g[i] = a) \/ (\E j \in 1..Len(k) : k[j] = a)
    <2>1. CASE \E j \in 1..Len(l) : l[j] = a
      <3>1. PICK j \in 1..Len(l) : l[j] = a  BY <2>1
      <3>2. j \in 1..Len(k) /\ k[j] = a  BY <3>1, <1>3
      <3> QED BY <3>2
    <2>2. CASE \E i \in 1..Len(f) : f[i] = a
      <3>1. PICK i \in 1..Len(f) : f[i] = a  BY <2>2
      <3>2. CASE i = 1
        <4>1. Len(l) + 1 \in 1..Len(k) /\ k[Len(l) + 1] = a  BY <3>1, <3>2, <1>3
        <4> QED BY <4>1
      <3>3. CASE i # 1
        <4>1. i - 1 \in 1..Len(g) /\ g[i - 1] = f[i]  BY <3>3, <1>2
        <4> QED BY <4>1, <3>1
      <3> QED BY <3>2, <3>3
    <2> QED BY <2>1, <2>2 DEF Parted
  <1> QED BY <1>2, <1>3, <1>5, <1>6, <1>7, <1>8 DEF Parted, g, k

LEMMA GivenBack ==
    ASSUME NEW A, NEW f, NEW l, Parted(f, l, A), NEW i \in 1..Len(l)
    PROVE  Parted(<<l[i]>> \o f, RemoveAt(l, i), A)
  <1> DEFINE g == <<l[i]>> \o f
             k == RemoveAt(l, i)
  <1>1. f \in Seq(A) /\ l \in Seq(A) /\ l[i] \in A  BY DEF Parted
  <1>2. /\ g \in Seq(A) /\ Len(g) = Len(f) + 1 /\ Len(f) \in Nat /\ g[1] = l[i]
        /\ \A j \in 1..Len(f) : g[j + 1] = f[j]
    BY <1>1
  <1>3. /\ k \in Seq(A) /\ Len(k) = Len(l) - 1 /\ Len(l) \in Nat
        /\ \A j \in 1..Len(k) : k[j] = IF j < i THEN l[j] ELSE l[j + 1]
    BY <1>1, RemovedAt
  <1> HIDE DEF g, k
  <1>4. /\ \A x, y \in 1..Len(f) : f[x] = f[y] => x = y
        /\ \A x, y \in 1..Len(l) : l[x] = l[y] => x = y
        /\ \A x \in 1..Len(f), y \in 1..Len(l) : f[x] # l[y]
    BY DEF Parted
  <1>9. \A x \in 1..Len(g) : x = 1 \/ (x - 1 \in 1..Len(f) /\ g[x] = f[x - 1])
    <2> SUFFICES ASSUME NEW x \in 1..Len(g), x # 1
                 PROVE  x - 1 \in 1..Len(f) /\ g[x] = f[x - 1]
      OBVIOUS
    <2>1. x - 1 \in 1..Len(f) /\ (x - 1) + 1 = x  BY <1>2
    <2> QED BY <2>1, <1>2
  <1>5. ASSUME NEW x \in 1..Len(g), NEW y \in 1..Len(g), g[x] = g[y] PROVE x = y
    <2>1. \A z \in 1..Len(f) : f[z] # l[i]  BY <1>4
    <2>2. CASE x = 1 \/ y = 1  BY <2>1, <2>2, <1>2, <1>5, <1>9
    <2>3. CASE x # 1 /\ y # 1
      <3>1. x - 1 \in 1..Len(f) /\ y - 1 \in 1..Len(f) /\ f[x - 1] = f[y - 1]  BY <2>3, <1>5, <1>9
      <3>2. x - 1 = y - 1  BY <3>1, <1>4
      <3> QED BY <3>2
    <2> QED BY <2>2, <2>3
  <1>10. \A x \in 1..Len(k) : \E y \in 1..Len(l) : y # i /\ k[x] = l[y] /\ y = IF x < i THEN x ELSE x + 1
    BY <1>3
  <1>6. \A x, y \in 1..Len(k) : k[x] = k[y] => x = y
    BY <1>4, <1>10
  <1>7. ASSUME NEW x \in 1..Len(g), NEW y \in 1..Len(k) PROVE g[x] # k[y]
    <2>1. PICK z \in 1..Len(l) : z # i /\ k[y] = l[z]  BY <1>10
    <2>2. l[z] # l[i]  BY <2>1, <1>4
    <2>3. CASE x = 1  BY <2>1, <2>2, <2>3, <1>2
    <2>4. CASE x # 1
      <3>1. x - 1 \in 1..Len(f) /\ g[x] = f[x - 1]  BY <2>4, <1>9
      <3> QED BY <3>1, <2>1, <1>4
    <2> QED BY <2>3, <2>4
  <1>8. ASSUME NEW a \in A PROVE (\E x \in 1..Len(g) : g[x] = a) \/ (\E j \in 1..Len(k) : k[j] = a)
    <2>1. CASE \E x \in 1..Len(f) : f[x] = a
      <3>1. PICK x \in 1..Len(f) : f[x] = a  BY <2>1
      <3>2. x + 1 \in 1..Len(g) /\ g[x + 1] = a  BY <3>1, <1>2
      <3> QED BY <3>2
    <2>2. CASE \E x \in 1..Len(l) : l[x] = a
      <3>1. PICK x \in 1..Len(l) : l[x] = a  BY <2>2
      <3>2. CASE x = i
        <4>1. 1 \in 1..Len(g) /\ g[1] = a  BY <3>1, <3>2, <1>2
        <4> QED BY <4>1
      <3>3. CASE x < i
        <4>1. x \in 1..Len(k) /\ k[x] = a  BY <3>1, <3>3, <1>3
        <4> QED BY <4>1
      <3>4. CASE x > i
        <4>1. x - 1 \in 1..Len(k) /\ ~ (x - 1 < i) /\ (x - 1) + 1 = x  BY <3>4, <1>3
        <4>2. x - 1 \in 1..Len(k) /\ k[x - 1] = a  BY <4>1, <3>1, <1>3
        <4> QED BY <4>2
      <3> QED BY <3>2, <3>3, <3>4
    <2> QED BY <2>1, <2>2 DEF Parted
  <1> QED BY <1>2, <1>3, <1>5, <1>6, <1>7, <1>8 DEF Parted, g, k

LEMMA PartedJoined ==
    ASSUME NEW A, NEW f, NEW l, Parted(f, l, A)
    PROVE  IsInjective(f \o l) /\ ToSet(f \o l) = A
  <1> DEFINE g == f \o l
  <1>1. f \in Seq(A) /\ l \in Seq(A)  BY DEF Parted
  <1>2. /\ g \in Seq(A) /\ Len(g) = Len(f) + Len(l) /\ Len(f) \in Nat /\ Len(l) \in Nat
        /\ \A j \in 1..Len(f) : g[j] = f[j]
        /\ \A j \in 1..Len(l) : g[j + Len(f)] = l[j]
    BY <1>1
  <1>3. DOMAIN g = 1..Len(g)  BY <1>2
  <1> HIDE DEF g
  <1>4. /\ \A x, y \in 1..Len(f) : f[x] = f[y] => x = y
        /\ \A x, y \in 1..Len(l) : l[x] = l[y] => x = y
        /\ \A x \in 1..Len(f), y \in 1..Len(l) : f[x] # l[y]
        /\ \A a \in A : \/ \E i \in 1..Len(f) : f[i] = a
                        \/ \E j \in 1..Len(l) : l[j] = a
    BY DEF Parted
  <1>5. \A x \in 1..Len(g) : \/ x \in 1..Len(f) /\ g[x] = f[x]
                             \/ x - Len(f) \in 1..Len(l) /\ g[x] = l[x - Len(f)]
    <2> SUFFICES ASSUME NEW x \in 1..Len(g), x \notin 1..Len(f)
                 PROVE  x - Len(f) \in 1..Len(l) /\ g[x] = l[x - Len(f)]
      BY <1>2
    <2>1. x - Len(f) \in 1..Len(l) /\ (x - Len(f)) + Len(f) = x  BY <1>2
    <2> QED BY <2>1, <1>2
  <1>6. \A x, y \in 1..Len(g) : g[x] = g[y] => x = y
    <2> SUFFICES ASSUME NEW x \in 1..Len(g), NEW y \in 1..Len(g), g[x] = g[y] PROVE x = y
      OBVIOUS
    <2>1. CASE x \in 1..Len(f) /\ g[x] = f[x]
      <3>1. CASE y \in 1..Len(f) /\ g[y] = f[y]  BY <2>1, <3>1, <1>4
      <3>2. CASE y - Len(f) \in 1..Len(l) /\ g[y] = l[y - Len(f)]  BY <2>1, <3>2, <1>4
      <3> QED BY <3>1, <3>2, <1>5
    <2>2. CASE x - Len(f) \in 1..Len(l) /\ g[x] = l[x - Len(f)]
      <3>1. CASE y \in 1..Len(f) /\ g[y] = f[y]  BY <2>2, <3>1, <1>4
      <3>2. CASE y - Len(f) \in 1..Len(l) /\ g[y] = l[y - Len(f)]
        <4>1. x - Len(f) = y - Len(f)  BY <2>2, <3>2, <1>4
        <4> QED BY <4>1, <1>2
      <3> QED BY <3>1, <3>2, <1>5
    <2> QED BY <2>1, <2>2, <1>5
  <1>7. \A a \in A : \E x \in 1..Len(g) : g[x] = a
    <2> SUFFICES ASSUME NEW a \in A PROVE \E x \in 1..Len(g) : g[x] = a  OBVIOUS
    <2>1. CASE \E i \in 1..Len(f) : f[i] = a
      <3>1. PICK i \in 1..Len(f) : f[i] = a  BY <2>1
      <3>2. i \in 1..Len(g) /\ g[i] = a  BY <3>1, <1>2
      <3> QED BY <3>2
    <2>2. CASE \E i \in 1..Len(l) : l[i] = a
      <3>1. PICK i \in 1..Len(l) : l[i] = a  BY <2>2
      <3>2. i + Len(f) \in 1..Len(g) /\ g[i + Len(f)] = a  BY <3>1, <1>2
      <3> QED BY <3>2
    <2> QED BY <2>1, <2>2, <1>4
  <1>8. \A x \in 1..Len(g) : g[x] \in A  BY <1>2
  <1>9. IsInjective(g)  BY <1>3, <1>6 DEF IsInjective
  <1>10. ToSet(g) = A
    <2>1. ToSet(g) = {g[x] : x \in 1..Len(g)}  BY <1>3 DEF ToSet
    <2> QED BY <2>1, <1>7, <1>8
  <1> QED BY <1>9, <1>10 DEF g

-----------------------------------------------------------------------------
\* The fixed size allocator.

USE LibraryAssumption, AllocatorsAssumption

LEMMA MaxOfTwo ==
    ASSUME NEW a \in Nat, NEW b \in Nat
    PROVE  Max({a, b}) = IF a < b THEN b ELSE a
  <1>1. \E x \in {a, b} : \A y \in {a, b} : x >= y  OBVIOUS
  <1>2. Max({a, b}) \in {a, b} /\ \A y \in {a, b} : Max({a, b}) >= y  BY <1>1 DEF Max
  <1> QED BY <1>2

LEMMA WordsOfBlock ==
    ASSUME NEW size \in Nat
    PROVE  LET k == BlockWords(size) IN
           /\ k \in Nat \ {0} /\ BlockSizeRoundUpToWordSize(size) = 8 * k /\ 8 * k >= size
  <1> DEFINE atLeast == Max({WORD_SIZE, size})
             rest == atLeast % WORD_SIZE
  <1>1. atLeast \in Nat /\ atLeast >= 8 /\ atLeast >= size
    BY MaxOfTwo DEF WORD_SIZE
  <1>2. BlockSizeRoundUpToWordSize(size) = IF rest > 0 THEN atLeast + 8 - rest ELSE atLeast
    BY DEF BlockSizeRoundUpToWordSize, WORD_SIZE
  <1> HIDE DEF atLeast
  <1>3. PICK q \in Nat : atLeast = 8 * q + rest /\ rest \in 0..7
    <2>1. atLeast = 8 * (atLeast \div 8) + (atLeast % 8) /\ atLeast \div 8 \in Nat /\ atLeast % 8 \in 0..7
      BY <1>1
    <2> QED BY <2>1 DEF WORD_SIZE
  <1> HIDE DEF rest
  <1>4. PICK p \in Nat : BlockSizeRoundUpToWordSize(size) = 8 * p /\ 8 * p >= atLeast
    <2>1. CASE rest > 0
      <3>1. BlockSizeRoundUpToWordSize(size) = 8 * (q + 1)  BY <1>2, <1>3, <2>1
      <3> QED BY <3>1, <1>3
    <2>2. CASE ~ (rest > 0)
      <3>1. BlockSizeRoundUpToWordSize(size) = 8 * q  BY <1>2, <1>3, <2>2
      <3> QED BY <3>1, <1>3, <2>2
    <2> QED BY <2>1, <2>2
  <1>5. (8 * p) \div 8 = p  OBVIOUS
  <1>6. BlockWords(size) = p  BY <1>4, <1>5 DEF BlockWords, WORD_SIZE
  <1> QED BY <1>1, <1>4, <1>6

LEMMA Multiples ==
    ASSUME NEW k \in Nat \ {0}, NEW i \in Nat, NEW j \in Nat, i < j
    PROVE  i * k \in Nat /\ j * k \in Nat /\ i * k + k <= j * k
  <1>1. (i + 1) * k = i * k + k  OBVIOUS
  <1>2. PICK d \in Nat : j = (i + 1) + d  
    <2>1. j - (i + 1) \in Nat /\ j = (i + 1) + (j - (i + 1))  OBVIOUS
    <2> QED BY <2>1
  <1>3. j * k = (i + 1) * k + d * k /\ d * k \in Nat  BY <1>2
  <1>4. i * k \in Nat /\ j * k \in Nat  OBVIOUS
  <1> QED BY <1>1, <1>3, <1>4

FsaFieldNames == {"v", "size", "blocks", "word"}

FsaTyped(m) == /\ DOMAIN m = FsaFieldNames
               /\ m.v = "fsa" /\ m.size \in Nat /\ m.blocks \in Nat

\* What is known of the addresses of the blocks.
LEMMA AddressesAre ==
    ASSUME NEW m, FsaTyped(m)
    PROVE  /\ BlockWords(m.size) \in Nat \ {0} /\ m.blocks * BlockWords(m.size) \in Nat
           /\ \A a \in BlockAddresses(m) :
                 a \in Nat \ {0} /\ a + BlockWords(m.size) <= m.blocks * BlockWords(m.size) + 1
           /\ \A a, b \in BlockAddresses(m) : a < b => a + BlockWords(m.size) <= b
  <1> DEFINE k == BlockWords(m.size)
             n == m.blocks
  <1>1. k \in Nat \ {0} /\ n \in Nat  BY WordsOfBlock DEF FsaTyped
  <1>2. \A a \in BlockAddresses(m) : \E i \in 0..n-1 : a = 1 + i * k
    BY DEF BlockAddresses, BlockAt
  <1> HIDE DEF k, n
  <1>6. n * k \in Nat  BY <1>1
  <1>3. ASSUME NEW a \in BlockAddresses(m) PROVE a \in Nat \ {0} /\ a + k <= n * k + 1
    <2>1. PICK i \in 0..n-1 : a = 1 + i * k  BY <1>2
    <2>2. i \in Nat /\ i < n  BY <1>1
    <2>3. i * k \in Nat /\ i * k + k <= n * k  BY <1>1, <2>2, Multiples
    <2> QED BY <2>1, <2>3, <1>1, <1>6
  <1>4. ASSUME NEW a \in BlockAddresses(m), NEW b \in BlockAddresses(m), a < b PROVE a + k <= b
    <2>1. PICK i \in 0..n-1 : a = 1 + i * k  BY <1>2
    <2>2. PICK j \in 0..n-1 : b = 1 + j * k  BY <1>2
    <2>3. i \in Nat /\ j \in Nat  BY <1>1
    <2>4. CASE i < j
      <3>1. i * k \in Nat /\ j * k \in Nat /\ i * k + k <= j * k  BY <1>1, <2>3, <2>4, Multiples
      <3> QED BY <3>1, <2>1, <2>2, <1>1
    <2>5. CASE j < i
      <3>1. i * k \in Nat /\ j * k \in Nat /\ j * k + k <= i * k  BY <1>1, <2>3, <2>5, Multiples
      <3> QED BY <3>1, <2>1, <2>2, <1>1, <1>4
    <2>6. CASE i = j  BY <2>1, <2>2, <2>3, <2>6, <1>1, <1>4
    <2> QED BY <2>3, <2>4, <2>5, <2>6
  <1> QED BY <1>1, <1>3, <1>4, <1>6 DEF k, n

FsaReady(m, l) ==
    /\ FsaTyped(m)
    /\ m.word \in [0 .. m.blocks * BlockWords(m.size) -> Nat]
    /\ \E free \in Seq(BlockAddresses(m)) :
          /\ FsaCountFree(m, free) /\ Parted(free, l, BlockAddresses(m))
          /\ Len(free) + Len(l) = m.blocks

\* Until FsaInit has been called there is no pool.
FsaInv(m, l) == IF m.blocks = 0 THEN FsaTyped(m) /\ l = <<>> ELSE FsaReady(m, l)

LEMMA FsaApart ==
    ASSUME store.v = "fsa", FsaInv(store, log) PROVE FsaBlocksAreApart
  <1> DEFINE A == BlockAddresses(store)
             k == BlockWords(store.size)
             n == store.blocks
  <1> SUFFICES ASSUME n > 0
               PROVE  \E free \in UNION {[1..i -> A] : i \in 0 .. n} :
          /\ FsaCountFree(store, free) /\ Len(free) = n - Len(log)
          /\ IsInjective(free \o log)
          /\ ToSet(free \o log) = A
          /\ \A a, b \in ToSet(free \o log) :
                a < b => WORD_SIZE * (b - a) >= store.size
          /\ \A a \in ToSet(free \o log) :
                a + k <= Cardinality(DOMAIN store.word)
    BY DEF FsaBlocksAreApart
  <1>1. FsaReady(store, log) /\ FsaTyped(store)  BY DEF FsaInv, FsaReady
  <1>2. n \in Nat /\ store.size \in Nat  BY <1>1 DEF FsaTyped
  <1>3. /\ k \in Nat \ {0} /\ n * k \in Nat
        /\ \A a \in A : a \in Nat \ {0} /\ a + k <= n * k + 1
        /\ \A a, b \in A : a < b => a + k <= b
    BY <1>1, AddressesAre
  <1>4. 8 * k >= store.size  BY <1>2, WordsOfBlock
  <1>5. PICK free \in Seq(A) :
          /\ FsaCountFree(store, free) /\ Parted(free, log, A)
          /\ Len(free) + Len(log) = n
    BY <1>1 DEF FsaReady
  <1>6. DOMAIN store.word = 0 .. n * k  BY <1>1 DEF FsaReady
  <1> HIDE DEF A, k, n
  <1>7. Cardinality(0 .. n * k) = n * k + 1  BY <1>3, FS_Interval
  <1>8. IsInjective(free \o log) /\ ToSet(free \o log) = A  BY <1>5, PartedJoined
  <1>9. \A a, b \in A : a < b => WORD_SIZE * (b - a) >= store.size
    <2> SUFFICES ASSUME NEW a \in A, NEW b \in A, a < b PROVE WORD_SIZE * (b - a) >= store.size
      OBVIOUS
    <2>1. a \in Nat /\ b \in Nat /\ a + k <= b  BY <1>3
    <2> QED BY <2>1, <1>2, <1>3, <1>4 DEF WORD_SIZE
  <1>10. free \in UNION {[1..i -> A] : i \in 0 .. n} /\ Len(free) = n - Len(log)
    <2>1. log \in Seq(A)  BY <1>5 DEF Parted
    <2>2. Len(free) \in Nat /\ Len(log) \in Nat /\ free \in [1..Len(free) -> A]  BY <2>1
    <2>3. Len(free) \in 0..n /\ Len(free) = n - Len(log)  BY <2>2, <1>2, <1>5
    <2> QED BY <2>2, <2>3
  <1> QED BY <1>3, <1>5, <1>6, <1>7, <1>8, <1>9, <1>10

LEMMA Quotient ==
    ASSUME NEW n \in Nat, NEW r \in Nat \ {0}
    PROVE  (n * r) \div r = n
  <1> DEFINE q == (n * r) \div r
  <1>1. n * r \in Nat  OBVIOUS
  <1>2. q \in Int /\ r * q <= n * r /\ n * r < r * (q + 1)
    <2> HIDE DEF q
    <2>1. \A x \in Int : x \div r \in Int /\ r * (x \div r) <= x /\ x < r * ((x \div r) + 1)
      <3> SUFFICES ASSUME NEW x \in Int
                   PROVE  x \div r \in Int /\ r * (x \div r) <= x /\ x < r * ((x \div r) + 1)
        OBVIOUS
      <3> QED OBVIOUS
    <2> QED BY <1>1, <2>1 DEF q
  <1> HIDE DEF q
  <1>3. ~ (q < n)
    <2> SUFFICES ASSUME q < n PROVE FALSE  OBVIOUS
    <2>1. n - (q + 1) \in Nat  BY <1>2
    <2>2. n * r = (n - (q + 1)) * r + r * (q + 1)  BY <1>2
    <2>3. (n - (q + 1)) * r >= 0  BY <2>1
    <2>4. r * (q + 1) \in Int /\ (n - (q + 1)) * r \in Int  BY <1>2
    <2> QED BY <1>1, <1>2, <2>2, <2>3, <2>4
  <1>4. ~ (q > n)
    <2> SUFFICES ASSUME q > n PROVE FALSE  OBVIOUS
    <2>1. q - n \in Nat /\ q - n >= 1  BY <1>2
    <2>2. r * q = n * r + (q - n) * r  BY <1>2
    <2>3. (q - n) * r >= 1  BY <2>1
    <2>4. (q - n) * r \in Int  BY <1>2
    <2> QED BY <1>1, <1>2, <2>2, <2>3, <2>4
  <1> QED BY <1>2, <1>3, <1>4 DEF q

LEMMA FsaMakes ==
    ASSUME NEW n \in Nat \ {0}, NEW size \in Nat, NEW m, m = FsaInit(FsaSuggestSize(n, size), size)
    PROVE  m.blocks = n /\ FsaReady(m, <<>>)
  <1> DEFINE k == BlockWords(size)
             r == BlockSizeRoundUpToWordSize(size)
             pool == FsaSuggestSize(n, size)
             linked == {BlockAt(size, i) : i \in 0 .. n - 2}
  <1>1. k \in Nat \ {0} /\ r = 8 * k  BY WordsOfBlock
  <1>2. \A i \in 0 .. n - 1 : BlockAt(size, i) = 1 + i * k /\ i * k \in Nat  BY <1>1 DEF BlockAt
  <1>3. pool = n * r + 8  BY DEF FsaSuggestSize, WORD_SIZE
  <1>4. BlockWords(size) = k /\ BlockSizeRoundUpToWordSize(size) = r  OBVIOUS
  <1> HIDE DEF r, k, pool
  <1>5. r \in Nat \ {0} /\ n * r \in Nat /\ n * r = 8 * (n * k) /\ n * k \in Nat  BY <1>1
  <1>6. (pool - WORD_SIZE) \div r = n
    <2>1. pool - WORD_SIZE = n * r  BY <1>3, <1>5 DEF WORD_SIZE
    <2> QED BY <2>1, <1>5, Quotient
  <1>7. (pool \div WORD_SIZE) - 1 = n * k
    <2>1. pool = 8 * (n * k + 1)  BY <1>3, <1>5
    <2>2. \A x \in Nat : (8 * x) \div 8 = x  OBVIOUS
    <2>3. n * k + 1 \in Nat  BY <1>5
    <2>4. pool \div 8 = n * k + 1  BY <2>1, <2>2, <2>3
    <2> QED BY <2>4, <1>5 DEF WORD_SIZE
  <1>8. m = [v |-> "fsa", size |-> size, blocks |-> n,
             word |-> [a \in 0 .. n * k |->
                         IF a = 0 THEN 1 ELSE IF a \in linked THEN a + k ELSE NULL]]
    BY <1>4, <1>6, <1>7 DEF FsaInit, pool
  <1> DEFINE word == [a \in 0 .. n * k |->
                         IF a = 0 THEN 1 ELSE IF a \in linked THEN a + k ELSE NULL]
             A == {BlockAt(size, i) : i \in 0 .. n - 1}
  <1>9. m.v = "fsa" /\ m.size = size /\ m.blocks = n /\ m.word = word /\ DOMAIN m = FsaFieldNames
    BY <1>8 DEF FsaFieldNames
  <1>10. FsaTyped(m) /\ BlockAddresses(m) = A /\ BlockWords(m.size) = k
    BY <1>4, <1>9 DEF FsaTyped, BlockAddresses
  <1>11. word \in [0 .. n * k -> Nat]  BY <1>1, <1>5 DEF NULL
  <1>12. \A i \in 0 .. n - 1 : \A j \in 0 .. n - 1 : i < j => i * k + k <= j * k
    <2> SUFFICES ASSUME NEW i \in 0 .. n - 1, NEW j \in 0 .. n - 1, i < j PROVE i * k + k <= j * k
      OBVIOUS
    <2>1. i \in Nat /\ j \in Nat  OBVIOUS
    <2> QED BY <2>1, <1>1, Multiples
  <1> DEFINE free == [i \in 1..n |-> BlockAt(size, i - 1)]
  <1>13. free \in Seq(A) /\ Len(free) = n /\ DOMAIN free = 1..n
    <2>1. \A i \in 1..n : i - 1 \in 0 .. n - 1  OBVIOUS
    <2>2. free \in [1..n -> A]  BY <2>1
    <2> HIDE DEF free, A
    <2> QED BY <2>2
  <1>14. \A i \in 1..n : free[i] = 1 + (i - 1) * k /\ (i - 1) * k \in Nat
    <2>1. \A i \in 1..n : i - 1 \in 0 .. n - 1  OBVIOUS
    <2> QED BY <2>1, <1>2
  <1>15. word[0] = free[1] /\ free # <<>>
    <2>1. 1 \in 1..n /\ (1 - 1) * k = 0  BY <1>1
    <2>2. free[1] = 1  BY <2>1, <1>14
    <2>3. word[0] = 1  BY <1>5
    <2> QED BY <2>2, <2>3, <1>13
  <1>16. ASSUME NEW i \in 1..n PROVE word[free[i]] = IF i = n THEN NULL ELSE free[i + 1]
    <2>1. free[i] = 1 + (i - 1) * k /\ (i - 1) * k \in Nat  BY <1>14
    <2>2. (i - 1) * k + k <= n * k
      <3>1. i - 1 \in Nat /\ i - 1 < n  OBVIOUS
      <3> QED BY <3>1, <1>1, Multiples
    <2>3. free[i] \in 0 .. n * k /\ free[i] # 0  BY <2>1, <2>2, <1>1, <1>5
    <2>4. word[free[i]] = IF free[i] \in linked THEN free[i] + k ELSE NULL  BY <2>3
    <2>5. CASE i = n
      <3>1. free[i] \notin linked
        <4> SUFFICES ASSUME NEW j \in 0 .. n - 2, free[i] = BlockAt(size, j) PROVE FALSE  OBVIOUS
        <4>1. j \in 0 .. n - 1 /\ i - 1 \in 0 .. n - 1 /\ j < i - 1  BY <2>5
        <4>2. j * k + k <= (i - 1) * k /\ BlockAt(size, j) = 1 + j * k /\ j * k \in Nat
          BY <4>1, <1>2, <1>12
        <4> QED BY <4>2, <2>1, <1>1
      <3> QED BY <3>1, <2>4, <2>5
    <2>6. CASE i # n
      <3>1. i - 1 \in 0 .. n - 2 /\ i + 1 \in 1..n  BY <2>6
      <3>2. free[i] \in linked  BY <3>1
      <3>3. (i - 1) * k + k = i * k  BY <1>1
      <3>4. free[i + 1] = 1 + ((i + 1) - 1) * k /\ (i + 1) - 1 = i  BY <3>1, <1>14
      <3>5. free[i] + k = free[i + 1]  BY <2>1, <3>3, <3>4, <1>1
      <3> QED BY <3>2, <3>5, <2>4, <2>6
    <2> QED BY <2>5, <2>6
  <1>17. FsaCountFree(m, free)
    <2> HIDE DEF free, word
    <2> QED BY <1>9, <1>13, <1>15, <1>16 DEF FsaCountFree
  <1>18. Parted(free, <<>>, A)
    <2>1. \A i, j \in 1..n : free[i] = free[j] => i = j
      <3> SUFFICES ASSUME NEW i \in 1..n, NEW j \in 1..n, free[i] = free[j] PROVE i = j  OBVIOUS
      <3>1. i - 1 \in 0 .. n - 1 /\ j - 1 \in 0 .. n - 1  OBVIOUS
      <3>2. ~ (i - 1 < j - 1) /\ ~ (j - 1 < i - 1)
        <4>1. (i - 1) * k = (j - 1) * k /\ (i - 1) * k \in Nat  BY <1>14
        <4> QED BY <4>1, <3>1, <1>1, <1>12
      <3> QED BY <3>1, <3>2
    <2>2. \A a \in A : \E i \in 1..n : free[i] = a
      <3> SUFFICES ASSUME NEW j \in 0 .. n - 1 PROVE \E i \in 1..n : free[i] = BlockAt(size, j)  OBVIOUS
      <3>1. j + 1 \in 1..n /\ (j + 1) - 1 = j  OBVIOUS
      <3>2. free[j + 1] = BlockAt(size, j)  BY <3>1
      <3> QED BY <3>1, <3>2
    <2> HIDE DEF free, A
    <2>3. <<>> \in Seq(A) /\ Len(<<>>) = 0  OBVIOUS
    <2> QED BY <2>1, <2>2, <2>3, <1>13 DEF Parted
  <1> HIDE DEF free, A, word
  <1>19. Len(free) + Len(<<>>) = n  BY <1>13
  <1>20. \E f \in Seq(BlockAddresses(m)) :
          /\ FsaCountFree(m, f) /\ Parted(f, <<>>, BlockAddresses(m))
          /\ Len(f) + Len(<<>>) = m.blocks
    BY <1>9, <1>10, <1>13, <1>17, <1>18, <1>19
  <1> QED BY <1>9, <1>10, <1>11, <1>20 DEF FsaReady

\* The same pool with other words.
LEMMA OtherWords ==
    ASSUME NEW m, FsaTyped(m), NEW n, NEW word,
           m.word \in [0 .. m.blocks * BlockWords(m.size) -> Nat],
           word \in [0 .. m.blocks * BlockWords(m.size) -> Nat], n = [m EXCEPT !.word = word]
    PROVE  /\ FsaTyped(n) /\ n.word = word /\ n.blocks = m.blocks /\ n.size = m.size
           /\ BlockAddresses(n) = BlockAddresses(m)
           /\ n.word \in [0 .. n.blocks * BlockWords(n.size) -> Nat]
  <1>1. /\ DOMAIN n = DOMAIN m /\ n.v = m.v /\ n.word = word /\ n.blocks = m.blocks /\ n.size = m.size
    BY DEF FsaTyped, FsaFieldNames
  <1>2. BlockAddresses(n) = BlockAddresses(m)  BY <1>1 DEF BlockAddresses
  <1> QED BY <1>1, <1>2 DEF FsaTyped

LEMMA FsaAllocates ==
    ASSUME NEW m, NEW l, FsaReady(m, l), m.blocks > 0, NEW n, n = FsaAlloc(m)
    PROVE  n.blocks = m.blocks /\ FsaReady(n, IF m.word[0] = NULL THEN l ELSE Append(l, m.word[0]))
  <1> DEFINE A == BlockAddresses(m)
  <1>1. FsaTyped(m) /\ m.word \in [0 .. m.blocks * BlockWords(m.size) -> Nat]  BY DEF FsaReady
  <1>2. PICK free \in Seq(A) : /\ FsaCountFree(m, free) /\ Parted(free, l, A)
                               /\ Len(free) + Len(l) = m.blocks
    BY DEF FsaReady
  <1>3. /\ m.blocks * BlockWords(m.size) \in Nat
        /\ \A a \in A : a \in Nat \ {0} /\ a \in 0 .. m.blocks * BlockWords(m.size)
    BY <1>1, AddressesAre
  <1> HIDE DEF A
  <1>4. CASE m.word[0] = NULL
    <2>1. n = m  BY <1>4 DEF FsaAlloc
    <2> QED BY <2>1, <1>4
  <1>5. CASE m.word[0] # NULL
    <2>1. free # <<>> /\ m.word[0] = free[1]  BY <1>2, <1>5 DEF FsaCountFree
    <2>0. \A j \in 1..Len(free) :
             m.word[free[j]] = IF j = Len(free) THEN NULL ELSE free[j + 1]
      <3>1. DOMAIN free = 1..Len(free)  BY <1>2
      <3> QED BY <1>2, <3>1 DEF FsaCountFree
    <2>2. 1 \in DOMAIN free /\ free[1] \in A /\ Len(free) \in Nat \ {0} /\ DOMAIN free = 1..Len(free)
      BY <2>1
    <2> DEFINE word == [m.word EXCEPT ![0] = m.word[m.word[0]]]
               g == Tail(free)
    <2>3. m.word[m.word[0]] = IF Len(free) = 1 THEN NULL ELSE free[2]
      BY <1>2, <2>1, <2>2 DEF FsaCountFree
    <2>4. m.word[m.word[0]] \in Nat  BY <1>1, <1>3, <2>1, <2>2
    <2>5. word \in [0 .. m.blocks * BlockWords(m.size) -> Nat]  BY <1>1, <2>4
    <2>6. n = [m EXCEPT !.word = word]  BY <1>1, <1>5 DEF FsaAlloc, FsaTyped, FsaFieldNames
    <2>7. /\ \A a \in A : word[a] = m.word[a]
          /\ word[0] = m.word[m.word[0]]
      BY <1>1, <1>3
    <2> HIDE DEF word
    <2>8. /\ FsaTyped(n) /\ n.word = word /\ n.blocks = m.blocks
          /\ BlockAddresses(n) = A
          /\ n.word \in [0 .. n.blocks * BlockWords(n.size) -> Nat]
      BY <1>1, <2>5, <2>6, OtherWords DEF A
    <2>9. /\ g \in Seq(A) /\ Len(g) = Len(free) - 1 /\ DOMAIN g = 1..Len(g)
          /\ \A i \in 1..Len(g) : g[i] = free[i + 1] /\ g[i] \in A
      BY <1>2, <2>2
    <2> HIDE DEF g
    <2>10. FsaCountFree(n, g)
      <3>1. n.word[0] = IF g = <<>> THEN NULL ELSE g[1]
        <4>1. CASE Len(free) = 1  BY <4>1, <2>3, <2>7, <2>8, <2>9
        <4>2. CASE Len(free) # 1
          <5>1. 1 \in 1..Len(g)  BY <4>2, <2>2, <2>9
          <5>2. g[1] = free[2] /\ g # <<>>  BY <5>1, <2>9
          <5> QED BY <4>2, <5>2, <2>3, <2>7, <2>8
        <4> QED BY <4>1, <4>2
      <3>2. ASSUME NEW i \in 1..Len(g)
            PROVE  n.word[g[i]] = IF i = Len(g) THEN NULL ELSE g[i + 1]
        <4>1. g[i] = free[i + 1] /\ g[i] \in A /\ i + 1 \in 1..Len(free)  BY <2>2, <2>9
        <4>2. n.word[g[i]] = m.word[free[i + 1]]  BY <4>1, <2>7, <2>8
        <4>3. m.word[free[i + 1]] = IF i + 1 = Len(free) THEN NULL ELSE free[(i + 1) + 1]
          BY <2>0, <4>1
        <4>4. CASE i = Len(g)  BY <4>2, <4>3, <4>4, <2>2, <2>9
        <4>5. CASE i # Len(g)
          <5>1. i + 1 \in 1..Len(g)  BY <4>5, <2>9
          <5>2. g[i + 1] = free[(i + 1) + 1]  BY <5>1, <2>9
          <5>3. i + 1 # Len(free)
            <6>1. Len(g) = Len(free) - 1  BY <2>9
            <6>2. Len(free) \in Nat /\ i \in Nat  BY <2>2, <6>1
            <6>3. i # Len(free) - 1  BY <4>5, <6>1
            <6> QED BY <6>2, <6>3
          <5> QED BY <4>2, <4>3, <4>5, <5>2, <5>3
        <4> QED BY <4>4, <4>5
      <3> QED BY <2>9, <3>1, <3>2 DEF FsaCountFree
    <2>11. Parted(g, Append(l, free[1]), A)  BY <1>2, <2>1, HeadGiven DEF g
    <2>12. Len(g) + Len(Append(l, free[1])) = m.blocks
      <3>1. l \in Seq(A)  BY <1>2 DEF Parted
      <3>2. Len(Append(l, free[1])) = Len(l) + 1 /\ Len(l) \in Nat  BY <3>1
      <3> QED BY <3>2, <1>2, <2>2, <2>9
    <2>13. FsaReady(n, Append(l, free[1]))
      BY <2>8, <2>9, <2>10, <2>11, <2>12 DEF FsaReady
    <2> QED BY <1>5, <2>1, <2>8, <2>13
  <1> QED BY <1>4, <1>5

LEMMA FsaFrees ==
    ASSUME NEW m, NEW l, FsaReady(m, l), m.blocks > 0, NEW i \in DOMAIN l, NEW n, n = FsaFree(m, l[i])
    PROVE  n.blocks = m.blocks /\ FsaReady(n, RemoveAt(l, i))
  <1> DEFINE A == BlockAddresses(m)
             b == l[i]
  <1>1. FsaTyped(m) /\ m.word \in [0 .. m.blocks * BlockWords(m.size) -> Nat]  BY DEF FsaReady
  <1>2. PICK free \in Seq(A) : /\ FsaCountFree(m, free) /\ Parted(free, l, A)
                               /\ Len(free) + Len(l) = m.blocks
    BY DEF FsaReady
  <1>3. /\ m.blocks * BlockWords(m.size) \in Nat
        /\ \A a \in A : a \in Nat \ {0} /\ a \in 0 .. m.blocks * BlockWords(m.size)
    BY <1>1, AddressesAre
  <1>4. l \in Seq(A) /\ i \in 1..Len(l) /\ b \in A /\ \A j \in 1..Len(free) : free[j] # b
    BY <1>2 DEF Parted
  <1> HIDE DEF A, b
  <1> DEFINE word == [[m.word EXCEPT ![b] = m.word[0]] EXCEPT ![0] = b]
             g == <<b>> \o free
  <1>5. m.word[0] \in Nat /\ b \in Nat \ {0} /\ b \in 0 .. m.blocks * BlockWords(m.size)
    <2>1. 0 \in 0 .. m.blocks * BlockWords(m.size)  BY <1>3
    <2>2. m.word[0] \in Nat  BY <1>1, <2>1
    <2> QED BY <1>3, <1>4, <2>2
  <1>6. word \in [0 .. m.blocks * BlockWords(m.size) -> Nat]  BY <1>1, <1>5
  <1>7. n = [m EXCEPT !.word = word]
    BY <1>1 DEF FsaFree, FsaTyped, FsaFieldNames, b
  <1>8. /\ \A a \in A : a # b => word[a] = m.word[a]
        /\ word[0] = b /\ word[b] = m.word[0]
    BY <1>1, <1>3, <1>5
  <1> HIDE DEF word
  <1>9. /\ FsaTyped(n) /\ n.word = word /\ n.blocks = m.blocks
        /\ BlockAddresses(n) = A
        /\ n.word \in [0 .. n.blocks * BlockWords(n.size) -> Nat]
    BY <1>1, <1>6, <1>7, OtherWords DEF A
  <1>10. /\ g \in Seq(A) /\ Len(g) = Len(free) + 1 /\ DOMAIN g = 1..Len(g) /\ g # <<>> /\ g[1] = b
         /\ Len(free) \in Nat
         /\ \A j \in 1..Len(free) : g[j + 1] = free[j] /\ free[j] \in A
    BY <1>2, <1>4
  <1>15. g = <<l[i]>> \o free  BY DEF b
  <1> HIDE DEF g
  <1>11. FsaCountFree(n, g)
    <2>1. n.word[0] = g[1]  BY <1>8, <1>9, <1>10
    <2>2. ASSUME NEW j \in 1..Len(g)
          PROVE  n.word[g[j]] = IF j = Len(g) THEN NULL ELSE g[j + 1]
      <3>1. CASE j = 1
        <4>1. n.word[g[j]] = m.word[0]  BY <3>1, <1>8, <1>9, <1>10
        <4>2. CASE free = <<>>
          <5>1. Len(free) = 0  BY <4>2
          <5> QED BY <3>1, <4>1, <4>2, <5>1, <1>2, <1>10 DEF FsaCountFree
        <4>3. CASE free # <<>>
          <5>1. 1 \in 1..Len(free)  BY <4>3, <1>2
          <5>2. g[2] = free[1] /\ Len(g) # 1
            <6>1. 1 + 1 = 2  OBVIOUS
            <6> QED BY <5>1, <6>1, <1>10
          <5> QED BY <3>1, <4>1, <4>3, <5>2, <1>2 DEF FsaCountFree
        <4> QED BY <4>2, <4>3
      <3>2. CASE j # 1
        <4>1. j - 1 \in 1..Len(free) /\ (j - 1) + 1 = j  BY <3>2, <1>10
        <4>2. g[j] = free[j - 1] /\ g[j] \in A /\ g[j] # b  BY <4>1, <1>4, <1>10
        <4>3. n.word[g[j]] = m.word[free[j - 1]]  BY <4>2, <1>8, <1>9
        <4>4. m.word[free[j - 1]] = IF j - 1 = Len(free) THEN NULL ELSE free[j]
          <5>1. DOMAIN free = 1..Len(free)  BY <1>2
          <5> QED BY <1>2, <4>1, <5>1 DEF FsaCountFree
        <4>5. CASE j = Len(g)  BY <4>3, <4>4, <4>5, <1>10
        <4>6. CASE j # Len(g)
          <5>1. j \in 1..Len(free)  BY <4>6, <1>10
          <5>2. g[j + 1] = free[j]  BY <5>1, <1>10
          <5> QED BY <5>2, <4>3, <4>4, <4>6, <1>10
        <4> QED BY <4>5, <4>6
      <3> QED BY <3>1, <3>2
    <2> QED BY <1>10, <2>1, <2>2 DEF FsaCountFree
  <1>12. Parted(g, RemoveAt(l, i), A)  BY <1>2, <1>4, <1>15, GivenBack
  <1>13. Len(g) + Len(RemoveAt(l, i)) = m.blocks
    <2>1. Len(RemoveAt(l, i)) = Len(l) - 1 /\ Len(l) \in Nat  BY <1>4, RemovedAt
    <2> QED BY <2>1, <1>2, <1>10
  <1>14. FsaReady(n, RemoveAt(l, i))  BY <1>9, <1>10, <1>11, <1>12, <1>13 DEF FsaReady
  <1> QED BY <1>9, <1>14

WordWritten(m, a, d) == [m EXCEPT !.word[a] = d]

LEMMA FsaWritten ==
    ASSUME NEW m, NEW l, FsaReady(m, l), m.blocks > 0, NEW i \in DOMAIN l,
           NEW w \in 0 .. BlockWords(m.size) - 1, NEW d \in Nat,
           NEW n, n = WordWritten(m, l[i] + w, d)
    PROVE  n.blocks = m.blocks /\ FsaReady(n, l)
  <1> DEFINE A == BlockAddresses(m)
             c == l[i] + w
             k == BlockWords(m.size)
  <1>1. FsaTyped(m) /\ m.word \in [0 .. m.blocks * BlockWords(m.size) -> Nat]  BY DEF FsaReady
  <1>2. PICK free \in Seq(A) : /\ FsaCountFree(m, free) /\ Parted(free, l, A)
                               /\ Len(free) + Len(l) = m.blocks
    BY DEF FsaReady
  <1>3. /\ m.blocks * BlockWords(m.size) \in Nat /\ k \in Nat \ {0}
        /\ \A a \in A : a \in Nat \ {0} /\ a + k <= m.blocks * BlockWords(m.size) + 1
        /\ \A a, b \in A : a < b => a + k <= b
    BY <1>1, AddressesAre
  <1> HIDE DEF A
  <1>4. l[i] \in A /\ \A j \in 1..Len(free) : free[j] # l[i] /\ free[j] \in A
    <2>1. l \in Seq(A) /\ i \in 1..Len(l)  BY <1>2 DEF Parted
    <2> QED BY <1>2, <2>1 DEF Parted
  <1>5. w \in Nat /\ w < k  BY <1>3
  <1> HIDE DEF A, k
  <1>6. c \in Nat \ {0} /\ c \in 0 .. m.blocks * BlockWords(m.size) /\ \A j \in 1..Len(free) : free[j] # c
    <2>1. c \in Nat \ {0} /\ c \in 0 .. m.blocks * BlockWords(m.size)  BY <1>3, <1>4, <1>5
    <2>2. ASSUME NEW j \in 1..Len(free) PROVE free[j] # c
      <3>1. free[j] \in Nat /\ l[i] \in Nat /\ free[j] # l[i] /\ free[j] \in A  BY <1>3, <1>4
      <3>2. CASE free[j] < l[i]  BY <3>1, <3>2, <1>5
      <3>3. CASE l[i] < free[j]
        <4>1. l[i] + k <= free[j]  BY <3>1, <3>3, <1>3, <1>4
        <4> QED BY <3>1, <4>1, <1>3, <1>5
      <3> QED BY <3>1, <3>2, <3>3
    <2> QED BY <2>1, <2>2
  <1> HIDE DEF c
  <1> DEFINE word == [m.word EXCEPT ![c] = d]
  <1>7. word \in [0 .. m.blocks * BlockWords(m.size) -> Nat]  BY <1>1
  <1>8. n = [m EXCEPT !.word = word]  BY <1>1 DEF FsaTyped, FsaFieldNames, c, WordWritten
  <1>9. word[0] = m.word[0] /\ \A j \in 1..Len(free) : word[free[j]] = m.word[free[j]]
    BY <1>1, <1>6
  <1> HIDE DEF word
  <1>10. /\ FsaTyped(n) /\ n.word = word /\ n.blocks = m.blocks
         /\ BlockAddresses(n) = A
         /\ n.word \in [0 .. n.blocks * BlockWords(n.size) -> Nat]
    BY <1>1, <1>7, <1>8, OtherWords DEF A
  <1>11. FsaCountFree(n, free)
    <2>1. DOMAIN free = 1..Len(free)  BY <1>2
    <2> QED BY <2>1, <1>2, <1>9, <1>10 DEF FsaCountFree
  <1>12. Parted(free, l, A) /\ Len(free) + Len(l) = m.blocks  BY <1>2
  <1>13. FsaReady(n, l)  BY <1>2, <1>10, <1>11, <1>12 DEF FsaReady
  <1> QED BY <1>10, <1>13

LEMMA FsaInvNext ==
    ASSUME store.v = "fsa", FsaInv(store, log), FsaNext
    PROVE  store'.v = "fsa" /\ FsaInv(store', log')
  <1>1. \/ /\ store.blocks = 0
           /\ \E n \in 1..Cells, size \in FsaBlockSizes : store' = FsaInit(FsaSuggestSize(n, size), size)
           /\ log' = log
        \/ /\ store.blocks > 0 /\ store' = FsaAlloc(store)
           /\ log' = IF store.word[0] = NULL THEN log ELSE Append(log, store.word[0])
        \/ /\ store.blocks > 0
           /\ \E i \in DOMAIN log : store' = FsaFree(store, log[i]) /\ log' = RemoveAt(log, i)
        \/ /\ store.blocks > 0
           /\ \E i \in DOMAIN log, w \in 0 .. BlockWords(store.size) - 1, d \in {NULL, 1} :
                 store' = [store EXCEPT !.word[log[i] + w] = d]
           /\ log' = log
    BY DEF FsaNext
  <1>2. CASE /\ store.blocks = 0
             /\ \E n \in 1..Cells, size \in FsaBlockSizes : store' = FsaInit(FsaSuggestSize(n, size), size)
             /\ log' = log
    <2>1. PICK n \in 1..Cells, size \in FsaBlockSizes : store' = FsaInit(FsaSuggestSize(n, size), size)
      BY <1>2
    <2>2. n \in Nat \ {0} /\ size \in Nat  OBVIOUS
    <2>3. store'.blocks = n /\ FsaReady(store', <<>>)  BY <2>1, <2>2, FsaMakes
    <2>4. log' = <<>>  BY <1>2 DEF FsaInv
    <2> QED BY <2>2, <2>3, <2>4 DEF FsaInv, FsaReady, FsaTyped
  <1>3. CASE store.blocks > 0
    <2>0. FsaReady(store, log) /\ store.blocks \in Nat  BY <1>3 DEF FsaInv, FsaReady, FsaTyped
    <2>1. CASE /\ store' = FsaAlloc(store)
               /\ log' = IF store.word[0] = NULL THEN log ELSE Append(log, store.word[0])
      <3>1. store'.blocks = store.blocks /\ FsaReady(store', log')
        BY <2>0, <2>1, <1>3, FsaAllocates
      <3> QED BY <3>1, <2>0, <1>3 DEF FsaInv, FsaReady, FsaTyped
    <2>2. CASE \E i \in DOMAIN log : store' = FsaFree(store, log[i]) /\ log' = RemoveAt(log, i)
      <3>0. PICK i \in DOMAIN log : store' = FsaFree(store, log[i]) /\ log' = RemoveAt(log, i)  BY <2>2
      <3>1. store'.blocks = store.blocks /\ FsaReady(store', log')
        BY <2>0, <3>0, <1>3, FsaFrees
      <3> QED BY <3>1, <2>0, <1>3 DEF FsaInv, FsaReady, FsaTyped
    <2>3. CASE /\ \E i \in DOMAIN log, w \in 0 .. BlockWords(store.size) - 1, d \in {NULL, 1} :
                     store' = [store EXCEPT !.word[log[i] + w] = d]
               /\ log' = log
      <3>0. PICK i \in DOMAIN log, w \in 0 .. BlockWords(store.size) - 1, d \in {NULL, 1} :
                     store' = [store EXCEPT !.word[log[i] + w] = d]
        BY <2>3
      <3>2. d \in Nat  BY DEF NULL
      <3>3. store' = WordWritten(store, log[i] + w, d)  BY <3>0 DEF WordWritten
      <3>1. store'.blocks = store.blocks /\ FsaReady(store', log)
        BY <2>0, <3>2, <3>3, <1>3, FsaWritten
      <3> QED BY <3>1, <2>0, <2>3, <1>3 DEF FsaInv, FsaReady, FsaTyped
    <2> QED BY <1>1, <1>3, <2>1, <2>2, <2>3
  <1>4. store.blocks = 0 \/ store.blocks > 0  BY DEF FsaInv, FsaReady, FsaTyped
  <1> QED BY <1>1, <1>2, <1>3, <1>4

-----------------------------------------------------------------------------
\* mymalloc: the rows in use are the first ones.
LkFieldNames == {"v", "memleak", "live", "creation_counter", "free_counter", "overrun", "nulled"}

LkRow(r) == /\ DOMAIN r = {"ptr", "mallocTime", "freeTime"}
            /\ r.ptr \in Nat /\ r.mallocTime \in Nat /\ r.freeTime \in Nat

LkTyped(m) == /\ DOMAIN m = LkFieldNames /\ m.v = "mymalloc"
              /\ DOMAIN m.memleak = 1..LeakRows
              /\ m.memleak = [i \in 1..LeakRows |-> m.memleak[i]]
              /\ \A i \in 1..LeakRows : LkRow(m.memleak[i])
              /\ m.live \subseteq Nat \ {NULL}
              /\ m.creation_counter \in Nat /\ m.free_counter \in Nat
              /\ m.overrun \in BOOLEAN /\ m.nulled \in BOOLEAN

\* The first u rows of the table hold pointers, in the order they were given in.
LkUsed(rows, n, live, u) ==
    /\ u \in 0..LeakRows
    /\ \A i \in 1..LeakRows : rows[i].ptr # NULL <=> i <= u
    /\ \A i \in 1..LeakRows : i > u => rows[i].freeTime = 0
    /\ \A i \in 1..LeakRows : i <= u => rows[i].mallocTime <= n
    /\ \A i, j \in 1..LeakRows : i < j /\ j <= u => rows[i].mallocTime < rows[j].mallocTime
    /\ \A i \in 1..LeakRows : i <= u /\ rows[i].freeTime = 0 => rows[i].ptr \in live
    /\ \A p \in live : \E i \in 1..LeakRows : i <= u /\ rows[i].ptr = p /\ rows[i].freeTime = 0
    /\ \A i, j \in 1..LeakRows :
          /\ i <= u /\ j <= u /\ rows[i].ptr = rows[j].ptr
          /\ rows[i].freeTime = 0 /\ rows[j].freeTime = 0
          => i = j

LkInv(m) == /\ LkTyped(m)
            /\ ~m.overrun /\ ~m.nulled =>
                  \E u \in 0..LeakRows : LkUsed(m.memleak, m.creation_counter, m.live, u)

\* The first unused row is behind those in use.
LEMMA FirstUnused ==
    ASSUME NEW m, LkTyped(m)
    PROVE  LET idx == FindNextFreeIndex(m) IN
           /\ idx = -1 \/ (idx \in 1..LeakRows /\ m.memleak[idx].ptr = NULL)
           /\ idx = -1 => \A i \in 1..LeakRows : m.memleak[i].ptr # NULL
           /\ \A u \in 0..LeakRows :
                 LkUsed(m.memleak, m.creation_counter, m.live, u) =>
                    IF idx = -1 THEN u = LeakRows ELSE u = idx - 1
  <1> USE AllocatorsAssumption
  <1> DEFINE rows == {i \in DOMAIN m.memleak : m.memleak[i].ptr = NULL}
             idx == FindNextFreeIndex(m)
  <1>1. rows = {i \in 1..LeakRows : m.memleak[i].ptr = NULL}  BY DEF LkTyped
  <1>2. rows \in SUBSET Nat  BY <1>1
  <1>3. CASE rows = {}
    <2>1. idx = -1  BY <1>3 DEF FindNextFreeIndex
    <2>2. \A i \in 1..LeakRows : m.memleak[i].ptr # NULL  BY <1>1, <1>3
    <2> HIDE DEF rows, idx
    <2>3. ASSUME NEW u \in 0..LeakRows, LkUsed(m.memleak, m.creation_counter, m.live, u)
          PROVE  u = LeakRows
      <3>1. CASE LeakRows = 0  BY <3>1
      <3>2. CASE LeakRows # 0
        <4>1. LeakRows \in 1..LeakRows  BY <3>2
        <4> QED BY <4>1, <2>2, <2>3 DEF LkUsed
      <3> QED BY <3>1, <3>2
    <2> QED BY <2>1, <2>2, <2>3 DEF idx
  <1>4. CASE rows # {}
    <2>1. idx = Min(rows)  BY <1>4 DEF FindNextFreeIndex
    <2>2. Min(rows) \in rows /\ \A i \in rows : Min(rows) <= i
      BY <1>2, <1>4, LeastElement DEF Min
    <2> HIDE DEF rows, idx
    <2>3. idx \in 1..LeakRows /\ m.memleak[idx].ptr = NULL  BY <1>1, <2>1, <2>2
    <2>4. \A i \in 1..LeakRows : m.memleak[i].ptr = NULL => idx <= i  BY <1>1, <2>1, <2>2
    <2>5. ASSUME NEW u \in 0..LeakRows, LkUsed(m.memleak, m.creation_counter, m.live, u)
          PROVE  u = idx - 1
      <3>1. ~ (idx <= u)  BY <2>3, <2>5 DEF LkUsed
      <3>2. CASE u = LeakRows  BY <3>1, <3>2, <2>3
      <3>3. CASE u # LeakRows
        <4>1. u + 1 \in 1..LeakRows /\ ~ (u + 1 <= u)  BY <3>3
        <4>2. m.memleak[u + 1].ptr = NULL  BY <4>1, <2>5 DEF LkUsed
        <4> QED BY <4>1, <4>2, <2>3, <2>4, <3>1
      <3> QED BY <3>2, <3>3
    <2> QED BY <2>3, <2>5 DEF idx
  <1> QED BY <1>3, <1>4

\* The row of a block that was given and not freed.
LEMMA RowOfPtr ==
    ASSUME NEW m, LkTyped(m), NEW ptr
    PROVE  LET idx == FindPtrInMemoryLeakArr(m, ptr) IN
           /\ idx = -1 \/ (/\ idx \in 1..LeakRows
                           /\ m.memleak[idx].ptr = ptr /\ m.memleak[idx].freeTime = 0)
           /\ idx = -1 => \A i \in 1..LeakRows : m.memleak[i].ptr # ptr \/ m.memleak[i].freeTime # 0
  <1> USE AllocatorsAssumption
  <1> DEFINE rows == {i \in DOMAIN m.memleak : m.memleak[i].ptr = ptr /\ m.memleak[i].freeTime = 0}
             idx == FindPtrInMemoryLeakArr(m, ptr)
  <1>1. rows = {i \in 1..LeakRows : m.memleak[i].ptr = ptr /\ m.memleak[i].freeTime = 0}
    BY DEF LkTyped
  <1>2. rows \in SUBSET Nat  BY <1>1
  <1>3. CASE rows = {}
    <2>1. idx = -1  BY <1>3 DEF FindPtrInMemoryLeakArr
    <2> HIDE DEF rows
    <2> QED BY <2>1, <1>1, <1>3
  <1>4. CASE rows # {}
    <2>1. idx = Min(rows)  BY <1>4 DEF FindPtrInMemoryLeakArr
    <2>2. Min(rows) \in rows  BY <1>2, <1>4, LeastElement DEF Min
    <2> HIDE DEF rows, idx
    <2>3. /\ idx \in 1..LeakRows /\ m.memleak[idx].ptr = ptr /\ m.memleak[idx].freeTime = 0
      BY <1>1, <2>1, <2>2
    <2> QED BY <2>3 DEF idx
  <1> QED BY <1>3, <1>4

\* Row k of the table becomes r.
LEMMA RowSet ==
    ASSUME NEW a, NEW k \in 1..LeakRows, NEW r, DOMAIN a = 1..LeakRows,
           a = [i \in 1..LeakRows |-> a[i]], \A i \in 1..LeakRows : LkRow(a[i]), LkRow(r),
           NEW b, b = [a EXCEPT ![k] = r]
    PROVE  /\ DOMAIN b = 1..LeakRows /\ b = [i \in 1..LeakRows |-> b[i]] /\ b[k] = r
           /\ \A i \in 1..LeakRows : LkRow(b[i]) /\ (i # k => b[i] = a[i])
  <1>1. b = [i \in 1..LeakRows |-> IF i = k THEN r ELSE a[i]]  OBVIOUS
  <1>2. DOMAIN b = 1..LeakRows /\ \A i \in 1..LeakRows : b[i] = IF i = k THEN r ELSE a[i]
    BY <1>1
  <1>3. b = [i \in 1..LeakRows |-> b[i]]  BY <1>1
  <1> QED BY <1>2, <1>3

LEMMA LkInvInit == LkInv(LeakStart)
  <1> USE AllocatorsAssumption
  <1>1. LkRow(LeakRow) /\ LeakRow.ptr = NULL /\ LeakRow.freeTime = 0  BY DEF LkRow, LeakRow, NULL
  <1> DEFINE a == [i \in 1..LeakRows |-> LeakRow]
  <1>2. /\ LeakStart.memleak = a /\ DOMAIN LeakStart = LkFieldNames /\ LeakStart.v = "mymalloc"
        /\ LeakStart.live = {} /\ LeakStart.creation_counter = 0 /\ LeakStart.free_counter = 0
        /\ LeakStart.overrun = FALSE /\ LeakStart.nulled = FALSE
    BY DEF LeakStart, LkFieldNames
  <1>3. DOMAIN a = 1..LeakRows /\ a = [i \in 1..LeakRows |-> a[i]] /\ \A i \in 1..LeakRows : a[i] = LeakRow
    OBVIOUS
  <1> HIDE DEF a
  <1>4. LkTyped(LeakStart)
    <2>1. /\ DOMAIN a = 1..LeakRows /\ a = [i \in 1..LeakRows |-> a[i]]
          /\ \A i \in 1..LeakRows : LkRow(a[i])
      BY <1>1, <1>3
    <2>2. /\ LeakStart.live \subseteq Nat \ {NULL}
          /\ LeakStart.creation_counter \in Nat /\ LeakStart.free_counter \in Nat
          /\ LeakStart.overrun \in BOOLEAN /\ LeakStart.nulled \in BOOLEAN
      <3>1. LeakStart.live \subseteq Nat \ {NULL}  BY <1>2
      <3>2. LeakStart.creation_counter \in Nat /\ LeakStart.free_counter \in Nat  BY <1>2
      <3>3. LeakStart.overrun = FALSE /\ LeakStart.nulled = FALSE  BY <1>2
      <3> QED BY <3>1, <3>2, <3>3
    <2>3. /\ DOMAIN LeakStart.memleak = 1..LeakRows
          /\ LeakStart.memleak = [i \in 1..LeakRows |-> LeakStart.memleak[i]]
          /\ \A i \in 1..LeakRows : LkRow(LeakStart.memleak[i])
      <3>1. LeakStart.memleak = a  BY <1>2
      <3> QED BY <3>1, <2>1
    <2> QED BY <1>2, <2>2, <2>3 DEF LkTyped
  <1>5. LkUsed(a, 0, {}, 0)  BY <1>1, <1>3 DEF LkUsed
  <1> QED BY <1>2, <1>4, <1>5 DEF LkInv

\* What MyMalloc and MyFree make of the fields.
RowGiven(m, n, ptr, idx) ==
    /\ LkTyped(n) /\ n.creation_counter = m.creation_counter + 1 /\ n.nulled = m.nulled
    /\ n.live = m.live \cup ({ptr} \ {NULL})
    /\ idx = -1 => n.overrun = TRUE
    /\ idx # -1 =>
          /\ idx \in 1..LeakRows /\ n.overrun = m.overrun
          /\ n.memleak[idx].ptr = ptr /\ n.memleak[idx].mallocTime = m.creation_counter + 1
          /\ n.memleak[idx].freeTime = m.memleak[idx].freeTime
          /\ \A i \in 1..LeakRows : i # idx => n.memleak[i] = m.memleak[i]

RowFreed(m, n, ptr, idx) ==
    /\ LkTyped(n) /\ n.creation_counter = m.creation_counter
    /\ n.nulled = (m.nulled \/ ptr = NULL) /\ n.overrun = m.overrun
    /\ n.live = m.live \ {ptr}
    /\ idx = -1 => n.memleak = m.memleak
    /\ idx # -1 =>
          /\ idx \in 1..LeakRows /\ n.memleak[idx].ptr = m.memleak[idx].ptr
          /\ n.memleak[idx].mallocTime = m.memleak[idx].mallocTime
          /\ n.memleak[idx].freeTime # 0
          /\ \A i \in 1..LeakRows : i # idx => n.memleak[i] = m.memleak[i]

RowPut(m, i, ptr, k) == [m EXCEPT !.memleak[i].ptr = ptr, !.memleak[i].mallocTime = k]

RowWasPut(m, n, i, ptr, k) ==
    /\ DOMAIN n = DOMAIN m /\ n.v = m.v /\ n.nulled = m.nulled
    /\ n.creation_counter = m.creation_counter /\ n.live = m.live
    /\ n.free_counter = m.free_counter /\ n.overrun = m.overrun
    /\ n.memleak = [m.memleak EXCEPT ![i] = [m.memleak[i] EXCEPT !.ptr = ptr, !.mallocTime = k]]

LEMMA RowPutFields ==
    ASSUME NEW m, DOMAIN m = LkFieldNames, DOMAIN m.memleak = 1..LeakRows,
           NEW i \in 1..LeakRows, LkRow(m.memleak[i]), NEW ptr \in Nat, NEW k \in Nat,
           NEW n, n = RowPut(m, i, ptr, k)
    PROVE  RowWasPut(m, n, i, ptr, k)
  <1>1. /\ DOMAIN n = DOMAIN m /\ n.v = m.v /\ n.nulled = m.nulled
        /\ n.creation_counter = m.creation_counter /\ n.live = m.live
        /\ n.free_counter = m.free_counter /\ n.overrun = m.overrun
    BY DEF RowPut, LkFieldNames
  <1>2. n.memleak = [[m.memleak EXCEPT ![i].ptr = ptr] EXCEPT ![i].mallocTime = k]
    BY DEF RowPut, LkFieldNames
  <1>3. @ = [m.memleak EXCEPT ![i] = [m.memleak[i] EXCEPT !.ptr = ptr, !.mallocTime = k]]
    BY DEF LkRow
  <1> QED BY <1>1, <1>2, <1>3 DEF RowWasPut

LEMMA MyMallocFields ==
    ASSUME NEW m, LkTyped(m), NEW ptr \in Nat, NEW n, n = MyMalloc(m, ptr)
    PROVE  RowGiven(m, n, ptr, FindNextFreeIndex(m))
  <1> DEFINE idx == FindNextFreeIndex(m)
             k == m.creation_counter + 1
  <1>1. idx = -1 \/ idx \in 1..LeakRows  BY FirstUnused
  <1>2. k \in Nat /\ m.live \cup ({ptr} \ {NULL}) \subseteq Nat \ {NULL}  BY DEF LkTyped
  <1>3. CASE idx = -1
    <2>1. n = [[m EXCEPT !.creation_counter = k, !.live = @ \cup ({ptr} \ {NULL})] EXCEPT !.overrun = TRUE]
      BY <1>3 DEF MyMalloc
    <2> HIDE DEF idx, k
    <2>2. /\ DOMAIN n = DOMAIN m /\ n.v = m.v /\ n.memleak = m.memleak /\ n.nulled = m.nulled
          /\ n.creation_counter = k /\ n.live = m.live \cup ({ptr} \ {NULL})
          /\ n.free_counter = m.free_counter /\ n.overrun = TRUE
      BY <2>1 DEF LkTyped, LkFieldNames
    <2>3. LkTyped(n)  BY <1>2, <2>2 DEF LkTyped
    <2> QED BY <1>3, <2>2, <2>3 DEF idx, k, RowGiven
  <1>4. CASE idx # -1
    <2> DEFINE r == [m.memleak[idx] EXCEPT !.ptr = ptr, !.mallocTime = k]
               b == [m.memleak EXCEPT ![idx] = r]
               got == [m EXCEPT !.creation_counter = k, !.live = @ \cup ({ptr} \ {NULL})]
    <2>1. n = RowPut(got, idx, ptr, k)
      BY <1>4 DEF MyMalloc, RowPut
    <2>2. idx \in 1..LeakRows  BY <1>1, <1>4
    <2> HIDE DEF idx, k
    <2>10. /\ DOMAIN got = LkFieldNames /\ got.v = m.v /\ got.nulled = m.nulled
           /\ got.creation_counter = k /\ got.live = m.live \cup ({ptr} \ {NULL})
           /\ got.free_counter = m.free_counter /\ got.overrun = m.overrun
           /\ got.memleak = m.memleak
      BY DEF LkTyped, LkFieldNames
    <2> HIDE DEF got
    <2>11. DOMAIN got.memleak = 1..LeakRows /\ LkRow(got.memleak[idx])
      BY <2>2, <2>10 DEF LkTyped
    <2>12. RowWasPut(got, n, idx, ptr, k)
      BY <1>2, <2>1, <2>2, <2>10, <2>11, RowPutFields
    <2>3. /\ DOMAIN n = DOMAIN m /\ n.v = m.v /\ n.nulled = m.nulled
          /\ n.creation_counter = k /\ n.live = m.live \cup ({ptr} \ {NULL})
          /\ n.free_counter = m.free_counter /\ n.overrun = m.overrun
      BY <2>10, <2>12 DEF LkTyped, RowWasPut
    <2>4. n.memleak = b  BY <2>10, <2>12 DEF RowWasPut
    <2>5. LkRow(m.memleak[idx])  BY <2>2 DEF LkTyped
    <2>6. /\ DOMAIN r = DOMAIN m.memleak[idx] /\ r.ptr = ptr /\ r.mallocTime = k
          /\ r.freeTime = m.memleak[idx].freeTime
      BY <2>5 DEF LkRow
    <2>7. LkRow(r)  BY <1>2, <2>5, <2>6 DEF LkRow
    <2> HIDE DEF r
    <2>8. /\ DOMAIN b = 1..LeakRows /\ b = [i \in 1..LeakRows |-> b[i]] /\ b[idx] = r
          /\ \A i \in 1..LeakRows : LkRow(b[i]) /\ (i # idx => b[i] = m.memleak[i])
      BY <2>2, <2>7, RowSet DEF LkTyped
    <2> HIDE DEF b
    <2>9. LkTyped(n)  BY <1>2, <2>3, <2>4, <2>8 DEF LkTyped
    <2> QED BY <1>4, <2>2, <2>3, <2>4, <2>6, <2>8, <2>9 DEF idx, k, RowGiven
  <1> QED BY <1>3, <1>4

LEMMA MyFreeFields ==
    ASSUME NEW m, LkTyped(m), NEW ptr \in Nat, NEW n, n = MyFree(m, ptr)
    PROVE  RowFreed(m, n, ptr, FindPtrInMemoryLeakArr(m, ptr))
  <1> DEFINE idx == FindPtrInMemoryLeakArr(m, ptr)
             k == m.free_counter + 1
  <1>1. idx = -1 \/ idx \in 1..LeakRows  BY RowOfPtr
  <1>2. k \in Nat /\ k # 0 /\ m.live \ {ptr} \subseteq Nat \ {NULL} /\ (m.nulled \/ ptr = NULL) \in BOOLEAN
    BY DEF LkTyped
  <1>3. CASE idx = -1
    <2>1. n = [m EXCEPT !.live = @ \ {ptr}, !.nulled = @ \/ ptr = NULL]
      BY <1>3 DEF MyFree
    <2> HIDE DEF idx, k
    <2>2. /\ DOMAIN n = DOMAIN m /\ n.v = m.v /\ n.memleak = m.memleak
          /\ n.creation_counter = m.creation_counter /\ n.live = m.live \ {ptr}
          /\ n.free_counter = m.free_counter /\ n.overrun = m.overrun
      BY <2>1 DEF LkTyped, LkFieldNames
    <2>4. n.nulled = (m.nulled \/ ptr = NULL)  BY <2>1 DEF LkTyped, LkFieldNames
    <2>3. LkTyped(n)  BY <1>2, <2>2, <2>4 DEF LkTyped
    <2> QED BY <1>3, <2>2, <2>3, <2>4 DEF idx, RowFreed
  <1>4. CASE idx # -1
    <2> DEFINE r == [m.memleak[idx] EXCEPT !.freeTime = k]
               b == [m.memleak EXCEPT ![idx] = r]
    <2>1. n = [[m EXCEPT !.live = @ \ {ptr}, !.nulled = @ \/ ptr = NULL]
                 EXCEPT !.free_counter = k, !.memleak[idx].freeTime = k]
      BY <1>4 DEF MyFree
    <2>2. idx \in 1..LeakRows  BY <1>1, <1>4
    <2> HIDE DEF idx, k
    <2>3. /\ DOMAIN n = DOMAIN m /\ n.v = m.v
          /\ n.creation_counter = m.creation_counter /\ n.live = m.live \ {ptr}
          /\ n.free_counter = k /\ n.overrun = m.overrun
      BY <2>1 DEF LkTyped, LkFieldNames
    <2>10. n.nulled = (m.nulled \/ ptr = NULL)  BY <2>1 DEF LkTyped, LkFieldNames
    <2>4. n.memleak = b
      <3>1. DOMAIN m.memleak = 1..LeakRows  BY DEF LkTyped
      <3> QED BY <2>1, <2>2, <3>1 DEF LkTyped, LkFieldNames
    <2>5. LkRow(m.memleak[idx])  BY <2>2 DEF LkTyped
    <2>6. /\ DOMAIN r = DOMAIN m.memleak[idx] /\ r.ptr = m.memleak[idx].ptr
          /\ r.mallocTime = m.memleak[idx].mallocTime /\ r.freeTime = k
      BY <2>5 DEF LkRow
    <2>7. LkRow(r)  BY <1>2, <2>5, <2>6 DEF LkRow
    <2> HIDE DEF r
    <2>8. /\ DOMAIN b = 1..LeakRows /\ b = [i \in 1..LeakRows |-> b[i]] /\ b[idx] = r
          /\ \A i \in 1..LeakRows : LkRow(b[i]) /\ (i # idx => b[i] = m.memleak[i])
      BY <2>2, <2>7, RowSet DEF LkTyped
    <2> HIDE DEF b
    <2>9. LkTyped(n)  BY <1>2, <2>3, <2>4, <2>8, <2>10 DEF LkTyped
    <2> QED BY <1>2, <1>4, <2>2, <2>3, <2>4, <2>6, <2>8, <2>9, <2>10 DEF idx, RowFreed
  <1> QED BY <1>3, <1>4

LEMMA LkMallocKeeps ==
    ASSUME NEW m, LkInv(m), NEW ptr \in Nat, ptr \notin m.live, NEW n, n = MyMalloc(m, ptr)
    PROVE  LkInv(n)
  <1> USE AllocatorsAssumption
  <1> DEFINE idx == FindNextFreeIndex(m)
             k == m.creation_counter + 1
  <1>1. LkTyped(m)  BY DEF LkInv
  <1>2. /\ LkTyped(n) /\ n.creation_counter = k /\ n.nulled = m.nulled
        /\ n.live = m.live \cup ({ptr} \ {NULL})
        /\ idx = -1 => n.overrun = TRUE
        /\ idx # -1 =>
              /\ idx \in 1..LeakRows /\ n.overrun = m.overrun
              /\ n.memleak[idx].ptr = ptr /\ n.memleak[idx].mallocTime = k
              /\ n.memleak[idx].freeTime = m.memleak[idx].freeTime
              /\ \A i \in 1..LeakRows : i # idx => n.memleak[i] = m.memleak[i]
    <2>1. RowGiven(m, n, ptr, idx)  BY <1>1, MyMallocFields
    <2> QED BY <2>1 DEF RowGiven
  <1>3. SUFFICES ASSUME ~n.overrun, ~n.nulled
                 PROVE  \E u \in 0..LeakRows : LkUsed(n.memleak, n.creation_counter, n.live, u)
    BY <1>2 DEF LkInv
  <1>4. idx # -1 /\ ~m.overrun /\ ~m.nulled  BY <1>2, <1>3
  <1>5. PICK u \in 0..LeakRows : LkUsed(m.memleak, m.creation_counter, m.live, u)
    BY <1>4 DEF LkInv
  <1>6. u = idx - 1 /\ idx \in 1..LeakRows
    <2>1. \A v \in 0..LeakRows :
                 LkUsed(m.memleak, m.creation_counter, m.live, v) =>
                    IF idx = -1 THEN v = LeakRows ELSE v = idx - 1
      BY <1>1, FirstUnused
    <2> QED BY <2>1, <1>2, <1>4, <1>5
  <1> HIDE DEF idx
  <1>7. m.creation_counter \in Nat /\ \A i \in 1..LeakRows : m.memleak[i].mallocTime \in Nat
    BY <1>1 DEF LkTyped, LkRow
  <1>8. m.memleak[idx].freeTime = 0 /\ ~ (idx <= u)  BY <1>5, <1>6 DEF LkUsed
  <1> DEFINE a == m.memleak
             b == n.memleak
  <1>9. /\ b[idx].ptr = ptr /\ b[idx].mallocTime = m.creation_counter + 1 /\ b[idx].freeTime = 0
        /\ \A i \in 1..LeakRows : i # idx => b[i] = a[i]
    BY <1>2, <1>4, <1>8
  <1>10. LkUsed(a, m.creation_counter, m.live, u)  BY <1>5
  <1>11. \A i \in 1..LeakRows : a[i].mallocTime \in Nat  BY <1>7
  <1> HIDE DEF a, b
  <1>12. CASE ptr = NULL
    <2>1. n.live = m.live  BY <1>2, <1>12
    <2>2. \A i \in 1..LeakRows : b[i].ptr # NULL <=> i <= u
      BY <1>6, <1>8, <1>9, <1>10, <1>12 DEF LkUsed
    <2>3. \A i \in 1..LeakRows : i <= u => b[i] = a[i]  BY <1>8, <1>9
    <2>4. \A i \in 1..LeakRows : i > u => b[i].freeTime = 0  BY <1>9, <1>10 DEF LkUsed
    <2>5. \A i \in 1..LeakRows : i <= u => b[i].mallocTime <= k
      BY <1>7, <1>10, <1>11, <2>3 DEF LkUsed
    <2>6. \A i, j \in 1..LeakRows : i < j /\ j <= u => b[i].mallocTime < b[j].mallocTime
      BY <1>10, <2>3 DEF LkUsed
    <2>7. \A i \in 1..LeakRows : i <= u /\ b[i].freeTime = 0 => b[i].ptr \in m.live
      BY <1>10, <2>3 DEF LkUsed
    <2>8. \A p \in m.live : \E i \in 1..LeakRows : i <= u /\ b[i].ptr = p /\ b[i].freeTime = 0
      BY <1>10, <2>3 DEF LkUsed
    <2>9. \A i, j \in 1..LeakRows :
             /\ i <= u /\ j <= u /\ b[i].ptr = b[j].ptr
             /\ b[i].freeTime = 0 /\ b[j].freeTime = 0
             => i = j
      BY <1>10, <2>3 DEF LkUsed
    <2>10. LkUsed(b, k, m.live, u)
      BY <2>2, <2>4, <2>5, <2>6, <2>7, <2>8, <2>9 DEF LkUsed
    <2> QED BY <2>1, <2>10, <1>2 DEF b
  <1>13. CASE ptr # NULL
    <2>1. n.live = m.live \cup {ptr}  BY <1>2, <1>13
    <2>0. idx \in 0..LeakRows /\ \A i \in 1..LeakRows : (i <= idx <=> (i <= u \/ i = idx)) /\ (i > idx => i > u)
      BY <1>6
    <2>2. \A i \in 1..LeakRows : b[i].ptr # NULL <=> i <= idx
      BY <2>0, <1>9, <1>10, <1>13 DEF LkUsed
    <2>3. \A i \in 1..LeakRows : i <= u => b[i] = a[i]  BY <1>8, <1>9
    <2>4. \A i \in 1..LeakRows : i > idx => b[i].freeTime = 0  BY <2>0, <1>9, <1>10 DEF LkUsed
    <2>5. \A i \in 1..LeakRows : i <= idx => b[i].mallocTime <= k
      BY <2>0, <1>7, <1>9, <1>10, <1>11, <2>3 DEF LkUsed
    <2>6. ASSUME NEW i \in 1..LeakRows, NEW j \in 1..LeakRows, i < j, j <= idx
          PROVE  b[i].mallocTime < b[j].mallocTime
      <3>1. i <= u  BY <1>6, <2>6
      <3>2. b[i].mallocTime \in Nat /\ b[i].mallocTime <= m.creation_counter
        BY <3>1, <1>10, <1>11, <2>3 DEF LkUsed
      <3>3. CASE j = idx  BY <3>2, <3>3, <1>7, <1>9
      <3>4. CASE j # idx  BY <3>1, <3>4, <2>0, <2>3, <2>6, <1>10 DEF LkUsed
      <3> QED BY <3>3, <3>4
    <2>7. \A i \in 1..LeakRows : i <= idx /\ b[i].freeTime = 0 => b[i].ptr \in n.live
      BY <2>0, <2>1, <1>9, <1>10, <2>3 DEF LkUsed
    <2>8. ASSUME NEW p \in n.live
          PROVE  \E i \in 1..LeakRows : i <= idx /\ b[i].ptr = p /\ b[i].freeTime = 0
      <3>1. CASE p = ptr  BY <3>1, <1>6, <1>9, <2>0
      <3>2. CASE p \in m.live
        <4>1. PICK i \in 1..LeakRows : i <= u /\ a[i].ptr = p /\ a[i].freeTime = 0
          BY <3>2, <1>10 DEF LkUsed
        <4> QED BY <4>1, <2>0, <2>3
      <3> QED BY <2>1, <3>1, <3>2
    <2>9. ASSUME NEW i \in 1..LeakRows, NEW j \in 1..LeakRows,
                 i <= idx, j <= idx, b[i].ptr = b[j].ptr, b[i].freeTime = 0, b[j].freeTime = 0
          PROVE  i = j
      <3>1. \A h \in 1..LeakRows : h <= u /\ b[h].freeTime = 0 => b[h].ptr # ptr
        BY <1>10, <2>3 DEF LkUsed
      <3>2. CASE i <= u /\ j <= u  BY <3>2, <2>3, <2>9, <1>10 DEF LkUsed
      <3>3. CASE i = idx  BY <3>1, <3>3, <2>0, <2>9, <1>9
      <3>4. CASE j = idx  BY <3>1, <3>4, <2>0, <2>9, <1>9
      <3> QED BY <3>2, <3>3, <3>4, <2>0, <2>9
    <2>10. LkUsed(b, k, n.live, idx)
      BY <2>0, <2>2, <2>4, <2>5, <2>6, <2>7, <2>8, <2>9 DEF LkUsed
    <2> QED BY <2>0, <2>10, <1>2 DEF b
  <1> QED BY <1>12, <1>13

LEMMA LkFreeKeeps ==
    ASSUME NEW m, LkInv(m), NEW ptr \in Nat, NEW n, n = MyFree(m, ptr)
    PROVE  LkInv(n)
  <1> USE AllocatorsAssumption
  <1> DEFINE idx == FindPtrInMemoryLeakArr(m, ptr)
             a == m.memleak
             b == n.memleak
  <1>1. LkTyped(m)  BY DEF LkInv
  <1>2. RowFreed(m, n, ptr, idx)  BY <1>1, MyFreeFields
  <1>3. SUFFICES ASSUME ~n.overrun, ~n.nulled
                 PROVE  \E u \in 0..LeakRows : LkUsed(n.memleak, n.creation_counter, n.live, u)
    BY <1>2 DEF LkInv, RowFreed
  <1>4. ~m.overrun /\ ~m.nulled /\ ptr # NULL  BY <1>2, <1>3 DEF RowFreed
  <1>5. PICK u \in 0..LeakRows : LkUsed(a, m.creation_counter, m.live, u)
    BY <1>4 DEF LkInv
  <1>6. /\ idx = -1 \/ (/\ idx \in 1..LeakRows /\ a[idx].ptr = ptr /\ a[idx].freeTime = 0)
        /\ idx = -1 => \A i \in 1..LeakRows : a[i].ptr # ptr \/ a[i].freeTime # 0
    BY <1>1, RowOfPtr
  <1> HIDE DEF idx
  <1>7. /\ n.creation_counter = m.creation_counter /\ n.live = m.live \ {ptr}
        /\ idx = -1 => b = a
        /\ idx # -1 => /\ b[idx].ptr = a[idx].ptr /\ b[idx].mallocTime = a[idx].mallocTime
                       /\ b[idx].freeTime # 0
                       /\ \A i \in 1..LeakRows : i # idx => b[i] = a[i]
    BY <1>2 DEF RowFreed
  <1> HIDE DEF a, b
  <1>8. CASE idx = -1
    <2>1. ptr \notin m.live  BY <1>5, <1>6, <1>8 DEF LkUsed
    <2>2. n.live = m.live /\ b = a  BY <2>1, <1>7, <1>8
    <2> QED BY <2>2, <1>5, <1>7 DEF b
  <1>9. CASE idx # -1
    <2>1. idx \in 1..LeakRows /\ idx <= u
      BY <1>4, <1>5, <1>6, <1>9 DEF LkUsed
    <2>2. \A i \in 1..LeakRows : b[i].ptr = a[i].ptr /\ b[i].mallocTime = a[i].mallocTime
      BY <1>7, <1>9
    <2>3. \A i \in 1..LeakRows : (b[i].freeTime = 0 <=> a[i].freeTime = 0 /\ i # idx)
      BY <1>7, <1>9
    <2>4. \A i \in 1..LeakRows : i <= u /\ b[i].freeTime = 0 => b[i].ptr \in m.live \ {ptr}
      <3> SUFFICES ASSUME NEW i \in 1..LeakRows, i <= u, b[i].freeTime = 0
                   PROVE  b[i].ptr \in m.live /\ b[i].ptr # ptr
        OBVIOUS
      <3>1. a[i].freeTime = 0 /\ i # idx /\ b[i].ptr = a[i].ptr  BY <2>2, <2>3
      <3> QED BY <3>1, <2>1, <1>5, <1>6, <1>9 DEF LkUsed
    <2>5. \A p \in m.live \ {ptr} : \E i \in 1..LeakRows : i <= u /\ b[i].ptr = p /\ b[i].freeTime = 0
      <3> SUFFICES ASSUME NEW p \in m.live, p # ptr
                   PROVE  \E i \in 1..LeakRows : i <= u /\ b[i].ptr = p /\ b[i].freeTime = 0
        OBVIOUS
      <3>1. PICK i \in 1..LeakRows : i <= u /\ a[i].ptr = p /\ a[i].freeTime = 0
        BY <1>5 DEF LkUsed
      <3>2. i # idx  BY <3>1, <1>6, <1>9
      <3> QED BY <3>1, <3>2, <2>2, <2>3
    <2>6. \A i, j \in 1..LeakRows : i < j /\ j <= u => b[i].mallocTime < b[j].mallocTime
      BY <1>5, <2>2 DEF LkUsed
    <2>7. /\ \A i \in 1..LeakRows : b[i].ptr # NULL <=> i <= u
          /\ \A i \in 1..LeakRows : i > u => b[i].freeTime = 0
          /\ \A i \in 1..LeakRows : i <= u => b[i].mallocTime <= m.creation_counter
      <3>1. \A i \in 1..LeakRows : i > u => i # idx  BY <2>1
      <3> QED BY <3>1, <1>5, <2>2, <2>3 DEF LkUsed
    <2>8. \A i, j \in 1..LeakRows :
             /\ i <= u /\ j <= u /\ b[i].ptr = b[j].ptr
             /\ b[i].freeTime = 0 /\ b[j].freeTime = 0
             => i = j
      BY <1>5, <2>2, <2>3 DEF LkUsed
    <2>9. LkUsed(b, m.creation_counter, m.live \ {ptr}, u)
      BY <2>4, <2>5, <2>6, <2>7, <2>8 DEF LkUsed
    <2> QED BY <2>9, <1>7 DEF b
  <1> QED BY <1>8, <1>9

\* What is printed: the rows before the first unused one, all if there is none.
LEMMA PrintedRows ==
    ASSUME NEW m, LkTyped(m), NEW u \in 0..LeakRows,
           LkUsed(m.memleak, m.creation_counter, m.live, u)
    PROVE  LET rows == MemoryLeak_Check(m) IN
           /\ DOMAIN rows = 1..u /\ \A i \in 1..u : rows[i] = m.memleak[i]
  <1> USE AllocatorsAssumption
  <1> DEFINE idx == FindNextFreeIndex(m)
             a == m.memleak
  <1>1. /\ idx = -1 \/ idx \in 1..LeakRows
        /\ IF idx = -1 THEN u = LeakRows ELSE u = idx - 1
    BY FirstUnused
  <1>2. DOMAIN a = 1..LeakRows  BY DEF LkTyped
  <1>3. CASE idx = -1
    <2>1. MemoryLeak_Check(m) = a  BY <1>3 DEF MemoryLeak_Check
    <2> HIDE DEF idx, a
    <2> QED BY <2>1, <1>1, <1>2, <1>3 DEF a
  <1>4. CASE idx # -1
    <2>1. MemoryLeak_Check(m) = SubSeq(a, 1, idx - 1)  BY <1>4 DEF MemoryLeak_Check
    <2> HIDE DEF idx, a
    <2>2. u = idx - 1 /\ u \in Nat  BY <1>1, <1>4
    <2>3. SubSeq(a, 1, u) = [i \in 1..u |-> a[i]]
      <3>1. SubSeq(a, 1, u) = [i \in 1..(1 + u - 1) |-> a[i + 1 - 1]]  BY <2>2
      <3>2. 1 + u - 1 = u /\ \A i \in 1..u : i + 1 - 1 = i  BY <2>2
      <3> QED BY <3>1, <3>2
    <2> QED BY <2>1, <2>2, <2>3 DEF a
  <1> QED BY <1>3, <1>4

LEMMA LkReports ==
    ASSUME LkInv(store) PROVE LeaksAreReported
  <1> USE AllocatorsAssumption
  <1> DEFINE rows == MemoryLeak_Check(store)
             leaks == {i \in DOMAIN rows : rows[i].freeTime = 0}
  <1> SUFFICES ASSUME ~store.overrun, ~store.nulled
               PROVE  /\ {rows[i].ptr : i \in leaks} = store.live
                      /\ \A i, j \in leaks : rows[i].ptr = rows[j].ptr => i = j
                      /\ \A i, j \in DOMAIN rows : i < j => rows[i].mallocTime < rows[j].mallocTime
    BY DEF LeaksAreReported
  <1> DEFINE a == store.memleak
  <1>1. PICK u \in 0..LeakRows : LkUsed(a, store.creation_counter, store.live, u)
    BY DEF LkInv
  <1>2. DOMAIN rows = 1..u /\ \A i \in 1..u : rows[i] = a[i]  BY <1>1, PrintedRows DEF LkInv
  <1>3. leaks = {i \in 1..u : a[i].freeTime = 0} /\ \A i \in leaks : i \in 1..u /\ rows[i] = a[i]
    BY <1>2
  <1>4. \A i \in 1..u : i \in 1..LeakRows /\ i <= u  OBVIOUS
  <1>5. \A i \in 1..LeakRows : i <= u => i \in 1..u  OBVIOUS
  <1> HIDE DEF rows, a, leaks
  <1>6. ASSUME NEW p \in store.live PROVE \E i \in leaks : rows[i].ptr = p
    <2>1. PICK i \in 1..LeakRows : i <= u /\ a[i].ptr = p /\ a[i].freeTime = 0  BY <1>1 DEF LkUsed
    <2>2. i \in leaks  BY <2>1, <1>3, <1>5
    <2> QED BY <2>1, <2>2, <1>3
  <1>7. ASSUME NEW i \in leaks PROVE rows[i].ptr \in store.live
    BY <1>1, <1>3, <1>4 DEF LkUsed
  <1>8. {rows[i].ptr : i \in leaks} = store.live  BY <1>6, <1>7
  <1>9. \A i, j \in leaks : rows[i].ptr = rows[j].ptr => i = j  BY <1>1, <1>3, <1>4 DEF LkUsed
  <1>10. \A i, j \in DOMAIN rows : i < j => rows[i].mallocTime < rows[j].mallocTime
    BY <1>1, <1>2, <1>4 DEF LkUsed
  <1> QED BY <1>8, <1>9, <1>10

-----------------------------------------------------------------------------
AlInv == /\ store.v \in {"fsa", "mymalloc"}
         /\ store.v = "fsa" => FsaInv(store, log)
         /\ store.v = "mymalloc" => LkInv(store)

LEMMA AlInvInit ==
    ASSUME AlInit PROVE AlInv
  <1>1. CASE store = FsaStart
    <2>1. store.v = "fsa" /\ log = <<>> /\ store.blocks = 0  BY <1>1 DEF AlInit, FsaStart
    <2>2. FsaTyped(store)  BY <1>1 DEF FsaTyped, FsaFieldNames, FsaStart
    <2> QED BY <2>1, <2>2 DEF AlInv, FsaInv
  <1>2. CASE store = LeakStart
    <2>1. LkInv(store)  BY <1>2, LkInvInit
    <2> QED BY <2>1 DEF AlInv, LkInv, LkTyped
  <1> QED BY <1>1, <1>2 DEF AlInit

LEMMA AlInvNext ==
    ASSUME AlInv, AlNext PROVE AlInv'
  <1>1. CASE store.v = "fsa" /\ FsaNext
    <2>1. store'.v = "fsa" /\ FsaInv(store', log')  BY <1>1, FsaInvNext DEF AlInv
    <2> QED BY <2>1 DEF AlInv
  <1>2. CASE store.v = "mymalloc" /\ MyMallocNext
    <2>1. LkInv(store) /\ store.live \subseteq Nat \ {NULL}  BY <1>2 DEF AlInv, LkInv, LkTyped
    <2>2. CASE \E ptr \in (UNION Malloc(store.live)) \cup {NULL} : store' = MyMalloc(store, ptr)
      <3>1. PICK ptr \in (UNION Malloc(store.live)) \cup {NULL} : store' = MyMalloc(store, ptr)
        BY <2>2
      <3>2. ptr \in Nat /\ ptr \notin store.live
        <4>1. CASE ptr = NULL  BY <4>1, <2>1 DEF NULL
        <4>2. CASE ptr \in UNION Malloc(store.live)
          BY <4>2, MallocGives
        <4> QED BY <4>1, <4>2
      <3>3. LkInv(store')  BY <2>1, <3>1, <3>2, LkMallocKeeps
      <3> QED BY <3>3 DEF AlInv, LkInv, LkTyped
    <2>3. CASE \E ptr \in store.live \cup {NULL} : store' = MyFree(store, ptr)
      <3>1. PICK ptr \in store.live \cup {NULL} : store' = MyFree(store, ptr)  BY <2>3
      <3>2. ptr \in Nat  BY <2>1 DEF NULL
      <3>3. LkInv(store')  BY <2>1, <3>1, <3>2, LkFreeKeeps
      <3> QED BY <3>3 DEF AlInv, LkInv, LkTyped
    <2> QED BY <1>2, <2>2, <2>3 DEF MyMallocNext
  <1> QED BY <1>1, <1>2 DEF AlNext

LEMMA AlInvKnows ==
    ASSUME AlInv PROVE AlBlocksAreKnown
  BY FsaApart, LkReports DEF AlInv, AlBlocksAreKnown

-----------------------------------------------------------------------------
\* The dispatcher: its vector holds the call backs that there are.
BkFieldNames == {"slots", "size", "i", "end", "told", "meddled", "made", "stops", "alive", "faulted"}

BkTyped(m) == /\ DOMAIN m = BkFieldNames
              /\ m.slots \in Seq(BkCalls) /\ m.size \in Nat /\ m.size <= Len(m.slots)
              /\ m.i \in Nat /\ m.end \in Nat /\ m.told \in Seq(BkCalls)
              /\ m.meddled \in BOOLEAN /\ m.alive \in BOOLEAN /\ m.faulted \in BOOLEAN
              /\ m.made \subseteq BkCalls /\ m.stops \in [BkCalls -> Nat]

\* The vector's elements are those of l, each once.
BkHolds(m, l) == /\ l \in Seq(m.made) /\ Len(l) = m.size
                 /\ \A j \in 1..m.size : l[j] = m.slots[j]

BkStopped(m) == \A c \in BkCalls : m.stops[c] <= IF c \in m.made /\ m.alive THEN 0 ELSE 1

\* Whom a notification has called, of those it found in the vector.
BkTells(m) ==
    ~m.meddled /\ (m.i # 0 \/ m.told # <<>>) =>
        /\ m.end <= m.size /\ Len(m.told) = IF m.i = 0 THEN m.end ELSE m.i - 1
        /\ \A j \in 1..Len(m.told) : m.told[j] = m.slots[j]

\* l is who has registered and not gone.
BkInv(m, l) ==
    /\ BkTyped(m)
    /\ ~m.faulted =>
          /\ \A i, j \in 1..Len(l) : l[i] = l[j] => i = j
          /\ \A c \in m.made : \E j \in 1..Len(l) : l[j] = c
          /\ BkHolds(m, l)
          /\ m.i # 0 => m.alive /\ m.i <= m.end /\ m.end <= Len(m.slots)
          /\ BkTells(m) /\ BkStopped(m)

LEMMA SubscribersAre ==
    ASSUME NEW m, BkTyped(m)
    PROVE  /\ Subscribers(m) \in Seq(BkCalls) /\ Len(Subscribers(m)) = m.size
           /\ \A j \in 1..m.size : Subscribers(m)[j] = m.slots[j]
  <1>1. m.slots \in Seq(BkCalls) /\ m.size \in Nat /\ m.size <= Len(m.slots)  BY DEF BkTyped
  <1> QED BY <1>1 DEF Subscribers

LEMMA SameSeq ==
    ASSUME NEW S, NEW p \in Seq(S), NEW q \in Seq(S), Len(p) = Len(q),
           \A j \in 1..Len(q) : p[j] = q[j]
    PROVE  p = q
  OBVIOUS

FirstAt(q, c) == SelectInSeq(q, LAMBDA d : d = c)

LEMMA FirstIn ==
    ASSUME NEW S, NEW q \in Seq(S), NEW c, NEW j \in 1..Len(q), q[j] = c
    PROVE  FirstAt(q, c) \in 1..j /\ q[FirstAt(q, c)] = c
  <1> DEFINE I == {i \in 1..Len(q) : q[i] = c}
  <1>1. I \in SUBSET Nat /\ j \in I  OBVIOUS
  <1>2. FirstAt(q, c) = Min(I)  BY <1>1 DEF FirstAt, SelectInSeq
  <1>3. Min(I) \in I /\ Min(I) <= j  BY <1>1, LeastElement DEF Min
  <1> QED BY <1>2, <1>3

\* Call back c, the vector's k-th, goes.
BkWithout(m, n, c, k) ==
    /\ BkTyped(n) /\ n.i = m.i /\ n.end = m.end /\ n.told = m.told
    /\ n.alive = m.alive /\ n.faulted = m.faulted /\ n.meddled = m.meddled
    /\ n.made = m.made \ {c} /\ n.stops[c] = m.stops[c] + 1
    /\ \A d \in BkCalls \ {c} : n.stops[d] = m.stops[d]
    /\ n.size = m.size - 1 /\ Len(n.slots) = Len(m.slots)
    /\ \A j \in 1..n.size : n.slots[j] = IF j < k THEN m.slots[j] ELSE m.slots[j + 1]

LEMMA BkGoes ==
    ASSUME NEW m, BkTyped(m), m.alive, NEW c \in BkCalls, NEW j \in 1..m.size, m.slots[j] = c,
           NEW n, n = DestroyCallBack(m, c)
    PROVE  \E k \in 1..m.size : m.slots[k] = c /\ BkWithout(m, n, c, k)
  <1> DEFINE gone == [BkStops(m, {c}) EXCEPT !.made = @ \ {c}]
             k == FirstAt(m.slots, c)
             slots == [h \in DOMAIN m.slots |-> IF h < k \/ h >= m.size THEN m.slots[h] ELSE m.slots[h + 1]]
  <1>1. /\ m.slots \in Seq(BkCalls) /\ m.size \in Nat /\ m.size <= Len(m.slots) /\ Len(m.slots) \in Nat
        /\ DOMAIN m.slots = 1..Len(m.slots)
    BY DEF BkTyped
  <1>2. j \in 1..Len(m.slots) /\ j \in Nat  BY <1>1
  <1>3. k \in 1..j /\ m.slots[k] = c  BY <1>1, <1>2, FirstIn
  <1>4. k \in 1..m.size  BY <1>1, <1>2, <1>3
  <1>5. n = Unregister(gone, c)  BY DEF DestroyCallBack
  <1>6. /\ DOMAIN gone = DOMAIN m /\ gone.slots = m.slots /\ gone.size = m.size /\ gone.i = m.i
        /\ gone.end = m.end /\ gone.told = m.told /\ gone.meddled = m.meddled
        /\ gone.alive = m.alive /\ gone.faulted = m.faulted /\ gone.made = m.made \ {c}
        /\ gone.stops = [d \in BkCalls |-> IF d \in {c} THEN m.stops[d] + 1 ELSE m.stops[d]]
    BY DEF BkStops, BkTyped, BkFieldNames
  <1>7. c \in ToSet(Subscribers(gone))
    <2>1. Subscribers(gone) = Subscribers(m)  BY <1>6 DEF Subscribers
    <2>2. j \in DOMAIN Subscribers(m) /\ Subscribers(m)[j] = c  BY SubscribersAre
    <2> QED BY <2>1, <2>2 DEF ToSet
  <1> HIDE DEF gone, k
  <1>8. n = [gone EXCEPT !.size = m.size - 1, !.slots = slots]
    <2>1. SelectInSeq(gone.slots, LAMBDA d : d = c) = k  BY <1>6 DEF k, FirstAt
    <2> DEFINE sl == [h \in DOMAIN gone.slots |->
                         IF h < k \/ h >= gone.size THEN gone.slots[h] ELSE gone.slots[h + 1]]
    <2>2. n = [gone EXCEPT !.size = gone.size - 1, !.slots = sl]
      BY Zenon, <1>5, <1>7, <2>1 DEF Unregister
    <2>3. gone.slots = m.slots /\ gone.size = m.size  BY <1>6
    <2>4. sl = slots  BY <2>3
    <2> HIDE DEF sl, slots
    <2> QED BY <2>2, <2>3, <2>4
  <1> HIDE DEF slots
  <1>9. /\ DOMAIN n = DOMAIN m /\ n.slots = slots /\ n.size = m.size - 1 /\ n.i = m.i
        /\ n.end = m.end /\ n.told = m.told /\ n.meddled = m.meddled
        /\ n.alive = m.alive /\ n.faulted = m.faulted /\ n.made = m.made \ {c}
        /\ n.stops = [d \in BkCalls |-> IF d \in {c} THEN m.stops[d] + 1 ELSE m.stops[d]]
    BY <1>6, <1>8 DEF BkTyped, BkFieldNames
  <1>10. /\ slots \in Seq(BkCalls) /\ Len(slots) = Len(m.slots)
         /\ \A h \in 1 .. m.size - 1 : slots[h] = IF h < k THEN m.slots[h] ELSE m.slots[h + 1]
    <2>1. \A h \in 1..Len(m.slots) : m.slots[h] \in BkCalls  BY <1>1
    <2>2. slots \in [1..Len(m.slots) -> BkCalls]
      <3>1. \A h \in 1..Len(m.slots) : ~ (h < k \/ h >= m.size) => h + 1 \in 1..Len(m.slots)
        BY <1>1, <1>4
      <3> QED BY <1>1, <2>1, <3>1 DEF slots
    <2>3. slots \in Seq(BkCalls) /\ Len(slots) = Len(m.slots)  BY <1>1, <2>2
    <2>4. \A h \in 1 .. m.size - 1 : h \in DOMAIN m.slots /\ ~(h >= m.size)  BY <1>1
    <2> QED BY <2>3, <2>4 DEF slots
  <1>11. n.stops \in [BkCalls -> Nat]
    <2>1. m.stops \in [BkCalls -> Nat]  BY DEF BkTyped
    <2>2. n.stops = [d \in BkCalls |-> IF d \in {c} THEN m.stops[d] + 1 ELSE m.stops[d]]  BY <1>9
    <2>3. \A d \in BkCalls : (IF d \in {c} THEN m.stops[d] + 1 ELSE m.stops[d]) \in Nat  BY <2>1
    <2> QED BY <2>2, <2>3
  <1>12. n.made \subseteq BkCalls  BY <1>9 DEF BkTyped
  <1>13. n.size \in Nat /\ n.size <= Len(n.slots)  BY <1>1, <1>4, <1>9, <1>10
  <1>14. BkTyped(n)
    BY <1>9, <1>10, <1>11, <1>12, <1>13 DEF BkTyped
  <1>16. n.stops[c] = m.stops[c] + 1 /\ \A d \in BkCalls \ {c} : n.stops[d] = m.stops[d]
    BY <1>9
  <1>15. BkWithout(m, n, c, k)  BY <1>9, <1>10, <1>14, <1>16 DEF BkWithout
  <1> QED BY <1>3, <1>4, <1>15

\* Who has gone is not in the client's view any more.
LEMMA BkLeft ==
    ASSUME NEW l, NEW S, l \in Seq(S), \A i, j \in 1..Len(l) : l[i] = l[j] => i = j,
           NEW k \in 1..Len(l)
    PROVE  (CHOOSE i \in DOMAIN l : l[i] = l[k]) = k
  <1>1. DOMAIN l = 1..Len(l)  OBVIOUS
  <1>2. \A i \in DOMAIN l : l[i] = l[k] => i = k  BY <1>1
  <1> QED BY <1>1, <1>2

\* The rest of the invariant of a dispatcher that lost one of its call backs.
LEMMA BkLess ==
    ASSUME NEW m, NEW l, BkInv(m, l), ~m.faulted, m.alive, NEW c \in m.made,
           NEW n, n = DestroyCallBack(m, c), log = l
    PROVE  /\ BkTyped(n) /\ n.i = m.i /\ n.end = m.end /\ n.told = m.told /\ n.alive
           /\ n.faulted = m.faulted /\ n.meddled = m.meddled /\ Len(n.slots) = Len(m.slots)
           /\ \A i, j \in 1..Len(BkLeaves(c)) : BkLeaves(c)[i] = BkLeaves(c)[j] => i = j
           /\ \A d \in n.made : \E j \in 1..Len(BkLeaves(c)) : BkLeaves(c)[j] = d
           /\ BkHolds(n, BkLeaves(c)) /\ BkStopped(n)
  <1>1. /\ BkTyped(m) /\ l \in Seq(m.made) /\ Len(l) = m.size /\ m.size \in Nat
        /\ \A j \in 1..m.size : l[j] = m.slots[j]
        /\ \A i, j \in 1..m.size : l[i] = l[j] => i = j
        /\ \A d \in m.made : \E j \in 1..m.size : l[j] = d
        /\ BkStopped(m) /\ m.made \subseteq BkCalls /\ m.stops \in [BkCalls -> Nat]
    BY DEF BkInv, BkHolds, BkTyped
  <1>2. PICK j \in 1..m.size : l[j] = c /\ m.slots[j] = c  BY <1>1
  <1>3. c \in BkCalls  BY <1>1
  <1>4. PICK k \in 1..m.size : m.slots[k] = c /\ BkWithout(m, n, c, k)
    BY <1>1, <1>2, <1>3, BkGoes
  <1>5. l[k] = c /\ k \in 1..Len(l)  BY <1>1, <1>4
  <1>6. BkLeaves(c) = RemoveAt(l, k)
    <2>1. (CHOOSE i \in DOMAIN l : l[i] = l[k]) = k  BY <1>1, <1>5, BkLeft
    <2> QED BY <1>5, <2>1 DEF BkLeaves
  <1> DEFINE r == RemoveAt(l, k)
  <1>7. /\ r \in Seq(m.made) /\ Len(r) = m.size - 1
        /\ \A h \in 1 .. m.size - 1 : r[h] = IF h < k THEN l[h] ELSE l[h + 1]
    <2>1. /\ r \in Seq(m.made) /\ Len(r) = Len(l) - 1
          /\ \A h \in 1..Len(r) : r[h] = IF h < k THEN l[h] ELSE l[h + 1]
      <3>1. l \in Seq(m.made) /\ k \in 1..Len(l)  BY <1>1, <1>5
      <3> QED BY <3>1, RemovedAt
    <2> QED BY <1>1, <2>1
  <1> HIDE DEF r
  <1>8. \A h \in 1 .. m.size - 1 : h \in 1..m.size /\ h + 1 \in 1..m.size  BY <1>1
  <1>9. \A h \in 1 .. m.size - 1 : r[h] # c
    <2> SUFFICES ASSUME NEW h \in 1 .. m.size - 1, r[h] = c PROVE FALSE  OBVIOUS
    <2>1. CASE h < k
      <3>1. l[h] = l[k] /\ h \in 1..m.size  BY <2>1, <1>5, <1>7, <1>8
      <3>2. h = k  BY <3>1, <1>1
      <3> QED BY <3>2, <2>1
    <2>2. CASE ~ (h < k)
      <3>1. l[h + 1] = l[k] /\ h + 1 \in 1..m.size  BY <2>2, <1>5, <1>7, <1>8
      <3>2. h + 1 = k  BY <3>1, <1>1
      <3> QED BY <3>2, <2>2
    <2> QED BY <2>1, <2>2
  <1>10. n.made = m.made \ {c} /\ n.size = m.size - 1  BY <1>4 DEF BkWithout
  <1>11. r \in Seq(n.made)
    <2>1. \A h \in 1..Len(r) : r[h] \in m.made /\ r[h] # c  BY <1>7, <1>9
    <2> QED BY <1>7, <2>1, <1>10
  <1>12. \A h \in 1..n.size : r[h] = n.slots[h]
    <2> SUFFICES ASSUME NEW h \in 1 .. m.size - 1 PROVE r[h] = n.slots[h]  BY <1>10
    <2>1. n.slots[h] = IF h < k THEN m.slots[h] ELSE m.slots[h + 1]  BY <1>4, <1>10 DEF BkWithout
    <2> QED BY <2>1, <1>1, <1>7, <1>8
  <1>13. BkHolds(n, r)  BY <1>7, <1>10, <1>11, <1>12 DEF BkHolds
  <1>14. ASSUME NEW i \in 1..Len(r), NEW h \in 1..Len(r), r[i] = r[h] PROVE i = h
    <2>1. i \in 1 .. m.size - 1 /\ h \in 1 .. m.size - 1  BY <1>7
    <2>2. PICK a \in 1..m.size : r[i] = l[a] /\ a = IF i < k THEN i ELSE i + 1
      BY <2>1, <1>7, <1>8
    <2>3. PICK b \in 1..m.size : r[h] = l[b] /\ b = IF h < k THEN h ELSE h + 1
      BY <2>1, <1>7, <1>8
    <2>4. a = b
      <3>1. l[a] = l[b]  BY <1>14, <2>2, <2>3
      <3>2. \A x, y \in 1..m.size : l[x] = l[y] => x = y  BY <1>1
      <3> QED BY <3>1, <3>2
    <2> QED BY <2>1, <2>2, <2>3, <2>4
  <1>15. ASSUME NEW d \in n.made PROVE \E h \in 1..Len(r) : r[h] = d
    <2>1. d \in m.made /\ d # c  BY <1>10
    <2>2. PICK a \in 1..m.size : l[a] = d  BY <1>1, <2>1
    <2>3. CASE a < k
      <3>1. a \in 1 .. m.size - 1  BY <2>3, <1>1
      <3> QED BY <2>2, <2>3, <3>1, <1>7
    <2>4. CASE a > k
      <3>1. a - 1 \in 1 .. m.size - 1 /\ ~ (a - 1 < k) /\ (a - 1) + 1 = a  BY <2>4, <1>1
      <3> QED BY <2>2, <3>1, <1>7
    <2>5. a # k  BY <2>1, <2>2, <1>5
    <2> QED BY <2>3, <2>4, <2>5
  <1>16. BkStopped(n)
    <2> SUFFICES ASSUME NEW d \in BkCalls
                 PROVE  n.stops[d] <= IF d \in n.made /\ n.alive THEN 0 ELSE 1
      BY DEF BkStopped
    <2>1. m.stops[d] \in Nat /\ m.stops[d] <= IF d \in m.made /\ m.alive THEN 0 ELSE 1
      BY <1>1 DEF BkStopped
    <2>2. n.alive = m.alive  BY <1>4 DEF BkWithout
    <2>3. CASE d = c
      <3>1. n.stops[d] = m.stops[d] + 1 /\ d \notin n.made  BY <2>3, <1>4 DEF BkWithout
      <3>2. m.stops[d] <= 0  BY <2>1, <2>3
      <3> QED BY <3>1, <3>2, <2>1
    <2>4. CASE d # c
      <3>1. n.stops[d] = m.stops[d]  BY <2>4, <1>4 DEF BkWithout
      <3>2. (d \in n.made) = (d \in m.made)  BY <2>4, <1>10
      <3> QED BY <3>1, <3>2, <2>1, <2>2
    <2> QED BY <2>3, <2>4
  <1> QED BY <1>4, <1>6, <1>13, <1>14, <1>15, <1>16 DEF BkWithout, r

BkStart == [slots |-> <<>>, size |-> 0, i |-> 0, end |-> 0, told |-> <<>>, meddled |-> FALSE,
            made |-> {}, stops |-> [c \in BkCalls |-> 0], alive |-> TRUE, faulted |-> FALSE]

LEMMA BkInvInit ==
    ASSUME BkInit PROVE BkInv(store, log)
  <1>1. store = BkStart /\ log = <<>>  BY DEF BkInit, BkStart
  <1> DEFINE z == [c \in BkCalls |-> 0]
  <1>2. /\ DOMAIN store = BkFieldNames /\ store.slots = <<>> /\ store.size = 0 /\ store.i = 0
        /\ store.end = 0 /\ store.told = <<>> /\ store.meddled = FALSE /\ store.made = {}
        /\ store.stops = z /\ store.alive = TRUE /\ store.faulted = FALSE
    BY <1>1 DEF BkStart, BkFieldNames
  <1>3. z \in [BkCalls -> Nat] /\ \A c \in BkCalls : z[c] = 0  OBVIOUS
  <1> HIDE DEF z
  <1>4. store.slots \in Seq(BkCalls) /\ store.told \in Seq(BkCalls) /\ Len(store.slots) = 0
    BY <1>2
  <1>5. store.meddled \in BOOLEAN /\ store.alive \in BOOLEAN /\ store.faulted \in BOOLEAN
    BY <1>2
  <1>6. store.made \subseteq BkCalls /\ store.size <= Len(store.slots)  BY <1>2, <1>4
  <1>9. store.size \in Nat /\ store.i \in Nat /\ store.end \in Nat  BY <1>2
  <1>7. BkTyped(store)  BY <1>2, <1>3, <1>4, <1>5, <1>6, <1>9 DEF BkTyped
  <1>8. /\ BkHolds(store, log) /\ BkStopped(store)
        /\ \A i, j \in 1..Len(log) : log[i] = log[j] => i = j
    <2>1. BkStopped(store)  BY <1>2, <1>3 DEF BkStopped
    <2>2. log \in Seq(store.made) /\ Len(log) = 0  BY <1>1
    <2> QED BY <2>1, <2>2, <1>2 DEF BkHolds
  <1> QED BY <1>2, <1>7, <1>8 DEF BkInv, BkTells

LEMMA BkNotifyAll ==
    ASSUME BkInv(store, log), ~store.faulted, store.alive, NotifyAll
    PROVE  BkInv(store', log')
  <1>1. /\ BkTyped(store) /\ store.size > 0 /\ log' = log
        /\ store' = [store EXCEPT !.i = 1, !.end = store.size, !.told = <<>>, !.meddled = FALSE]
    BY DEF BkInv, NotifyAll
  <1>2. /\ DOMAIN store' = DOMAIN store /\ store'.slots = store.slots /\ store'.size = store.size
        /\ store'.i = 1 /\ store'.end = store.size /\ store'.told = <<>>
        /\ store'.made = store.made /\ store'.stops = store.stops
        /\ store'.alive = store.alive /\ store'.faulted = store.faulted /\ store'.meddled = FALSE
    BY <1>1 DEF BkTyped, BkFieldNames
  <1>3. store'.told \in Seq(BkCalls) /\ Len(store'.told) = 0  BY <1>2
  <1>4. store'.meddled \in BOOLEAN  BY <1>2
  <1>10. BkTyped(store)  BY DEF BkInv
  <1>11. store'.i \in Nat /\ store'.end \in Nat  BY <1>2, <1>10 DEF BkTyped
  <1>5. BkTyped(store')  BY <1>2, <1>3, <1>4, <1>10, <1>11 DEF BkTyped
  <1>6. BkHolds(store', log') /\ BkStopped(store')
    <2>1. BkHolds(store, log) /\ BkStopped(store)  BY DEF BkInv
    <2> QED BY <2>1, <1>1, <1>2 DEF BkHolds, BkStopped
  <1>9. store.size \in Nat /\ store.size <= Len(store.slots)  BY <1>1 DEF BkTyped
  <1>7. store'.i <= store'.end /\ store'.end <= Len(store'.slots)  BY <1>1, <1>2, <1>9
  <1>8. /\ \A i, j \in 1..Len(log') : log'[i] = log'[j] => i = j
        /\ \A c \in store'.made : \E j \in 1..Len(log') : log'[j] = c
    BY <1>1, <1>2 DEF BkInv
  <1>12. BkTells(store')  BY <1>2, <1>3, <1>9 DEF BkTells
  <1> QED BY <1>2, <1>3, <1>5, <1>6, <1>7, <1>8, <1>12 DEF BkInv

\* What one step of the iteration does to the fields.
BkTold(m) == [m EXCEPT !.told = Append(@, m.slots[m.i]), !.i = IF m.i = m.end THEN 0 ELSE @ + 1]

LEMMA BkToldFields ==
    ASSUME NEW m, BkTyped(m), m.i # 0, m.i <= m.end, m.end <= Len(m.slots), NEW n, n = BkTold(m)
    PROVE  /\ BkTyped(n) /\ n.slots = m.slots /\ n.size = m.size /\ n.end = m.end
           /\ n.told = Append(m.told, m.slots[m.i])
           /\ n.i = IF m.i = m.end THEN 0 ELSE m.i + 1
           /\ n.made = m.made /\ n.stops = m.stops /\ n.alive = m.alive
           /\ n.faulted = m.faulted /\ n.meddled = m.meddled
  <1>1. /\ DOMAIN n = DOMAIN m /\ n.slots = m.slots /\ n.size = m.size /\ n.end = m.end
        /\ n.told = Append(m.told, m.slots[m.i])
        /\ n.i = IF m.i = m.end THEN 0 ELSE m.i + 1
        /\ n.made = m.made /\ n.stops = m.stops /\ n.alive = m.alive
        /\ n.faulted = m.faulted /\ n.meddled = m.meddled
    BY DEF BkTold, BkTyped, BkFieldNames
  <1>2. m.slots[m.i] \in BkCalls
    <2>1. m.slots \in Seq(BkCalls) /\ m.i \in 1..Len(m.slots)  BY DEF BkTyped
    <2> QED BY <2>1
  <1>3. n.told \in Seq(BkCalls)
    <2>1. m.told \in Seq(BkCalls)  BY DEF BkTyped
    <2> QED BY <2>1, <1>1, <1>2
  <1>4. n.i \in Nat
    <2>1. m.i \in Nat  BY DEF BkTyped
    <2> QED BY <2>1, <1>1
  <1>5. BkTyped(n)  BY <1>1, <1>3, <1>4 DEF BkTyped
  <1> QED BY <1>1, <1>5

\* A vector that a call back comes into.
BkComing(m, c) == IF m.size < Len(m.slots) THEN [m.slots EXCEPT ![m.size + 1] = c]
                                           ELSE Append(m.slots, c)

BkLonger(m, c, slots) ==
    /\ slots \in Seq(BkCalls) /\ m.size + 1 <= Len(slots) /\ slots[m.size + 1] = c
    /\ \A j \in 1..m.size : slots[j] = m.slots[j]
    /\ Len(m.slots) <= Len(slots)

LEMMA BkSlots ==
    ASSUME NEW m, BkTyped(m), NEW c \in BkCalls
    PROVE  BkLonger(m, c, BkComing(m, c))
  <1> DEFINE slots == BkComing(m, c)
  <1>1. /\ m.slots \in Seq(BkCalls) /\ m.size \in Nat /\ m.size <= Len(m.slots) /\ Len(m.slots) \in Nat
        /\ DOMAIN m.slots = 1..Len(m.slots)
    BY DEF BkTyped
  <1>2. CASE m.size < Len(m.slots)
    <2>1. slots = [m.slots EXCEPT ![m.size + 1] = c] /\ m.size + 1 \in 1..Len(m.slots)  BY <1>1, <1>2 DEF BkComing
    <2>2. slots \in Seq(BkCalls) /\ Len(slots) = Len(m.slots)  BY <1>1, <2>1
    <2>3. \A j \in 1..m.size : j \in 1..Len(m.slots) /\ j # m.size + 1  BY <1>1
    <2> QED BY <1>1, <2>1, <2>2, <2>3 DEF BkLonger
  <1>3. CASE ~(m.size < Len(m.slots))
    <2>1. slots = Append(m.slots, c) /\ m.size = Len(m.slots)  BY <1>1, <1>3 DEF BkComing
    <2> QED BY <1>1, <2>1 DEF BkLonger
  <1> QED BY <1>2, <1>3

\* A new object registers, also while an iteration goes on.
LEMMA BkMore ==
    ASSUME NEW m, NEW l, BkInv(m, l), ~m.faulted, m.alive, NEW c \in BkCalls \ m.made,
           NEW n, n = CallBack(m, c), NEW r, r = Append(l, c)
    PROVE  BkInv(n, r) /\ n.i = m.i /\ n.alive /\ ~n.faulted
  <1> DEFINE slots == BkComing(m, c)
             reg == [m EXCEPT !.size = @ + 1, !.slots = slots]
  <1>1. /\ BkTyped(m) /\ BkHolds(m, l) /\ BkStopped(m) /\ BkTells(m) /\ m.size \in Nat
        /\ \A i, j \in 1..Len(l) : l[i] = l[j] => i = j
        /\ \A d \in m.made : \E j \in 1..Len(l) : l[j] = d
        /\ m.stops \in [BkCalls -> Nat] /\ m.made \subseteq BkCalls
        /\ m.i # 0 => m.i <= m.end /\ m.end <= Len(m.slots)
        /\ m.end \in Nat /\ m.told \in Seq(BkCalls) /\ Len(m.slots) \in Nat
    BY DEF BkInv, BkTyped
  <1>2. /\ slots \in Seq(BkCalls) /\ m.size + 1 <= Len(slots) /\ slots[m.size + 1] = c
        /\ \A j \in 1..m.size : slots[j] = m.slots[j]
        /\ Len(m.slots) <= Len(slots)
    <2>1. BkLonger(m, c, slots)  BY <1>1, BkSlots
    <2> HIDE DEF slots
    <2> QED BY <2>1 DEF BkLonger
  <1>3. n = [reg EXCEPT !.made = @ \cup {c}, !.stops[c] = 0]  BY DEF CallBack, Register, BkComing
  <1> HIDE DEF slots
  <1>4. /\ DOMAIN reg = DOMAIN m /\ reg.slots = slots /\ reg.size = m.size + 1
        /\ reg.i = m.i /\ reg.end = m.end /\ reg.told = m.told
        /\ reg.made = m.made /\ reg.stops = m.stops
        /\ reg.alive = m.alive /\ reg.faulted = m.faulted /\ reg.meddled = m.meddled
    BY <1>1 DEF BkTyped, BkFieldNames
  <1> HIDE DEF reg
  <1>6. /\ DOMAIN n = DOMAIN m /\ n.slots = slots /\ n.size = m.size + 1
        /\ n.i = m.i /\ n.end = m.end /\ n.told = m.told
        /\ n.made = m.made \cup {c} /\ n.stops = [m.stops EXCEPT ![c] = 0]
        /\ n.alive = m.alive /\ n.faulted = m.faulted /\ n.meddled = m.meddled
    BY <1>1, <1>3, <1>4 DEF BkTyped, BkFieldNames
  <1>7. BkTyped(n)
    <2>1. n.made \subseteq BkCalls  BY <1>1, <1>6
    <2>2. n.stops \in [BkCalls -> Nat]
      <3>1. n.stops = [m.stops EXCEPT ![c] = 0]  BY <1>6
      <3>2. m.stops \in [BkCalls -> Nat]  BY <1>1
      <3> HIDE <1>1, <1>2, <1>3, <1>4, <1>6
      <3> QED BY <3>1, <3>2
    <2>4. n.size \in Nat /\ n.size <= Len(n.slots)  BY <1>1, <1>2, <1>6
    <2> QED BY <1>1, <1>2, <1>6, <2>1, <2>2, <2>4 DEF BkTyped
  <1>8. l \in Seq(m.made) /\ Len(l) = m.size /\ \A j \in 1..m.size : l[j] = m.slots[j]
    BY <1>1 DEF BkHolds
  <1>9. /\ r \in Seq(n.made) /\ Len(r) = m.size + 1 /\ r[m.size + 1] = c
        /\ \A j \in 1..m.size : r[j] = l[j] /\ l[j] \in m.made
    <2>1. l \in Seq(n.made) /\ c \in n.made  BY <1>6, <1>8
    <2> QED BY <2>1, <1>8
  <1>10. \A j \in 1 .. m.size + 1 : j \in 1..m.size \/ j = m.size + 1  BY <1>1
  <1>11. BkHolds(n, r)  BY <1>2, <1>6, <1>8, <1>9, <1>10 DEF BkHolds
  <1>12. ASSUME NEW i \in 1..Len(r), NEW j \in 1..Len(r), r[i] = r[j] PROVE i = j
    <2>1. i \in 1..m.size \/ i = m.size + 1  BY <1>9, <1>10
    <2>2. j \in 1..m.size \/ j = m.size + 1  BY <1>9, <1>10
    <2>3. \A h \in 1..m.size : r[h] # c  BY <1>9
    <2> QED BY <1>1, <1>8, <1>9, <1>12, <2>1, <2>2, <2>3
  <1>13. ASSUME NEW d \in n.made PROVE \E j \in 1..Len(r) : r[j] = d
    <2>1. CASE d = c
      <3>1. m.size + 1 \in 1..Len(r)  BY <1>1, <1>9
      <3> QED BY <2>1, <3>1, <1>9
    <2>2. CASE d \in m.made
      <3>1. PICK j \in 1..m.size : l[j] = d  BY <2>2, <1>1, <1>8
      <3>2. j \in 1..Len(r)  BY <1>1, <1>9
      <3> QED BY <3>1, <3>2, <1>9
    <2> QED BY <2>1, <2>2, <1>6
  <1>14. BkStopped(n)
    <2> SUFFICES ASSUME NEW d \in BkCalls
                 PROVE  n.stops[d] <= IF d \in n.made /\ n.alive THEN 0 ELSE 1
      BY DEF BkStopped
    <2>1. CASE d = c  BY <2>1, <1>1, <1>6
    <2>2. CASE d # c
      <3>1. n.stops[d] = m.stops[d] /\ (d \in n.made) = (d \in m.made)
        BY <2>2, <1>1, <1>6
      <3> QED BY <3>1, <1>1, <1>6 DEF BkStopped
    <2> QED BY <2>1, <2>2
  <1>15. BkTells(n)
    <2> SUFFICES ASSUME ~m.meddled, m.i # 0 \/ m.told # <<>>
                 PROVE  /\ m.end <= m.size + 1 /\ Len(m.told) = IF m.i = 0 THEN m.end ELSE m.i - 1
                        /\ \A j \in 1..Len(m.told) : m.told[j] = slots[j]
      BY <1>6 DEF BkTells
    <2>1. /\ m.end <= m.size /\ Len(m.told) = IF m.i = 0 THEN m.end ELSE m.i - 1
          /\ \A j \in 1..Len(m.told) : m.told[j] = m.slots[j]
      BY <1>1 DEF BkTells
    <2>2. m.i \in Nat  BY <1>1 DEF BkTyped
    <2>3. Len(m.told) <= m.size /\ Len(m.told) \in Nat  BY <1>1, <2>1, <2>2
    <2> QED BY <1>1, <1>2, <2>1, <2>3
  <1>16. n.i # 0 => n.alive /\ n.i <= n.end /\ n.end <= Len(n.slots)
    <2>1. Len(slots) \in Nat  BY <1>2
    <2> QED BY <1>1, <1>2, <1>6, <2>1
  <1>17. BkInv(n, r)  BY <1>7, <1>11, <1>12, <1>13, <1>14, <1>15, <1>16 DEF BkInv
  <1> QED BY <1>6, <1>17

LEMMA BkNotify ==
    ASSUME BkInv(store, log), ~store.faulted, Notify
    PROVE  BkInv(store', log')
  <1> DEFINE c == store.slots[store.i]
             told == BkTold(store)
  <1>1. /\ store.i # 0
        /\ \/ store' = [store EXCEPT !.faulted = TRUE] /\ log' = log
           \/ store' = told /\ log' = log
           \/ \E d \in store.made : /\ store' = [DestroyCallBack(told, d) EXCEPT !.meddled = TRUE]
                                    /\ log' = BkLeaves(d)
           \/ \E d \in BkCalls \ store.made :
                 /\ store' = CallBack(told, d) \/ store' = [CallBack(told, d) EXCEPT !.faulted = TRUE]
                 /\ log' = Append(log, d)
    BY DEF Notify, BkIdle, BkTold
  <1>2. /\ BkTyped(store) /\ store.alive /\ store.i <= store.end /\ store.end <= Len(store.slots)
        /\ \A i, j \in 1..Len(log) : log[i] = log[j] => i = j
        /\ \A d \in store.made : \E j \in 1..Len(log) : log[j] = d
        /\ BkHolds(store, log) /\ BkStopped(store)
        /\ BkTells(store)
    BY <1>1 DEF BkInv
  <1>3. /\ BkTyped(told) /\ told.slots = store.slots /\ told.size = store.size /\ told.end = store.end
        /\ told.told = Append(store.told, store.slots[store.i])
        /\ told.i = IF store.i = store.end THEN 0 ELSE store.i + 1
        /\ told.made = store.made /\ told.stops = store.stops /\ told.alive = store.alive
        /\ told.faulted = store.faulted /\ told.meddled = store.meddled
    BY <1>1, <1>2, BkToldFields
  <1> HIDE DEF told
  <1>4. /\ store.i \in Nat /\ store.end \in Nat /\ store.size \in Nat /\ store.slots \in Seq(BkCalls)
        /\ store.told \in Seq(BkCalls) /\ store.made \subseteq BkCalls
    BY <1>2 DEF BkTyped
  <1>5. told.i # 0 => told.alive /\ told.i <= told.end /\ told.end <= Len(told.slots)
    BY <1>2, <1>3, <1>4
  <1>6. BkTells(told)
    <2> SUFFICES ASSUME ~store.meddled
                 PROVE  /\ store.end <= store.size
                        /\ Len(told.told) = IF told.i = 0 THEN store.end ELSE told.i - 1
                        /\ \A j \in 1..Len(told.told) : told.told[j] = store.slots[j]
      BY <1>3 DEF BkTells
    <2>1. /\ store.end <= store.size /\ Len(store.told) = store.i - 1
          /\ \A j \in 1..Len(store.told) : store.told[j] = store.slots[j]
      BY <1>1, <1>2 DEF BkTells
    <2>2. /\ Len(told.told) = Len(store.told) + 1
          /\ \A j \in 1..Len(store.told) : told.told[j] = store.told[j]
          /\ told.told[Len(store.told) + 1] = store.slots[store.i]
      BY <1>3, <1>4
    <2>3. Len(store.told) + 1 = store.i /\ Len(told.told) = store.i  BY <1>4, <2>1, <2>2
    <2>4. \A j \in 1..store.i : j \in 1..Len(store.told) \/ j = store.i  BY <1>4, <2>3
    <2>5. Len(told.told) = IF told.i = 0 THEN store.end ELSE told.i - 1  BY <1>1, <1>3, <1>4, <2>3
    <2> QED BY <2>1, <2>2, <2>3, <2>4, <2>5
  <1>8. BkHolds(told, log) /\ BkStopped(told)  BY <1>2, <1>3 DEF BkHolds, BkStopped
  <1>10. BkInv(told, log)  BY <1>2, <1>3, <1>5, <1>6, <1>8 DEF BkInv
  <1>11. CASE store' = [store EXCEPT !.faulted = TRUE] /\ log' = log
    <2>1. /\ DOMAIN store' = DOMAIN store /\ store'.slots = store.slots /\ store'.size = store.size
          /\ store'.i = store.i /\ store'.end = store.end /\ store'.told = store.told
          /\ store'.made = store.made /\ store'.stops = store.stops
          /\ store'.alive = store.alive /\ store'.meddled = store.meddled /\ store'.faulted = TRUE
      BY <1>2, <1>11 DEF BkTyped, BkFieldNames
    <2>2. store'.faulted \in BOOLEAN  BY <2>1
    <2>3. BkTyped(store')  BY <1>2, <2>1, <2>2 DEF BkTyped
    <2> QED BY <2>1, <2>3 DEF BkInv
  <1>12. CASE store' = told /\ log' = log  BY <1>10, <1>12
  <1>13. CASE \E d \in store.made : /\ store' = [DestroyCallBack(told, d) EXCEPT !.meddled = TRUE]
                                    /\ log' = BkLeaves(d)
    <2>1. PICK d \in told.made : /\ store' = [DestroyCallBack(told, d) EXCEPT !.meddled = TRUE]
                                 /\ log' = BkLeaves(d)
      BY <1>3, <1>13
    <2> DEFINE n == DestroyCallBack(told, d)
               r == BkLeaves(d)
    <2>2. /\ BkTyped(n) /\ n.i = told.i /\ n.end = told.end /\ n.told = told.told /\ n.alive
          /\ n.faulted = told.faulted /\ n.meddled = told.meddled /\ Len(n.slots) = Len(told.slots)
          /\ \A i, j \in 1..Len(r) : r[i] = r[j] => i = j
          /\ \A e \in n.made : \E j \in 1..Len(r) : r[j] = e
          /\ BkHolds(n, r) /\ BkStopped(n)
      <3>1. ~told.faulted /\ told.alive  BY <1>2, <1>3
      <3> QED BY <1>10, <3>1, BkLess
    <2>3. log' = r /\ store' = [n EXCEPT !.meddled = TRUE]  BY <2>1
    <2> HIDE DEF n, r
    <2>4. /\ DOMAIN store' = DOMAIN n /\ store'.slots = n.slots /\ store'.size = n.size
          /\ store'.i = n.i /\ store'.end = n.end /\ store'.told = n.told
          /\ store'.made = n.made /\ store'.stops = n.stops
          /\ store'.alive = n.alive /\ store'.faulted = n.faulted /\ store'.meddled = TRUE
      BY <2>2, <2>3 DEF BkTyped, BkFieldNames
    <2>5. store'.meddled \in BOOLEAN  BY <2>4
    <2>6. BkTyped(store')  BY <2>2, <2>4, <2>5 DEF BkTyped
    <2>7. BkHolds(store', log') /\ BkStopped(store')
      BY <2>2, <2>3, <2>4 DEF BkHolds, BkStopped
    <2>8. store'.i # 0 => store'.alive /\ store'.i <= store'.end /\ store'.end <= Len(store'.slots)
      BY <1>5, <2>2, <2>4
    <2>9. /\ \A i, j \in 1..Len(log') : log'[i] = log'[j] => i = j
          /\ \A e \in store'.made : \E j \in 1..Len(log') : log'[j] = e
      BY <2>2, <2>3, <2>4
    <2>10. BkTells(store')  BY <2>4 DEF BkTells
    <2> QED BY <2>4, <2>6, <2>7, <2>8, <2>9, <2>10 DEF BkInv
  <1>14. CASE \E d \in BkCalls \ store.made :
                 /\ store' = CallBack(told, d) \/ store' = [CallBack(told, d) EXCEPT !.faulted = TRUE]
                 /\ log' = Append(log, d)
    <2>1. PICK d \in BkCalls \ told.made :
                 /\ store' = CallBack(told, d) \/ store' = [CallBack(told, d) EXCEPT !.faulted = TRUE]
                 /\ log' = Append(log, d)
      BY <1>3, <1>14
    <2> DEFINE n == CallBack(told, d)
               r == Append(log, d)
    <2>2. BkInv(n, r)
      <3>1. ~told.faulted /\ told.alive  BY <1>2, <1>3
      <3> QED BY <1>10, <3>1, BkMore
    <2>3. log' = r /\ (store' = n \/ store' = [n EXCEPT !.faulted = TRUE])  BY <2>1
    <2> HIDE DEF n, r
    <2>4. CASE store' = n  BY <2>2, <2>3, <2>4
    <2>5. CASE store' = [n EXCEPT !.faulted = TRUE]
      <3>1. BkTyped(n)  BY <2>2 DEF BkInv
      <3>2. /\ DOMAIN store' = DOMAIN n /\ store'.slots = n.slots /\ store'.size = n.size
            /\ store'.i = n.i /\ store'.end = n.end /\ store'.told = n.told
            /\ store'.made = n.made /\ store'.stops = n.stops
            /\ store'.alive = n.alive /\ store'.meddled = n.meddled /\ store'.faulted = TRUE
        BY <2>5, <3>1 DEF BkTyped, BkFieldNames
      <3>3. store'.faulted \in BOOLEAN  BY <3>2
      <3>4. BkTyped(store')  BY <3>1, <3>2, <3>3 DEF BkTyped
      <3> QED BY <3>2, <3>4 DEF BkInv
    <2> QED BY <2>3, <2>4, <2>5
  <1> QED BY <1>1, <1>11, <1>12, <1>13, <1>14

\* A new object registers between two notifications.
LEMMA BkComes ==
    ASSUME BkInv(store, log), ~store.faulted, store.i = 0, store.alive,
           NEW c \in BkCalls \ store.made,
           store' = [CallBack(store, c) EXCEPT !.told = <<>>], log' = Append(log, c)
    PROVE  BkInv(store', log')
  <1> DEFINE n == CallBack(store, c)
             r == Append(log, c)
  <1>1. /\ BkTyped(n) /\ n.i = store.i /\ n.alive /\ ~n.faulted
        /\ \A i, j \in 1..Len(r) : r[i] = r[j] => i = j
        /\ \A e \in n.made : \E j \in 1..Len(r) : r[j] = e
        /\ BkHolds(n, r) /\ BkStopped(n)
    <2>1. n = CallBack(store, c) /\ r = Append(log, c)  OBVIOUS
    <2> HIDE DEF n, r
    <2>2. BkInv(n, r) /\ n.i = store.i /\ n.alive /\ ~n.faulted  BY <2>1, BkMore
    <2> QED BY <2>2 DEF BkInv
  <1>2. log' = r /\ store' = [n EXCEPT !.told = <<>>]  OBVIOUS
  <1> HIDE DEF n, r
  <1>3. /\ DOMAIN store' = DOMAIN n /\ store'.slots = n.slots /\ store'.size = n.size
        /\ store'.i = n.i /\ store'.end = n.end /\ store'.told = <<>>
        /\ store'.made = n.made /\ store'.stops = n.stops
        /\ store'.alive = n.alive /\ store'.faulted = n.faulted /\ store'.meddled = n.meddled
    BY <1>1, <1>2 DEF BkTyped, BkFieldNames
  <1>4. store'.told \in Seq(BkCalls)  BY <1>3
  <1>5. BkTyped(store')  BY <1>1, <1>3, <1>4 DEF BkTyped
  <1>6. BkHolds(store', log')  BY <1>1, <1>2, <1>3 DEF BkHolds
  <1>7. BkStopped(store')
    <2>1. /\ store'.stops = n.stops /\ store'.made = n.made /\ store'.alive = n.alive
          /\ BkStopped(n)
      BY <1>1, <1>3
    <2> QED BY ONLY <2>1 DEF BkStopped
  <1>8. /\ \A i, j \in 1..Len(log') : log'[i] = log'[j] => i = j
        /\ \A e \in store'.made : \E j \in 1..Len(log') : log'[j] = e
    BY <1>1, <1>2, <1>3
  <1>9. BkTells(store')  BY <1>1, <1>3 DEF BkTells
  <1> QED BY <1>1, <1>3, <1>5, <1>6, <1>7, <1>8, <1>9 DEF BkInv

\* An object goes between two notifications; after its dispatcher, it faults.
LEMMA BkFaults ==
    ASSUME NEW m, BkTyped(m), ~m.alive, NEW c \in BkCalls, NEW n,
           n = [DestroyCallBack(m, c) EXCEPT !.told = <<>>]
    PROVE  BkTyped(n) /\ n.faulted
  <1> DEFINE stops == [d \in BkCalls |-> IF d \in {c} THEN m.stops[d] + 1 ELSE m.stops[d]]
             st == [m EXCEPT !.stops = stops]
             gone == [st EXCEPT !.made = @ \ {c}]
             f == [gone EXCEPT !.faulted = TRUE]
  <1>1. gone.alive = m.alive  BY DEF BkTyped, BkFieldNames
  <1>2. DestroyCallBack(m, c) = f  BY <1>1 DEF DestroyCallBack, BkStops
  <1>3. n = [f EXCEPT !.told = <<>>]  BY <1>2
  <1>4. stops \in [BkCalls -> Nat]  BY DEF BkTyped
  <1> HIDE DEF stops
  <1>5. /\ DOMAIN st = DOMAIN m /\ st.slots = m.slots /\ st.size = m.size /\ st.i = m.i
        /\ st.end = m.end /\ st.meddled = m.meddled
        /\ st.alive = m.alive /\ st.made = m.made /\ st.stops = stops
    BY DEF BkTyped, BkFieldNames
  <1> HIDE DEF st
  <1>6. /\ DOMAIN gone = DOMAIN m /\ gone.slots = m.slots /\ gone.size = m.size /\ gone.i = m.i
        /\ gone.end = m.end /\ gone.meddled = m.meddled
        /\ gone.alive = m.alive /\ gone.made = m.made \ {c} /\ gone.stops = stops
    BY <1>5 DEF BkTyped, BkFieldNames
  <1> HIDE DEF gone
  <1>7. /\ DOMAIN f = DOMAIN m /\ f.slots = m.slots /\ f.size = m.size /\ f.i = m.i
        /\ f.end = m.end /\ f.meddled = m.meddled
        /\ f.alive = m.alive /\ f.faulted = TRUE /\ f.made = m.made \ {c} /\ f.stops = stops
    BY <1>6 DEF BkTyped, BkFieldNames
  <1> HIDE DEF f
  <1>8. /\ DOMAIN n = DOMAIN m /\ n.slots = m.slots /\ n.size = m.size /\ n.i = m.i
        /\ n.end = m.end /\ n.meddled = m.meddled /\ n.told = <<>>
        /\ n.alive = m.alive /\ n.faulted = TRUE /\ n.made = m.made \ {c} /\ n.stops = stops
    BY <1>3, <1>7 DEF BkTyped, BkFieldNames
  <1>9. n.made \subseteq BkCalls /\ n.told \in Seq(BkCalls)  BY <1>8 DEF BkTyped
  <1>10. n.faulted \in BOOLEAN /\ n.faulted  BY <1>8
  <1>11. BkTyped(n)  BY <1>4, <1>8, <1>9, <1>10 DEF BkTyped
  <1> QED BY <1>10, <1>11

LEMMA BkLeavesIdle ==
    ASSUME BkInv(store, log), ~store.faulted, store.i = 0, NEW c \in store.made,
           store' = [DestroyCallBack(store, c) EXCEPT !.told = <<>>], log' = BkLeaves(c)
    PROVE  BkInv(store', log')
  <1>1. CASE store.alive
    <2> DEFINE n == DestroyCallBack(store, c)
               r == BkLeaves(c)
    <2>2. /\ BkTyped(n) /\ n.i = store.i /\ n.end = store.end /\ n.told = store.told /\ n.alive
          /\ n.faulted = store.faulted /\ n.meddled = store.meddled /\ Len(n.slots) = Len(store.slots)
          /\ \A i, j \in 1..Len(r) : r[i] = r[j] => i = j
          /\ \A e \in n.made : \E j \in 1..Len(r) : r[j] = e
          /\ BkHolds(n, r) /\ BkStopped(n)
      BY <1>1, BkLess
    <2>3. log' = r /\ store' = [n EXCEPT !.told = <<>>]  OBVIOUS
    <2> HIDE DEF n, r
    <2>4. /\ DOMAIN store' = DOMAIN n /\ store'.slots = n.slots /\ store'.size = n.size
          /\ store'.i = n.i /\ store'.end = n.end /\ store'.told = <<>>
          /\ store'.made = n.made /\ store'.stops = n.stops
          /\ store'.alive = n.alive /\ store'.faulted = n.faulted /\ store'.meddled = n.meddled
      BY <2>2, <2>3 DEF BkTyped, BkFieldNames
    <2>5. store'.told \in Seq(BkCalls)  BY <2>4
    <2>6. BkTyped(store')  BY <2>2, <2>4, <2>5 DEF BkTyped
    <2>7. BkHolds(store', log') /\ BkStopped(store')
      <3>1. BkHolds(store', log')  BY <2>2, <2>3, <2>4 DEF BkHolds
      <3>2. BkStopped(store')
        <4>1. /\ store'.stops = n.stops /\ store'.made = n.made /\ store'.alive = n.alive
              /\ BkStopped(n)
          BY <2>2, <2>4
        <4> QED BY ONLY <4>1 DEF BkStopped
      <3> QED BY <3>1, <3>2
    <2>9. /\ \A i, j \in 1..Len(log') : log'[i] = log'[j] => i = j
          /\ \A e \in store'.made : \E j \in 1..Len(log') : log'[j] = e
      BY <2>2, <2>3, <2>4
    <2>10. BkTells(store')  BY <2>2, <2>4 DEF BkTells
    <2> QED BY <2>2, <2>4, <2>6, <2>7, <2>9, <2>10 DEF BkInv
  <1>2. CASE ~store.alive
    <2>1. BkTyped(store) /\ c \in BkCalls  BY DEF BkInv, BkTyped
    <2>2. BkTyped(store') /\ store'.faulted  BY <1>2, <2>1, BkFaults
    <2> QED BY <2>2 DEF BkInv
  <1> QED BY <1>1, <1>2

\* The dispatcher goes, and tells those who are registered.
LEMMA BkDispatcherGoes ==
    ASSUME BkInv(store, log), ~store.faulted, store.i = 0, store.alive,
           store' = DestroyDispatcher(store), log' = log
    PROVE  BkInv(store', log')
  <1> DEFINE S == ToSet(Subscribers(store))
             stops == [d \in BkCalls |-> IF d \in S THEN store.stops[d] + 1 ELSE store.stops[d]]
             st == [store EXCEPT !.stops = stops]
  <1>1. /\ BkTyped(store) /\ BkHolds(store, log) /\ BkStopped(store)
        /\ \A i, j \in 1..Len(log) : log[i] = log[j] => i = j
        /\ \A d \in store.made : \E j \in 1..Len(log) : log[j] = d
        /\ store.stops \in [BkCalls -> Nat]
        /\ BkTells(store)
    BY DEF BkInv, BkTyped
  <1>2. S = store.made
    <2>1. /\ log \in Seq(store.made) /\ Len(log) = store.size
          /\ \A j \in 1..store.size : log[j] = store.slots[j]
      BY <1>1 DEF BkHolds
    <2>2. /\ DOMAIN Subscribers(store) = 1..store.size
          /\ \A j \in 1..store.size : Subscribers(store)[j] = store.slots[j]
      BY <1>1, SubscribersAre
    <2>3. \A j \in 1..store.size : Subscribers(store)[j] = log[j] /\ log[j] \in store.made
      BY <2>1, <2>2
    <2>4. S = {Subscribers(store)[j] : j \in 1..store.size}  BY <2>2 DEF ToSet
    <2>5. \A d \in S : d \in store.made  BY <2>3, <2>4
    <2>6. \A d \in store.made : d \in S
      <3> SUFFICES ASSUME NEW d \in store.made PROVE \E j \in 1..store.size : d = Subscribers(store)[j]
        BY <2>4
      <3>1. PICK j \in 1..Len(log) : log[j] = d  BY <1>1
      <3> QED BY <3>1, <2>1, <2>3
    <2> QED BY <2>5, <2>6
  <1>3. stops \in [BkCalls -> Nat] /\ \A d \in BkCalls : stops[d] = IF d \in store.made THEN store.stops[d] + 1 ELSE store.stops[d]
    BY <1>1, <1>2
  <1>4. store' = [st EXCEPT !.alive = FALSE]  BY DEF DestroyDispatcher, BkStops
  <1> HIDE DEF S, stops
  <1>5. /\ DOMAIN st = DOMAIN store /\ st.slots = store.slots /\ st.size = store.size /\ st.i = store.i
        /\ st.end = store.end /\ st.meddled = store.meddled /\ st.told = store.told
        /\ st.faulted = store.faulted /\ st.made = store.made /\ st.stops = stops
    BY <1>1 DEF BkTyped, BkFieldNames
  <1> HIDE DEF st
  <1>6. /\ DOMAIN store' = DOMAIN store /\ store'.slots = store.slots /\ store'.size = store.size
        /\ store'.i = store.i /\ store'.end = store.end /\ store'.meddled = store.meddled
        /\ store'.told = store.told /\ store'.faulted = store.faulted /\ store'.made = store.made
        /\ store'.stops = stops /\ store'.alive = FALSE
    BY <1>1, <1>4, <1>5 DEF BkTyped, BkFieldNames
  <1>7. store'.alive \in BOOLEAN  BY <1>6
  <1>8. BkTyped(store')  BY <1>1, <1>3, <1>6, <1>7 DEF BkTyped
  <1>9. BkHolds(store', log')  BY <1>1, <1>6 DEF BkHolds
  <1>10. BkStopped(store')
    <2> SUFFICES ASSUME NEW d \in BkCalls PROVE stops[d] <= 1
      BY <1>6 DEF BkStopped
    <2>1. store.stops[d] \in Nat /\ store.stops[d] <= IF d \in store.made THEN 0 ELSE 1
      BY <1>1 DEF BkStopped
    <2> QED BY <2>1, <1>3
  <1>11. BkTells(store')  BY <1>1, <1>6 DEF BkTells
  <1> QED BY <1>1, <1>6, <1>8, <1>9, <1>10, <1>11 DEF BkInv

LEMMA BkInvNext ==
    ASSUME BkInv(store, log), BkNext PROVE BkInv(store', log')
  <1>0. ~store.faulted  BY DEF BkNext
  <1>1. CASE store.alive /\ NotifyAll  BY <1>0, <1>1, BkNotifyAll
  <1>2. CASE Notify  BY <1>0, <1>2, BkNotify
  <1>3. CASE /\ BkIdle /\ store.alive
             /\ \E c \in BkCalls \ store.made :
                   /\ store' = [CallBack(store, c) EXCEPT !.told = <<>>]
                   /\ log' = Append(log, c)
    BY <1>0, <1>3, BkComes DEF BkIdle
  <1>4. CASE /\ BkIdle
             /\ \E c \in store.made :
                   /\ store' = [DestroyCallBack(store, c) EXCEPT !.told = <<>>]
                   /\ log' = BkLeaves(c)
    BY <1>0, <1>4, BkLeavesIdle DEF BkIdle
  <1>5. CASE BkIdle /\ store.alive /\ store' = DestroyDispatcher(store) /\ UNCHANGED log
    BY <1>0, <1>5, BkDispatcherGoes DEF BkIdle
  <1> QED BY <1>1, <1>2, <1>3, <1>4, <1>5 DEF BkNext

LEMMA BkInvTells ==
    ASSUME BkInv(store, log) PROVE BrokerTellsAll
  <1> SUFFICES ASSUME ~store.faulted
               PROVE  /\ store.alive => Subscribers(store) = log /\ ToSet(log) = store.made
                      /\ BkIdle /\ store.told # <<>> /\ ~store.meddled =>
                            store.told = SubSeq(log, 1, store.end)
                      /\ \A c \in BkCalls :
                            store.stops[c] <= IF c \in store.made /\ store.alive THEN 0 ELSE 1
    BY DEF BrokerTellsAll
  <1>1. /\ BkTyped(store) /\ BkHolds(store, log) /\ BkStopped(store) /\ store.made \subseteq BkCalls
        /\ \A d \in store.made : \E j \in 1..Len(log) : log[j] = d
    BY DEF BkInv, BkTyped
  <1>2. /\ log \in Seq(store.made) /\ Len(log) = store.size
        /\ \A j \in 1..store.size : log[j] = store.slots[j]
    BY <1>1 DEF BkHolds
  <1>3. Subscribers(store) = log
    <2>1. /\ Subscribers(store) \in Seq(BkCalls) /\ Len(Subscribers(store)) = store.size
          /\ \A j \in 1..store.size : Subscribers(store)[j] = store.slots[j]
      BY <1>1, SubscribersAre
    <2>2. log \in Seq(BkCalls)  BY <1>1, <1>2
    <2> QED BY <1>2, <2>1, <2>2, SameSeq
  <1>4. ToSet(log) = store.made  BY <1>1, <1>2 DEF ToSet
  <1>5. ASSUME BkIdle, store.told # <<>>, ~store.meddled
        PROVE  store.told = SubSeq(log, 1, store.end)
    <2>1. /\ store.end <= store.size /\ Len(store.told) = store.end
          /\ \A j \in 1..Len(store.told) : store.told[j] = store.slots[j]
      BY <1>5 DEF BkInv, BkTells, BkIdle
    <2>2. store.end \in Nat /\ store.size \in Nat /\ store.told \in Seq(BkCalls)
      BY <1>1 DEF BkTyped
    <2>3. log \in Seq(BkCalls)  BY <1>1, <1>2
    <2> DEFINE q == SubSeq(log, 1, store.end)
    <2>4. q \in Seq(BkCalls) /\ Len(q) = store.end /\ \A j \in 1..store.end : q[j] = log[j]
      BY <1>2, <2>1, <2>2, <2>3
    <2>5. \A j \in 1..store.end : store.told[j] = log[j]  BY <1>2, <2>1, <2>2
    <2> HIDE DEF q
    <2>6. store.told = q  BY <2>1, <2>2, <2>4, <2>5, SameSeq
    <2> QED BY <2>6 DEF q
  <1> QED BY <1>1, <1>3, <1>4, <1>5 DEF BkStopped

-----------------------------------------------------------------------------
\* The engine: what was configured is what it makes tasks with.
EnFieldNames == {"m_operations", "m_req_srcs_map", "watched", "epoll", "pipe", "closed",
                 "m_flag_for_loop", "task", "reader", "state"}

EnTyped(m, l) ==
    /\ DOMAIN m = EnFieldNames /\ DOMAIN l = {"last", "from", "key"}
    /\ l.last \in [EnKeys -> Creators \cup {NoCreator}]
    /\ m.m_operations = l.last /\ m.watched \subseteq EnSources
    /\ m.task \in {"none", "nullptr", "NBDTask", "StinTask"}
    /\ l.key \in EnKeys \cup {"none"}

EnClosed(m) == IF m.state \in {"left", "stuck", "destroyed"} THEN 1
               ELSE IF m.state = "unpolled" /\ m.task = "StinTask" THEN 1 ELSE 0

EnInv(m, l) ==
    /\ EnTyped(m, l)
    /\ m.state = "configured" => m.task = "none" /\ l.key = "none" /\ m.m_flag_for_loop = TRUE
    /\ m.state = "left" => m.m_flag_for_loop = FALSE
    /\ l.key = "none" => m.task = "none" /\ m.state # "unmade"
    /\ m.task # "none" /\ m.state # "unmade" => m.task = CreateTask(l.last[l.key], l.from)
    /\ m.task = "NBDTask" => m.reader[1] = "nbd"
    /\ m.task = "StinTask" => m.reader[1] # "nbd"
    /\ l.key # "none" => (m.state = "unmade") = (l.last[l.key] = NoCreator)
    /\ m.closed = EnClosed(m)

\* The fields that only some of the calls change.
EnSame(m, n) == /\ DOMAIN n = DOMAIN m /\ n.m_operations = m.m_operations
                /\ n.task = m.task /\ n.reader = m.reader
                /\ m.watched \subseteq EnSources => n.watched \subseteq EnSources
EnState(m, n) == n.state = m.state /\ n.closed = m.closed /\ n.m_flag_for_loop = m.m_flag_for_loop

LEMMA EnInvInit ==
    ASSUME EnInit PROVE EnInv(store, log)
  <1> DEFINE z == [k \in EnKeys |-> NoCreator]
             y == [s \in EnSources |-> 0]
  <1>1. PICK fd, piped \in BOOLEAN :
           store = [m_operations |-> z, m_req_srcs_map |-> y, watched |-> {},
                    epoll |-> fd, pipe |-> piped, closed |-> 0, m_flag_for_loop |-> TRUE,
                    task |-> "none", reader |-> <<>>, state |-> "configured"]
    BY DEF EnInit
  <1>2. log = [last |-> z, from |-> "none", key |-> "none"]  BY DEF EnInit
  <1>3. z \in [EnKeys -> Creators \cup {NoCreator}]  OBVIOUS
  <1> HIDE DEF z, y
  <1>4. /\ DOMAIN store = EnFieldNames /\ store.watched = {} /\ store.m_operations = z /\ store.closed = 0
        /\ store.m_flag_for_loop = TRUE /\ store.task = "none" /\ store.state = "configured"
    BY <1>1 DEF EnFieldNames
  <1>5. DOMAIN log = {"last", "from", "key"} /\ log.last = z /\ log.key = "none"  BY <1>2
  <1>6. EnTyped(store, log)  BY <1>3, <1>4, <1>5 DEF EnTyped
  <1> QED BY <1>4, <1>5, <1>6 DEF EnInv, EnClosed

LEMMA EnConfigTask ==
    ASSUME EnInv(store, log), store.state = "configured",
           NEW key \in EnKeys, NEW creator \in Creators,
           store' = ConfigTask(store, key, creator), log' = [log EXCEPT !.last[key] = creator]
    PROVE  EnInv(store', log')
  <1> DEFINE f == [store.m_operations EXCEPT ![key] = creator]
  <1>1. EnTyped(store, log)  BY DEF EnInv
  <1>2. f \in [EnKeys -> Creators \cup {NoCreator}]  BY <1>1 DEF EnTyped
  <1>3. store' = [store EXCEPT !.m_operations = f] /\ log' = [log EXCEPT !.last = f]
    BY <1>1 DEF ConfigTask, FactoryAdd, EnTyped, EnFieldNames
  <1> HIDE DEF f
  <1>4. /\ DOMAIN store' = DOMAIN store /\ store'.m_operations = f /\ store'.closed = store.closed
        /\ store'.m_flag_for_loop = store.m_flag_for_loop /\ store'.task = store.task
        /\ store'.watched = store.watched
        /\ store'.state = store.state
    BY <1>1, <1>3 DEF EnTyped, EnFieldNames
  <1>5. DOMAIN log' = {"last", "from", "key"} /\ log'.last = f /\ log'.key = log.key
    BY <1>1, <1>3 DEF EnTyped
  <1>6. EnTyped(store', log')  BY <1>1, <1>2, <1>4, <1>5 DEF EnTyped
  <1>7. store.task = "none" /\ log.key = "none" /\ store.closed = 0 /\ store.m_flag_for_loop = TRUE
    BY DEF EnInv, EnClosed
  <1> QED BY <1>4, <1>5, <1>6, <1>7 DEF EnInv, EnClosed

LEMMA EnSourceFields ==
    ASSUME NEW m, DOMAIN m = EnFieldNames, NEW s \in EnSources, NEW n, n = ConfigInputSrc(m, s)
    PROVE  EnSame(m, n) /\ EnState(m, n)
  <1> DEFINE f == [m.m_req_srcs_map EXCEPT ![s] = @ + 1]
             c == [m EXCEPT !.m_req_srcs_map = f]
  <1>1. n = IF c.epoll THEN [c EXCEPT !.watched = @ \cup {s}] ELSE c
    <2>1. c = [m EXCEPT !.m_req_srcs_map[s] = @ + 1]  BY DEF EnFieldNames
    <2> HIDE DEF c
    <2> QED BY <2>1 DEF ConfigInputSrc, AddFdToEpollWatchList
  <1> HIDE DEF f
  <1>2. EnSame(m, c) /\ EnState(m, c) /\ DOMAIN c = EnFieldNames  BY DEF EnSame, EnState, EnFieldNames
  <1> HIDE DEF c
  <1> QED BY <1>1, <1>2 DEF EnSame, EnState, EnFieldNames

LEMMA EnStopFields ==
    ASSUME NEW m, DOMAIN m = EnFieldNames, NEW n, n = StopEngine(m)
    PROVE  /\ EnSame(m, n) /\ n.state = m.state /\ n.closed = m.closed + 1
           /\ n.m_flag_for_loop = m.m_flag_for_loop
  BY DEF EnSame, EnFieldNames, StopEngine

\* A step that neither makes a task nor configures one.
LEMMA EnStays ==
    ASSUME NEW m, NEW l, EnInv(m, l), NEW n, EnSame(m, n),
           m.state # "unmade", n.state # "unmade", n.closed = EnClosed(n),
           n.state = "configured" => m.state = "configured" /\ n.m_flag_for_loop = TRUE,
           n.state = "left" => n.m_flag_for_loop = FALSE
    PROVE  EnInv(n, l)
  <1>1. EnTyped(m, l)  BY DEF EnInv
  <1>2. EnTyped(n, l)  BY <1>1 DEF EnTyped, EnSame
  <1>3. n.task = m.task /\ n.reader = m.reader  BY DEF EnSame
  <1> QED BY <1>2, <1>3 DEF EnInv

LEMMA EnMakes ==
    ASSUME EnInv(store, log), store.state = "running",
           NEW s \in EnSources, NEW key \in EnKeys,
           store' = FactoryCreate(store, key, s), log' = [log EXCEPT !.from = s, !.key = key]
    PROVE  EnInv(store', log')
  <1>1. EnTyped(store, log) /\ store.closed = 0  BY DEF EnInv, EnClosed
  <1>2. /\ DOMAIN log' = {"last", "from", "key"} /\ log'.last = log.last /\ log'.from = s
        /\ log'.key = key
    BY <1>1 DEF EnTyped
  <1>3. store.m_operations = log.last /\ log.last[key] \in Creators \cup {NoCreator} /\ key # "none"
    BY <1>1 DEF EnTyped, EnKeys
  <1>4. CASE log.last[key] = NoCreator
    <2>1. store' = [store EXCEPT !.state = "unmade"]  BY <1>3, <1>4 DEF FactoryCreate
    <2>2. EnSame(store, store') /\ store'.state = "unmade" /\ store'.closed = store.closed
      BY <1>1, <2>1 DEF EnTyped, EnSame, EnFieldNames
    <2>3. EnTyped(store', log')  BY <1>1, <1>2, <2>2 DEF EnTyped, EnSame
    <2>4. /\ store'.task = "NBDTask" => store'.reader[1] = "nbd"
          /\ store'.task = "StinTask" => store'.reader[1] # "nbd"
      BY <2>2 DEF EnSame, EnInv
    <2>5. store'.closed = EnClosed(store')  BY <1>1, <2>2 DEF EnClosed
    <2> QED BY <1>2, <1>3, <1>4, <2>2, <2>3, <2>4, <2>5 DEF EnInv
  <1>5. CASE log.last[key] # NoCreator
    <2> DEFINE made == CreateTask(log.last[key], s)
               reader == <<s, store.m_req_srcs_map[s]>>
    <2>1. store' = [store EXCEPT !.reader = reader, !.task = made]
      BY <1>3, <1>5 DEF FactoryCreate
    <2>2. reader[1] = s  OBVIOUS
    <2>3. /\ made \in {"nullptr", "NBDTask", "StinTask"}
          /\ made = "NBDTask" => s = "nbd"
          /\ made = "StinTask" => s # "nbd"
      BY <1>3, <1>5 DEF CreateTask, Creators, EnSources
    <2> DEFINE mk == made
    <2>9. mk = CreateTask(log.last[key], s)  OBVIOUS
    <2> HIDE DEF mk, reader
    <2>4. /\ DOMAIN store' = DOMAIN store /\ store'.m_operations = store.m_operations
          /\ store'.task = mk /\ store'.reader = reader /\ store'.state = store.state
          /\ store'.closed = store.closed /\ store'.m_flag_for_loop = store.m_flag_for_loop
          /\ store'.watched = store.watched
      BY <1>1, <2>1, <2>9 DEF EnTyped, EnFieldNames
    <2>5. EnTyped(store', log')  BY <1>1, <1>2, <2>3, <2>4, <2>9 DEF EnTyped
    <2>6. store'.closed = EnClosed(store')  BY <1>1, <2>4 DEF EnClosed
    <2>7. store'.state = "running"  BY <2>4
    <2>8. /\ store'.task = "NBDTask" => store'.reader[1] = "nbd"
          /\ store'.task = "StinTask" => store'.reader[1] # "nbd"
      BY <2>2, <2>3, <2>4, <2>9
    <2> QED BY <1>2, <1>3, <1>5, <2>4, <2>5, <2>6, <2>7, <2>8, <2>9 DEF EnInv
  <1> QED BY <1>4, <1>5

LEMMA EnStops ==
    ASSUME EnInv(store, log), store.state = "running", store.task = "StinTask",
           NEW n \in StopTask(store)
    PROVE  EnInv(n, log)
  <1> DEFINE st == StopEngine(store)
  <1>1. DOMAIN store = EnFieldNames /\ store.closed = 0  BY DEF EnInv, EnTyped, EnClosed
  <1>2. /\ EnSame(store, st) /\ st.closed = 1 /\ DOMAIN st = EnFieldNames
    <2>1. EnSame(store, st) /\ st.closed = store.closed + 1  BY <1>1, EnStopFields
    <2> QED BY <1>1, <2>1 DEF EnSame
  <1>3. PICK how \in {"unpolled", "stuck", "left"} :
           n = [st EXCEPT !.state = how, !.m_flag_for_loop = how # "left"]
    BY DEF StopTask
  <1> HIDE DEF st
  <1>4. /\ EnSame(store, n) /\ n.state = how /\ n.closed = 1
    BY <1>2, <1>3 DEF EnSame, EnFieldNames
  <1>5. n.m_flag_for_loop = (how # "left")  BY <1>2, <1>3 DEF EnFieldNames
  <1>6. n.closed = EnClosed(n)
    <2>1. n.task = "StinTask"  BY <1>4 DEF EnSame
    <2> QED BY <2>1, <1>4 DEF EnClosed
  <1>7. n.state = "left" => n.m_flag_for_loop = FALSE  BY <1>4, <1>5
  <1>8. n.state # "configured" /\ n.state # "unmade"  BY <1>4
  <1> QED BY <1>4, <1>6, <1>7, <1>8, EnStays

LEMMA EnEnds ==
    ASSUME EnInv(store, log), store.state \in {"configured", "left"},
           store' = DestroyEngine(store)
    PROVE  EnInv(store', log)
  <1> DEFINE st == StopEngine(store)
  <1>1. DOMAIN store = EnFieldNames /\ store.closed = EnClosed(store)  BY DEF EnInv, EnTyped
  <1>2. /\ EnSame(store, st) /\ st.closed = store.closed + 1 /\ DOMAIN st = EnFieldNames
    <2>1. EnSame(store, st) /\ st.closed = store.closed + 1  BY <1>1, EnStopFields
    <2> QED BY <1>1, <2>1 DEF EnSame
  <1>3. store' = [(IF store.m_flag_for_loop THEN st ELSE store) EXCEPT !.state = "destroyed"]
    BY DEF DestroyEngine
  <1> HIDE DEF st
  <1>4. EnSame(store, store') /\ store'.state = "destroyed" /\ store'.closed = 1
    <2>1. CASE store.state = "configured"
      <3>1. store.m_flag_for_loop = TRUE /\ store.closed = 0  BY <2>1, <1>1 DEF EnInv, EnClosed
      <3>2. store' = [st EXCEPT !.state = "destroyed"]  BY <3>1, <1>3
      <3> QED BY <3>1, <3>2, <1>2 DEF EnSame, EnFieldNames
    <2>2. CASE store.state = "left"
      <3>1. store.m_flag_for_loop = FALSE /\ store.closed = 1  BY <2>2, <1>1 DEF EnInv, EnClosed
      <3>2. store' = [store EXCEPT !.state = "destroyed"]  BY <3>1, <1>3
      <3> QED BY <3>1, <3>2, <1>1 DEF EnSame, EnFieldNames
    <2> QED BY <2>1, <2>2
  <1>5. store'.closed = EnClosed(store')  BY <1>4 DEF EnClosed
  <1> QED BY <1>4, <1>5, EnStays

LEMMA EnInvNext ==
    ASSUME EnInv(store, log), EnNext PROVE EnInv(store', log')
  <1>0. DOMAIN store = EnFieldNames  BY DEF EnInv, EnTyped
  <1>1. CASE /\ store.state = "configured"
             /\ \E key \in EnKeys \ {"TRIM"}, creator \in Creators :
                   /\ store' = ConfigTask(store, key, creator)
                   /\ log' = [log EXCEPT !.last[key] = creator]
    BY <1>1, EnConfigTask
  <1>2. CASE /\ store.state = "configured" /\ UNCHANGED log
             /\ \E s \in EnSources : store' = ConfigInputSrc(store, s)
    <2>1. EnSame(store, store') /\ EnState(store, store')  BY <1>0, <1>2, EnSourceFields
    <2>2. store'.state = "configured" /\ store'.m_flag_for_loop = TRUE /\ store'.closed = 0
      BY <1>2, <2>1 DEF EnState, EnInv, EnClosed
    <2>3. store'.closed = EnClosed(store')  BY <2>2 DEF EnClosed
    <2>4. EnInv(store', log)  BY <1>2, <2>1, <2>2, <2>3, EnStays
    <2> QED BY <1>2, <2>4
  <1>3. CASE store.state = "configured" /\ UNCHANGED log /\ store' = RunEngine(store)
    <2>1. /\ EnSame(store, store') /\ store'.state \in {"running", "unpolled"}
          /\ store'.closed = store.closed
      BY <1>0, <1>3 DEF RunEngine, EnSame, EnFieldNames
    <2>2. store'.task = "none" /\ store'.closed = 0
      BY <1>3, <2>1 DEF EnSame, EnInv, EnClosed
    <2>3. store'.closed = EnClosed(store')  BY <2>1, <2>2 DEF EnClosed
    <2>4. EnInv(store', log)  BY <1>3, <2>1, <2>3, EnStays
    <2> QED BY <1>3, <2>4
  <1>4. CASE /\ store.state = "running"
             /\ \E s \in store.watched : \E key \in InputSrcRead(s) :
                   /\ store' = FactoryCreate(store, key, s)
                   /\ log' = [log EXCEPT !.from = s, !.key = key]
    <2>0. PICK s \in store.watched : \E key \in InputSrcRead(s) :
             store' = FactoryCreate(store, key, s) /\ log' = [log EXCEPT !.from = s, !.key = key]
      BY <1>4
    <2>1. PICK key \in InputSrcRead(s) :
             store' = FactoryCreate(store, key, s) /\ log' = [log EXCEPT !.from = s, !.key = key]
      BY <2>0
    <2>2. s \in EnSources  BY DEF EnInv, EnTyped
    <2>3. key \in EnKeys  BY DEF InputSrcRead, EnKeys
    <2> QED BY <1>4, <2>1, <2>2, <2>3, EnMakes
  <1>5. CASE /\ store.state = "running" /\ store.task = "StinTask" /\ UNCHANGED log
             /\ \E m \in StopTask(store) : store' = m
    <2>1. EnInv(store', log)  BY <1>5, EnStops
    <2> QED BY <1>5, <2>1
  <1>6. CASE /\ store.state \in {"configured", "left"} /\ UNCHANGED log
             /\ store' = DestroyEngine(store)
    <2>1. EnInv(store', log)  BY <1>6, EnEnds
    <2> QED BY <1>6, <2>1
  <1> QED BY <1>1, <1>2, <1>3, <1>4, <1>5, <1>6 DEF EnNext

LEMMA EnInvMakes ==
    ASSUME EnInv(store, log) PROVE EngineMakesTasks
  <1>1. EnTyped(store, log)  BY DEF EnInv
  <1>2. /\ store.task # "none" /\ store.state # "unmade" =>
              store.task = CreateTask(log.last[log.key], log.from)
        /\ log.key # "none" => (store.state = "unmade") = (log.last[log.key] = NoCreator)
    BY DEF EnInv
  <1>3. store.task # "none" /\ store.task # "nullptr" =>
           (store.task = "NBDTask") = (store.reader[1] = "nbd")
    BY <1>1 DEF EnInv, EnTyped
  <1>4. store.closed = EnClosed(store)  BY DEF EnInv
  <1> QED BY <1>2, <1>3, <1>4 DEF EngineMakesTasks, EnClosed

HIDE LibraryAssumption
HIDE AllocatorsAssumption

-----------------------------------------------------------------------------
\* The sorts.

Indices(n) == 0 .. n - 1

LEMMA NumbersAt ==
    ASSUME NEW n \in Nat, NEW arr \in [Indices(n) -> Values]
    PROVE  \A k \in Indices(n) : k \in Int /\ 0 <= k /\ k < n /\ arr[k] \in Nat
  <1> TAKE k \in Indices(n)
  <1>1. k \in Int /\ 0 <= k /\ k < n  BY DEF Indices
  <1>2. arr[k] \in Values  OBVIOUS
  <1> QED BY <1>1, <1>2, LibraryAssumption

LEMMA Swapped ==
    ASSUME NEW n \in Nat, NEW S, NEW arr \in [Indices(n) -> S], NEW a \in Indices(n), NEW b \in Indices(n)
    PROVE  /\ SwapInt(arr, a, b) \in [Indices(n) -> S]
           /\ \A k \in Indices(n) :
                 SwapInt(arr, a, b)[k] = IF k = b THEN arr[a] ELSE IF k = a THEN arr[b] ELSE arr[k]
  BY DEF SwapInt

LEMMA RearrangedSelf ==
    ASSUME NEW n \in Nat, NEW S, NEW from \in [Indices(n) -> S]
    PROVE  IsRearranged(from, from)
  <1> DEFINE p == [k \in Indices(n) |-> k]
  <1>1. p \in [Indices(n) -> Indices(n)] /\ \A k \in Indices(n) : p[k] = k  OBVIOUS
  <1> HIDE DEF p
  <1>2. DOMAIN from = Indices(n)  OBVIOUS
  <1>3. from = [k \in Indices(n) |-> from[p[k]]]  BY <1>1
  <1> QED BY <1>1, <1>2, <1>3 DEF IsRearranged

LEMMA RearrangedSwap ==
    ASSUME NEW n \in Nat, NEW S, NEW from \in [Indices(n) -> S], NEW arr, IsRearranged(arr, from),
           NEW a \in Indices(n), NEW b \in Indices(n)
    PROVE  IsRearranged(SwapInt(arr, a, b), from)
  <1>0. DOMAIN from = Indices(n)  OBVIOUS
  <1>1. PICK p \in [Indices(n) -> Indices(n)] :
            /\ \A k, l \in Indices(n) : p[k] = p[l] => k = l
            /\ arr = [k \in Indices(n) |-> from[p[k]]]
    BY <1>0 DEF IsRearranged
  <1> DEFINE q == SwapInt(p, a, b)
             s == SwapInt(arr, a, b)
  <1>2. /\ q \in [Indices(n) -> Indices(n)]
        /\ \A k \in Indices(n) : q[k] = IF k = b THEN p[a] ELSE IF k = a THEN p[b] ELSE p[k]
    BY DEF SwapInt
  <1>3. arr \in [Indices(n) -> S] /\ \A k \in Indices(n) : arr[k] = from[p[k]]  BY <1>1
  <1>4. /\ s \in [Indices(n) -> S]
        /\ \A k \in Indices(n) : s[k] = IF k = b THEN arr[a] ELSE IF k = a THEN arr[b] ELSE arr[k]
    BY <1>3 DEF SwapInt
  <1> HIDE DEF q, s
  <1>5. \A k \in Indices(n) : s[k] = from[q[k]]  BY <1>2, <1>3, <1>4
  <1>6. s = [k \in Indices(n) |-> from[q[k]]]  BY <1>4, <1>5
  <1>7. \A k, l \in Indices(n) : q[k] = q[l] => k = l  BY <1>1, <1>2
  <1>8. IsRearranged(s, from)
    <2>1. /\ q \in [DOMAIN from -> DOMAIN from]
          /\ \A k, l \in DOMAIN from : q[k] = q[l] => k = l
          /\ s = [k \in DOMAIN from |-> from[q[k]]]
      BY <1>0, <1>2, <1>6, <1>7
    <2> QED BY <2>1 DEF IsRearranged
  <1> QED BY <1>8 DEF s

Permutes(q, n)    == q \in [Indices(n) -> Indices(n)] /\ \A k, l \in Indices(n) : q[k] = q[l] => k = l
Picked(arr, q, n) == [k \in Indices(n) |-> arr[q[k]]]

LEMMA RearrangedTwice ==
    ASSUME NEW n \in Nat, NEW S, NEW from \in [Indices(n) -> S], NEW arr, IsRearranged(arr, from),
           NEW q, Permutes(q, n)
    PROVE  IsRearranged(Picked(arr, q, n), from)
  <1> DEFINE r == Picked(arr, q, n)
  <1>0. /\ DOMAIN from = Indices(n) /\ r = [k \in Indices(n) |-> arr[q[k]]]
        /\ q \in [Indices(n) -> Indices(n)] /\ \A k, l \in Indices(n) : q[k] = q[l] => k = l
    BY DEF Permutes, Picked
  <1> HIDE DEF r
  <1>1. PICK p \in [Indices(n) -> Indices(n)] :
            /\ \A k, l \in Indices(n) : p[k] = p[l] => k = l
            /\ arr = [k \in Indices(n) |-> from[p[k]]]
    BY <1>0 DEF IsRearranged
  <1> DEFINE t == [k \in Indices(n) |-> p[q[k]]]
  <1>2. t \in [Indices(n) -> Indices(n)] /\ \A k \in Indices(n) : t[k] = p[q[k]]  BY <1>0
  <1> HIDE DEF t
  <1>3. \A k \in Indices(n) : arr[q[k]] = from[t[k]]  BY <1>0, <1>1, <1>2
  <1>4. r = [k \in Indices(n) |-> from[t[k]]]  BY <1>0, <1>3
  <1>5. \A k, l \in Indices(n) : t[k] = t[l] => k = l  BY <1>0, <1>1, <1>2
  <1>6. IsRearranged(r, from)  BY <1>0, <1>2, <1>4, <1>5 DEF IsRearranged
  <1> QED BY <1>6 DEF r

-----------------------------------------------------------------------------
\* Distributing by keys.  K gives the key of each place of the array.
Placed(K, n, k, j)  == {m \in Indices(n) : K[m] < k \/ (K[m] = k /\ m < j)}
Counted(K, n, k, j) == {m \in Indices(n) : K[m] = k /\ m < j}

\* Where the element at l goes: behind those that have smaller keys, and those
\* that have the same key and come before it.
PlaceOf(K, n, l) == Cardinality(Placed(K, n, K[l], l))

LEMMA PartsAreFinite ==
    ASSUME NEW n \in Nat, NEW T \in SUBSET Indices(n)
    PROVE  /\ IsFiniteSet(T) /\ Cardinality(T) \in Nat /\ Cardinality(T) <= n
           /\ IsFiniteSet(Indices(n)) /\ Cardinality(Indices(n)) = n
  <1>1. IsFiniteSet(Indices(n)) /\ Cardinality(Indices(n)) = n  BY FS_Interval DEF Indices
  <1>2. IsFiniteSet(T) /\ Cardinality(T) <= n  BY <1>1, FS_Subset
  <1> QED BY <1>1, <1>2, FS_CardinalityType

LEMMA OneMore ==
    ASSUME NEW n \in Nat, NEW T \in SUBSET Indices(n), NEW U \in SUBSET Indices(n), NEW l \in Indices(n),
           l \notin T, T \subseteq U, l \in U
    PROVE  Cardinality(T) < Cardinality(U)
  <1>1. IsFiniteSet(T) /\ Cardinality(T) \in Nat /\ IsFiniteSet(U) /\ Cardinality(U) \in Nat
    BY PartsAreFinite
  <1>2. Cardinality(T \cup {l}) = Cardinality(T) + 1  BY <1>1, FS_AddElement
  <1>3. Cardinality(T \cup {l}) <= Cardinality(U)  BY <1>1, FS_Subset
  <1> QED BY <1>1, <1>2, <1>3

LEMMA PlacesDiffer ==
    ASSUME NEW n \in Nat, NEW K \in [Indices(n) -> Nat], NEW l \in Indices(n), NEW m \in Indices(n)
    PROVE  /\ PlaceOf(K, n, l) \in Indices(n)
           /\ K[l] < K[m] \/ (K[l] = K[m] /\ l < m) => PlaceOf(K, n, l) < PlaceOf(K, n, m)
           /\ PlaceOf(K, n, l) = PlaceOf(K, n, m) => l = m
  <1> DEFINE P(x) == Placed(K, n, K[x], x)
  <1>1. \A x \in Indices(n) : P(x) \in SUBSET Indices(n) /\ x \notin P(x) /\ x \in Nat /\ K[x] \in Nat
    BY DEF Placed, Indices
  <1>2. ASSUME NEW x \in Indices(n), NEW y \in Indices(n), K[x] < K[y] \/ (K[x] = K[y] /\ x < y)
        PROVE  Cardinality(P(x)) < Cardinality(P(y))
    <2>1. x \in P(y)  BY <1>2 DEF Placed
    <2>2. P(x) \subseteq P(y)  BY <1>1, <1>2 DEF Placed, Indices
    <2> DEFINE T == P(x)
               U == P(y)
    <2>3. T \in SUBSET Indices(n) /\ U \in SUBSET Indices(n) /\ x \notin T /\ T \subseteq U /\ x \in U
      BY <1>1, <2>1, <2>2
    <2> HIDE DEF T, U
    <2>4. Cardinality(T) < Cardinality(U)  BY <2>3, OneMore
    <2> QED BY <2>4 DEF T, U
  <1>3. PlaceOf(K, n, l) = Cardinality(P(l)) /\ PlaceOf(K, n, m) = Cardinality(P(m))  BY DEF PlaceOf
  <1> HIDE DEF P
  <1>4. Cardinality(P(l)) < n
    <2>1. Indices(n) \in SUBSET Indices(n)  OBVIOUS
    <2>2. Cardinality(P(l)) < Cardinality(Indices(n))  BY <1>1, <2>1, OneMore
    <2> QED BY <2>1, <2>2, PartsAreFinite
  <1>5. Cardinality(P(l)) \in Nat /\ Cardinality(P(m)) \in Nat  BY <1>1, PartsAreFinite
  <1>6. Cardinality(P(l)) \in Indices(n)  BY <1>4, <1>5 DEF Indices
  <1>7. l # m => (K[l] < K[m] \/ (K[l] = K[m] /\ l < m)) \/ (K[m] < K[l] \/ (K[m] = K[l] /\ m < l))
    BY <1>1
  <1>8. Cardinality(P(l)) = Cardinality(P(m)) => l = m  BY <1>2, <1>5, <1>7
  <1> QED BY <1>2, <1>3, <1>6, <1>8

\* When each element has gone to its place, they are all there, ordered by key
\* and those of one key as before.
AtPlaces(K, n, arr, result) == \A l \in Indices(n) : result[PlaceOf(K, n, l)] = arr[l]
StableBy(q, K, n) ==
    \A k, l \in Indices(n) : k < l => K[q[k]] < K[q[l]] \/ (K[q[k]] = K[q[l]] /\ q[k] < q[l])

LEMMA Distributed ==
    ASSUME NEW n \in Nat, NEW K \in [Indices(n) -> Nat], NEW arr, NEW V,
           NEW result \in [Indices(n) -> V], AtPlaces(K, n, arr, result)
    PROVE  \E q : Permutes(q, n) /\ result = Picked(arr, q, n) /\ StableBy(q, K, n)
  <1> DEFINE f == [l \in Indices(n) |-> PlaceOf(K, n, l)]
  <1>1. /\ f \in [Indices(n) -> Indices(n)]
        /\ \A k, l \in Indices(n) : f[k] = f[l] => k = l
        /\ \A l \in Indices(n) : f[l] = PlaceOf(K, n, l)
    BY PlacesDiffer
  <1> HIDE DEF f
  <1>2. f \in Injection(Indices(n), Indices(n))  BY <1>1 DEF Injection, IsInjective
  <1>3. IsFiniteSet(Indices(n))  BY FS_Interval DEF Indices
  <1>4. f \in Surjection(Indices(n), Indices(n))  BY <1>2, <1>3, FS_Injection
  <1>5. \A k \in Indices(n) : \E l \in Indices(n) : f[l] = k  BY <1>4 DEF Surjection
  <1> DEFINE q == [k \in Indices(n) |-> CHOOSE l \in Indices(n) : f[l] = k]
  <1>6. q \in [Indices(n) -> Indices(n)] /\ \A k \in Indices(n) : f[q[k]] = k  BY <1>5
  <1> HIDE DEF q
  <1>7. \A k, l \in Indices(n) : q[k] = q[l] => k = l  BY <1>6
  <1>8. \A k \in Indices(n) : result[k] = arr[q[k]]  BY <1>1, <1>6 DEF AtPlaces
  <1>9. result = [k \in Indices(n) |-> arr[q[k]]]  BY <1>8
  <1>10. ASSUME NEW k \in Indices(n), NEW l \in Indices(n), k < l
         PROVE  K[q[k]] < K[q[l]] \/ (K[q[k]] = K[q[l]] /\ q[k] < q[l])
    <2> DEFINE a == q[k]
               b == q[l]
    <2>1. a \in Indices(n) /\ b \in Indices(n) /\ PlaceOf(K, n, a) = k /\ PlaceOf(K, n, b) = l
      BY <1>1, <1>6
    <2>2. K[a] \in Nat /\ K[b] \in Nat /\ a \in Nat /\ b \in Nat  BY <2>1 DEF Indices
    <2> HIDE DEF a, b
    <2>3. ~(K[b] < K[a] \/ (K[b] = K[a] /\ b < a))
      <3>1. K[b] < K[a] \/ (K[b] = K[a] /\ b < a) => PlaceOf(K, n, b) < PlaceOf(K, n, a)
        BY <2>1, PlacesDiffer
      <3>2. k \in Nat /\ l \in Nat  BY DEF Indices
      <3> QED BY <3>1, <3>2, <2>1, <1>10
    <2>4. a # b  BY <2>1, <1>10 DEF Indices
    <2>5. K[a] < K[b] \/ (K[a] = K[b] /\ a < b)  BY <2>2, <2>3, <2>4
    <2> QED BY <2>5 DEF a, b
  <1>11. StableBy(q, K, n)  BY <1>10 DEF StableBy
  <1>12. Permutes(q, n) /\ result = Picked(arr, q, n)  BY <1>6, <1>7, <1>9 DEF Permutes, Picked
  <1> QED BY <1>11, <1>12

\* What the loops over the table count.
LEMMA CountsOneMore ==
    ASSUME NEW n \in Nat, NEW K \in [Indices(n) -> Nat], NEW j \in Indices(n), NEW k \in Nat
    PROVE  /\ Cardinality(Counted(K, n, k, j + 1))
                 = Cardinality(Counted(K, n, k, j)) + (IF k = K[j] THEN 1 ELSE 0)
           /\ Cardinality(Placed(K, n, k, j + 1))
                 = Cardinality(Placed(K, n, k, j)) + (IF k = K[j] THEN 1 ELSE 0)
           /\ Cardinality(Counted(K, n, k, j)) \in Nat /\ Cardinality(Placed(K, n, k, j)) \in Nat
  <1> DEFINE C == Counted(K, n, k, j)
             D == Placed(K, n, k, j)
  <1>1. C \in SUBSET Indices(n) /\ D \in SUBSET Indices(n)  BY DEF Counted, Placed
  <1>2. IsFiniteSet(C) /\ IsFiniteSet(D) /\ Cardinality(C) \in Nat /\ Cardinality(D) \in Nat
    BY <1>1, PartsAreFinite
  <1>3. CASE k = K[j]
    <2>1. Counted(K, n, k, j + 1) = C \cup {j} /\ j \notin C  BY <1>3 DEF Counted, Indices
    <2>2. Placed(K, n, k, j + 1) = D \cup {j} /\ j \notin D  BY <1>3 DEF Placed, Indices
    <2> HIDE DEF C, D
    <2>3. Cardinality(C \cup {j}) = Cardinality(C) + 1  BY <1>2, <2>1, FS_AddElement
    <2>4. Cardinality(D \cup {j}) = Cardinality(D) + 1  BY <1>2, <2>2, FS_AddElement
    <2>5. C = Counted(K, n, k, j) /\ D = Placed(K, n, k, j)  BY DEF C, D
    <2> QED BY <1>2, <1>3, <2>1, <2>2, <2>3, <2>4, <2>5
  <1>4. CASE k # K[j]
    <2>1. Counted(K, n, k, j + 1) = C  BY <1>4 DEF Counted, Indices
    <2>2. Placed(K, n, k, j + 1) = D  BY <1>4 DEF Placed, Indices
    <2> QED BY <1>2, <1>4, <2>1, <2>2
  <1> QED BY <1>3, <1>4

LEMMA SumsUp ==
    ASSUME NEW n \in Nat, NEW K \in [Indices(n) -> Nat], NEW k \in Nat
    PROVE  /\ Cardinality(Placed(K, n, k, 0)) \in Nat /\ Cardinality(Counted(K, n, k, n)) \in Nat
           /\ Cardinality(Placed(K, n, k + 1, 0))
                 = Cardinality(Placed(K, n, k, 0)) + Cardinality(Counted(K, n, k, n))
           /\ Counted(K, n, k, 0) = {} /\ Placed(K, n, 0, 0) = {}
  <1> DEFINE C == Counted(K, n, k, n)
             D == Placed(K, n, k, 0)
  <1>1. C \in SUBSET Indices(n) /\ D \in SUBSET Indices(n)  BY DEF Counted, Placed
  <1>2. IsFiniteSet(C) /\ IsFiniteSet(D) /\ Cardinality(C) \in Nat /\ Cardinality(D) \in Nat
    BY <1>1, PartsAreFinite
  <1>3. Placed(K, n, k + 1, 0) = D \cup C /\ D \cap C = {}  BY DEF Counted, Placed, Indices
  <1>4. Counted(K, n, k, 0) = {} /\ Placed(K, n, 0, 0) = {}  BY DEF Counted, Placed, Indices
  <1>5. C = Counted(K, n, k, n) /\ D = Placed(K, n, k, 0)  OBVIOUS
  <1> HIDE DEF C, D
  <1>6. Cardinality(D \cup C) = Cardinality(D) + Cardinality(C) - Cardinality(D \cap C)
    BY <1>2, FS_Union
  <1>7. Cardinality(D \cap C) = 0  BY <1>3, FS_EmptySet
  <1>8. Cardinality(D \cup C) = Cardinality(D) + Cardinality(C)  BY <1>2, <1>6, <1>7
  <1>9. Cardinality(Placed(K, n, k + 1, 0)) = Cardinality(D) + Cardinality(C)  BY <1>3, <1>8
  <1> QED BY <1>2, <1>4, <1>5, <1>9

-----------------------------------------------------------------------------
\* What each sort keeps up, in its loops and between them.
SoFieldNames ==
    {"sort", "size", "arr", "phase", "num", "i", "j", "lut", "sum", "result", "weight"}

SoTyped(m) ==
    /\ DOMAIN m = SoFieldNames
    /\ m.sort \in SoSorts /\ m.size \in Nat \ {0} /\ m.arr \in [Indices(m.size) -> Values]
    /\ m.result \in [Indices(m.size) -> Nat] /\ m.weight \in Nat \ {0} /\ m.i \in Nat

BubbleInv(m) ==
    /\ m.phase \in {"outer", "inner"} /\ m.i <= m.size - 1
    /\ \A k, l \in Indices(m.size) : k < l /\ l >= m.size - m.i => m.arr[k] <= m.arr[l]
    /\ m.phase = "inner" => /\ m.i < m.size - 1 /\ m.j \in 0 .. m.size - 1 - m.i
                            /\ \A k \in Indices(m.size) : k < m.j => m.arr[k] <= m.arr[m.j]

SelectionInv(m) ==
    /\ m.phase \in {"outer", "inner"} /\ m.i <= m.size
    /\ \A k, l \in Indices(m.size) : k < l /\ k < m.i => m.arr[k] <= m.arr[l]
    /\ m.phase = "inner" =>
          /\ m.i < m.size /\ m.j \in m.i + 1 .. m.size /\ m.num \in m.i .. m.size - 1
          /\ \A l \in Indices(m.size) : m.i <= l /\ l < m.j => m.arr[m.num] <= m.arr[l]

InsertionInv(m) ==
    /\ m.phase \in {"outer", "inner"} /\ m.i \in 1 .. m.size
    /\ m.phase = "outer" => \A k, l \in Indices(m.size) : k < l /\ l < m.i => m.arr[k] <= m.arr[l]
    /\ m.phase = "inner" =>
          /\ m.i < m.size /\ m.j \in -1 .. m.i - 1 /\ m.num = m.arr[m.j + 1]
          /\ \A k, l \in Indices(m.size) :
                k < l /\ l <= m.i /\ l # m.j + 1 => m.arr[k] <= m.arr[l]

\* The elements are those of from; the inner loops change nothing else that the
\* invariants of other sorts speak of.
SoMoved(m, n, from) ==
    /\ SoTyped(n) /\ n.sort = m.sort /\ n.size = m.size /\ IsRearranged(n.arr, from)
    /\ n.phase \notin {"failed", "aborted"}

LEMMA LeaveFields ==
    ASSUME NEW m, SoTyped(m), NEW n, n = Leave(m)
    PROVE  /\ DOMAIN n = DOMAIN m /\ n.sort = m.sort /\ n.size = m.size /\ n.arr = m.arr
           /\ n.phase = "outer" /\ n.i = m.i + 1 /\ n.result = m.result /\ n.weight = m.weight
  BY DEF SoTyped, SoFieldNames, Leave

LEMMA LeaveMoves ==
    ASSUME NEW m, SoTyped(m), NEW n, n = Leave(m), NEW from, IsRearranged(m.arr, from)
    PROVE  SoMoved(m, n, from) /\ n.arr = m.arr /\ n.phase = "outer" /\ n.i = m.i + 1
  BY LeaveFields DEF SoMoved, SoTyped

LEMMA BubbleSteps ==
    ASSUME NEW m, SoTyped(m), BubbleInv(m), m.phase = "inner", NEW n, n = BubbleStep(m),
           NEW from \in [Indices(m.size) -> Values], IsRearranged(m.arr, from)
    PROVE  SoMoved(m, n, from) /\ BubbleInv(n)
  <1> DEFINE N == m.size
             j == m.j
             arr == m.arr
  <1>1. /\ N \in Nat \ {0} /\ arr \in [Indices(N) -> Values] /\ m.i \in Nat /\ m.i < N - 1
        /\ j \in 0 .. N - 1 - m.i
        /\ \A k, l \in Indices(N) : k < l /\ l >= N - m.i => arr[k] <= arr[l]
        /\ \A k \in Indices(N) : k < j => arr[k] <= arr[j]
    BY DEF SoTyped, BubbleInv
  <1>7. arr \in [Indices(N) -> Values]  BY <1>1
  <1>2. \A k \in Indices(N) : k \in Int /\ 0 <= k /\ k < N /\ arr[k] \in Nat
    <2>1. N \in Nat /\ arr \in [Indices(N) -> Values]  BY <1>1
    <2> QED BY <2>1, NumbersAt
  <1>3. CASE ~(j < N - 1 - m.i)
    <2>1. n = Leave(m)  BY <1>3 DEF BubbleStep
    <2>2. SoMoved(m, n, from) /\ n.arr = arr /\ n.phase = "outer" /\ n.i = m.i + 1 /\ n.size = N
      BY <2>1, LeaveMoves DEF SoMoved
    <2>3. j = N - 1 - m.i  BY <1>1, <1>3
    <2>4. \A k, l \in Indices(N) : k < l /\ l >= N - (m.i + 1) => arr[k] <= arr[l]
      <3> SUFFICES ASSUME NEW k \in Indices(N), NEW l \in Indices(N), k < l, l >= N - (m.i + 1)
                   PROVE  arr[k] <= arr[l]
        OBVIOUS
      <3>1. CASE l >= N - m.i  BY <3>1, <1>1
      <3>2. CASE l = j  BY <3>2, <1>1
      <3> QED BY <3>1, <3>2, <2>3, <1>1, <1>2
    <2> QED BY <1>1, <2>2, <2>4 DEF BubbleInv
  <1>4. CASE j < N - 1 - m.i
    <2> DEFINE new == IF arr[j] > arr[j + 1] THEN SwapInt(arr, j, j + 1) ELSE arr
    <2>1. n = [m EXCEPT !.arr = new, !.j = j + 1]  BY <1>4 DEF BubbleStep
    <2>2. j \in Indices(N) /\ j + 1 \in Indices(N)  BY <1>1, <1>4 DEF Indices
    <2>3. /\ new \in [Indices(N) -> Values]
          /\ arr[j] > arr[j + 1] =>
                \A k \in Indices(N) : new[k] = IF k = j + 1 THEN arr[j] ELSE IF k = j THEN arr[j + 1] ELSE arr[k]
          /\ ~(arr[j] > arr[j + 1]) => new = arr
      BY <1>7, <2>2 DEF SwapInt
    <2>4. IsRearranged(new, from)  BY <1>1, <2>2, RearrangedSwap
    <2> HIDE DEF new
    <2>5. /\ DOMAIN n = DOMAIN m /\ n.sort = m.sort /\ n.size = N /\ n.arr = new /\ n.phase = "inner"
          /\ n.i = m.i /\ n.j = j + 1 /\ n.result = m.result /\ n.weight = m.weight
      BY <2>1 DEF SoTyped, SoFieldNames
    <2>6. SoMoved(m, n, from)  BY <2>3, <2>4, <2>5 DEF SoMoved, SoTyped
    <2>7. \A k \in Indices(N) : k < j + 1 => new[k] <= new[j + 1]
      BY <1>1, <1>2, <2>2, <2>3
    <2>8. \A k, l \in Indices(N) : k < l /\ l >= N - m.i => new[k] <= new[l]
      <3> SUFFICES ASSUME NEW k \in Indices(N), NEW l \in Indices(N), k < l, l >= N - m.i
                   PROVE  new[k] <= new[l]
        OBVIOUS
      <3>1. l > j + 1 /\ new[l] = arr[l]  BY <1>1, <1>2, <1>4, <2>2, <2>3
      <3>2. \A e \in Indices(N) : e < l => arr[e] <= arr[l]  BY <1>1
      <3>3. j < l /\ j + 1 < l  BY <3>1, <1>1, <1>2
      <3> QED BY <3>1, <3>2, <3>3, <2>2, <2>3
    <2>9. j + 1 \in 0 .. N - 1 - m.i  BY <1>1, <1>4
    <2> QED BY <1>1, <2>5, <2>6, <2>7, <2>8, <2>9 DEF BubbleInv
  <1> QED BY <1>3, <1>4

LEMMA SelectionSteps ==
    ASSUME NEW m, SoTyped(m), SelectionInv(m), m.phase = "inner", NEW n, n = SelectionStep(m),
           NEW from \in [Indices(m.size) -> Values], IsRearranged(m.arr, from)
    PROVE  SoMoved(m, n, from) /\ SelectionInv(n)
  <1> DEFINE N == m.size
             j == m.j
             arr == m.arr
             num == m.num
  <1>1. /\ N \in Nat \ {0} /\ arr \in [Indices(N) -> Values] /\ m.i \in Nat /\ m.i < N
        /\ j \in m.i + 1 .. N /\ num \in m.i .. N - 1
        /\ \A k, l \in Indices(N) : k < l /\ k < m.i => arr[k] <= arr[l]
        /\ \A l \in Indices(N) : m.i <= l /\ l < j => arr[num] <= arr[l]
    BY DEF SoTyped, SelectionInv
  <1>7. arr \in [Indices(N) -> Values]  BY <1>1
  <1>2. \A k \in Indices(N) : k \in Int /\ 0 <= k /\ k < N /\ arr[k] \in Nat
    <2>1. N \in Nat /\ arr \in [Indices(N) -> Values]  BY <1>1
    <2> QED BY <2>1, NumbersAt
  <1>5. m.i \in Indices(N) /\ num \in Indices(N)  BY <1>1 DEF Indices
  <1>3. CASE ~(j < N)
    <2> DEFINE new == SwapInt(arr, m.i, num)
    <2>1. n = [Leave(m) EXCEPT !.arr = SwapInt(Leave(m).arr, m.i, num)]  BY <1>3 DEF SelectionStep
    <2>2. /\ DOMAIN Leave(m) = DOMAIN m /\ Leave(m).sort = m.sort /\ Leave(m).size = N
          /\ Leave(m).arr = arr /\ Leave(m).phase = "outer" /\ Leave(m).i = m.i + 1
          /\ Leave(m).result = m.result /\ Leave(m).weight = m.weight
      BY LeaveFields
    <2> DEFINE lv == Leave(m)
    <2>3. n = [lv EXCEPT !.arr = new]  BY <2>1, <2>2
    <2>4. /\ new \in [Indices(N) -> Values]
          /\ \A k \in Indices(N) : new[k] = IF k = num THEN arr[m.i] ELSE IF k = m.i THEN arr[num] ELSE arr[k]
      BY <1>7, <1>5 DEF SwapInt
    <2>5. IsRearranged(new, from)  BY <1>1, <1>5, RearrangedSwap
    <2> HIDE DEF new, lv
    <2>6. /\ DOMAIN n = DOMAIN m /\ n.sort = m.sort /\ n.size = N /\ n.arr = new /\ n.phase = "outer"
          /\ n.i = m.i + 1 /\ n.result = m.result /\ n.weight = m.weight
      BY <2>2, <2>3 DEF SoTyped, SoFieldNames, lv
    <2>7. SoMoved(m, n, from)  BY <1>1, <2>4, <2>5, <2>6 DEF SoMoved, SoTyped
    <2>8. \A k, l \in Indices(N) : k < l /\ k < m.i + 1 => new[k] <= new[l]
      <3> SUFFICES ASSUME NEW k \in Indices(N), NEW l \in Indices(N), k < l, k < m.i + 1
                   PROVE  new[k] <= new[l]
        OBVIOUS
      <3>1. CASE k = m.i
        <4>1. \A e \in Indices(N) : m.i <= e => arr[num] <= arr[e]  BY <1>1, <1>2, <1>3
        <4>2. new[k] = arr[num]  BY <3>1, <1>5, <2>4
        <4> QED BY <3>1, <4>1, <4>2, <1>1, <1>2, <1>5, <2>4
      <3>2. CASE k < m.i
        <4>1. new[k] = arr[k]  BY <3>2, <1>1, <1>2, <2>4
        <4>2. \A e \in Indices(N) : k < e => arr[k] <= arr[e]  BY <3>2, <1>1
        <4>3. k < m.i /\ k < num  BY <3>2, <1>1, <1>2
        <4> QED BY <4>1, <4>2, <4>3, <1>5, <2>4
      <3> QED BY <3>1, <3>2, <1>1, <1>2
    <2> QED BY <1>1, <2>6, <2>7, <2>8 DEF SelectionInv
  <1>4. CASE j < N
    <2> DEFINE new == IF arr[j] < arr[num] THEN j ELSE num
    <2>1. n = [m EXCEPT !.num = new, !.j = j + 1]  BY <1>4 DEF SelectionStep
    <2>2. j \in Indices(N)  BY <1>1, <1>4 DEF Indices
    <2>3. new \in m.i .. N - 1 /\ \A l \in Indices(N) : m.i <= l /\ l < j + 1 => arr[new] <= arr[l]
      <3>1. CASE arr[j] < arr[num]  BY <3>1, <1>1, <1>2, <1>5, <2>2
      <3>2. CASE ~(arr[j] < arr[num])  BY <3>2, <1>1, <1>2, <1>5, <2>2
      <3> QED BY <3>1, <3>2
    <2> HIDE DEF new
    <2>5. /\ DOMAIN n = DOMAIN m /\ n.sort = m.sort /\ n.size = N /\ n.arr = arr /\ n.phase = "inner"
          /\ n.i = m.i /\ n.j = j + 1 /\ n.num = new /\ n.result = m.result /\ n.weight = m.weight
      BY <2>1 DEF SoTyped, SoFieldNames
    <2>6. SoMoved(m, n, from)  BY <2>5 DEF SoMoved, SoTyped
    <2>7. j + 1 \in m.i + 1 .. N  BY <1>1, <1>4
    <2> QED BY <1>1, <2>3, <2>5, <2>6, <2>7 DEF SelectionInv
  <1> QED BY <1>3, <1>4

LEMMA InsertionSteps ==
    ASSUME NEW m, SoTyped(m), InsertionInv(m), m.phase = "inner", NEW n, n = InsertionStep(m),
           NEW from \in [Indices(m.size) -> Values], IsRearranged(m.arr, from)
    PROVE  SoMoved(m, n, from) /\ InsertionInv(n)
  <1> DEFINE N == m.size
             j == m.j
             arr == m.arr
  <1>1. /\ N \in Nat \ {0} /\ arr \in [Indices(N) -> Values] /\ m.i \in 1 .. N /\ m.i < N
        /\ j \in -1 .. m.i - 1 /\ m.num = arr[j + 1]
        /\ \A k, l \in Indices(N) : k < l /\ l <= m.i /\ l # j + 1 => arr[k] <= arr[l]
    BY DEF SoTyped, InsertionInv
  <1>7. arr \in [Indices(N) -> Values]  BY <1>1
  <1>2. \A k \in Indices(N) : k \in Int /\ 0 <= k /\ k < N /\ arr[k] \in Nat
    <2>1. N \in Nat /\ arr \in [Indices(N) -> Values]  BY <1>1
    <2> QED BY <2>1, NumbersAt
  <1>5. j + 1 \in Indices(N)  BY <1>1 DEF Indices
  <1>3. CASE ~(j >= 0 /\ m.num < arr[j])
    <2>1. n = Leave(m)  BY <1>3 DEF InsertionStep
    <2>2. SoMoved(m, n, from) /\ n.arr = arr /\ n.phase = "outer" /\ n.i = m.i + 1 /\ n.size = N
      BY <2>1, LeaveMoves DEF SoMoved
    <2>3. \A k, l \in Indices(N) : k < l /\ l < m.i + 1 => arr[k] <= arr[l]
      <3> SUFFICES ASSUME NEW k \in Indices(N), NEW l \in Indices(N), k < l, l < m.i + 1
                   PROVE  arr[k] <= arr[l]
        OBVIOUS
      <3>1. CASE l # j + 1  BY <3>1, <1>1, <1>2
      <3>2. CASE l = j + 1
        <4>0. k <= j /\ j >= 0 /\ j \in Indices(N)  BY <3>2, <1>1, <1>2 DEF Indices
        <4>5. arr[j] <= arr[l]  BY <4>0, <3>2, <1>1, <1>2, <1>3, <1>5
        <4>1. j \in Indices(N) /\ j # j + 1 /\ j <= m.i /\ arr[j] <= arr[l]
          BY <4>0, <4>5, <1>1
        <4>2. k = j \/ k < j  BY <3>2, <1>1, <1>2
        <4>3. k < j => arr[k] <= arr[j]  BY <4>1, <1>1
        <4> QED BY <4>1, <4>2, <4>3, <1>2
      <3> QED BY <3>1, <3>2
    <2>4. n.i \in 1 .. N  BY <2>2, <1>1
    <2> QED BY <2>2, <2>3, <2>4 DEF InsertionInv
  <1>4. CASE j >= 0 /\ m.num < arr[j]
    <2> DEFINE new == SwapInt(arr, j + 1, j)
    <2>1. n = [m EXCEPT !.arr = new, !.j = j - 1]  BY <1>4 DEF InsertionStep
    <2>2. j \in Indices(N)  BY <1>1, <1>4 DEF Indices
    <2>3. /\ new \in [Indices(N) -> Values]
          /\ \A k \in Indices(N) : new[k] = IF k = j THEN arr[j + 1] ELSE IF k = j + 1 THEN arr[j] ELSE arr[k]
      BY <1>7, <1>5, <2>2 DEF SwapInt
    <2>4. IsRearranged(new, from)  BY <1>1, <1>5, <2>2, RearrangedSwap
    <2> HIDE DEF new
    <2>5. /\ DOMAIN n = DOMAIN m /\ n.sort = m.sort /\ n.size = N /\ n.arr = new /\ n.phase = "inner"
          /\ n.i = m.i /\ n.j = j - 1 /\ n.num = m.num /\ n.result = m.result /\ n.weight = m.weight
      BY <2>1 DEF SoTyped, SoFieldNames
    <2>6. SoMoved(m, n, from)  BY <1>1, <2>3, <2>4, <2>5 DEF SoMoved, SoTyped
    <2>7. new[(j - 1) + 1] = m.num /\ j - 1 \in -1 .. m.i - 1  BY <1>1, <1>4, <2>2, <2>3
    <2>8. \A k, l \in Indices(N) : k < l /\ l <= m.i /\ l # (j - 1) + 1 => new[k] <= new[l]
      <3> SUFFICES ASSUME NEW k \in Indices(N), NEW l \in Indices(N), k < l, l <= m.i, l # j
                   PROVE  new[k] <= new[l]
        BY <1>1
      <3>0. \A e, f \in Indices(N) : e < f /\ f <= m.i /\ f # j + 1 => arr[e] <= arr[f]  BY <1>1
      <3>1. CASE l = j + 1
        <4>1. new[l] = arr[j]  BY <3>1, <1>1, <1>5, <2>3
        <4>2. k = j \/ k < j  BY <3>1, <1>1, <1>2
        <4>3. CASE k = j
          <5>1. new[k] = arr[j + 1] /\ arr[j + 1] < arr[j]  BY <4>3, <1>1, <1>4, <2>3
          <5> QED BY <5>1, <4>1, <1>2, <1>5, <2>2
        <4>4. CASE k < j
          <5>1. new[k] = arr[k]  BY <4>4, <1>1, <1>2, <2>3
          <5>2. arr[k] <= arr[j]  BY <4>4, <3>0, <2>2, <1>1
          <5> QED BY <5>1, <5>2, <4>1
        <4> QED BY <4>2, <4>3, <4>4
      <3>2. CASE l # j + 1
        <4>1. new[l] = arr[l] /\ \A e \in Indices(N) : e < l => arr[e] <= arr[l]
          BY <3>0, <3>2, <2>3
        <4>2. CASE k = j
          <5>1. j + 1 < l /\ new[k] = arr[j + 1]  BY <4>2, <3>2, <1>1, <1>2, <2>3
          <5> QED BY <5>1, <4>1, <1>5
        <4>3. CASE k = j + 1
          <5>1. j < l /\ new[k] = arr[j]  BY <4>3, <1>1, <1>2, <2>3
          <5> QED BY <5>1, <4>1, <2>2
        <4>4. CASE k # j /\ k # j + 1  BY <4>1, <4>4, <2>3
        <4> QED BY <4>2, <4>3, <4>4
      <3> QED BY <3>1, <3>2
    <2> QED BY <1>1, <2>5, <2>6, <2>7, <2>8 DEF InsertionInv
  <1> QED BY <1>3, <1>4

-----------------------------------------------------------------------------
\* The low digits of a number.
LEMMA DivMod ==
    ASSUME NEW x \in Nat, NEW p \in Nat \ {0}
    PROVE  x \div p \in Nat /\ x % p \in Nat /\ x % p < p /\ x = p * (x \div p) + (x % p)
  <1>1. x % p \in Int /\ 0 <= x % p /\ x % p < p  OBVIOUS
  <1>2. x \div p \in Int /\ p * (x \div p) <= x /\ x < p * ((x \div p) + 1)  OBVIOUS
  <1>3. x = p * (x \div p) + (x % p)  OBVIOUS
  <1>4. x \div p >= 0
    <2> DEFINE q == x \div p
    <2>1. q \in Int /\ x < p * (q + 1)  BY <1>2
    <2> HIDE DEF q
    <2>2. ~(q < 0)
      <3> SUFFICES ASSUME q < 0 PROVE FALSE  OBVIOUS
      <3>1. p * (q + 1) <= 0  BY <2>1
      <3>2. p * (q + 1) \in Int  BY <2>1
      <3> QED BY <2>1, <3>1, <3>2
    <2> QED BY <2>1, <2>2 DEF q
  <1> QED BY <1>1, <1>2, <1>3, <1>4

LEMMA NotBetween ==
    ASSUME NEW p \in Nat \ {0}, NEW y \in Nat, NEW e \in Nat, NEW r \in Nat, NEW s \in Nat, s < p,
           p * y + r = p * e + s
    PROVE  ~(y < e /\ r < p)
  <1> SUFFICES ASSUME y < e, r < p PROVE FALSE  OBVIOUS
  <1>1. e - (y + 1) \in Nat  OBVIOUS
  <1>2. p * e = (p * y + p) + p * (e - (y + 1))  OBVIOUS
  <1>3. p * (e - (y + 1)) \in Nat /\ p * y \in Nat /\ p * e \in Nat  BY <1>1
  <1>4. p * e >= p * y + p  BY <1>2, <1>3
  <1> QED BY <1>3, <1>4

LEMMA Remainder ==
    ASSUME NEW x \in Nat, NEW p \in Nat \ {0}, NEW y \in Nat, NEW r \in Nat, r < p, x = p * y + r
    PROVE  x % p = r
  <1> DEFINE e == x \div p
             s == x % p
  <1>1. e \in Nat /\ s \in Nat /\ s < p /\ x = p * e + s  BY DivMod
  <1> HIDE DEF e, s
  <1>2. p * y + r = p * e + s  BY <1>1
  <1>3. ~(y < e)  BY <1>1, <1>2, NotBetween
  <1>4. ~(e < y)  BY <1>1, <1>2, NotBetween
  <1>5. e = y  BY <1>1, <1>3, <1>4
  <1>6. p * y \in Nat  OBVIOUS
  <1>7. s = r  BY <1>1, <1>2, <1>5, <1>6
  <1> QED BY <1>7 DEF s

HasDigits(v, w, R) ==
    /\ (v \div w) % R \in Nat /\ (v \div w) % R < R /\ v % w \in Nat /\ v % w < w
    /\ w * R \in Nat \ {0}
    /\ v % (w * R) = w * ((v \div w) % R) + (v % w)

LEMMA LowDigits ==
    ASSUME NEW v \in Nat, NEW w \in Nat \ {0}, NEW R \in Nat \ {0}
    PROVE  HasDigits(v, w, R)
  <1> DEFINE q == v \div w
             r == v % w
             d == q % R
             e == q \div R
  <1>1. q \in Nat /\ r \in Nat /\ r < w /\ v = w * q + r  BY DivMod
  <1> HIDE DEF q, r
  <1>2. d \in Nat /\ d < R /\ e \in Nat /\ q = R * e + d  BY <1>1, DivMod
  <1> HIDE DEF d, e
  <1>3. w * R \in Nat \ {0}  OBVIOUS
  <1>4. w * d + r \in Nat /\ w * d + r < w * R
    <2>1. R - (d + 1) \in Nat  BY <1>2
    <2>2. w * R = (w * d + w) + w * (R - (d + 1))  BY <1>2
    <2>3. w * (R - (d + 1)) \in Nat /\ w * d \in Nat  BY <2>1, <1>2
    <2> QED BY <1>1, <2>2, <2>3
  <1>5. v = (w * R) * e + (w * d + r)
    <2>1. w * q = w * (R * e) + w * d  BY <1>1, <1>2
    <2>2. w * (R * e) = (w * R) * e  BY <1>2
    <2>3. w * (R * e) \in Nat /\ w * d \in Nat  BY <1>2
    <2> DEFINE x == w * q
               y == w * (R * e)
               z == w * d
               u == (w * R) * e
    <2>4. v = x + r /\ x = y + z /\ y = u /\ y \in Nat /\ z \in Nat /\ r \in Nat
      BY <1>1, <2>1, <2>2, <2>3
    <2> HIDE DEF x, y, z, u
    <2>5. v = u + (z + r)  BY <2>4
    <2> QED BY <2>5 DEF u, z
  <1> DEFINE p == w * R
             t == w * d + r
  <1>6. p \in Nat \ {0} /\ t \in Nat /\ t < p /\ v = p * e + t  BY <1>3, <1>4, <1>5
  <1> HIDE DEF p, t
  <1>7. v % p = t  BY <1>2, <1>6, Remainder
  <1>8. d = (v \div w) % R /\ r = v % w  BY DEF d, q, r
  <1>9. v % (w * R) = w * d + r  BY <1>7 DEF p, t
  <1>10. d \in Nat /\ d < R /\ r \in Nat /\ r < w  BY <1>1, <1>2
  <1> QED BY <1>3, <1>8, <1>9, <1>10, Zenon DEF HasDigits

\* Numbers are ordered by a digit first and by those below it then.
LEMMA DigitOrder ==
    ASSUME NEW a \in Nat, NEW b \in Nat, NEW w \in Nat \ {0}, NEW R \in Nat \ {0},
           \/ (a \div w) % R < (b \div w) % R
           \/ (a \div w) % R = (b \div w) % R /\ a % w <= b % w
    PROVE  a % (w * R) <= b % (w * R)
  <1> DEFINE c == (a \div w) % R
             d == (b \div w) % R
             r == a % w
             s == b % w
  <1>1. /\ c \in Nat /\ c < R /\ r \in Nat /\ r < w /\ a % (w * R) = w * c + r
        /\ d \in Nat /\ d < R /\ s \in Nat /\ s < w /\ b % (w * R) = w * d + s
    <2>1. HasDigits(a, w, R) /\ HasDigits(b, w, R)  BY LowDigits
    <2> QED BY <2>1, Zenon DEF HasDigits
  <1>2. c < d \/ (c = d /\ r <= s)  OBVIOUS
  <1> HIDE DEF c, d, r, s
  <1>3. CASE c < d
    <2>1. d - (c + 1) \in Nat  BY <1>1, <1>3
    <2>2. w * d = (w * c + w) + w * (d - (c + 1))  BY <1>1
    <2>3. w * (d - (c + 1)) \in Nat /\ w * c \in Nat /\ w * d \in Nat  BY <1>1, <2>1
    <2>4. w * c + r <= w * d + s  BY <1>1, <2>2, <2>3
    <2> QED BY <1>1, <2>4
  <1>4. CASE c = d /\ r <= s
    <2>1. w * c \in Nat  BY <1>1
    <2>2. w * c + r <= w * d + s  BY <1>1, <1>4, <2>1
    <2> QED BY <1>1, <2>2
  <1> QED BY <1>2, <1>3, <1>4

-----------------------------------------------------------------------------
\* The sorts that distribute by keys.
SoKeys(m) == [l \in Indices(m.size) |-> SoKey(m, m.arr[l])]
Spreads(m) == SoTyped(m) /\ m.sort \in {"Counting", "Radix"}

CountInv(m) ==
    /\ m.lut \in [Indices(SoRange(m)) -> Nat] /\ m.j \in 0 .. m.size
    /\ \A k \in Indices(SoRange(m)) :
          m.lut[k] = Cardinality(Counted(SoKeys(m), m.size, k, m.j))

OffsetInv(m) ==
    /\ m.lut \in [Indices(SoRange(m)) -> Nat] /\ m.j \in 0 .. SoRange(m)
    /\ m.sum = Cardinality(Placed(SoKeys(m), m.size, m.j, 0))
    /\ \A k \in Indices(SoRange(m)) :
          m.lut[k] = IF k < m.j THEN Cardinality(Placed(SoKeys(m), m.size, k, 0))
                     ELSE Cardinality(Counted(SoKeys(m), m.size, k, m.size))

PlaceInv(m) ==
    /\ m.lut \in [Indices(SoRange(m)) -> Nat] /\ m.j \in 0 .. m.size
    /\ \A k \in Indices(SoRange(m)) : m.lut[k] = Cardinality(Placed(SoKeys(m), m.size, k, m.j))
    /\ \A l \in Indices(m.size) : l < m.j => m.result[PlaceOf(SoKeys(m), m.size, l)] = m.arr[l]

LowOrder(m) == \A k, l \in Indices(m.size) : k < l => m.arr[k] % m.weight <= m.arr[l] % m.weight
Ordered(m)  == \A k, l \in Indices(m.size) : k < l => m.arr[k] <= m.arr[l]

SpreadInv(m, from) ==
    /\ m.phase \in {"outer", "count", "offset", "place", "failed", "aborted"}
    /\ m.phase = "count" => CountInv(m)
    /\ m.phase = "offset" => OffsetInv(m)
    /\ m.phase = "place" => PlaceInv(m)
    /\ m.phase \in {"failed", "aborted"} => m.i = 0
    /\ m.i = 0 => m.arr = from
    /\ m.sort = "Counting" => m.i <= 1 /\ (m.phase # "outer" => m.i = 0) /\ (m.i = 1 => Ordered(m))
    /\ m.sort = "Radix" => LowOrder(m)

LEMMA LeastAndGreatest ==
    ASSUME NEW n \in Nat \ {0}, NEW arr \in [Indices(n) -> Values]
    PROVE  /\ FindMin(arr) \in Nat /\ \A l \in Indices(n) : FindMin(arr) <= arr[l]
           /\ FindMax(arr) \in Nat /\ \A l \in Indices(n) : arr[l] <= FindMax(arr)
  <1> DEFINE A == {arr[l] : l \in DOMAIN arr}
  <1>0. DOMAIN arr = Indices(n) /\ \A l \in Indices(n) : arr[l] \in Values  OBVIOUS
  <1>13. INT_MAX \in Nat /\ \A v \in Values : v \in 0..INT_MAX /\ v \in Nat  BY SortingAssumption
  <1>1. A \subseteq 0..INT_MAX /\ INT_MAX \in Nat /\ A \subseteq Nat  BY <1>0, <1>13
  <1>2. 0 \in DOMAIN arr  BY DEF Indices
  <1>3. A # {}  BY <1>2
  <1>4. \A l \in Indices(n) : arr[l] \in A  OBVIOUS
  <1>5. FindMin(arr) = Min(A) /\ FindMax(arr) = Max(A)  BY DEF FindMin, FindMax
  <1> HIDE DEF A
  <1>6. \E x \in A : \A y \in A : x <= y  BY <1>1, <1>3, LeastElement
  <1>7. Min(A) \in A /\ \A y \in A : Min(A) <= y  BY <1>6 DEF Min
  <1> DEFINE B == {b \in Nat : \A y \in A : y <= b}
  <1>8. INT_MAX \in B /\ B \subseteq Nat  BY <1>1
  <1>9. PICK b \in B : \A c \in B : b <= c  BY <1>8, LeastElement
  <1>10. b \in Nat /\ \A y \in A : y <= b  BY <1>9
  <1>11. b \in A
    <2> SUFFICES ASSUME b \notin A PROVE FALSE  OBVIOUS
    <2>1. \A y \in A : y <= b - 1  BY <1>1, <1>10
    <2>2. b # 0
      <3>1. PICK y \in A : TRUE  BY <1>3
      <3> QED BY <3>1, <1>1, <1>10
    <2>3. b - 1 \in B  BY <2>1, <2>2, <1>10
    <2> QED BY <2>3, <1>9, <1>10
  <1> HIDE DEF B
  <1>12. Max(A) \in A /\ \A y \in A : Max(A) >= y  BY <1>1, <1>10, <1>11 DEF Max
  <1> QED BY <1>1, <1>4, <1>5, <1>7, <1>12

LEMMA KeysAre ==
    ASSUME NEW m, Spreads(m)
    PROVE  /\ SoKeys(m) \in [Indices(m.size) -> Nat] /\ SoRange(m) \in Nat \ {0}
           /\ \A l \in Indices(m.size) :
                 SoKeys(m)[l] = SoKey(m, m.arr[l]) /\ SoKeys(m)[l] \in Indices(SoRange(m))
  <1> DEFINE N == m.size
             arr == m.arr
  <1>1. N \in Nat \ {0} /\ arr \in [Indices(N) -> Values] /\ m.weight \in Nat \ {0}
        /\ SoRadix \in Nat \ {0} /\ m.sort \in {"Counting", "Radix"}
    BY SortingAssumption DEF Spreads, SoTyped
  <1>2. \A l \in Indices(N) : SoKey(m, arr[l]) \in Nat /\ SoKey(m, arr[l]) < SoRange(m)
        /\ SoRange(m) \in Nat \ {0}
    <2> TAKE l \in Indices(N)
    <2>1. CASE m.sort = "Counting"
      <3>1. /\ FindMin(arr) \in Nat /\ FindMin(arr) <= arr[l] /\ FindMax(arr) \in Nat
            /\ arr[l] <= FindMax(arr)
        BY <1>1, LeastAndGreatest
      <3>2. arr[l] \in Nat  BY <1>1, LibraryAssumption
      <3> QED BY <2>1, <3>1, <3>2 DEF SoKey, SoRange
    <2>2. CASE m.sort = "Radix"
      <3>1. arr[l] \in Nat  BY <1>1, LibraryAssumption
      <3>2. arr[l] \div m.weight \in Nat  BY <1>1, <3>1, DivMod
      <3> DEFINE q == arr[l] \div m.weight
      <3>3. q % SoRadix \in Nat /\ q % SoRadix < SoRadix
        <4> HIDE DEF q
        <4>1. q \in Nat  BY <3>2 DEF q
        <4> QED BY <1>1, <4>1, DivMod
      <3> QED BY <1>1, <2>2, <3>3 DEF SoKey, SoRange
    <2> QED BY <1>1, <2>1, <2>2
  <1>3. SoRange(m) \in Nat \ {0}
    <2>1. 0 \in Indices(N)  BY <1>1 DEF Indices
    <2> QED BY <2>1, <1>2
  <1>4. \A l \in Indices(N) : SoKeys(m)[l] = SoKey(m, arr[l])  BY DEF SoKeys
  <1>5. \A l \in Indices(N) : SoKey(m, arr[l]) \in Indices(SoRange(m))  BY <1>2 DEF Indices
  <1> QED BY <1>2, <1>3, <1>4, <1>5 DEF SoKeys

\* A step that leaves the array, and what it is distributed by, alone.
SameKeys(m, n) ==
    /\ DOMAIN n = DOMAIN m /\ n.sort = m.sort /\ n.size = m.size /\ n.arr = m.arr /\ n.i = m.i
    /\ n.weight = m.weight

LEMMA KeysStay ==
    ASSUME NEW m, Spreads(m), NEW n, SameKeys(m, n)
    PROVE  /\ SoKeys(n) = SoKeys(m) /\ SoRange(n) = SoRange(m)
           /\ LowOrder(n) = LowOrder(m) /\ Ordered(n) = Ordered(m)
  BY DEF SameKeys, SoKeys, SoKey, SoRange, LowOrder, Ordered

LEMMA SpreadStays ==
    ASSUME NEW m, Spreads(m), NEW from, SpreadInv(m, from), IsRearranged(m.arr, from), NEW n, SameKeys(m, n),
           m.phase # "outer" \/ m.sort = "Radix" \/ m.i = 0,
           n.phase \in {"count", "offset", "place"}, n.result \in [Indices(m.size) -> Nat],
           n.phase = "count" => CountInv(n), n.phase = "offset" => OffsetInv(n),
           n.phase = "place" => PlaceInv(n)
    PROVE  SoMoved(m, n, from) /\ SpreadInv(n, from)
  <1>1. SoTyped(n)  BY DEF Spreads, SoTyped, SameKeys
  <1>2. LowOrder(n) = LowOrder(m) /\ Ordered(n) = Ordered(m)  BY KeysStay
  <1> QED BY <1>1, <1>2 DEF SpreadInv, SoMoved, SameKeys

LEMMA CountSteps ==
    ASSUME NEW m, Spreads(m), NEW from, SpreadInv(m, from), IsRearranged(m.arr, from), m.phase = "count",
           NEW n, n = CountStep(m)
    PROVE  SoMoved(m, n, from) /\ SpreadInv(n, from)
  <1> DEFINE N == m.size
             j == m.j
             K == SoKeys(m)
             R == SoRange(m)
  <1>1. /\ CountInv(m) /\ DOMAIN m = SoFieldNames /\ N \in Nat /\ m.result \in [Indices(N) -> Nat]
    BY DEF SpreadInv, Spreads, SoTyped
  <1>2. /\ K \in [Indices(N) -> Nat] /\ R \in Nat \ {0}
        /\ \A l \in Indices(N) : K[l] = SoKey(m, m.arr[l]) /\ K[l] \in Indices(R)
    BY KeysAre
  <1>3. /\ m.lut \in [Indices(R) -> Nat] /\ j \in 0 .. N
        /\ \A k \in Indices(R) : m.lut[k] = Cardinality(Counted(K, N, k, j))
    BY <1>1 DEF CountInv
  <1>4. \A k \in Indices(R) : k \in Nat  BY <1>2 DEF Indices
  <1>5. CASE j < N
    <2> DEFINE k == SoKey(m, m.arr[j])
               new == [m.lut EXCEPT ![k] = m.lut[k] + 1]
    <2>1. n = [m EXCEPT !.lut = new, !.j = j + 1]  BY <1>5 DEF CountStep
    <2>2. j \in Indices(N) /\ k = K[j] /\ k \in Indices(R)
      <3>1. j \in Indices(N)  BY <1>1, <1>3, <1>5 DEF Indices
      <3>2. K[j] = SoKey(m, m.arr[j]) /\ K[j] \in Indices(R)  BY <3>1, <1>2
      <3> QED BY <3>1, <3>2
    <2> HIDE DEF K, R, k
    <2>3. /\ new \in [Indices(R) -> Nat]
          /\ \A e \in Indices(R) : new[e] = m.lut[e] + (IF e = k THEN 1 ELSE 0)
      BY <1>3, <2>2
    <2> HIDE DEF new
    <2>4. SameKeys(m, n) /\ n.phase = "count" /\ n.lut = new /\ n.j = j + 1 /\ n.result = m.result
      BY <1>1, <2>1 DEF SameKeys, SoFieldNames
    <2>5. SoKeys(n) = K /\ SoRange(n) = R  BY <2>4, KeysStay DEF K, R
    <2>6. \A e \in Indices(R) : new[e] = Cardinality(Counted(K, N, e, j + 1))
      <3> TAKE e \in Indices(R)
      <3>1. Cardinality(Counted(K, N, e, j + 1))
               = Cardinality(Counted(K, N, e, j)) + (IF e = K[j] THEN 1 ELSE 0)
        <4>1. N \in Nat /\ K \in [Indices(N) -> Nat] /\ j \in Indices(N) /\ e \in Nat
          BY <1>1, <1>2, <1>4, <2>2
        <4> QED BY <4>1, CountsOneMore
      <3> QED BY <3>1, <1>3, <2>2, <2>3
    <2>7. CountInv(n)
      <3>1. j + 1 \in 0 .. N /\ n.size = N  BY <1>1, <1>3, <1>5, <2>4 DEF SameKeys
      <3> QED BY <2>3, <2>4, <2>5, <2>6, <3>1 DEF CountInv
    <2> QED BY <1>1, <2>4, <2>7, SpreadStays
  <1>6. CASE ~(j < N)
    <2>1. n = [m EXCEPT !.phase = "offset", !.j = 0, !.sum = 0]  BY <1>6 DEF CountStep
    <2>2. SameKeys(m, n) /\ n.phase = "offset" /\ n.lut = m.lut /\ n.j = 0 /\ n.sum = 0 /\ n.result = m.result
      BY <1>1, <2>1 DEF SameKeys, SoFieldNames
    <2>3. SoKeys(n) = K /\ SoRange(n) = R  BY <2>2, KeysStay
    <2> HIDE DEF K, R
    <2>4. j = N  BY <1>1, <1>3, <1>6
    <2>5. Cardinality(Placed(K, N, 0, 0)) = 0
      <3>1. Placed(K, N, 0, 0) = {}  BY <1>1, <1>2, SumsUp
      <3> QED BY <3>1, FS_EmptySet
    <2>6. OffsetInv(n)
      <3>1. n.size = N /\ 0 \in 0 .. R  BY <1>2, <2>2 DEF SameKeys
      <3>2. \A e \in Indices(R) : ~(e < 0)  BY <1>4
      <3> QED BY <1>3, <2>2, <2>3, <2>4, <2>5, <3>1, <3>2 DEF OffsetInv
    <2> QED BY <1>1, <2>2, <2>6, SpreadStays
  <1> QED BY <1>5, <1>6

LEMMA OffsetSteps ==
    ASSUME NEW m, Spreads(m), NEW from, SpreadInv(m, from), IsRearranged(m.arr, from), m.phase = "offset",
           NEW n, n = OffsetStep(m)
    PROVE  SoMoved(m, n, from) /\ SpreadInv(n, from)
  <1> DEFINE N == m.size
             j == m.j
             K == SoKeys(m)
             R == SoRange(m)
  <1>1. /\ OffsetInv(m) /\ DOMAIN m = SoFieldNames /\ N \in Nat /\ m.result \in [Indices(N) -> Nat]
    BY DEF SpreadInv, Spreads, SoTyped
  <1>2. K \in [Indices(N) -> Nat] /\ R \in Nat \ {0}
    BY KeysAre
  <1>3. /\ m.lut \in [Indices(R) -> Nat] /\ j \in 0 .. R /\ m.sum = Cardinality(Placed(K, N, j, 0))
        /\ \A k \in Indices(R) : m.lut[k] = IF k < j THEN Cardinality(Placed(K, N, k, 0))
                                            ELSE Cardinality(Counted(K, N, k, N))
    BY <1>1 DEF OffsetInv
  <1>4. \A k \in Indices(R) : k \in Nat /\ k < R  BY <1>2 DEF Indices
  <1>5. CASE j < R
    <2> DEFINE new == [m.lut EXCEPT ![j] = m.sum]
               sum == m.sum + m.lut[j]
    <2>1. n = [m EXCEPT !.lut = new, !.sum = sum, !.j = j + 1]  BY <1>5 DEF OffsetStep
    <2>2. j \in Indices(R) /\ j \in Nat  BY <1>2, <1>3, <1>5 DEF Indices
    <2> HIDE DEF K, R
    <2>3. /\ Cardinality(Placed(K, N, j, 0)) \in Nat
          /\ Cardinality(Placed(K, N, j + 1, 0))
                = Cardinality(Placed(K, N, j, 0)) + Cardinality(Counted(K, N, j, N))
      BY <1>1, <1>2, <2>2, SumsUp
    <2>4. /\ new \in [Indices(R) -> Nat]
          /\ \A e \in Indices(R) : new[e] = IF e = j THEN m.sum ELSE m.lut[e]
      BY <1>3, <2>2, <2>3
    <2>5. sum = Cardinality(Placed(K, N, j + 1, 0))
      <3>1. m.lut[j] = Cardinality(Counted(K, N, j, N))  BY <1>3, <2>2
      <3> QED BY <3>1, <1>3, <2>3
    <2> HIDE DEF new, sum
    <2>6. SameKeys(m, n) /\ n.phase = "offset" /\ n.lut = new /\ n.j = j + 1 /\ n.sum = sum /\ n.result = m.result
      BY <1>1, <2>1 DEF SameKeys, SoFieldNames
    <2>7. SoKeys(n) = K /\ SoRange(n) = R  BY <2>6, KeysStay DEF K, R
    <2>8. \A e \in Indices(R) : new[e] = IF e < j + 1 THEN Cardinality(Placed(K, N, e, 0))
                                         ELSE Cardinality(Counted(K, N, e, N))
      <3> TAKE e \in Indices(R)
      <3>1. CASE e = j  BY <3>1, <1>3, <1>4, <2>4
      <3>2. CASE e # j
        <4>1. e < j + 1 <=> e < j  BY <3>2, <1>4, <2>2
        <4> QED BY <4>1, <3>2, <1>3, <2>4
      <3> QED BY <3>1, <3>2
    <2>9. OffsetInv(n)
      <3>1. j + 1 \in 0 .. R /\ n.size = N  BY <1>2, <1>3, <1>5, <2>6 DEF SameKeys
      <3> QED BY <2>4, <2>5, <2>6, <2>7, <2>8, <3>1 DEF OffsetInv
    <2> QED BY <1>1, <2>6, <2>9, SpreadStays
  <1>6. CASE ~(j < R)
    <2>1. n = [m EXCEPT !.phase = "place", !.j = 0]  BY <1>6 DEF OffsetStep
    <2>2. SameKeys(m, n) /\ n.phase = "place" /\ n.lut = m.lut /\ n.j = 0 /\ n.result = m.result
      BY <1>1, <2>1 DEF SameKeys, SoFieldNames
    <2>3. SoKeys(n) = K /\ SoRange(n) = R  BY <2>2, KeysStay
    <2> HIDE DEF K, R
    <2>4. j = R  BY <1>2, <1>3, <1>6
    <2>5. \A k \in Indices(R) : m.lut[k] = Cardinality(Placed(K, N, k, 0))
      BY <1>3, <1>4, <2>4
    <2>6. PlaceInv(n)
      <3>1. n.size = N /\ 0 \in 0 .. N  BY <1>1, <2>2 DEF SameKeys
      <3>2. \A l \in Indices(N) : ~(l < 0)  BY DEF Indices
      <3> QED BY <1>3, <2>2, <2>3, <2>5, <3>1, <3>2 DEF PlaceInv
    <2> QED BY <1>1, <2>2, <2>6, SpreadStays
  <1> QED BY <1>5, <1>6

LEMMA PlaceGoesOn ==
    ASSUME NEW m, Spreads(m), NEW from, SpreadInv(m, from), IsRearranged(m.arr, from), m.phase = "place",
           m.j < m.size, NEW n, n = PlaceStep(m)
    PROVE  SoMoved(m, n, from) /\ SpreadInv(n, from)
  <1> DEFINE N == m.size
             j == m.j
             K == SoKeys(m)
             R == SoRange(m)
             arr == m.arr
  <1>1. /\ PlaceInv(m) /\ DOMAIN m = SoFieldNames /\ N \in Nat /\ m.result \in [Indices(N) -> Nat]
        /\ \A l \in Indices(N) : arr[l] \in Nat
    BY LibraryAssumption DEF SpreadInv, Spreads, SoTyped
  <1>2. /\ K \in [Indices(N) -> Nat] /\ R \in Nat \ {0}
        /\ \A l \in Indices(N) : K[l] = SoKey(m, m.arr[l]) /\ K[l] \in Indices(R)
    BY KeysAre
  <1>3. /\ m.lut \in [Indices(R) -> Nat] /\ j \in 0 .. N
        /\ \A k \in Indices(R) : m.lut[k] = Cardinality(Placed(K, N, k, j))
        /\ \A l \in Indices(N) : l < j => m.result[PlaceOf(K, N, l)] = arr[l]
    BY <1>1 DEF PlaceInv
  <1>4. \A k \in Indices(R) : k \in Nat  BY <1>2 DEF Indices
  <1> DEFINE k == SoKey(m, arr[j])
             at == m.lut[k]
             new == [m.lut EXCEPT ![k] = m.lut[k] + 1]
             res == [m.result EXCEPT ![at] = arr[j]]
  <1>5. n = [m EXCEPT !.result = res, !.lut = new, !.j = j + 1]  BY DEF PlaceStep
  <1>6. j \in Indices(N) /\ k = K[j] /\ k \in Indices(R)
    <2>1. j \in Indices(N)  BY <1>1, <1>3 DEF Indices
    <2>2. K[j] = SoKey(m, m.arr[j]) /\ K[j] \in Indices(R)  BY <2>1, <1>2
    <2> QED BY <2>1, <2>2
  <1> HIDE DEF K, R, k
  <1>7. at = PlaceOf(K, N, j) /\ at \in Indices(N)
    <2>1. at = PlaceOf(K, N, j)  BY <1>3, <1>6 DEF PlaceOf
    <2>2. PlaceOf(K, N, j) \in Indices(N)  BY <1>1, <1>2, <1>6, PlacesDiffer
    <2> QED BY <2>1, <2>2
  <1> HIDE DEF at
  <1>8. /\ new \in [Indices(R) -> Nat]
        /\ \A e \in Indices(R) : new[e] = m.lut[e] + (IF e = k THEN 1 ELSE 0)
    BY <1>3, <1>6
  <1>9. res \in [Indices(N) -> Nat] /\ \A l \in Indices(N) : res[l] = IF l = at THEN arr[j] ELSE m.result[l]
    BY <1>1, <1>6, <1>7
  <1> HIDE DEF new, res
  <1>10. SameKeys(m, n) /\ n.phase = "place" /\ n.lut = new /\ n.j = j + 1 /\ n.result = res
    BY <1>1, <1>5 DEF SameKeys, SoFieldNames
  <1>11. SoKeys(n) = K /\ SoRange(n) = R  BY <1>10, KeysStay DEF K, R
  <1>12. \A e \in Indices(R) : new[e] = Cardinality(Placed(K, N, e, j + 1))
    <2> TAKE e \in Indices(R)
    <2>1. N \in Nat /\ K \in [Indices(N) -> Nat] /\ j \in Indices(N) /\ e \in Nat
      BY <1>1, <1>2, <1>4, <1>6
    <2>2. Cardinality(Placed(K, N, e, j + 1))
             = Cardinality(Placed(K, N, e, j)) + (IF e = K[j] THEN 1 ELSE 0)
      BY <2>1, CountsOneMore
    <2> QED BY <2>2, <1>3, <1>6, <1>8
  <1>13. \A l \in Indices(N) : l < j + 1 => res[PlaceOf(K, N, l)] = arr[l]
    <2> SUFFICES ASSUME NEW l \in Indices(N), l < j + 1 PROVE res[PlaceOf(K, N, l)] = arr[l]
      OBVIOUS
    <2>1. CASE l = j  BY <2>1, <1>7, <1>9
    <2>2. CASE l # j
      <3>1. l < j  BY <2>2, <1>6 DEF Indices
      <3>2. PlaceOf(K, N, l) \in Indices(N) /\ (PlaceOf(K, N, l) = PlaceOf(K, N, j) => l = j)
        BY <1>1, <1>2, <1>6, PlacesDiffer
      <3> QED BY <2>2, <3>1, <3>2, <1>3, <1>7, <1>9
    <2> QED BY <2>1, <2>2
  <1>14. PlaceInv(n)
    <2>1. j + 1 \in 0 .. N /\ n.size = N /\ n.arr = arr  BY <1>1, <1>3, <1>10 DEF SameKeys
    <2> QED BY <1>8, <1>10, <1>11, <1>12, <1>13, <2>1 DEF PlaceInv
  <1> QED BY <1>1, <1>9, <1>10, <1>14, SpreadStays

LEMMA PlaceEnds ==
    ASSUME NEW m, Spreads(m), NEW from \in [Indices(m.size) -> Values], SpreadInv(m, from),
           IsRearranged(m.arr, from), m.phase = "place", ~(m.j < m.size), NEW n, n = PlaceStep(m)
    PROVE  SoMoved(m, n, from) /\ SpreadInv(n, from)
  <1> DEFINE N == m.size
             K == SoKeys(m)
             arr == m.arr
             w == m.weight
  <1>1. /\ PlaceInv(m) /\ DOMAIN m = SoFieldNames /\ N \in Nat \ {0} /\ m.result \in [Indices(N) -> Nat]
        /\ \A l \in Indices(N) : arr[l] \in Nat
        /\ w \in Nat \ {0} /\ SoRadix \in Nat \ {0} /\ m.i \in Nat /\ arr \in [Indices(N) -> Values]
    BY LibraryAssumption, SortingAssumption DEF SpreadInv, Spreads, SoTyped
  <1>2. K \in [Indices(N) -> Nat] /\ \A l \in Indices(N) : K[l] = SoKey(m, m.arr[l])
    BY KeysAre
  <1>3. \A l \in Indices(N) : m.result[PlaceOf(K, N, l)] = arr[l]
    <2>1. \A l \in Indices(N) : l < m.j  BY <1>1 DEF PlaceInv, Indices
    <2> QED BY <1>1, <2>1 DEF PlaceInv
  <1> DEFINE W == w * SoRadix
             other == IF m.sort = "Radix" THEN arr ELSE m.result
             lv == Leave(m)
  <1>4. W \in Nat \ {0}  BY <1>1
  <1>5. /\ DOMAIN lv = DOMAIN m /\ lv.sort = m.sort /\ lv.size = N /\ lv.weight = w
        /\ lv.phase = "outer" /\ lv.i = m.i + 1 /\ lv.result = m.result
    BY LeaveFields DEF Spreads
  <1>6. n = [lv EXCEPT !.arr = m.result, !.weight = lv.weight * SoRadix,
                       !.result = IF m.sort = "Radix" THEN arr ELSE lv.result]
    BY DEF PlaceStep
  <1> HIDE DEF lv
  <1>7. n = [lv EXCEPT !.arr = m.result, !.weight = W, !.result = other]  BY <1>5, <1>6
  <1>8. other \in [Indices(N) -> Nat]  BY <1>1
  <1> HIDE DEF W, other
  <1>9. /\ DOMAIN n = DOMAIN m /\ n.sort = m.sort /\ n.size = N /\ n.arr = m.result /\ n.weight = W
        /\ n.phase = "outer" /\ n.i = m.i + 1 /\ n.result = other
    BY <1>1, <1>5, <1>7 DEF SoFieldNames
  <1> HIDE DEF K
  <1>10. PICK q : Permutes(q, N) /\ m.result = Picked(arr, q, N) /\ StableBy(q, K, N)
    <2>1. N \in Nat /\ K \in [Indices(N) -> Nat] /\ m.result \in [Indices(N) -> Nat]
      BY <1>1, <1>2
    <2>2. AtPlaces(K, N, arr, m.result)  BY <1>3 DEF AtPlaces
    <2> QED BY <2>1, <2>2, Distributed
  <1>11. IsRearranged(n.arr, from)
    <2>1. N \in Nat /\ IsRearranged(arr, from) /\ Permutes(q, N) /\ n.arr = Picked(arr, q, N)
      BY <1>1, <1>9, <1>10
    <2>2. IsRearranged(Picked(arr, q, N), from)  BY <2>1, RearrangedTwice
    <2> QED BY <2>1, <2>2
  <1>12. n.arr \in [Indices(N) -> Values] /\ \A k \in Indices(N) : n.arr[k] = arr[q[k]] /\ q[k] \in Indices(N)
    BY <1>1, <1>9, <1>10 DEF Permutes, Picked
  <1>13. SoTyped(n)  BY <1>1, <1>4, <1>8, <1>9, <1>12 DEF SoTyped, Spreads
  <1>14. SoMoved(m, n, from)  BY <1>9, <1>11, <1>13 DEF SoMoved
  <1>15. ASSUME NEW k \in Indices(N), NEW l \in Indices(N), k < l
         PROVE  /\ m.sort = "Counting" => n.arr[k] <= n.arr[l]
                /\ m.sort = "Radix" => n.arr[k] % W <= n.arr[l] % W
    <2> DEFINE a == q[k]
               b == q[l]
    <2>1. /\ a \in Indices(N) /\ b \in Indices(N) /\ n.arr[k] = arr[a] /\ n.arr[l] = arr[b]
          /\ arr[a] \in Nat /\ arr[b] \in Nat
          /\ K[a] < K[b] \/ (K[a] = K[b] /\ a < b)
          /\ K[a] = SoKey(m, arr[a]) /\ K[b] = SoKey(m, arr[b]) /\ K[a] \in Nat /\ K[b] \in Nat
      BY <1>1, <1>2, <1>10, <1>12, <1>15 DEF StableBy
    <2> HIDE DEF a, b
    <2>2. CASE m.sort = "Counting"
      <3>1. K[a] = arr[a] - FindMin(arr) /\ K[b] = arr[b] - FindMin(arr)  BY <2>1, <2>2 DEF SoKey
      <3>2. FindMin(arr) \in Nat  BY <1>1, LeastAndGreatest
      <3>3. arr[a] <= arr[b]  BY <3>1, <3>2, <2>1
      <3> QED BY <2>1, <2>2, <3>3
    <2>3. CASE m.sort = "Radix"
      <3> DEFINE x == arr[a]
                 y == arr[b]
      <3>1. K[a] = (x \div w) % SoRadix /\ K[b] = (y \div w) % SoRadix  BY <2>1, <2>3 DEF SoKey
      <3>2. a < b => x % w <= y % w  BY <2>1, <2>3 DEF SpreadInv, LowOrder
      <3>3. \/ (x \div w) % SoRadix < (y \div w) % SoRadix
            \/ (x \div w) % SoRadix = (y \div w) % SoRadix /\ x % w <= y % w
        <4> HIDE DEF x, y
        <4> QED BY <2>1, <3>1, <3>2
      <3>4. x \in Nat /\ y \in Nat /\ w \in Nat \ {0} /\ SoRadix \in Nat \ {0}  BY <1>1, <2>1
      <3> HIDE DEF x, y, w
      <3>5. x % (w * SoRadix) <= y % (w * SoRadix)  BY <3>3, <3>4, DigitOrder
      <3> QED BY <2>1, <2>3, <3>5 DEF W, x, y
    <2> QED BY <2>2, <2>3
  <1>16. m.sort = "Counting" => Ordered(n)  BY <1>9, <1>15 DEF Ordered
  <1>17. m.sort = "Radix" => LowOrder(n)  BY <1>9, <1>15 DEF LowOrder
  <1>18. n.i # 0 /\ (m.sort = "Counting" => n.i <= 1)  BY <1>1, <1>9 DEF SpreadInv
  <1> QED BY <1>9, <1>14, <1>16, <1>17, <1>18 DEF SpreadInv

-----------------------------------------------------------------------------
\* The outer loop, and all sorts together.
SortInv(m, from) ==
    /\ SoTyped(m) /\ from \in [Indices(m.size) -> Values] /\ IsRearranged(m.arr, from)
    /\ m.sort = "Bubble" => BubbleInv(m)
    /\ m.sort = "Selection" => SelectionInv(m)
    /\ m.sort = "Insertion" => InsertionInv(m)
    /\ m.sort \in {"Counting", "Radix"} => SpreadInv(m, from)

\* What a step gives that keeps to the invariant of its sort.
StepDone(m, n, from) ==
    /\ SoMoved(m, n, from)
    /\ m.sort = "Bubble" => BubbleInv(n)
    /\ m.sort = "Selection" => SelectionInv(n)
    /\ m.sort = "Insertion" => InsertionInv(n)
    /\ m.sort \in {"Counting", "Radix"} => SpreadInv(n, from)

LEMMA StepsKeepOn ==
    ASSUME NEW m, NEW from, SortInv(m, from), NEW n, StepDone(m, n, from)
    PROVE  SortInv(n, from)
  BY DEF SortInv, StepDone, SoMoved

LEMMA ComparesEnter ==
    ASSUME NEW m, NEW from, SortInv(m, from), m.phase = "outer", m.i < SoPasses(m),
           m.sort \in {"Bubble", "Selection", "Insertion"}, NEW n, n = Enter(m)
    PROVE  StepDone(m, n, from)
  <1> DEFINE N == m.size
             arr == m.arr
  <1>1. /\ DOMAIN m = SoFieldNames /\ N \in Nat \ {0} /\ arr \in [Indices(N) -> Values] /\ m.i \in Nat
        /\ SoTyped(m) /\ IsRearranged(arr, from)
    BY DEF SortInv, SoTyped
  <1>2. \A k \in Indices(N) : k \in Int /\ 0 <= k /\ k < N /\ arr[k] \in Nat
    <2>1. N \in Nat /\ arr \in [Indices(N) -> Values]  BY <1>1
    <2> QED BY <2>1, NumbersAt
  <1>3. CASE m.sort = "Bubble"
    <2>1. n = [m EXCEPT !.phase = "inner", !.j = 0]  BY <1>3 DEF Enter
    <2>2. /\ DOMAIN n = DOMAIN m /\ n.sort = m.sort /\ n.size = N /\ n.arr = arr /\ n.phase = "inner" /\ n.j = 0
          /\ n.i = m.i /\ n.result = m.result /\ n.weight = m.weight
      BY <1>1, <2>1 DEF SoFieldNames
    <2>3. BubbleInv(m) /\ m.i < N - 1  BY <1>3 DEF SortInv, SoPasses
    <2>4. BubbleInv(n)
      <3>1. \A k \in Indices(N) : ~(k < 0)  BY <1>2
      <3>2. 0 \in 0 .. N - 1 - m.i  BY <1>1, <2>3
      <3> QED BY <2>2, <2>3, <3>1, <3>2 DEF BubbleInv
    <2>5. SoMoved(m, n, from)  BY <1>1, <2>2 DEF SoMoved, SoTyped
    <2> QED BY <1>3, <2>4, <2>5 DEF StepDone
  <1>4. CASE m.sort = "Selection"
    <2>1. n = [m EXCEPT !.phase = "inner", !.j = m.i + 1, !.num = m.i]  BY <1>4 DEF Enter
    <2>2. /\ DOMAIN n = DOMAIN m /\ n.sort = m.sort /\ n.size = N /\ n.arr = arr /\ n.phase = "inner"
          /\ n.j = m.i + 1 /\ n.num = m.i /\ n.i = m.i /\ n.result = m.result /\ n.weight = m.weight
      BY <1>1, <2>1 DEF SoFieldNames
    <2>3. SelectionInv(m) /\ m.i < N  BY <1>4 DEF SortInv, SoPasses
    <2>4. SelectionInv(n)
      <3>1. m.i + 1 \in m.i + 1 .. N /\ m.i \in m.i .. N - 1 /\ m.i \in Indices(N)
        BY <1>1, <2>3 DEF Indices
      <3>2. \A l \in Indices(N) : m.i <= l /\ l < m.i + 1 => l = m.i  BY <1>1, <1>2
      <3>3. \A l \in Indices(N) : m.i <= l /\ l < m.i + 1 => arr[m.i] <= arr[l]
        BY <1>2, <3>1, <3>2
      <3> QED BY <2>2, <2>3, <3>1, <3>3 DEF SelectionInv
    <2>5. SoMoved(m, n, from)  BY <1>1, <2>2 DEF SoMoved, SoTyped
    <2> QED BY <1>4, <2>4, <2>5 DEF StepDone
  <1>5. CASE m.sort = "Insertion"
    <2>1. n = [m EXCEPT !.phase = "inner", !.j = m.i - 1, !.num = arr[m.i]]  BY <1>5 DEF Enter
    <2>2. /\ DOMAIN n = DOMAIN m /\ n.sort = m.sort /\ n.size = N /\ n.arr = arr /\ n.phase = "inner"
          /\ n.j = m.i - 1 /\ n.num = arr[m.i] /\ n.i = m.i /\ n.result = m.result /\ n.weight = m.weight
      BY <1>1, <2>1 DEF SoFieldNames
    <2>3. InsertionInv(m) /\ m.i < N  BY <1>5 DEF SortInv, SoPasses
    <2>4. InsertionInv(n)
      <3>1. m.i - 1 \in -1 .. m.i - 1 /\ (m.i - 1) + 1 = m.i /\ m.i \in 1 .. N  BY <1>1, <2>3 DEF InsertionInv
      <3>2. \A k, l \in Indices(N) : k < l /\ l <= m.i /\ l # m.i => arr[k] <= arr[l]
        <4>1. \A l \in Indices(N) : l <= m.i /\ l # m.i => l < m.i  BY <1>1, <1>2
        <4>2. \A k, l \in Indices(N) : k < l /\ l < m.i => arr[k] <= arr[l]  BY <2>3 DEF InsertionInv
        <4> QED BY <4>1, <4>2
      <3> QED BY <2>2, <2>3, <3>1, <3>2 DEF InsertionInv
    <2>5. SoMoved(m, n, from)  BY <1>1, <2>2 DEF SoMoved, SoTyped
    <2> QED BY <1>5, <2>4, <2>5 DEF StepDone
  <1> QED BY <1>3, <1>4, <1>5

LEMMA SpreadsEnter ==
    ASSUME NEW m, NEW from, SortInv(m, from), m.phase = "outer", m.i < SoPasses(m),
           m.sort \in {"Counting", "Radix"}, NEW n, n = Enter(m)
    PROVE  StepDone(m, n, from)
  <1> DEFINE N == m.size
             K == SoKeys(m)
             R == SoRange(m)
             lut == [k \in Indices(R) |-> 0]
  <1>1. /\ DOMAIN m = SoFieldNames /\ N \in Nat \ {0} /\ m.result \in [Indices(N) -> Nat] /\ m.i \in Nat
        /\ Spreads(m) /\ IsRearranged(m.arr, from) /\ SpreadInv(m, from)
    BY DEF SortInv, SoTyped, Spreads
  <1>2. K \in [Indices(N) -> Nat] /\ R \in Nat \ {0}  BY <1>1, KeysAre
  <1>3. n = [m EXCEPT !.phase = "count", !.j = 0, !.lut = lut]  BY DEF Enter, Indices
  <1>4. lut \in [Indices(R) -> Nat] /\ \A k \in Indices(R) : lut[k] = 0  OBVIOUS
  <1> HIDE DEF lut
  <1>5. SameKeys(m, n) /\ n.phase = "count" /\ n.lut = lut /\ n.j = 0 /\ n.result = m.result
    BY <1>1, <1>3 DEF SameKeys, SoFieldNames
  <1>6. SoKeys(n) = K /\ SoRange(n) = R  BY <1>1, <1>5, KeysStay
  <1> HIDE DEF K, R
  <1>7. \A k \in Indices(R) : Cardinality(Counted(K, N, k, 0)) = 0
    <2> TAKE k \in Indices(R)
    <2>1. k \in Nat  BY <1>2 DEF Indices
    <2>2. Counted(K, N, k, 0) = {}  BY <1>1, <1>2, <2>1, SumsUp
    <2> QED BY <2>2, FS_EmptySet
  <1>8. CountInv(n)
    <2>1. n.size = N /\ 0 \in 0 .. N  BY <1>1, <1>5 DEF SameKeys
    <2> QED BY <1>4, <1>5, <1>6, <1>7, <2>1 DEF CountInv
  <1>9. m.sort = "Radix" \/ m.i = 0  BY <1>1 DEF SoPasses
  <1>10. SoMoved(m, n, from) /\ SpreadInv(n, from)  BY <1>1, <1>5, <1>8, <1>9, SpreadStays
  <1> QED BY <1>10 DEF StepDone

LEMMA NoMemoryKeeps ==
    ASSUME NEW m, NEW from, SortInv(m, from), m.phase = "outer", m.i = 0, m.sort \in {"Counting", "Radix"},
           NEW end \in SoEnds, NEW n, n = [m EXCEPT !.phase = end]
    PROVE  SortInv(n, from)
  <1>1. /\ DOMAIN n = DOMAIN m /\ n.sort = m.sort /\ n.size = m.size /\ n.arr = m.arr /\ n.phase = end
        /\ n.i = 0 /\ n.result = m.result /\ n.weight = m.weight
    BY DEF SortInv, SoTyped, SoFieldNames
  <1>2. SoTyped(n)  BY <1>1 DEF SortInv, SoTyped
  <1>3. LowOrder(n) = LowOrder(m)  BY <1>1 DEF LowOrder
  <1>4. SpreadInv(n, from)  BY <1>1, <1>3 DEF SortInv, SpreadInv, SoEnds
  <1> QED BY <1>1, <1>2, <1>4 DEF SortInv

\* A turn of an inner loop, whichever the sort.
LEMMA InnerKeeps ==
    ASSUME NEW m, NEW from, SortInv(m, from), m.phase = "inner", NEW n,
           n = CASE m.sort = "Bubble"    -> BubbleStep(m)
                 [] m.sort = "Selection" -> SelectionStep(m)
                 [] m.sort = "Insertion" -> InsertionStep(m)
    PROVE  SortInv(n, from)
  <1>1. SoTyped(m) /\ from \in [Indices(m.size) -> Values] /\ IsRearranged(m.arr, from)  BY DEF SortInv
  <1>2. m.sort \notin {"Counting", "Radix"}  BY DEF SortInv, SpreadInv
  <1>3. m.sort \in {"Bubble", "Selection", "Insertion"}  BY <1>1, <1>2 DEF SoTyped, SoSorts
  <1>4. CASE m.sort = "Bubble"
    <2>1. BubbleInv(m) /\ n = BubbleStep(m)  BY <1>4 DEF SortInv
    <2>2. SoMoved(m, n, from) /\ BubbleInv(n)  BY <1>1, <2>1, BubbleSteps
    <2>3. StepDone(m, n, from)  BY <1>4, <2>2 DEF StepDone
    <2> QED BY <2>3, StepsKeepOn
  <1>5. CASE m.sort = "Selection"
    <2>1. SelectionInv(m) /\ n = SelectionStep(m)  BY <1>5 DEF SortInv
    <2>2. SoMoved(m, n, from) /\ SelectionInv(n)  BY <1>1, <2>1, SelectionSteps
    <2>3. StepDone(m, n, from)  BY <1>5, <2>2 DEF StepDone
    <2> QED BY <2>3, StepsKeepOn
  <1>6. CASE m.sort = "Insertion"
    <2>1. InsertionInv(m) /\ n = InsertionStep(m)  BY <1>6 DEF SortInv
    <2>2. SoMoved(m, n, from) /\ InsertionInv(n)  BY <1>1, <2>1, InsertionSteps
    <2>3. StepDone(m, n, from)  BY <1>6, <2>2 DEF StepDone
    <2> QED BY <2>3, StepsKeepOn
  <1> QED BY <1>3, <1>4, <1>5, <1>6

LEMMA DistributeKeeps ==
    ASSUME NEW m, NEW from, SortInv(m, from), NEW n,
           \/ m.phase = "count" /\ n = CountStep(m)
           \/ m.phase = "offset" /\ n = OffsetStep(m)
           \/ m.phase = "place" /\ n = PlaceStep(m)
    PROVE  SortInv(n, from)
  <1>1. SoTyped(m) /\ from \in [Indices(m.size) -> Values] /\ IsRearranged(m.arr, from)  BY DEF SortInv
  <1>2. m.sort \in {"Counting", "Radix"}
    <2>1. m.phase \notin {"outer", "inner"}  OBVIOUS
    <2>2. m.sort \notin {"Bubble", "Selection", "Insertion"}
      BY <2>1 DEF SortInv, BubbleInv, SelectionInv, InsertionInv
    <2> QED BY <1>1, <2>2 DEF SoTyped, SoSorts
  <1>3. Spreads(m) /\ SpreadInv(m, from)  BY <1>1, <1>2 DEF Spreads, SortInv
  <1>4. SoMoved(m, n, from) /\ SpreadInv(n, from)
    <2>1. CASE m.phase = "count" /\ n = CountStep(m)  BY <1>1, <1>3, <2>1, CountSteps
    <2>2. CASE m.phase = "offset" /\ n = OffsetStep(m)  BY <1>1, <1>3, <2>2, OffsetSteps
    <2>3. CASE m.phase = "place" /\ n = PlaceStep(m)
      <3>1. CASE m.j < m.size  BY <1>1, <1>3, <2>3, <3>1, PlaceGoesOn
      <3>2. CASE ~(m.j < m.size)  BY <1>1, <1>3, <2>3, <3>2, PlaceEnds
      <3> QED BY <3>1, <3>2
    <2> QED BY <2>1, <2>2, <2>3
  <1>5. StepDone(m, n, from)  BY <1>2, <1>4 DEF StepDone
  <1> QED BY <1>5, StepsKeepOn

SoInv == SortInv(store, log)

LEMMA SoInvInit == SoInit => SoInv
  <1> SUFFICES ASSUME SoInit PROVE SoInv  OBVIOUS
  <1>0. PICK s \in SoSorts, n \in 1..Cells : \E arr \in [0 .. n - 1 -> Values] :
            /\ store = [sort |-> s, size |-> n, arr |-> arr, phase |-> "outer", num |-> 0,
                        i |-> IF s = "Insertion" THEN 1 ELSE 0, j |-> 0, lut |-> <<>>, sum |-> 0,
                        result |-> [l \in 0 .. n - 1 |-> 0], weight |-> 1]
            /\ log = arr
            /\ s = "Counting" => FindMax(arr) < INT_MAX
    BY Zenon DEF SoInit
  <1>1. PICK arr \in [0 .. n - 1 -> Values] :
            /\ store = [sort |-> s, size |-> n, arr |-> arr, phase |-> "outer", num |-> 0,
                        i |-> IF s = "Insertion" THEN 1 ELSE 0, j |-> 0, lut |-> <<>>, sum |-> 0,
                        result |-> [l \in 0 .. n - 1 |-> 0], weight |-> 1]
            /\ log = arr
            /\ s = "Counting" => FindMax(arr) < INT_MAX
    BY <1>0, Zenon
  <1>2. arr \in [Indices(n) -> Values]  BY DEF Indices
  <1>3. /\ DOMAIN store = SoFieldNames /\ store.sort = s /\ store.size = n /\ store.arr = arr
        /\ store.phase = "outer" /\ store.i = (IF s = "Insertion" THEN 1 ELSE 0) /\ store.weight = 1
        /\ store.result = [l \in Indices(n) |-> 0] /\ log = arr
    <2> DEFINE z == [l \in Indices(n) |-> 0]
               i == IF s = "Insertion" THEN 1 ELSE 0
    <2>1. /\ store = [sort |-> s, size |-> n, arr |-> arr, phase |-> "outer", num |-> 0,
                      i |-> i, j |-> 0, lut |-> <<>>, sum |-> 0, result |-> z, weight |-> 1]
          /\ log = arr
      BY <1>1 DEF Indices
    <2> HIDE DEF z, i
    <2>2. /\ DOMAIN store = SoFieldNames /\ store.sort = s /\ store.size = n /\ store.arr = arr
          /\ store.phase = "outer" /\ store.i = i /\ store.weight = 1
          /\ store.result = z /\ log = arr
      BY <2>1 DEF SoFieldNames
    <2> QED BY <2>2 DEF z, i
  <1>4. n \in Nat \ {0}  BY LibraryAssumption
  <1>5. SoTyped(store)
    <2>1. store.result \in [Indices(n) -> Nat]
      <3>1. [l \in Indices(n) |-> 0] \in [Indices(n) -> Nat]  OBVIOUS
      <3> QED BY <1>3, <3>1
    <2>2. store.i \in Nat /\ store.weight \in Nat \ {0} /\ store.arr \in [Indices(n) -> Values]
      BY <1>2, <1>3
    <2>3. store.sort \in SoSorts /\ store.size = n /\ DOMAIN store = SoFieldNames  BY <1>3
    <2> QED BY <1>4, <2>1, <2>2, <2>3 DEF SoTyped
  <1>6. IsRearranged(arr, arr)  BY <1>2, <1>4, RearrangedSelf
  <1>7. \A k \in Indices(n) : k \in Int /\ 0 <= k /\ k < n /\ arr[k] \in Nat
    BY <1>2, <1>4, NumbersAt
  <1>8. s = "Bubble" => BubbleInv(store)  BY <1>3, <1>4, <1>7 DEF BubbleInv
  <1>9. s = "Selection" => SelectionInv(store)  BY <1>3, <1>4, <1>7 DEF SelectionInv
  <1>10. s = "Insertion" => InsertionInv(store)
    <2>1. \A k, l \in Indices(n) : ~(k < l /\ l < 1)  BY <1>7
    <2> QED BY <1>3, <1>4, <2>1 DEF InsertionInv
  <1>11. s \in {"Counting", "Radix"} => SpreadInv(store, log)
    <2>1. LowOrder(store)
      <3>1. \A k \in Indices(n) : arr[k] % 1 = 0  BY <1>7
      <3> QED BY <1>3, <3>1 DEF LowOrder
    <2> QED BY <1>3, <2>1 DEF SpreadInv
  <1> QED BY <1>2, <1>3, <1>5, <1>6, <1>8, <1>9, <1>10, <1>11 DEF SoInv, SortInv

LEMMA SoInvNext == SoInv /\ SoNext => SoInv'
  <1> SUFFICES ASSUME SoInv, SoNext PROVE SoInv'  OBVIOUS
  <1>1. SortInv(store, log) /\ log' = log  BY DEF SoInv, SoNext
  <1>2. CASE Outer
    <2>1. store.phase = "outer" /\ store.i < SoPasses(store) /\ store' = Enter(store)  BY <1>2 DEF Outer
    <2>2. store.sort \in SoSorts  BY <1>1 DEF SortInv, SoTyped
    <2>3. StepDone(store, store', log)
      <3>1. CASE store.sort \in {"Counting", "Radix"}  BY <1>1, <2>1, <3>1, SpreadsEnter
      <3>2. CASE store.sort \notin {"Counting", "Radix"}
        <4>1. store.sort \in {"Bubble", "Selection", "Insertion"}  BY <2>2, <3>2 DEF SoSorts
        <4> QED BY <1>1, <2>1, <4>1, ComparesEnter
      <3> QED BY <3>1, <3>2
    <2> QED BY <1>1, <2>3, StepsKeepOn DEF SoInv
  <1>3. CASE NoMemory
    <2>1. /\ store.phase = "outer" /\ store.i = 0 /\ store.sort \in {"Counting", "Radix"}
          /\ \E end \in SoEnds : store' = [store EXCEPT !.phase = end]
      BY <1>3 DEF NoMemory
    <2>2. PICK end \in SoEnds : store' = [store EXCEPT !.phase = end]
      BY <2>1
    <2> QED BY <1>1, <2>1, <2>2, NoMemoryKeeps DEF SoInv
  <1>4. CASE Inner
    <2>1. /\ store.phase = "inner"
          /\ store' = CASE store.sort = "Bubble"    -> BubbleStep(store)
                        [] store.sort = "Selection" -> SelectionStep(store)
                        [] store.sort = "Insertion" -> InsertionStep(store)
      BY <1>4 DEF Inner
    <2> QED BY <1>1, <2>1, InnerKeeps DEF SoInv
  <1>5. CASE Distribute
    <2>1. \/ store.phase = "count" /\ store' = CountStep(store)
          \/ store.phase = "offset" /\ store' = OffsetStep(store)
          \/ store.phase = "place" /\ store' = PlaceStep(store)
      BY <1>5 DEF Distribute
    <2> QED BY <1>1, <2>1, DistributeKeeps DEF SoInv
  <1> QED BY <1>2, <1>3, <1>4, <1>5 DEF SoNext

\* A value below the weight is its own remainder.
LEMMA AllDigits ==
    ASSUME NEW m, SoTyped(m), LowOrder(m), NEW k \in Indices(m.size), NEW l \in Indices(m.size), k < l,
           m.arr[k] < m.weight, m.arr[l] < m.weight
    PROVE  m.arr[k] <= m.arr[l]
  <1>1. m.arr[k] \in Nat /\ m.arr[l] \in Nat /\ m.weight \in Nat \ {0}  BY LibraryAssumption DEF SoTyped
  <1>2. m.arr[k] % m.weight <= m.arr[l] % m.weight  BY DEF LowOrder
  <1>3. \A x \in Nat, w \in Nat \ {0} : x < w => x % w = x
    <2> SUFFICES ASSUME NEW x \in Nat, NEW w \in Nat \ {0}, x < w PROVE x % w = x  OBVIOUS
    <2>1. x = w * 0 + x  OBVIOUS
    <2> QED BY <2>1, Remainder
  <1> QED BY <1>1, <1>2, <1>3

LEMMA SoInvSorts == SoInv => SoPassesSort
  <1> SUFFICES ASSUME SoInv PROVE SoPassesSort  OBVIOUS
  <1> DEFINE m == store
             N == m.size
  <1>1. /\ SoTyped(m) /\ IsRearranged(m.arr, log) /\ m.sort \in SoSorts /\ Indices(N) = 0 .. N - 1
        /\ N \in Nat \ {0} /\ m.i \in Nat /\ \A k \in Indices(N) : k \in Nat /\ k < N
    BY DEF SoInv, SortInv, SoTyped, Indices
  <1>2. m.sort = "Bubble" => BubbleInv(m)  BY DEF SoInv, SortInv
  <1>3. m.sort = "Selection" => SelectionInv(m)  BY DEF SoInv, SortInv
  <1>4. m.sort = "Insertion" => InsertionInv(m)  BY DEF SoInv, SortInv
  <1>5. m.sort \in {"Counting", "Radix"} => SpreadInv(m, log)  BY DEF SoInv, SortInv
  <1>6. m.sort = "Bubble" => \A k, l \in Indices(N) : k < l /\ l >= N - m.i => m.arr[k] <= m.arr[l]
    BY <1>2 DEF BubbleInv
  <1>7. m.sort = "Selection" => \A k, l \in Indices(N) : k < l /\ k < m.i => m.arr[k] <= m.arr[l]
    BY <1>3 DEF SelectionInv
  <1>8. m.sort = "Insertion" /\ m.phase = "outer" =>
           \A k, l \in Indices(N) : k < l /\ l < m.i => m.arr[k] <= m.arr[l]
    BY <1>4 DEF InsertionInv
  <1>9. m.sort = "Radix" =>
           \A k, l \in Indices(N) : k < l => m.arr[k] % m.weight <= m.arr[l] % m.weight
    BY <1>5 DEF SpreadInv, LowOrder
  <1>10. ASSUME m.phase = "outer", m.i = SoPasses(m), NEW k \in Indices(N), NEW l \in Indices(N), k < l,
                m.sort = "Radix" => m.arr[l] < m.weight /\ m.arr[k] < m.weight
         PROVE  m.arr[k] <= m.arr[l]
    <2>1. CASE m.sort = "Bubble"
      <3>1. m.i = N - 1  BY <1>10, <2>1 DEF SoPasses
      <3>2. l >= N - m.i  BY <1>1, <1>10, <3>1
      <3> QED BY <1>6, <1>10, <2>1, <3>2
    <2>2. CASE m.sort = "Selection"
      <3>1. m.i = N  BY <1>10, <2>2 DEF SoPasses
      <3> QED BY <1>1, <1>7, <1>10, <2>2, <3>1
    <2>3. CASE m.sort = "Insertion"
      <3>1. m.i = N  BY <1>10, <2>3 DEF SoPasses
      <3> QED BY <1>1, <1>8, <1>10, <2>3, <3>1
    <2>4. CASE m.sort = "Counting"
      <3>1. m.i = 1  BY <1>10, <2>4 DEF SoPasses
      <3>2. Ordered(m)  BY <1>5, <2>4, <3>1 DEF SpreadInv
      <3> QED BY <1>10, <3>2 DEF Ordered
    <2>5. CASE m.sort = "Radix"
      <3>1. LowOrder(m)  BY <1>5, <2>5 DEF SpreadInv
      <3> QED BY <1>1, <1>10, <2>5, <3>1, AllDigits
    <2> QED BY <1>1, <2>1, <2>2, <2>3, <2>4, <2>5 DEF SoSorts
  <1>11. m.phase \in SoEnds => m.arr = log
    <2> SUFFICES ASSUME m.phase \in SoEnds PROVE m.arr = log  OBVIOUS
    <2>1. m.sort \in {"Counting", "Radix"}
      BY <1>1, <1>2, <1>3, <1>4 DEF SoSorts, SoEnds, BubbleInv, SelectionInv, InsertionInv
    <2> QED BY <1>5, <2>1 DEF SpreadInv, SoEnds
  <1> QED BY <1>1, <1>6, <1>7, <1>8, <1>9, <1>10, <1>11 DEF SoPassesSort

-----------------------------------------------------------------------------
\* Stack and vectors: a block that can be relied on has room for what it
\* should, and its elements are what was pushed.
ArBlocks     == {"null", "good", "freed"}
ArFieldNames == {"made", "size", "capacity", "data", "block", "smashed", "excused"}

ArTyped(a) == /\ DOMAIN a = ArFieldNames
              /\ a.made \in BOOLEAN /\ a.smashed \in BOOLEAN /\ a.excused \in BOOLEAN
              /\ a.size \in Nat /\ a.capacity \in Nat
              /\ a.data \in Seq(Nat) /\ a.block \in ArBlocks

\* What holds of an array that is not excused.
ArSound(a, l) == /\ ~a.smashed /\ a.block = "good"
                 /\ a.capacity = Len(a.data) /\ a.capacity > 0 /\ a.size <= a.capacity
                 /\ \A i \in 1 .. a.size : a.data[i] = l[i]

ArGood(a, l) == /\ ArTyped(a) /\ l \in Seq(Nat) /\ Len(l) = a.size
                /\ ~a.made => a.size = 0 /\ ~a.smashed
                /\ a.made /\ ~a.excused => ArSound(a, l)

ArInv == store.v \in ArKinds /\ store = [v |-> store.v, a |-> store.a] /\ ArGood(store.a, log)

\* The write of an element.
LEMMA ArWrites ==
    ASSUME NEW a, ArTyped(a), NEW d \in Nat
    PROVE  LET n == ArWrite(a, d) IN
           /\ ArTyped(n) /\ n.made = a.made /\ n.excused = a.excused /\ n.size = a.size + 1
           /\ n.capacity = a.capacity /\ n.block = a.block
           /\ a.block = "good" /\ a.size < Len(a.data) =>
                 /\ n.smashed = a.smashed /\ Len(n.data) = Len(a.data)
                 /\ n.data[a.size + 1] = d
                 /\ \A i \in 1 .. a.size : n.data[i] = a.data[i]
  <1> DEFINE n == ArWrite(a, d)
             new == [a.data EXCEPT ![a.size + 1] = d]
  <1>1. a.size \in Nat /\ a.data \in Seq(Nat) /\ a.size + 1 \in Nat  BY DEF ArTyped
  <1>2. CASE a.block = "good" /\ a.size < Len(a.data)
    <2>1. /\ new \in Seq(Nat) /\ Len(new) = Len(a.data) /\ new[a.size + 1] = d
          /\ \A i \in 1 .. a.size : new[i] = a.data[i]
      BY <1>1, <1>2
    <2>2. n = [a EXCEPT !.data = new, !.size = a.size + 1]  BY <1>2 DEF ArWrite
    <2> HIDE DEF n, new
    <2>3. /\ DOMAIN n = ArFieldNames /\ n.made = a.made /\ n.excused = a.excused
          /\ n.size = a.size + 1 /\ n.capacity = a.capacity /\ n.block = a.block
          /\ n.smashed = a.smashed /\ n.data = new
      BY <2>2 DEF ArTyped, ArFieldNames
    <2>4. ArTyped(n)  BY <1>1, <2>1, <2>3 DEF ArTyped
    <2> QED BY <2>1, <2>3, <2>4 DEF n
  <1>3. CASE ~(a.block = "good" /\ a.size < Len(a.data))
    <2>1. n = [a EXCEPT !.smashed = TRUE, !.size = a.size + 1]  BY <1>3 DEF ArWrite
    <2> HIDE DEF n
    <2>2. /\ DOMAIN n = ArFieldNames /\ n.made = a.made /\ n.excused = a.excused
          /\ n.size = a.size + 1 /\ n.capacity = a.capacity /\ n.block = a.block
          /\ n.smashed = TRUE /\ n.data = a.data
      BY <2>1 DEF ArTyped, ArFieldNames
    <2>3. ArTyped(n)  BY <1>1, <2>2 DEF ArTyped
    <2> QED BY <1>3, <2>2, <2>3 DEF n
  <1> QED BY <1>2, <1>3

\* realloc keeps what is in front, as far as there is room for it.
LEMMA Reallocated ==
    ASSUME NEW a, ArTyped(a), NEW n \in Nat, NEW r \in Realloc(a, n)
    PROVE  /\ r.data \in Seq(Nat) /\ r.block \in {"null", "good"} /\ r.kept \in ArBlocks
           /\ r.block = "good" => /\ Len(r.data) = n
                                  /\ \A i \in 1..n : i <= Len(a.data) => r.data[i] = a.data[i]
           /\ r.block = "null" /\ n # 0 => r.kept = a.block
  <1> DEFINE zeros == Fresh(n)
             all   == a.data \o zeros
             front == SubSeq(all, 1, n)
  <1>1. a.data \in Seq(Nat) /\ a.block \in ArBlocks  BY DEF ArTyped
  <1>2. zeros \in Seq(Nat) /\ Len(zeros) = n  BY DEF Fresh
  <1> HIDE DEF zeros
  <1>3. /\ all \in Seq(Nat) /\ Len(all) = Len(a.data) + n
        /\ \A i \in 1 .. Len(a.data) : all[i] = a.data[i]
    BY ONLY <1>1, <1>2, n \in Nat
  <1> HIDE DEF all
  <1>4. /\ front \in Seq(Nat) /\ Len(front) = n /\ \A i \in 1..n : front[i] = all[i]
    BY <1>1, <1>3
  <1>5. \/ r = [data |-> <<>>, block |-> "null", kept |-> "freed"] /\ n = 0
        \/ r = [data |-> front, block |-> "good", kept |-> a.block]
        \/ r = [data |-> <<>>, block |-> "null", kept |-> a.block]
    <2>1. front = SubSeq(a.data \o Fresh(n), 1, n)  BY DEF all, zeros
    <2>2. Realloc(a, n) \subseteq {[data |-> <<>>, block |-> "null", kept |-> "freed"],
                                   [data |-> front, block |-> "good", kept |-> a.block],
                                   [data |-> <<>>, block |-> "null", kept |-> a.block]}
          /\ (n # 0 => Realloc(a, n) \subseteq {[data |-> front, block |-> "good", kept |-> a.block],
                                                [data |-> <<>>, block |-> "null", kept |-> a.block]})
      BY <2>1 DEF Realloc
    <2> HIDE DEF front
    <2> QED BY Zenon, <2>2
  <1> HIDE DEF front
  <1>6. \A i \in 1..n : i <= Len(a.data) => front[i] = a.data[i]
    <2> SUFFICES ASSUME NEW i \in 1..n, i <= Len(a.data) PROVE front[i] = a.data[i]  OBVIOUS
    <2>1. i \in 1 .. Len(a.data)  BY <1>1
    <2> QED BY <2>1, <1>3, <1>4
  <1>7. CASE r = [data |-> <<>>, block |-> "null", kept |-> "freed"] /\ n = 0
    <2>1. r.data = <<>> /\ r.block = "null" /\ r.kept = "freed" /\ n = 0  BY <1>7
    <2> QED BY <2>1 DEF ArBlocks
  <1>8. CASE r = [data |-> front, block |-> "good", kept |-> a.block]
    <2>1. r.data = front /\ r.block = "good" /\ r.kept = a.block  BY <1>8
    <2> QED BY <2>1, <1>1, <1>4, <1>6
  <1>9. CASE r = [data |-> <<>>, block |-> "null", kept |-> a.block]
    <2>1. r.data = <<>> /\ r.block = "null" /\ r.kept = a.block  BY <1>9
    <2> QED BY <2>1, <1>1
  <1> QED BY <1>5, <1>7, <1>8, <1>9

\* An array made of n elements, none of which was pushed.
LEMMA ArCreates ==
    ASSUME NEW n \in Nat, NEW b \in ArCreate(n)
    PROVE  ArGood(b, <<>>)
  <1> DEFINE zeros == Fresh(n)
  <1>1. zeros \in Seq(Nat) /\ Len(zeros) = n  BY DEF Fresh
  <1> HIDE DEF zeros
  <1>2. PICK d \in ArAlloc(n) :
           b = [ArNone EXCEPT !.made = TRUE, !.capacity = n, !.data = d.data,
                              !.block = d.block, !.excused = d.block = "null" \/ n = 0]
    BY DEF ArCreate
  <1>3. \/ d.data = <<>> /\ d.block = "null"
        \/ d.data = zeros /\ d.block = "good"
    BY DEF ArAlloc, zeros
  <1>4. /\ DOMAIN b = ArFieldNames /\ b.made = TRUE /\ b.smashed = FALSE /\ b.size = 0 /\ b.capacity = n
        /\ b.data = d.data /\ b.block = d.block /\ b.excused \in BOOLEAN
        /\ ~b.excused => d.block # "null" /\ n # 0
    BY <1>2 DEF ArNone, ArFieldNames
  <1>5. d.data \in Seq(Nat) /\ d.block \in ArBlocks
    <2>1. CASE d.data = <<>> /\ d.block = "null"  BY <2>1 DEF ArBlocks
    <2>2. CASE d.data = zeros /\ d.block = "good"  BY <2>2, <1>1 DEF ArBlocks
    <2> QED BY <1>3, <2>1, <2>2
  <1>6. ArTyped(b)
    <2>1. b.made \in BOOLEAN /\ b.smashed \in BOOLEAN  BY <1>4
    <2>2. DOMAIN b = ArFieldNames /\ b.excused \in BOOLEAN  BY <1>4
    <2>3. b.size \in Nat /\ b.capacity \in Nat  BY <1>4
    <2>4. b.data \in Seq(Nat) /\ b.block \in ArBlocks  BY <1>4, <1>5
    <2> QED BY <2>1, <2>2, <2>3, <2>4 DEF ArTyped
  <1>7. ~b.excused => ArSound(b, <<>>)
    <2> SUFFICES ASSUME ~b.excused PROVE ArSound(b, <<>>)  OBVIOUS
    <2>1. d.data = zeros /\ d.block = "good" /\ n # 0  BY <1>3, <1>4
    <2>2. ~b.smashed /\ b.block = "good" /\ b.capacity = n /\ b.data = zeros /\ b.size = 0
      BY <1>4, <2>1
    <2> QED BY <2>1, <2>2, <1>1 DEF ArSound
  <1> QED BY <1>4, <1>6, <1>7 DEF ArGood

\* A write where there is room, in a block that is good.
LEMMA ArWritesPushed ==
    ASSUME NEW a, ArTyped(a), a.made, NEW l \in Seq(Nat), Len(l) = a.size, NEW d \in Nat,
           ~a.excused => ~a.smashed /\ a.block = "good" /\ a.capacity = Len(a.data)
                         /\ a.size < Len(a.data) /\ \A i \in 1 .. a.size : a.data[i] = l[i]
    PROVE  ArGood(ArWrite(a, d), Append(l, d))
  <1> DEFINE n == ArWrite(a, d)
             m == Append(l, d)
  <1>1. /\ ArTyped(n) /\ n.made = a.made /\ n.excused = a.excused /\ n.size = a.size + 1
        /\ n.capacity = a.capacity /\ n.block = a.block
        /\ a.block = "good" /\ a.size < Len(a.data) =>
              /\ n.smashed = a.smashed /\ Len(n.data) = Len(a.data)
              /\ n.data[a.size + 1] = d
              /\ \A i \in 1 .. a.size : n.data[i] = a.data[i]
    BY ArWrites
  <1>2. /\ m \in Seq(Nat) /\ Len(m) = a.size + 1 /\ m[a.size + 1] = d
        /\ \A i \in 1 .. a.size : m[i] = l[i]
    OBVIOUS
  <1>3. a.size \in Nat /\ a.capacity \in Nat  BY DEF ArTyped
  <1> HIDE DEF n, m
  <1>4. ASSUME ~n.excused PROVE ArSound(n, m)
    <2>1. /\ ~a.smashed /\ a.block = "good" /\ a.capacity = Len(a.data)
          /\ a.size < Len(a.data) /\ \A i \in 1 .. a.size : a.data[i] = l[i]
      BY <1>1, <1>4
    <2>2. /\ ~n.smashed /\ n.block = "good" /\ n.capacity = Len(n.data) /\ n.capacity > 0
          /\ n.size <= n.capacity
      BY <1>1, <1>3, <2>1
    <2>3. ASSUME NEW i \in 1 .. n.size PROVE n.data[i] = m[i]
      <3>1. CASE i = a.size + 1  BY <3>1, <1>1, <1>2, <2>1
      <3>2. CASE i # a.size + 1
        <4>1. i \in 1 .. a.size  BY <3>2, <1>1, <1>3
        <4> QED BY <4>1, <1>1, <1>2, <2>1
      <3> QED BY <3>1, <3>2
    <2> QED BY <2>2, <2>3 DEF ArSound
  <1>5. n.made /\ m \in Seq(Nat) /\ Len(m) = n.size  BY <1>1, <1>2
  <1>6. ArGood(n, m)  BY <1>1, <1>4, <1>5 DEF ArGood
  <1> QED BY <1>6 DEF n, m

\* A block that has grown to twice what it was.
ArDoubled(a)  == Realloc(a, GROWTH_FACTOR * a.capacity)
ArGrown(a, r) == [a EXCEPT !.data = r.data, !.block = "good", !.capacity = GROWTH_FACTOR * a.capacity]

LEMMA ArGrows ==
    ASSUME NEW a, NEW l, ArGood(a, l), a.made, NEW r \in ArDoubled(a),
           r.block = "good", NEW n, n = ArGrown(a, r)
    PROVE  /\ ArTyped(n) /\ n.made /\ n.size = a.size /\ n.excused = a.excused
           /\ ~n.excused => ~n.smashed /\ n.block = "good" /\ n.capacity = Len(n.data)
                            /\ n.size < Len(n.data) /\ \A i \in 1 .. n.size : n.data[i] = l[i]
  <1> DEFINE c == GROWTH_FACTOR * a.capacity
  <1>1. ArTyped(a) /\ a.capacity \in Nat /\ a.size \in Nat /\ c \in Nat /\ c = a.capacity + a.capacity
    BY DEF ArGood, ArTyped, GROWTH_FACTOR
  <1> HIDE DEF c
  <1>2. n = [a EXCEPT !.data = r.data, !.block = "good", !.capacity = c] /\ r \in Realloc(a, c)
    BY DEF c, ArGrown, ArDoubled
  <1>3. /\ r.data \in Seq(Nat) /\ Len(r.data) = c
        /\ \A i \in 1..c : i <= Len(a.data) => r.data[i] = a.data[i]
    BY <1>1, <1>2, Reallocated
  <1>4. /\ DOMAIN n = ArFieldNames /\ n.made = a.made /\ n.size = a.size /\ n.capacity = c
        /\ n.data = r.data /\ n.block = "good" /\ n.smashed = a.smashed /\ n.excused = a.excused
    BY <1>1, <1>2 DEF ArTyped, ArFieldNames
  <1>5. ArTyped(n)  BY <1>1, <1>3, <1>4 DEF ArTyped, ArBlocks
  <1>6. ASSUME ~a.excused
        PROVE  /\ ~n.smashed /\ n.capacity = Len(n.data) /\ n.size < Len(n.data)
               /\ \A i \in 1 .. n.size : n.data[i] = l[i]
    <2>1. /\ ~a.smashed /\ a.capacity = Len(a.data) /\ a.capacity > 0 /\ a.size <= a.capacity
          /\ \A i \in 1 .. a.size : a.data[i] = l[i]
      BY <1>6 DEF ArGood, ArSound
    <2>2. ASSUME NEW i \in 1 .. n.size PROVE n.data[i] = l[i]
      <3>1. i \in 1 .. a.size /\ i \in 1..c /\ i <= Len(a.data)  BY <1>1, <1>4, <2>1
      <3> QED BY <3>1, <1>3, <1>4, <2>1
    <2> QED BY <1>1, <1>3, <1>4, <2>1, <2>2
  <1> QED BY <1>4, <1>5, <1>6

LEMMA ArPushes ==
    ASSUME NEW a, NEW l, ArGood(a, l), a.made, NEW d \in Nat, NEW b
    PROVE  /\ b \in StackPush(a, d) /\ a.size < a.capacity => ArGood(b, Append(l, d))
           /\ b \in VectorPushBack1(a, d) =>
                 \/ b.size = a.size /\ ArGood(b, l)
                 \/ b.size = a.size + 1 /\ ArGood(b, Append(l, d))
           /\ b \in VectorPushBack2(a, d) =>
                 \/ b.size = a.size /\ ArGood(b, l)
                 \/ b.size = a.size + 1 /\ ArGood(b, Append(l, d))
  <1> DEFINE c == GROWTH_FACTOR * a.capacity
  <1>1. /\ ArTyped(a) /\ l \in Seq(Nat) /\ Len(l) = a.size /\ a.size \in Nat /\ a.capacity \in Nat
        /\ a.made \in BOOLEAN /\ c \in Nat /\ (a.capacity # 0 => c # 0)
    BY DEF ArGood, ArTyped, GROWTH_FACTOR
  <1>2. ~a.excused => ArSound(a, l)  BY DEF ArGood
  \* there is room
  <1>3. ASSUME ~a.excused => a.size # a.capacity
        PROVE  ArGood(ArWrite(a, d), Append(l, d))
    <2>1. ~a.excused => ~a.smashed /\ a.block = "good" /\ a.capacity = Len(a.data)
                        /\ a.size < Len(a.data) /\ \A i \in 1 .. a.size : a.data[i] = l[i]
      BY <1>1, <1>2, <1>3 DEF ArSound
    <2> QED BY <1>1, <2>1, ArWritesPushed
  <1>4. ArWrite(a, d).size = a.size + 1  BY <1>1, ArWrites
  \* realloc gave a block
  <1>5. ASSUME NEW r \in Realloc(a, c), r.block = "good"
        PROVE  LET g == [a EXCEPT !.data = r.data, !.block = "good", !.capacity = c]
               IN  ArWrite(g, d).size = a.size + 1 /\ ArGood(ArWrite(g, d), Append(l, d))
    <2> DEFINE g == [a EXCEPT !.data = r.data, !.block = "good", !.capacity = c]
    <2>0. g = ArGrown(a, r) /\ r \in ArDoubled(a) /\ ArGood(a, l) /\ a.made
      BY DEF ArGrown, ArDoubled
    <2> HIDE DEF g
    <2>1. /\ ArTyped(g) /\ g.made /\ g.size = a.size /\ g.excused = a.excused
          /\ ~g.excused => ~g.smashed /\ g.block = "good" /\ g.capacity = Len(g.data)
                           /\ g.size < Len(g.data) /\ \A i \in 1 .. g.size : g.data[i] = l[i]
      BY ONLY <2>0, <1>5, ArGrows
    <2>2. ArGood(ArWrite(g, d), Append(l, d))  BY <1>1, <2>1, ArWritesPushed
    <2>3. ArWrite(g, d).size = a.size + 1  BY <2>1, ArWrites
    <2> QED BY <2>2, <2>3 DEF g
  \* realloc failed
  <1>6. ASSUME NEW r \in Realloc(a, c), r.block = "null", NEW k \in Nat, NEW e \in BOOLEAN,
               k = a.capacity \/ e, e \/ e = a.excused,
               b = [a EXCEPT !.capacity = k, !.block = r.kept, !.excused = e,
                             !.data = IF r.kept = "freed" THEN <<>> ELSE a.data]
        PROVE  b.size = a.size /\ ArGood(b, l)
    <2> DEFINE data == IF r.kept = "freed" THEN <<>> ELSE a.data
    <2>1. r.kept \in ArBlocks /\ (c # 0 => r.kept = a.block)  BY <1>1, <1>6, Reallocated
    <2>2. data \in Seq(Nat)  BY <1>1 DEF ArTyped
    <2>3. r.kept # "freed" => data = a.data  OBVIOUS
    <2>4. b = [a EXCEPT !.capacity = k, !.block = r.kept, !.excused = e, !.data = data]  BY <1>6
    <2> HIDE DEF data, c
    <2>5. /\ DOMAIN b = ArFieldNames /\ b.made = a.made /\ b.size = a.size /\ b.capacity = k
          /\ b.data = data /\ b.block = r.kept /\ b.smashed = a.smashed /\ b.excused = e
      BY <1>1, <2>4 DEF ArTyped, ArFieldNames
    <2>6. ArTyped(b)  BY <1>1, <1>6, <2>1, <2>2, <2>5 DEF ArTyped
    <2>7. ASSUME ~b.excused PROVE ArSound(b, l)
      <3>1. ~e /\ k = a.capacity /\ ~a.excused  BY <1>6, <2>5, <2>7
      <3>2. ArSound(a, l)  BY <1>2, <3>1
      <3>3. r.kept = "good"  BY <1>1, <2>1, <3>2 DEF ArSound
      <3>4. data = a.data  BY <2>3, <3>3
      <3> QED BY <2>5, <3>1, <3>2, <3>3, <3>4 DEF ArSound
    <2> QED BY <1>1, <2>5, <2>6, <2>7 DEF ArGood
  <1>7. \A r \in Realloc(a, c) : r.block \in {"null", "good"}  BY <1>1, Reallocated
  <1>8. ASSUME b \in StackPush(a, d), a.size < a.capacity PROVE ArGood(b, Append(l, d))
    BY <1>1, <1>3, <1>8 DEF StackPush
  <1>9. ASSUME b \in VectorPushBack1(a, d)
        PROVE  \/ b.size = a.size /\ ArGood(b, l)
               \/ b.size = a.size + 1 /\ ArGood(b, Append(l, d))
    <2>1. CASE a.size # a.capacity /\ a.block = "null"
      <3>1. b = [a EXCEPT !.excused = TRUE]  BY <1>9, <2>1 DEF VectorPushBack1
      <3>2. /\ DOMAIN b = ArFieldNames /\ b.made = a.made /\ b.size = a.size /\ b.capacity = a.capacity
            /\ b.data = a.data /\ b.block = a.block /\ b.smashed = a.smashed /\ b.excused = TRUE
        BY <1>1, <3>1 DEF ArTyped, ArFieldNames
      <3>3. ArTyped(b)  BY <1>1, <3>2 DEF ArTyped
      <3> QED BY <1>1, <3>2, <3>3 DEF ArGood
    <2>2. CASE a.size # a.capacity /\ a.block # "null"
      <3>1. b = ArWrite(a, d)  BY <1>9, <2>2 DEF VectorPushBack1
      <3> QED BY <3>1, <2>2, <1>3, <1>4
    <2>3. CASE a.size = a.capacity
      <3> DEFINE grown == [a EXCEPT !.capacity = c]
      <3>1. PICK r \in Realloc(a, c) :
               b = IF r.block = "null"
                   THEN [grown EXCEPT !.block = r.kept, !.excused = TRUE,
                                      !.data = IF r.kept = "freed" THEN <<>> ELSE @]
                   ELSE ArWrite([grown EXCEPT !.data = r.data, !.block = "good"], d)
        BY <1>9, <2>3 DEF VectorPushBack1
      <3>2. CASE r.block = "null"
        <4>1. b = [a EXCEPT !.capacity = c, !.block = r.kept, !.excused = TRUE,
                            !.data = IF r.kept = "freed" THEN <<>> ELSE a.data]
          <5>1. grown.data = a.data  BY <1>1 DEF ArTyped, ArFieldNames
          <5>2. b = [grown EXCEPT !.block = r.kept, !.excused = TRUE,
                                  !.data = IF r.kept = "freed" THEN <<>> ELSE grown.data]
            BY <3>1, <3>2
          <5> QED BY <5>1, <5>2
        <4> QED BY ONLY <4>1, <1>1, <1>6, <3>2
      <3>3. CASE r.block = "good"
        <4>1. b = ArWrite([a EXCEPT !.data = r.data, !.block = "good", !.capacity = c], d)
          <5>1. b = ArWrite([grown EXCEPT !.data = r.data, !.block = "good"], d)  BY <3>1, <3>3
          <5>2. [grown EXCEPT !.data = r.data, !.block = "good"]
                = [a EXCEPT !.data = r.data, !.block = "good", !.capacity = c]
            BY <1>1 DEF ArTyped, ArFieldNames
          <5> QED BY <5>1, <5>2
        <4> QED BY <4>1, <1>5, <3>3
      <3> QED BY <1>7, <3>2, <3>3
    <2> QED BY <2>1, <2>2, <2>3
  <1>10. ASSUME b \in VectorPushBack2(a, d)
         PROVE  \/ b.size = a.size /\ ArGood(b, l)
                \/ b.size = a.size + 1 /\ ArGood(b, Append(l, d))
    <2>1. CASE a.size # a.capacity
      <3>1. b = ArWrite(a, d)  BY <1>10, <2>1 DEF VectorPushBack2
      <3> QED BY <3>1, <2>1, <1>3, <1>4
    <2>2. CASE a.size = a.capacity
      <3>1. PICK r \in Realloc(a, c) :
               b = IF r.block = "null"
                   THEN [a EXCEPT !.block = r.kept, !.data = IF r.kept = "freed" THEN <<>> ELSE @]
                   ELSE ArWrite([a EXCEPT !.data = r.data, !.block = "good", !.capacity = c], d)
        BY <1>10, <2>2 DEF VectorPushBack2
      <3>2. CASE r.block = "null"
        <4>1. b = [a EXCEPT !.capacity = a.capacity, !.block = r.kept, !.excused = a.excused,
                            !.data = IF r.kept = "freed" THEN <<>> ELSE a.data]
          <5>1. b = [a EXCEPT !.block = r.kept, !.data = IF r.kept = "freed" THEN <<>> ELSE a.data]
            BY <3>1, <3>2
          <5> QED BY <1>1, <5>1 DEF ArTyped, ArFieldNames
        <4>2. a.excused \in BOOLEAN  BY <1>1 DEF ArTyped
        <4> QED BY <4>1, <4>2, <1>1, <1>6, <3>2
      <3>3. CASE r.block = "good"
        <4>1. b = ArWrite([a EXCEPT !.data = r.data, !.block = "good", !.capacity = c], d)
          BY <3>1, <3>3
        <4> QED BY <4>1, <1>5, <3>3
      <3> QED BY <1>7, <3>2, <3>3
    <2> QED BY <2>1, <2>2
  <1> QED BY <1>8, <1>9, <1>10

LEMMA ArPops ==
    ASSUME NEW a, NEW l, ArGood(a, l), a.made, a.size > 0, NEW b, b = [a EXCEPT !.size = a.size - 1]
    PROVE  ArGood(b, Front(l))
  <1> DEFINE k == Front(l)
             s == a.size - 1
  <1>1. /\ ArTyped(a) /\ l \in Seq(Nat) /\ Len(l) = a.size /\ a.size \in Nat /\ a.capacity \in Nat
    BY DEF ArGood, ArTyped
  <1>2. k \in Seq(Nat) /\ Len(k) = a.size - 1 /\ \A i \in 1 .. a.size - 1 : k[i] = l[i]
    BY <1>1 DEF Front
  <1>3. s \in Nat /\ s = a.size - 1 /\ b = [a EXCEPT !.size = s]  BY <1>1
  <1> HIDE DEF k, s
  <1>4. /\ DOMAIN b = ArFieldNames /\ b.made = a.made /\ b.size = s /\ b.capacity = a.capacity
        /\ b.data = a.data /\ b.block = a.block /\ b.smashed = a.smashed /\ b.excused = a.excused
    BY <1>1, <1>3 DEF ArTyped, ArFieldNames
  <1>5. ArTyped(b)  BY <1>1, <1>3, <1>4 DEF ArTyped
  <1>6. ASSUME ~b.excused PROVE ArSound(b, k)
    <2>1. ArSound(a, l)  BY <1>4, <1>6 DEF ArGood
    <2>2. \A i \in 1 .. s : i \in 1 .. a.size  BY <1>1, <1>3
    <2>3. \A i \in 1 .. s : a.data[i] = k[i]  BY <1>2, <1>3, <2>1, <2>2 DEF ArSound
    <2>4. s <= a.capacity  BY <1>1, <1>3, <2>1 DEF ArSound
    <2> QED BY <1>4, <2>1, <2>3, <2>4 DEF ArSound
  <1>7. ArGood(b, k)  BY <1>2, <1>3, <1>4, <1>5, <1>6 DEF ArGood
  <1> QED BY <1>7 DEF k

LEMMA ArReserves ==
    ASSUME NEW a, NEW l, ArGood(a, l), a.made, NEW n \in Nat, NEW b \in VectorReserve(a, n)
    PROVE  ArGood(b, l)
  <1>1. /\ ArTyped(a) /\ l \in Seq(Nat) /\ Len(l) = a.size /\ a.size \in Nat
    BY DEF ArGood, ArTyped
  <1>2. PICK r \in Realloc(a, n) :
           b = [a EXCEPT !.data = r.data, !.block = r.block, !.capacity = n,
                         !.excused = @ \/ r.block = "null" \/ n = 0 \/ n < a.size]
    BY DEF VectorReserve
  <1>3. /\ r.data \in Seq(Nat) /\ r.block \in {"null", "good"}
        /\ r.block = "good" => /\ Len(r.data) = n
                               /\ \A i \in 1..n : i <= Len(a.data) => r.data[i] = a.data[i]
    BY <1>1, Reallocated
  <1>4. /\ DOMAIN b = ArFieldNames /\ b.made = a.made /\ b.size = a.size /\ b.capacity = n
        /\ b.data = r.data /\ b.block = r.block /\ b.smashed = a.smashed /\ b.excused \in BOOLEAN
        /\ ~b.excused => ~a.excused /\ r.block # "null" /\ n # 0 /\ ~(n < a.size)
    BY <1>1, <1>2 DEF ArTyped, ArFieldNames
  <1>5. ArTyped(b)
    <2>1. b.block \in ArBlocks  BY <1>3, <1>4 DEF ArBlocks
    <2>2. b.capacity \in Nat /\ b.data \in Seq(Nat)  BY <1>3, <1>4
    <2> QED BY <1>1, <1>4, <2>1, <2>2 DEF ArTyped
  <1>6. ASSUME ~b.excused PROVE ArSound(b, l)
    <2>1. ~a.excused /\ r.block = "good" /\ n # 0 /\ ~(n < a.size)  BY <1>3, <1>4, <1>6
    <2>2. /\ ~a.smashed /\ a.capacity = Len(a.data) /\ a.size <= a.capacity
          /\ \A i \in 1 .. a.size : a.data[i] = l[i]
      BY <2>1 DEF ArGood, ArSound
    <2>3. ASSUME NEW i \in 1 .. b.size PROVE b.data[i] = l[i]
      <3>1. i \in 1 .. a.size /\ i \in 1..n /\ i <= Len(a.data)  BY <1>1, <1>4, <2>1, <2>2
      <3> QED BY <3>1, <1>3, <1>4, <2>1, <2>2
    <2>4. ~b.smashed /\ b.block = "good" /\ b.capacity = n /\ Len(b.data) = n /\ n > 0 /\ b.size <= n
      BY <1>1, <1>3, <1>4, <2>1, <2>2
    <2> QED BY <2>3, <2>4 DEF ArSound
  <1> QED BY <1>1, <1>4, <1>5, <1>6 DEF ArGood

LEMMA ArNothing == ArGood(ArNone, <<>>) /\ ~ArNone.made
  <1>1. /\ DOMAIN ArNone = ArFieldNames /\ ArNone.made = FALSE /\ ArNone.size = 0
        /\ ArNone.capacity = 0 /\ ArNone.data = <<>> /\ ArNone.block = "null"
        /\ ArNone.smashed = FALSE /\ ArNone.excused = FALSE
    BY DEF ArNone, ArFieldNames
  <1>2. ArNone.made \in BOOLEAN /\ ArNone.smashed \in BOOLEAN /\ ArNone.excused \in BOOLEAN  BY <1>1
  <1>3. ArNone.size \in Nat /\ ArNone.capacity \in Nat  BY <1>1
  <1>4. ArNone.data \in Seq(Nat) /\ ArNone.block \in ArBlocks  BY <1>1 DEF ArBlocks
  <1>5. ArTyped(ArNone)  BY <1>1, <1>2, <1>3, <1>4 DEF ArTyped
  <1> QED BY <1>1, <1>5 DEF ArGood

LEMMA ArInvInit == ASSUME ArInit PROVE ArInv
  <1>1. PICK v \in ArKinds : store = [v |-> v, a |-> ArNone]  BY DEF ArInit
  <1>2. store.v = v /\ store.a = ArNone /\ log = <<>>  BY <1>1 DEF ArInit
  <1> QED BY <1>1, <1>2, ArNothing DEF ArInv

LEMMA ArSets ==
    ASSUME ArInv, NEW b, ArSet(b), ArGood(b, log') PROVE ArInv'
  <1>1. store = [v |-> store.v, a |-> store.a] /\ store.v \in ArKinds  BY DEF ArInv
  <1>2. store' = [store EXCEPT !.a = b]  BY DEF ArSet
  <1>3. store' = [v |-> store.v, a |-> b]  BY <1>1, <1>2
  <1>4. store'.v = store.v /\ store'.a = b  BY <1>3
  <1> QED BY <1>1, <1>3, <1>4 DEF ArInv

LEMMA ArInvNext == ASSUME ArInv, ArNext PROVE ArInv'
  <1> DEFINE a == store.a
  <1>1. /\ ArGood(a, log) /\ store.v \in ArKinds /\ log \in Seq(Nat) /\ Len(log) = a.size
        /\ a.size \in Nat /\ a.capacity \in Nat
    BY DEF ArInv, ArGood, ArTyped
  <1>2. Values \subseteq Nat /\ Cells \in Nat  BY LibraryAssumption
  <1>3. CASE ~a.made /\ (\E n \in 0..Cells : \E b \in ArCreate(n) : ArSet(b)) /\ UNCHANGED log
    <2>1. PICK n \in 0..Cells : \E b \in ArCreate(n) : ArSet(b)  BY <1>3
    <2>2. PICK b \in ArCreate(n) : ArSet(b)  BY <2>1
    <2>3. n \in Nat  BY <1>2
    <2>4. ArGood(b, <<>>)  BY <2>3, ArCreates
    <2>5. log' = <<>>  BY <1>1, <1>3 DEF ArGood
    <2> QED BY <2>2, <2>4, <2>5, ArSets
  <1>4. CASE a.made /\ ArPush(a)
    <2>1. PICK d \in Values :
             /\ store.v = "stack" => a.size < a.capacity
             /\ \E b \in ArPushed(a, d) : /\ ArSet(b)
                                          /\ log' = IF b.size > a.size THEN Append(log, d) ELSE log
      BY <1>4 DEF ArPush
    <2>2. PICK b \in ArPushed(a, d) : /\ ArSet(b)
                                      /\ log' = IF b.size > a.size THEN Append(log, d) ELSE log
      BY <2>1
    <2> HIDE DEF a
    <2>3. d \in Nat  BY <1>2
    <2>4. /\ b \in StackPush(a, d) /\ a.size < a.capacity => ArGood(b, Append(log, d))
          /\ b \in VectorPushBack1(a, d) =>
                 \/ b.size = a.size /\ ArGood(b, log)
                 \/ b.size = a.size + 1 /\ ArGood(b, Append(log, d))
          /\ b \in VectorPushBack2(a, d) =>
                 \/ b.size = a.size /\ ArGood(b, log)
                 \/ b.size = a.size + 1 /\ ArGood(b, Append(log, d))
      BY <1>1, <1>4, <2>3, ArPushes
    <2>5. \/ b.size = a.size /\ ArGood(b, log)
          \/ b.size = a.size + 1 /\ ArGood(b, Append(log, d))
      <3>1. CASE store.v = "stack"
        <4>1. b \in StackPush(a, d) /\ a.size < a.capacity  BY <2>1, <2>2, <3>1 DEF ArPushed
        <4>2. ArGood(b, Append(log, d))  BY <2>4, <4>1
        <4>3. b.size = Len(Append(log, d))  BY <4>2 DEF ArGood
        <4>4. b.size = a.size + 1  BY <4>3, <1>1
        <4> QED BY <4>2, <4>4
      <3>2. CASE store.v = "first"
        <4>1. b \in VectorPushBack1(a, d)  BY <2>2, <3>2 DEF ArPushed
        <4> QED BY <2>4, <4>1
      <3>3. CASE store.v = "second"
        <4>1. b \in VectorPushBack2(a, d)  BY <2>2, <3>3 DEF ArPushed
        <4> QED BY <2>4, <4>1
      <3> QED BY <1>1, <3>1, <3>2, <3>3 DEF ArKinds
    <2>6. ArGood(b, log')
      <3>1. CASE b.size = a.size /\ ArGood(b, log)
        <4>1. log' = log  BY <3>1, <2>2, <1>1
        <4> QED BY <3>1, <4>1
      <3>2. CASE b.size = a.size + 1 /\ ArGood(b, Append(log, d))
        <4>1. log' = Append(log, d)  BY <3>2, <2>2, <1>1
        <4> QED BY <3>2, <4>1
      <3> QED BY <2>5, <3>1, <3>2
    <2> QED BY <2>2, <2>6, ArSets
  <1>5. CASE a.made /\ ArPop(a)
    <2> DEFINE b == [a EXCEPT !.size = a.size - 1]
    <2>1. a.size > 0 /\ ArSet(b) /\ log' = Front(log)  BY <1>5 DEF ArPop, StackPop, VectorPopBack
    <2>2. b = [a EXCEPT !.size = a.size - 1]  OBVIOUS
    <2> HIDE DEF a, b
    <2>3. ArGood(b, Front(log))  BY <1>1, <1>5, <2>1, <2>2, ArPops
    <2> QED BY <2>1, <2>3, ArSets
  <1>6. CASE a.made /\ ArResize(a)
    <2>1. PICK b \in VectorShrinkToFit(a) \cup UNION {VectorReserve(a, n) : n \in 0..Cells} : ArSet(b)
      BY <1>6 DEF ArResize
    <2>2. PICK n \in Nat : b \in VectorReserve(a, n)
      <3>1. CASE b \in VectorShrinkToFit(a)  BY <3>1, <1>1 DEF VectorShrinkToFit
      <3>2. CASE b \in UNION {VectorReserve(a, n) : n \in 0..Cells}  BY <3>2, <1>2
      <3> QED BY <2>1, <3>1, <3>2
    <2>3. ArGood(b, log)  BY <1>1, <1>6, <2>2, ArReserves
    <2>4. log' = log  BY <1>6 DEF ArResize
    <2> QED BY <2>1, <2>3, <2>4, ArSets
  <1>7. CASE a.made /\ ArSet(ArDestroy(a)) /\ log' = <<>>
    BY <1>7, ArNothing, ArSets DEF ArDestroy
  <1> QED BY <1>3, <1>4, <1>5, <1>6, <1>7 DEF ArNext

LEMMA ArInvHolds == ArInv => ArHoldsData
  <1> DEFINE a == store.a
             front == SubSeq(a.data, 1, a.size)
  <1> SUFFICES ASSUME ArInv, a.made, ~a.excused
               PROVE  /\ ~a.smashed
                      /\ a.size <= a.capacity /\ a.capacity = Len(a.data)
                      /\ front = log
                      /\ a.size > 0 => StackPeek(a) = Last(log) /\ VectorGetAccess(a, 0) = Head(log)
    BY DEF ArHoldsData
  <1>1. ArTyped(a) /\ log \in Seq(Nat) /\ Len(log) = a.size /\ ArSound(a, log)  BY DEF ArInv, ArGood
  <1>2. /\ a.size \in Nat /\ a.data \in Seq(Nat) /\ a.capacity = Len(a.data) /\ a.size <= a.capacity
        /\ ~a.smashed /\ \A i \in 1 .. a.size : a.data[i] = log[i]
    BY <1>1 DEF ArTyped, ArSound
  <1> HIDE DEF a
  <1>3. front \in Seq(Nat) /\ Len(front) = a.size /\ \A i \in 1 .. a.size : front[i] = a.data[i]
    BY <1>2
  <1> HIDE DEF front
  <1>4. front = log
    <2>1. \A i \in 1 .. a.size : front[i] = log[i]  BY <1>2, <1>3
    <2>2. front \in Seq(Nat) /\ log \in Seq(Nat) /\ Len(front) = a.size /\ Len(log) = a.size
      BY <1>1, <1>3
    <2> QED BY ONLY <2>1, <2>2
  <1>5. ASSUME a.size > 0 PROVE StackPeek(a) = Last(log) /\ VectorGetAccess(a, 0) = Head(log)
    <2>1. 1 \in 1 .. a.size /\ a.size \in 1 .. a.size /\ 0 + 1 = 1  BY <1>2, <1>5
    <2>2. StackPeek(a) = log[a.size] /\ VectorGetAccess(a, 0) = log[1]
      BY <1>2, <2>1 DEF StackPeek, VectorGetAccess
    <2>3. Last(log) = log[a.size] /\ Head(log) = log[1]  BY <1>1, <1>5 DEF Last
    <2> QED BY <2>2, <2>3
  <1> QED BY <1>2, <1>4, <1>5

-----------------------------------------------------------------------------
\* One of the libraries, whichever it is.
StoresInv == /\ kind = "strings" => StInv
             /\ kind = "allocators" => AlInv
             /\ kind = "broker" => BkInv(store, log)
             /\ kind = "engine" => EnInv(store, log)
             /\ kind = "sort" => SoInv
             /\ kind = "array" => ArInv

LEMMA StoresInvInit == StoresInit => StoresInv
  <1> SUFFICES ASSUME StoresInit PROVE StoresInv  OBVIOUS
  <1>1. kind = "strings" => StInv  BY StInvInit DEF StoresInit, FwInit
  <1>2. kind = "allocators" => AlInv  BY AlInvInit DEF StoresInit, FwInit
  <1>3. kind = "broker" => BkInv(store, log)  BY BkInvInit DEF StoresInit, FwInit
  <1>4. kind = "engine" => EnInv(store, log)  BY EnInvInit DEF StoresInit, FwInit
  <1>5. kind = "sort" => SoInv  BY SoInvInit DEF StoresInit, FwInit
  <1>6. kind = "array" => ArInv  BY ArInvInit DEF StoresInit, FwInit
  <1> QED BY <1>1, <1>2, <1>3, <1>4, <1>5, <1>6 DEF StoresInv

LEMMA StoresInvNext == StoresInv /\ [StoresNext]_storeVars => StoresInv'
  <1> SUFFICES ASSUME StoresInv, [StoresNext]_storeVars PROVE StoresInv'  OBVIOUS
  <1>1. CASE StoresNext
    <2>0. kind' = kind /\ StoresCall  BY <1>1 DEF StoresNext
    <2>1. CASE kind = "strings"
      <3>1. StNext  BY <2>0, <2>1 DEF StoresCall, FwNext
      <3> QED BY <2>0, <2>1, <3>1, StInvNext DEF StoresInv
    <2>2. CASE kind = "allocators"
      <3>1. AlNext  BY <2>0, <2>2 DEF StoresCall, FwNext
      <3> QED BY <2>0, <2>2, <3>1, AlInvNext DEF StoresInv
    <2>3. CASE kind = "broker"
      <3>1. BkNext  BY <2>0, <2>3 DEF StoresCall, FwNext
      <3> QED BY <2>0, <2>3, <3>1, BkInvNext DEF StoresInv
    <2>4. CASE kind = "engine"
      <3>1. EnNext  BY <2>0, <2>4 DEF StoresCall, FwNext
      <3> QED BY <2>0, <2>4, <3>1, EnInvNext DEF StoresInv
    <2>5. CASE kind = "sort"
      <3>1. SoNext  BY <2>0, <2>5 DEF StoresCall, FwNext
      <3> QED BY <2>0, <2>5, <3>1, SoInvNext DEF StoresInv
    <2>6. CASE kind = "array"
      <3>1. ArNext  BY <2>0, <2>6 DEF StoresCall, FwNext
      <3> QED BY <2>0, <2>6, <3>1, ArInvNext DEF StoresInv
    <2> QED BY <2>0, <2>1, <2>2, <2>3, <2>4, <2>5, <2>6 DEF StoresInv
  <1>2. CASE UNCHANGED storeVars
    <2>1. kind' = kind /\ store' = store /\ log' = log  BY <1>2 DEF storeVars
    <2>2. StInv' = StInv /\ AlInv' = AlInv /\ SoInv' = SoInv
      BY <2>1 DEF StInv, AlInv, SoInv
    <2>3. ArInv' = ArInv  BY <2>1 DEF ArInv
    <2> QED BY <2>1, <2>2, <2>3 DEF StoresInv
  <1> QED BY <1>1, <1>2

LEMMA StoresInvShows == StoresInv => MemoryIsAccountedFor /\ FrameworkIsRight /\ SortsSort
  BY StInvKeepsText, AlInvKnows, BkInvTells, EnInvMakes, SoInvSorts, ArInvHolds
  DEF StoresInv, MemoryIsAccountedFor, FrameworkIsRight, SortsSort

\* The allocators know which blocks are out, the shared strings who shares a
\* buffer, stack and vectors hold what was pushed, for any number of blocks,
\* strings, texts and elements, and whatever malloc and realloc answer.
THEOREM MemoryIsAlwaysAccountedFor == StoresSpec => []MemoryIsAccountedFor
  <1> HIDE DEF StoresInv, StoresInit, StoresNext, MemoryIsAccountedFor
  <1> QED BY StoresInvInit, StoresInvNext, StoresInvShows, PTL DEF StoresSpec

\* The dispatcher tells its call backs, for any number of them, and the engine
\* makes the tasks that it was configured to.
THEOREM FrameworkIsAlwaysRight == StoresSpec => []FrameworkIsRight
  <1> HIDE DEF StoresInv, StoresInit, StoresNext, FrameworkIsRight
  <1> QED BY StoresInvInit, StoresInvNext, StoresInvShows, PTL DEF StoresSpec

\* All five sorts sort, arrays of any length of any numbers, by digits of any
\* radix; whenever they are looked at no element is lost.
THEOREM SortsAlwaysSort == StoresSpec => []SortsSort
  <1> HIDE DEF StoresInv, StoresInit, StoresNext, SortsSort
  <1> QED BY StoresInvInit, StoresInvNext, StoresInvShows, PTL DEF StoresSpec
=============================================================================

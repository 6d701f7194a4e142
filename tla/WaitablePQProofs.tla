-------------------------- MODULE WaitablePQProofs --------------------------
(***************************************************************************)
(* Proofs about WaitablePQ for any number of producers and consumers.      *)
(***************************************************************************)
EXTENDS WaitablePQ, FiniteSetTheorems, TLAPS

\* The owner of m_mutex is the thread in a critical section, if there is one.
MutexInv == \A t \in Threads : pc[t] \in Critical <=> m_mutex = t

\* An element that a Push holds but has not inserted is nowhere else.
Holding(p) == pc[p] \in {"pushLock", "pushInsert"}

ItemsInv ==
    /\ \A p \in Producers : Holding(p) =>
          /\ elem[p] \in Items \ (fresh \cup m_queue)
          /\ \A c \in Consumers : elem[p] \notin DeliveredAtPop[c]
          /\ \A q \in Producers \ {p} : Holding(q) => elem[q] # elem[p]
    /\ fresh \cap m_queue = {}
    /\ \A c \in Consumers : fresh \cap DeliveredAtPop[c] = {}
    /\ \A c \in Consumers : pc[c] = "popReturn" => elem[c] \in Items

IndInv == TypeOK /\ MutexInv /\ PopTakesTheTop /\ ItemsInv

-----------------------------------------------------------------------------
\* A step of WaitablePQ is one of its actions by one of its threads.
LEMMA NextCases ==
    ASSUME Next
    PROVE  \/ \E p \in Producers, x \in Items : PushCall(p, x)
           \/ \E p \in Producers : \/ PushLock(p) \/ PushInsert(p)
                                   \/ PushUnlock(p) \/ PushNotify(p)
           \/ \E c \in Consumers : \/ PopCall(c) \/ PopLock(c) \/ PopWait(c)
                                   \/ PopTop(c) \/ PopPop(c) \/ PopReturn(c)
                                   \/ SpuriousWakeup(c)
  BY DEF Next, PushStep, PopStep

\* The root of the heap stays a maximal element, and an element.
LEMMA RootStep ==
    ASSUME IndInv, [Next]_vars
    PROVE  front' \in Roots(m_queue') /\ m_queue' \subseteq Items
<1> USE ItemsAssumption DEF IndInv, TypeOK, Roots, Maximal
<1>1. CASE UNCHANGED <<m_queue, front>>
  BY <1>1
<1>2. ASSUME NEW p \in Producers, PushInsert(p)
      PROVE  front' \in Roots(m_queue') /\ m_queue' \subseteq Items
  BY <1>2 DEF PushInsert, NewRoot, ItemsInv, Holding, At
<1>3. ASSUME NEW c \in Consumers, PopPop(c)
      PROVE  front' \in Roots(m_queue') /\ m_queue' \subseteq Items
  BY <1>3 DEF PopPop
<1>4. QED
  BY <1>1, <1>2, <1>3, NextCases
     DEF vars, PushCall, PushLock, PushUnlock, PushNotify, PopCall, PopLock,
         PopWait, PopTop, PopReturn, SpuriousWakeup

\* The typing of one step, on which every later proof rests.
LEMMA TypeStep == ASSUME IndInv, [Next]_vars PROVE TypeOK'
<1>0. front' \in Roots(m_queue') /\ m_queue' \subseteq Items
  BY RootStep
<1> USE <1>0, ThreadsAssumption, ItemsAssumption
        DEF IndInv, TypeOK, Threads, PushPCs, PopPCs, Goto, At, Lock, Unlock
<1>1. CASE UNCHANGED vars
  BY <1>1 DEF vars
<1>2. ASSUME NEW p \in Producers, NEW x \in Items, PushCall(p, x)
      PROVE  TypeOK'
  BY <1>2 DEF PushCall
<1>3. ASSUME NEW p \in Producers, PushLock(p) PROVE TypeOK'
  BY <1>3 DEF PushLock
<1>4. ASSUME NEW p \in Producers, PushInsert(p) PROVE TypeOK'
  BY <1>4 DEF PushInsert, NewRoot, ItemsInv, Holding
<1>5. ASSUME NEW p \in Producers, PushUnlock(p) PROVE TypeOK'
  BY <1>5 DEF PushUnlock
<1>6. ASSUME NEW p \in Producers, PushNotify(p) PROVE TypeOK'
  BY <1>6 DEF PushNotify, Waiting
<1>7. ASSUME NEW c \in Consumers, PopCall(c) PROVE TypeOK'
  BY <1>7 DEF PopCall
<1>8. ASSUME NEW c \in Consumers, PopLock(c) PROVE TypeOK'
  BY <1>8 DEF PopLock
<1>9. ASSUME NEW c \in Consumers, PopWait(c) PROVE TypeOK'
  BY <1>9 DEF PopWait
<1>10. ASSUME NEW c \in Consumers, PopTop(c) PROVE TypeOK'
  <2>1. front \in Items
    BY <1>10 DEF PopTop, Roots, Maximal
  <2>2. QED
    BY <1>10, <2>1 DEF PopTop
<1>11. ASSUME NEW c \in Consumers, PopPop(c) PROVE TypeOK'
  BY <1>11 DEF PopPop
<1>12. ASSUME NEW c \in Consumers, PopReturn(c) PROVE TypeOK'
  BY <1>12 DEF PopReturn, ItemsInv
<1>13. ASSUME NEW c \in Consumers, SpuriousWakeup(c) PROVE TypeOK'
  BY <1>13 DEF SpuriousWakeup
<1>14. QED
  BY <1>1, <1>2, <1>3, <1>4, <1>5, <1>6, <1>7, <1>8, <1>9, <1>10, <1>11,
     <1>12, <1>13, NextCases

\* m_mutex keeps at most one thread in a critical section.
LEMMA MutexStep == ASSUME IndInv, [Next]_vars PROVE MutexInv'
<1> USE ThreadsAssumption
        DEF IndInv, TypeOK, MutexInv, Threads, Critical, PushPCs, PopPCs,
            Goto, At, Lock, Unlock
<1>1. CASE UNCHANGED vars
  BY <1>1 DEF vars
<1>2. ASSUME NEW p \in Producers, NEW x \in Items, PushCall(p, x)
      PROVE  MutexInv'
  BY <1>2 DEF PushCall
<1>3. ASSUME NEW p \in Producers, PushLock(p) PROVE MutexInv'
  BY <1>3 DEF PushLock
<1>4. ASSUME NEW p \in Producers, PushInsert(p) PROVE MutexInv'
  BY <1>4 DEF PushInsert
<1>5. ASSUME NEW p \in Producers, PushUnlock(p) PROVE MutexInv'
  BY <1>5 DEF PushUnlock
<1>6. ASSUME NEW p \in Producers, PushNotify(p) PROVE MutexInv'
  BY <1>6 DEF PushNotify, Waiting
<1>7. ASSUME NEW c \in Consumers, PopCall(c) PROVE MutexInv'
  BY <1>7 DEF PopCall
<1>8. ASSUME NEW c \in Consumers, PopLock(c) PROVE MutexInv'
  BY <1>8 DEF PopLock
<1>9. ASSUME NEW c \in Consumers, PopWait(c) PROVE MutexInv'
  BY <1>9 DEF PopWait
<1>10. ASSUME NEW c \in Consumers, PopTop(c) PROVE MutexInv'
  BY <1>10 DEF PopTop
<1>11. ASSUME NEW c \in Consumers, PopPop(c) PROVE MutexInv'
  BY <1>11 DEF PopPop
<1>12. ASSUME NEW c \in Consumers, PopReturn(c) PROVE MutexInv'
  BY <1>12 DEF PopReturn
<1>13. ASSUME NEW c \in Consumers, SpuriousWakeup(c) PROVE MutexInv'
  BY <1>13 DEF SpuriousWakeup
<1>14. QED
  BY <1>1, <1>2, <1>3, <1>4, <1>5, <1>6, <1>7, <1>8, <1>9, <1>10, <1>11,
     <1>12, <1>13, NextCases

\* Between top() and pop() of one consumer, no other thread moves the root.
LEMMA TopStep == ASSUME IndInv, [Next]_vars PROVE PopTakesTheTop'
<1> SUFFICES ASSUME NEW c \in Consumers, (pc[c] = "popPop")'
             PROVE  (elem[c] = front /\ elem[c] \in Maximal(m_queue))'
  BY DEF PopTakesTheTop
<1> USE ThreadsAssumption
        DEF IndInv, TypeOK, Threads, MutexInv, Critical, Goto, At
<1>1. ASSUME pc[c] = "popPop", UNCHANGED <<m_queue, front, elem>>
      PROVE  (elem[c] = front /\ elem[c] \in Maximal(m_queue))'
  BY <1>1 DEF PopTakesTheTop, Maximal
<1>2. CASE UNCHANGED vars
  BY <1>1, <1>2 DEF vars
<1>3. ASSUME NEW p \in Producers, NEW x \in Items, PushCall(p, x)
      PROVE  (elem[c] = front /\ elem[c] \in Maximal(m_queue))'
  BY <1>3 DEF PushCall, PopTakesTheTop, Maximal
<1>4. ASSUME NEW p \in Producers, PushLock(p) \/ PushUnlock(p)
      PROVE  (elem[c] = front /\ elem[c] \in Maximal(m_queue))'
  BY <1>1, <1>4 DEF PushLock, PushUnlock
<1>5. ASSUME NEW p \in Producers, PushInsert(p)
      PROVE  (elem[c] = front /\ elem[c] \in Maximal(m_queue))'
  BY <1>5 DEF PushInsert
<1>6. ASSUME NEW p \in Producers, PushNotify(p)
      PROVE  (elem[c] = front /\ elem[c] \in Maximal(m_queue))'
  BY <1>6 DEF PushNotify, Waiting, PopTakesTheTop, Maximal
<1>7. ASSUME NEW d \in Consumers,
             PopCall(d) \/ PopLock(d) \/ PopWait(d) \/ SpuriousWakeup(d)
      PROVE  (elem[c] = front /\ elem[c] \in Maximal(m_queue))'
  BY <1>1, <1>7 DEF PopCall, PopLock, PopWait, SpuriousWakeup
<1>8. ASSUME NEW d \in Consumers, PopTop(d)
      PROVE  (elem[c] = front /\ elem[c] \in Maximal(m_queue))'
  BY <1>8 DEF PopTop, Roots, Maximal
<1>9. ASSUME NEW d \in Consumers, PopPop(d)
      PROVE  (elem[c] = front /\ elem[c] \in Maximal(m_queue))'
  BY <1>9 DEF PopPop
<1>10. ASSUME NEW d \in Consumers, PopReturn(d)
       PROVE  (elem[c] = front /\ elem[c] \in Maximal(m_queue))'
  BY <1>10 DEF PopReturn, PopTakesTheTop, Maximal
<1>11. QED
  BY <1>2, <1>3, <1>4, <1>5, <1>6, <1>7, <1>8, <1>9, <1>10, NextCases

\* An element is in one place only, from the call of Push to the return of Pop.
LEMMA ItemsStep == ASSUME IndInv, [Next]_vars PROVE ItemsInv'
<1> USE ThreadsAssumption, ItemsAssumption
        DEF IndInv, TypeOK, Threads, PushPCs, PopPCs, ItemsInv, Holding,
            DeliveredAtPop, Goto, At
<1>1. CASE UNCHANGED vars
  BY <1>1 DEF vars
<1>2. ASSUME NEW p \in Producers, NEW x \in Items, PushCall(p, x)
      PROVE  ItemsInv'
  BY <1>2 DEF PushCall
<1>3. ASSUME NEW p \in Producers, PushLock(p) PROVE ItemsInv'
  BY <1>3 DEF PushLock
<1>4. ASSUME NEW p \in Producers, PushInsert(p) PROVE ItemsInv'
  BY <1>4 DEF PushInsert
<1>5. ASSUME NEW p \in Producers, PushUnlock(p) PROVE ItemsInv'
  BY <1>5 DEF PushUnlock
<1>6. ASSUME NEW p \in Producers, PushNotify(p) PROVE ItemsInv'
  BY <1>6 DEF PushNotify, Waiting
<1>7. ASSUME NEW c \in Consumers, PopCall(c) PROVE ItemsInv'
  BY <1>7 DEF PopCall
<1>8. ASSUME NEW c \in Consumers, PopLock(c) PROVE ItemsInv'
  BY <1>8 DEF PopLock
<1>9. ASSUME NEW c \in Consumers, PopWait(c) PROVE ItemsInv'
  BY <1>9 DEF PopWait
<1>10. ASSUME NEW c \in Consumers, PopTop(c) PROVE ItemsInv'
  BY <1>10 DEF PopTop
<1>11. ASSUME NEW c \in Consumers, PopPop(c) PROVE ItemsInv'
  BY <1>11 DEF PopPop, PopTakesTheTop, Maximal
<1>12. ASSUME NEW c \in Consumers, PopReturn(c) PROVE ItemsInv'
  BY <1>12 DEF PopReturn
<1>13. ASSUME NEW c \in Consumers, SpuriousWakeup(c) PROVE ItemsInv'
  BY <1>13 DEF SpuriousWakeup
<1>14. QED
  BY <1>1, <1>2, <1>3, <1>4, <1>5, <1>6, <1>7, <1>8, <1>9, <1>10, <1>11,
     <1>12, <1>13, NextCases

\* The inductive invariant holds in every reachable state.
THEOREM Invariance == Spec => []IndInv
<1>1. Init => IndInv
  BY ThreadsAssumption, ItemsAssumption
     DEF Init, IndInv, TypeOK, MutexInv, Roots, PopTakesTheTop, ItemsInv,
         Threads, PushPCs, PopPCs, Critical, Holding, DeliveredAtPop
<1>2. IndInv /\ [Next]_vars => IndInv'
  BY TypeStep, MutexStep, TopStep, ItemsStep DEF IndInv
<1>3. QED
  BY <1>1, <1>2, PTL DEF Spec

\* Type correctness, for any set of threads and elements.
THEOREM Typing == Spec => []TypeOK
<1>1. IndInv => TypeOK
  BY DEF IndInv
<1>2. QED
  BY <1>1, Invariance, PTL

\* Pop's top() and pop() act on the same, maximal element.
THEOREM PopIsConsistent == Spec => []PopTakesTheTop
<1>1. IndInv => PopTakesTheTop
  BY DEF IndInv
<1>2. QED
  BY <1>1, Invariance, PTL

-----------------------------------------------------------------------------
\* The insertion under the lock is the atomic queue's Insert.
LEMMA InsertRefines ==
    ASSUME IndInv, NEW p \in Producers, PushInsert(p)
    PROVE  Atomic!Insert(elem[p])
  BY ThreadsAssumption
     DEF PushInsert, Atomic!Insert, IndInv, ItemsInv, TypeOK, Holding,
         DeliveredAtPop, Threads, Goto, At

\* pop() under the lock is the atomic queue's Remove of the element that Pop
\* has copied and will return.
LEMMA PopRefines ==
    ASSUME IndInv, NEW c \in Consumers, PopPop(c)
    PROVE  Atomic!Remove(c, elem[c])
<1> USE ThreadsAssumption
        DEF PopPop, IndInv, TypeOK, PopTakesTheTop, Threads, Goto, At
<1>1. elem[c] \in Atomic!Maximal(m_queue) /\ m_queue' = m_queue \ {elem[c]}
  BY DEF Maximal, Atomic!Maximal
<1>2. DeliveredAtPop' = [DeliveredAtPop EXCEPT ![c] = @ \cup {elem[c]}]
  BY DEF DeliveredAtPop
<1>3. QED
  BY <1>1, <1>2 DEF Atomic!Remove

\* Every other step leaves the atomic queue as it is.
LEMMA StutterRefines ==
    ASSUME IndInv, [Next]_vars,
           \A p \in Producers : ~PushInsert(p),
           \A c \in Consumers : ~PopPop(c)
    PROVE  UNCHANGED <<m_queue, DeliveredAtPop>>
<1> USE ThreadsAssumption DEF DeliveredAtPop, IndInv, TypeOK, Threads, Goto, At
<1>1. CASE UNCHANGED vars
  BY <1>1 DEF vars
<1>2. ASSUME NEW p \in Producers, NEW x \in Items, PushCall(p, x)
      PROVE  UNCHANGED <<m_queue, DeliveredAtPop>>
  BY <1>2 DEF PushCall
<1>3. ASSUME NEW p \in Producers, PushLock(p) \/ PushUnlock(p) \/ PushNotify(p)
      PROVE  UNCHANGED <<m_queue, DeliveredAtPop>>
  BY <1>3 DEF PushLock, PushUnlock, PushNotify, Waiting
<1>4. ASSUME NEW c \in Consumers, \/ PopCall(c) \/ PopLock(c) \/ PopWait(c)
                                  \/ PopTop(c) \/ SpuriousWakeup(c)
      PROVE  UNCHANGED <<m_queue, DeliveredAtPop>>
  BY <1>4 DEF PopCall, PopLock, PopWait, PopTop, SpuriousWakeup
<1>5. ASSUME NEW c \in Consumers, PopReturn(c)
      PROVE  UNCHANGED <<m_queue, DeliveredAtPop>>
  BY <1>5 DEF PopReturn
<1>6. QED
  BY <1>1, <1>2, <1>3, <1>4, <1>5, NextCases

\* WPQueue implements the atomic queue: the initial state maps to the initial
\* state and every step maps to Insert, Remove or a stutter.
THEOREM Refinement == Spec => ImplementsAtomicPQ
<1>1. Init => Atomic!AInit
  BY DEF Init, Atomic!AInit, DeliveredAtPop, Threads
<1>2. ASSUME IndInv, [Next]_vars PROVE [Atomic!ANext]_(Atomic!avars)
  <2>1. CASE \E p \in Producers : PushInsert(p)
    <3>1. PICK p \in Producers : PushInsert(p)
      BY <2>1
    <3>2. elem[p] \in Items
      BY <1>2, <3>1 DEF IndInv, ItemsInv, PushInsert, Holding, At
    <3>3. QED
      BY <1>2, <3>1, <3>2, InsertRefines DEF Atomic!ANext
  <2>2. CASE \E c \in Consumers : PopPop(c)
    <3>1. PICK c \in Consumers : PopPop(c)
      BY <2>2
    <3>2. elem[c] \in Items
      BY <1>2, <3>1 DEF IndInv, TypeOK, PopTakesTheTop, PopPop, Maximal, At
    <3>3. QED
      BY <1>2, <3>1, <3>2, PopRefines DEF Atomic!ANext
  <2>3. CASE /\ \A p \in Producers : ~PushInsert(p)
             /\ \A c \in Consumers : ~PopPop(c)
    BY <1>2, <2>3, StutterRefines DEF Atomic!avars
  <2>4. QED
    BY <2>1, <2>2, <2>3
<1>3. QED
  BY <1>1, <1>2, Invariance, PTL DEF Spec, ImplementsAtomicPQ, Atomic!ASpec

-----------------------------------------------------------------------------
\* The counting invariant behind NoLostWakeup, with what makes it a count.
WakeInv == IsFiniteSet(m_queue) /\ NoLostWakeup

\* Rechecking and Notifying are finite, whatever the state.
LEMMA FiniteCounts ==
    /\ IsFiniteSet(Rechecking) /\ Cardinality(Rechecking) \in Nat
    /\ IsFiniteSet(Notifying)  /\ Cardinality(Notifying) \in Nat
<1>1. Rechecking \subseteq Consumers /\ Notifying \subseteq Producers
  BY DEF Rechecking, Notifying
<1>2. QED
  BY <1>1, ThreadsAssumption, FS_Subset, FS_CardinalityType

\* The same in the next state.
LEMMA FiniteCountsNext ==
    /\ IsFiniteSet(Rechecking') /\ Cardinality(Rechecking') \in Nat
    /\ IsFiniteSet(Notifying')  /\ Cardinality(Notifying') \in Nat
<1>1. Rechecking' \subseteq Consumers /\ Notifying' \subseteq Producers
  BY DEF Rechecking, Notifying
<1>2. QED
  BY <1>1, ThreadsAssumption, FS_Subset, FS_CardinalityType

\* A step keeps the count: what adds an element adds a notify to come, what
\* uses a notify up wakes a waiter, and what removes an element or blocks did
\* recheck the queue under the lock.
LEMMA WakeStep == ASSUME IndInv, WakeInv, [Next]_vars PROVE WakeInv'
<1> USE ThreadsAssumption
        DEF IndInv, TypeOK, Threads, PushPCs, PopPCs, Goto, At,
            WakeInv, NoLostWakeup, Waiting
<1>f. /\ IsFiniteSet(Rechecking) /\ Cardinality(Rechecking) \in Nat
      /\ IsFiniteSet(Notifying)  /\ Cardinality(Notifying) \in Nat
      /\ Cardinality(m_queue) \in Nat
      /\ IsFiniteSet(Rechecking') /\ Cardinality(Rechecking') \in Nat
      /\ IsFiniteSet(Notifying')  /\ Cardinality(Notifying') \in Nat
  BY FiniteCounts, FiniteCountsNext, FS_CardinalityType
<1>1. CASE UNCHANGED vars
  BY <1>1 DEF vars, Rechecking, Notifying
<1>2. ASSUME NEW p \in Producers, NEW x \in Items, PushCall(p, x)
      PROVE  WakeInv'
  BY <1>2 DEF PushCall, Rechecking, Notifying
<1>3. ASSUME NEW p \in Producers, PushLock(p) \/ PushUnlock(p)
      PROVE  WakeInv'
  BY <1>3 DEF PushLock, PushUnlock, Rechecking, Notifying
<1>4. ASSUME NEW p \in Producers, PushInsert(p) PROVE WakeInv'
  <2>1. p \notin Notifying /\ Notifying' = Notifying \cup {p}
    BY <1>4 DEF PushInsert, Notifying
  <2>2. Rechecking' = Rechecking /\ Waiting' = Waiting
    BY <1>4 DEF PushInsert, Rechecking
  <2>3. Cardinality(Notifying') = Cardinality(Notifying) + 1
    BY <1>f, <2>1, FS_AddElement
  <2>4. elem[p] \notin m_queue /\ m_queue' = m_queue \cup {elem[p]}
    BY <1>4 DEF PushInsert, ItemsInv, Holding
  <2>5. IsFiniteSet(m_queue') /\ Cardinality(m_queue') = Cardinality(m_queue) + 1
    BY <2>4, FS_AddElement
  <2>6. QED
    BY <1>f, <2>2, <2>3, <2>5
<1>5. ASSUME NEW p \in Producers, PushNotify(p) PROVE WakeInv'
  <2>1. p \in Notifying /\ Notifying' = Notifying \ {p}
    BY <1>5 DEF PushNotify, Notifying
  <2>2. Cardinality(Notifying') = Cardinality(Notifying) - 1
    BY <1>f, <2>1, FS_RemoveElement
  <2>3. m_queue' = m_queue
    BY <1>5 DEF PushNotify
  <2>4. CASE Waiting = {}
    BY <1>5, <2>3, <2>4 DEF PushNotify
  <2>5. ASSUME NEW c \in Waiting,
               pc' = [pc EXCEPT ![p] = "idle", ![c] = "popLock"]
        PROVE  WakeInv'
    <3>1. c \notin Rechecking /\ Rechecking' = Rechecking \cup {c}
      BY <2>5 DEF Rechecking
    <3>2. Cardinality(Rechecking') = Cardinality(Rechecking) + 1
      BY <1>f, <3>1, FS_AddElement
    <3>3. QED
      BY <1>f, <2>2, <2>3, <2>5, <3>2
  <2>6. QED
    BY <1>5, <2>4, <2>5 DEF PushNotify
<1>6. ASSUME NEW c \in Consumers, PopCall(c) \/ SpuriousWakeup(c)
      PROVE  WakeInv'
  <2>1. c \notin Rechecking /\ Rechecking' = Rechecking \cup {c}
    BY <1>6 DEF PopCall, SpuriousWakeup, Rechecking
  <2>2. Cardinality(Rechecking') = Cardinality(Rechecking) + 1
    BY <1>f, <2>1, FS_AddElement
  <2>3. /\ m_queue' = m_queue
        /\ Notifying' = Notifying
        /\ Waiting' # {} => Waiting # {}
    BY <1>6 DEF PopCall, SpuriousWakeup, Notifying
  <2>4. QED
    BY <1>f, <2>2, <2>3
<1>7. ASSUME NEW c \in Consumers, PopLock(c) \/ PopTop(c) PROVE WakeInv'
  <2>1. Rechecking' = Rechecking
    BY <1>7 DEF PopLock, PopTop, Rechecking
  <2>2. Notifying' = Notifying /\ Waiting' = Waiting /\ m_queue' = m_queue
    BY <1>7 DEF PopLock, PopTop, Notifying
  <2>3. QED
    BY <2>1, <2>2
<1>8. ASSUME NEW c \in Consumers, PopWait(c) PROVE WakeInv'
  BY <1>f, <1>8, FS_EmptySet DEF PopWait
<1>9. ASSUME NEW c \in Consumers, PopPop(c) PROVE WakeInv'
  <2>1. c \in Rechecking /\ Rechecking' = Rechecking \ {c}
    BY <1>9 DEF PopPop, Rechecking
  <2>2. Cardinality(Rechecking') = Cardinality(Rechecking) - 1
    BY <1>f, <2>1, FS_RemoveElement
  <2>3. front \in m_queue /\ m_queue' = m_queue \ {front}
    BY <1>9 DEF PopPop, PopTakesTheTop, Maximal
  <2>4. IsFiniteSet(m_queue') /\ Cardinality(m_queue') = Cardinality(m_queue) - 1
    BY <2>3, FS_RemoveElement
  <2>5. Notifying' = Notifying /\ Waiting' = Waiting
    BY <1>9 DEF PopPop, Notifying
  <2>6. QED
    BY <1>f, <2>2, <2>4, <2>5
<1>10. ASSUME NEW c \in Consumers, PopReturn(c) PROVE WakeInv'
  BY <1>10 DEF PopReturn, Rechecking, Notifying
<1>11. QED
  BY <1>1, <1>2, <1>3, <1>4, <1>5, <1>6, <1>7, <1>8, <1>9, <1>10, NextCases

\* No wakeup is lost, for any number of threads and elements.
THEOREM WakeupsAreNotLost == Spec => []NoLostWakeup
<1>1. Init => WakeInv
  BY ThreadsAssumption, FS_EmptySet
     DEF Init, WakeInv, NoLostWakeup, Waiting, Threads
<1>2. IndInv /\ WakeInv /\ [Next]_vars => WakeInv'
  BY WakeStep
<1>3. WakeInv => NoLostWakeup
  BY DEF WakeInv
<1>4. QED
  BY <1>1, <1>2, <1>3, Invariance, PTL DEF Spec
=============================================================================

-------------------------- MODULE RendezvousProofs --------------------------
(***************************************************************************)
(* Proofs about Rendezvous for any number of consumers: types hold, every  *)
(* consumer reads every message exactly once, and the producer overwrites  *)
(* a message only after all have.                                          *)
(***************************************************************************)
EXTENDS Rendezvous, FiniteSetTheorems, TLAPS

\* The owner of the mutex is the thread between a lock and the next unlock.
Critical(t) == \/ t = Producer /\ pc[t] \in {"write", "post", "test", "unlock"}
               \/ t \in Consumers /\ pc[t] \in {"count", "barrier", "leave", "unlock"}

MutexInv == \A t \in Threads : Critical(t) <=> mutex = t

\* The current message was read by a consumer or comes next for it.
LastInv == \A c \in Consumers :
    /\ last[c] = msg \/ msg = After(last[c])
    /\ pc[c] = "read" => last[c] # msg
    /\ pc[c] \in {"lock", "count", "barrier", "waiting", "relock", "leave"}
          => last[c] = msg

Outside == {"sem", "consume", "unlock"}

\* The consumers that have no permit for the current message yet, those that
\* counted themselves, and those of them that left the barrier.
Fresh   == {c \in Consumers : pc[c] \in Outside /\ last[c] # msg}
Left    == {c \in Consumers : pc[c] \in Outside /\ last[c] = msg}
Arrived == Left \cup {c \in Consumers :
                        pc[c] \in {"barrier", "waiting", "relock", "leave"}}
Leaving == {c \in Consumers : pc[c] = "leave"}

\* One permit was or will be posted for each consumer without one.
PostsLeft == IF pc[Producer] = "post" THEN CONSUM_NUM - i ELSE 0
SemInv == semaphor + PostsLeft = Cardinality(Fresh)

\* Between two rounds, and within one.
Over == /\ Left = Consumers
        /\ read_count = 0
        /\ consum_count = CONSUM_NUM \/ pc[Producer] \in {"lock", "write"}

Running == /\ pc[Producer] \notin {"lock", "write", "unlock"}
           /\ consum_count = Cardinality(Left) /\ consum_count < CONSUM_NUM
           /\ read_count = Cardinality(Arrived)
           /\ Left \cup Leaving # {} => Arrived = Consumers

IInv == TypeOK /\ MutexInv /\ LastInv /\ SemInv /\ (Over \/ Running)

-----------------------------------------------------------------------------
\* A message differs from the one before it.
LEMMA AfterDiffers == \A m \in Msgs : After(m) \in Msgs /\ After(m) # m
  BY NumbersAssumption DEF Msgs, After

\* The sets of consumers are finite, and none is larger than Consumers.
LEMMA Sizes ==
    /\ CONSUM_NUM \in Nat /\ CONSUM_NUM > 0
    /\ \A S \in SUBSET Consumers :
          /\ IsFiniteSet(S) /\ Cardinality(S) \in 0..CONSUM_NUM
          /\ Cardinality(S) = CONSUM_NUM => S = Consumers
          /\ Cardinality(S) = 0 <=> S = {}
          /\ \A c \in Consumers \ S : Cardinality(S \cup {c}) = Cardinality(S) + 1
          /\ \A c \in S : Cardinality(S \ {c}) = Cardinality(S) - 1
  <1>1. CONSUM_NUM \in Nat /\ CONSUM_NUM > 0
    BY ThreadsAssumption, FS_CardinalityType, FS_EmptySet DEF CONSUM_NUM
  <1>2. ASSUME NEW S \in SUBSET Consumers
        PROVE  /\ IsFiniteSet(S) /\ Cardinality(S) \in 0..CONSUM_NUM
               /\ Cardinality(S) = CONSUM_NUM => S = Consumers
    BY <1>2, <1>1, ThreadsAssumption, FS_Subset, FS_CardinalityType DEF CONSUM_NUM
  <1>3. ASSUME NEW S \in SUBSET Consumers
        PROVE  /\ Cardinality(S) = 0 <=> S = {}
               /\ \A c \in Consumers \ S : Cardinality(S \cup {c}) = Cardinality(S) + 1
               /\ \A c \in S : Cardinality(S \ {c}) = Cardinality(S) - 1
    BY <1>2, FS_EmptySet, FS_AddElement, FS_RemoveElement
  <1>4. QED
    BY <1>1, <1>2, <1>3

\* The invariant holds initially.
LEMMA Initially == Init => IInv
  <1> SUFFICES ASSUME Init PROVE IInv
    OBVIOUS
  <1> USE ThreadsAssumption, NumbersAssumption, Sizes DEF Init, Threads
  <1>1. TypeOK
    BY DEF TypeOK, Msgs, ProducerPCs, ConsumerPCs
  <1>2. MutexInv /\ LastInv
    BY DEF MutexInv, Critical, LastInv
  <1>3. Fresh = {} /\ Left = Consumers
    BY DEF Fresh, Left, Outside
  <1>4. SemInv
    BY <1>3 DEF SemInv, PostsLeft
  <1>5. QED
    BY <1>1, <1>2, <1>3, <1>4 DEF IInv, Over

\* What depends on the sets of consumers follows for a step that leaves them
\* alone.
LEMMA SameSets ==
    ASSUME IInv, UNCHANGED <<semaphor, consum_count, read_count, PostsLeft>>,
           Fresh' = Fresh, Left' = Left, Arrived' = Arrived, Leaving' = Leaving,
           pc'[Producer] \in {"lock", "write", "unlock"} =>
               pc[Producer] \in {"lock", "write", "unlock"}
               \/ consum_count = CONSUM_NUM,
           pc[Producer] \in {"lock", "write"} => pc'[Producer] \in {"lock", "write"}
    PROVE  SemInv' /\ (Over \/ Running)'
  <1>1. SemInv'
    <2>1. Fresh' = Fresh
      OBVIOUS
    <2>2. Cardinality(Fresh') = Cardinality(Fresh)
      BY <2>1, Zenon
    <2>3. QED
      BY <2>2 DEF IInv, SemInv
  <1>2. ASSUME Over PROVE Over'
    BY <1>2 DEF Over
  <1>3. ASSUME Running PROVE Running'
    <2>0. Left' = Left /\ Arrived' = Arrived
      OBVIOUS
    <2>1. /\ Cardinality(Left') = Cardinality(Left)
          /\ Cardinality(Arrived') = Cardinality(Arrived)
      BY <2>0, Zenon
    <2>2. pc'[Producer] \notin {"lock", "write", "unlock"}
      BY <1>3, Sizes DEF Running
    <2>3. QED
      BY <1>3, <2>1, <2>2 DEF Running
  <1>4. QED
    BY <1>1, <1>2, <1>3 DEF IInv

\* Moves of a thread that keep every consumer in its set.
PlacesOf(t) == IF t = Producer
            THEN {<<"lock", "write">>, <<"relock", "test">>, <<"test", "waiting">>,
                  <<"waiting", "relock">>, <<"unlock", "lock">>}
            ELSE {<<"lock", "count">>, <<"relock", "barrier">>,
                  <<"barrier", "waiting">>, <<"waiting", "relock">>,
                  <<"unlock", "consume">>, <<"consume", "sem">>}

\* Such a move keeps the invariant, if the mutex stays with the right thread.
LEMMA MoveStep ==
    ASSUME IInv, NEW t \in Threads, NEW to, <<pc[t], to>> \in PlacesOf(t),
           pc' = [pc EXCEPT ![t] = to],
           UNCHANGED <<semaphor, msg, consum_count, read_count, i, last>>,
           mutex' \in Threads \cup {Nobody}, MutexInv'
    PROVE  IInv'
  <1> USE ThreadsAssumption DEF Threads, PlacesOf
  <1>1. pc \in [Threads -> ProducerPCs \cup ConsumerPCs]
    BY DEF IInv, TypeOK
  <1>2. TypeOK'
    BY <1>1 DEF IInv, TypeOK, ProducerPCs, ConsumerPCs
  <1>3. LastInv'
    BY <1>1 DEF IInv, LastInv
  <1>4. Fresh' = Fresh /\ Left' = Left /\ Leaving' = Leaving
    BY <1>1 DEF Fresh, Left, Leaving, Outside
  <1>5. Arrived' = Arrived
    BY <1>1, <1>4 DEF Arrived
  <1>6. PostsLeft' = PostsLeft
    BY <1>1 DEF PostsLeft
  <1>7. SemInv' /\ (Over \/ Running)'
    BY <1>1, <1>4, <1>5, <1>6, SameSets
  <1>8. QED
    BY <1>2, <1>3, <1>7 DEF IInv

\* The steps of the mutex and of the condition variable are such moves.
LEMMA NeutralSteps ==
    ASSUME IInv,
           \/ ProducerLock \/ ProducerWait \/ ProducerRelock \/ ProducerUnlock
           \/ \E c \in Consumers : \/ ConsumerLock(c) \/ ConsumerWait(c)
                                   \/ ConsumerRelock(c) \/ ConsumerUnlock(c)
                                   \/ Consume(c)
           \/ Spurious
    PROVE  IInv'
  <1> USE ThreadsAssumption DEF Threads, PlacesOf
  <1>1. pc \in [Threads -> ProducerPCs \cup ConsumerPCs] /\ MutexInv
        /\ mutex \in Threads \cup {Nobody}
    BY DEF IInv, TypeOK
  <1>2. CASE ProducerLock \/ ProducerRelock
    <2>1. MutexInv'
      BY <1>1, <1>2 DEF ProducerLock, ProducerRelock, LockFrom, Goto, MutexInv, Critical
    <2>2. QED
      BY <1>1, <1>2, <2>1, MoveStep DEF ProducerLock, ProducerRelock, LockFrom, Goto
  <1>3. CASE ProducerWait \/ ProducerUnlock
    <2>1. MutexInv'
      BY <1>1, <1>3 DEF ProducerWait, ProducerUnlock, Wait, Unlock, Goto, MutexInv,
                        Critical
    <2>2. QED
      BY <1>1, <1>3, <2>1, MoveStep DEF ProducerWait, ProducerUnlock, Wait, Unlock, Goto
  <1>4. ASSUME NEW c \in Consumers, ConsumerLock(c) \/ ConsumerRelock(c) PROVE IInv'
    <2>1. MutexInv'
      BY <1>1, <1>4 DEF ConsumerLock, ConsumerRelock, LockFrom, Goto, MutexInv, Critical
    <2>2. QED
      BY <1>1, <1>4, <2>1, MoveStep DEF ConsumerLock, ConsumerRelock, LockFrom, Goto
  <1>5. ASSUME NEW c \in Consumers, ConsumerWait(c) \/ ConsumerUnlock(c) PROVE IInv'
    <2>1. MutexInv'
      BY <1>1, <1>5 DEF ConsumerWait, ConsumerUnlock, Wait, Unlock, Goto, MutexInv,
                        Critical
    <2>2. QED
      BY <1>1, <1>5, <2>1, MoveStep DEF ConsumerWait, ConsumerUnlock, Wait, Unlock, Goto
  <1>6. ASSUME NEW c \in Consumers, Consume(c) PROVE IInv'
    <2>1. MutexInv'
      BY <1>1, <1>6 DEF Consume, Goto, MutexInv, Critical
    <2>2. QED
      BY <1>1, <1>6, <2>1, MoveStep DEF Consume, Goto
  <1>7. ASSUME NEW t \in Threads, SpuriousWakeup(t) PROVE IInv'
    <2>1. MutexInv'
      BY <1>1, <1>7 DEF SpuriousWakeup, Goto, MutexInv, Critical
    <2>2. QED
      BY <1>1, <1>7, <2>1, MoveStep DEF SpuriousWakeup, Goto
  <1>8. QED
    BY <1>2, <1>3, <1>4, <1>5, <1>6, <1>7 DEF Spurious

\* A round starts: nobody has a permit or the new message yet.
LEMMA WriteStep == ASSUME IInv, Write PROVE IInv'
  <1> USE ThreadsAssumption, Sizes DEF Threads
  <1>1. /\ pc[Producer] = "write" /\ pc' = [pc EXCEPT ![Producer] = "post"]
        /\ msg' = After(msg) /\ consum_count' = 0 /\ i' = 0
        /\ UNCHANGED <<mutex, semaphor, read_count, last>>
    BY DEF Write, Goto
  <1>2. pc \in [Threads -> ProducerPCs \cup ConsumerPCs] /\ msg \in Msgs
    BY DEF IInv, TypeOK
  <1>3. Over
    BY <1>1 DEF IInv, Running
  <1>4. \A c \in Consumers : pc'[c] = pc[c] /\ pc[c] \in Outside /\ last[c] = msg
    BY <1>1, <1>2, <1>3 DEF Over, Left
  <1>5. TypeOK'
    BY <1>1, <1>2, AfterDiffers DEF IInv, TypeOK, ProducerPCs
  <1>6. MutexInv'
    BY <1>1, <1>2 DEF IInv, MutexInv, Critical
  <1>7. LastInv'
    BY <1>1, <1>4, AfterDiffers, <1>2 DEF LastInv, Outside
  <1>8. Fresh = {} /\ Fresh' = Consumers /\ Left' = {} /\ Leaving' = {}
    BY <1>1, <1>2, <1>4, AfterDiffers DEF Fresh, Left, Leaving, Outside
  <1>9. Arrived' = {}
    BY <1>4, <1>8 DEF Arrived, Outside
  <1>10. semaphor = 0
    BY <1>1, <1>8 DEF IInv, TypeOK, SemInv, PostsLeft
  <1>11. Cardinality(Fresh') = CONSUM_NUM /\ Cardinality(Left') = 0
         /\ Cardinality(Arrived') = 0
    <2>1. Cardinality(Fresh') = CONSUM_NUM
      BY <1>8, Zenon DEF CONSUM_NUM
    <2>2. Cardinality({}) = 0
      BY FS_EmptySet
    <2>3. QED
      BY <2>1, <2>2, <1>8, <1>9
  <1>12. SemInv'
    BY <1>1, <1>2, <1>10, <1>11 DEF SemInv, PostsLeft
  <1>13. Running'
    BY <1>1, <1>2, <1>3, <1>8, <1>11 DEF Running, Over
  <1>14. QED
    BY <1>5, <1>6, <1>7, <1>12, <1>13 DEF IInv

\* A permit more: one less to post.
LEMMA PostStep == ASSUME IInv, Post PROVE IInv'
  <1> USE ThreadsAssumption, Sizes DEF Threads
  <1>1. /\ pc[Producer] = "post"
        /\ UNCHANGED <<mutex, msg, consum_count, read_count, last>>
        /\ \/ /\ i < CONSUM_NUM /\ semaphor' = semaphor + 1 /\ i' = i + 1
              /\ pc' = pc
           \/ /\ i >= CONSUM_NUM /\ semaphor' = semaphor /\ i' = i
              /\ pc' = [pc EXCEPT ![Producer] = "test"]
    BY DEF Post, Goto, IInv, TypeOK
  <1>2. pc \in [Threads -> ProducerPCs \cup ConsumerPCs]
        /\ semaphor \in 0..CONSUM_NUM /\ i \in 0..CONSUM_NUM
    BY DEF IInv, TypeOK
  <1>3. Fresh' = Fresh /\ Left' = Left /\ Leaving' = Leaving /\ Arrived' = Arrived
    BY <1>1, <1>2 DEF Fresh, Left, Leaving, Arrived
  <1>4. Cardinality(Fresh') = Cardinality(Fresh)
        /\ Cardinality(Left') = Cardinality(Left)
        /\ Cardinality(Arrived') = Cardinality(Arrived)
    BY <1>3, Zenon
  <1>5. SemInv'
    BY <1>1, <1>2, <1>4 DEF IInv, SemInv, PostsLeft
  <1>6. Cardinality(Fresh) \in 0..CONSUM_NUM
    BY DEF Fresh
  <1>7. TypeOK'
    BY <1>1, <1>2, <1>6, <1>4, <1>5 DEF IInv, TypeOK, ProducerPCs, SemInv, PostsLeft
  <1>8. MutexInv' /\ LastInv'
    BY <1>1, <1>2 DEF IInv, MutexInv, Critical, LastInv
  <1>9. (Over \/ Running)'
    BY <1>1, <1>2, <1>3, <1>4 DEF IInv, Over, Running
  <1>10. QED
    BY <1>5, <1>7, <1>8, <1>9 DEF IInv

\* The producer ends the round when all consumers left it.
LEMMA DoneStep == ASSUME IInv, ProducerDone PROVE IInv'
  <1> USE ThreadsAssumption, Sizes DEF Threads
  <1>1. /\ pc[Producer] = "test" /\ pc' = [pc EXCEPT ![Producer] = "unlock"]
        /\ consum_count >= CONSUM_NUM
        /\ UNCHANGED <<mutex, semaphor, msg, consum_count, read_count, i, last>>
    BY DEF ProducerDone, Goto
  <1>2. pc \in [Threads -> ProducerPCs \cup ConsumerPCs]
    BY DEF IInv, TypeOK
  <1>3. TypeOK' /\ MutexInv' /\ LastInv'
    BY <1>1, <1>2 DEF IInv, TypeOK, ProducerPCs, MutexInv, Critical, LastInv
  <1>4. Fresh' = Fresh /\ Left' = Left /\ Leaving' = Leaving /\ Arrived' = Arrived
    BY <1>1, <1>2 DEF Fresh, Left, Leaving, Arrived
  <1>5. Over
    BY <1>1 DEF IInv, TypeOK, Running
  <1>6. PostsLeft' = PostsLeft /\ consum_count = CONSUM_NUM
    BY <1>1, <1>2, <1>5 DEF PostsLeft, Over
  <1>7. QED
    BY <1>1, <1>2, <1>3, <1>4, <1>6, SameSets DEF IInv

\* A permit is taken by a consumer that has not had one in this round.
LEMMA SemWaitStep == ASSUME IInv, NEW c \in Consumers, SemWait(c) PROVE IInv'
  <1> USE ThreadsAssumption, Sizes DEF Threads
  <1>1. /\ pc[c] = "sem" /\ pc' = [pc EXCEPT ![c] = "read"]
        /\ semaphor > 0 /\ semaphor' = semaphor - 1
        /\ UNCHANGED <<mutex, msg, consum_count, read_count, i, last>>
    BY DEF SemWait, Goto
  <1>2. /\ pc \in [Threads -> ProducerPCs \cup ConsumerPCs]
        /\ semaphor \in 0..CONSUM_NUM /\ PostsLeft \in Nat
    BY DEF IInv, TypeOK, PostsLeft
  <1>3. Fresh \subseteq Consumers
    BY DEF Fresh
  <1>4. PICK d \in Fresh : TRUE
    <2>1. Cardinality(Fresh) # 0
      BY <1>1, <1>2 DEF IInv, SemInv
    <2>2. QED
      BY <2>1, <1>3
  <1>5. last[c] # msg
    <2>1. SUFFICES ASSUME last[c] = msg PROVE FALSE
      OBVIOUS
    <2>2. c \in Left /\ d \notin Arrived /\ d \in Consumers
      BY <2>1, <1>1, <1>4 DEF Left, Fresh, Arrived, Outside
    <2>3. QED
      BY <2>2 DEF IInv, Over, Running, Arrived
  <1>6. TypeOK' /\ MutexInv' /\ LastInv'
    BY <1>1, <1>2, <1>5 DEF IInv, TypeOK, ConsumerPCs, MutexInv, Critical, LastInv
  <1>7. /\ c \in Fresh /\ Fresh' = Fresh \ {c}
        /\ Left' = Left /\ Leaving' = Leaving /\ Arrived' = Arrived
    BY <1>1, <1>2, <1>5 DEF Fresh, Left, Leaving, Arrived, Outside
  <1>8. Cardinality(Left') = Cardinality(Left)
        /\ Cardinality(Arrived') = Cardinality(Arrived)
    BY <1>7, Zenon
  <1>9. Cardinality(Fresh') = Cardinality(Fresh) - 1
    BY <1>7, <1>3
  <1>10. PostsLeft' = PostsLeft
    BY <1>1, <1>2 DEF PostsLeft
  <1>11. SemInv'
    BY <1>1, <1>2, <1>3, <1>9, <1>10 DEF IInv, SemInv
  <1>12. (Over \/ Running)'
    BY <1>1, <1>2, <1>7, <1>8 DEF IInv, Over, Running
  <1>13. QED
    BY <1>6, <1>11, <1>12 DEF IInv

\* The message is the one after the last.
LEMMA ReadStep == ASSUME IInv, NEW c \in Consumers, Read(c) PROVE IInv'
  <1> USE ThreadsAssumption DEF Threads
  <1>1. /\ pc[c] = "read" /\ pc' = [pc EXCEPT ![c] = "lock"]
        /\ last' = [last EXCEPT ![c] = msg]
        /\ UNCHANGED <<mutex, semaphor, msg, consum_count, read_count, i>>
    BY DEF Read, Goto
  <1>2. /\ pc \in [Threads -> ProducerPCs \cup ConsumerPCs]
        /\ last \in [Consumers -> Msgs]
    BY DEF IInv, TypeOK
  <1>3. TypeOK' /\ MutexInv' /\ LastInv'
    BY <1>1, <1>2 DEF IInv, TypeOK, ConsumerPCs, MutexInv, Critical, LastInv
  <1>4. Fresh' = Fresh /\ Left' = Left /\ Leaving' = Leaving
    BY <1>1, <1>2 DEF Fresh, Left, Leaving, Outside
  <1>5. Arrived' = Arrived
    BY <1>1, <1>2, <1>4 DEF Arrived
  <1>6. PostsLeft' = PostsLeft
    BY <1>1, <1>2 DEF PostsLeft
  <1>7. QED
    BY <1>1, <1>2, <1>3, <1>4, <1>5, <1>6, SameSets DEF IInv

\* A consumer counts itself, and the last one wakes the others.
LEMMA CountStep == ASSUME IInv, NEW c \in Consumers, Count(c) PROVE IInv'
  <1> USE ThreadsAssumption, Sizes DEF Threads
  <1>1. /\ pc[c] = "count" /\ read_count' = read_count + 1
        /\ \E W \in SUBSET Waiting : Wake(W, c, "barrier")
        /\ UNCHANGED <<mutex, semaphor, msg, consum_count, i, last>>
    BY DEF Count
  <1>2. PICK W \in SUBSET Waiting : Wake(W, c, "barrier")
    BY <1>1
  <1>3. /\ pc \in [Threads -> ProducerPCs \cup ConsumerPCs] /\ last[c] = msg
        /\ mutex = c
    BY <1>1 DEF IInv, TypeOK, LastInv, MutexInv, Critical
  <1>4. /\ pc'[c] = "barrier"
        /\ \A t \in Threads \ {c} :
              pc'[t] = pc[t] \/ (pc[t] = "waiting" /\ pc'[t] = "relock")
    BY <1>2 DEF Wake, Waiting
  <1>5. pc' \in [Threads -> ProducerPCs \cup ConsumerPCs]
    BY <1>2, <1>3 DEF Wake, ProducerPCs, ConsumerPCs
  <1>6. MutexInv' /\ LastInv'
    BY <1>1, <1>3, <1>4 DEF IInv, MutexInv, LastInv, Critical
  <1>7. /\ Fresh' = Fresh /\ Left' = Left /\ Leaving' = Leaving
        /\ c \notin Arrived /\ Arrived \subseteq Consumers
    BY <1>1, <1>3, <1>4 DEF Fresh, Left, Leaving, Arrived, Outside
  <1>8. Arrived' = Arrived \cup {c}
    BY <1>1, <1>3, <1>4, <1>7 DEF Arrived
  <1>9. Running
    BY <1>1 DEF IInv, Over, Left, Outside
  <1>10. Cardinality(Fresh') = Cardinality(Fresh)
         /\ Cardinality(Left') = Cardinality(Left)
    BY <1>7, Zenon
  <1>11. Cardinality(Arrived') = Cardinality(Arrived) + 1
         /\ Cardinality(Arrived') \in 0..CONSUM_NUM
    BY <1>7, <1>8
  <1>12. TypeOK'
    BY <1>1, <1>4, <1>5, <1>9, <1>11
    DEF IInv, TypeOK, Running, ProducerPCs, ConsumerPCs
  <1>13. PostsLeft' = PostsLeft /\ SemInv'
    BY <1>1, <1>4, <1>10 DEF IInv, SemInv, PostsLeft
  <1>14. pc'[Producer] \notin {"lock", "write", "unlock"}
    BY <1>4, <1>9 DEF Running
  <1>15. Running'
    BY <1>1, <1>7, <1>8, <1>9, <1>10, <1>11, <1>14 DEF Running
  <1>16. QED
    BY <1>6, <1>12, <1>13, <1>15 DEF IInv

\* Passing the barrier means that all consumers arrived.
LEMMA PassStep == ASSUME IInv, NEW c \in Consumers, Pass(c) PROVE IInv'
  <1> USE ThreadsAssumption, Sizes DEF Threads
  <1>1. /\ pc[c] = "barrier" /\ pc' = [pc EXCEPT ![c] = "leave"]
        /\ read_count >= CONSUM_NUM
        /\ UNCHANGED <<mutex, semaphor, msg, consum_count, read_count, i, last>>
    BY DEF Pass, Goto
  <1>2. pc \in [Threads -> ProducerPCs \cup ConsumerPCs]
    BY DEF IInv, TypeOK
  <1>3. TypeOK' /\ MutexInv' /\ LastInv'
    BY <1>1, <1>2 DEF IInv, TypeOK, ConsumerPCs, MutexInv, Critical, LastInv
  <1>4. Fresh' = Fresh /\ Left' = Left /\ Arrived \subseteq Consumers
    BY <1>1, <1>2 DEF Fresh, Left, Arrived, Outside
  <1>5. Arrived' = Arrived
    BY <1>1, <1>2, <1>4 DEF Arrived
  <1>6. Running
    BY <1>1 DEF IInv, Over, Left, Outside
  <1>7. Arrived = Consumers
    BY <1>1, <1>4, <1>6 DEF Running
  <1>8. Cardinality(Fresh') = Cardinality(Fresh)
        /\ Cardinality(Left') = Cardinality(Left)
        /\ Cardinality(Arrived') = Cardinality(Arrived)
    BY <1>4, <1>5, Zenon
  <1>9. SemInv'
    BY <1>1, <1>2, <1>8 DEF IInv, SemInv, PostsLeft
  <1>10. Running'
    BY <1>1, <1>2, <1>5, <1>6, <1>7, <1>8 DEF Running
  <1>11. QED
    BY <1>3, <1>9, <1>10 DEF IInv

\* A consumer leaves, and the last one to leave ends the round.
LEMMA LeaveStep == ASSUME IInv, NEW c \in Consumers, Leave(c) PROVE IInv'
  <1> USE ThreadsAssumption, Sizes DEF Threads
  <1>1. /\ pc[c] = "leave" /\ consum_count' = consum_count + 1
        /\ \E W \in SUBSET Waiting : Wake(W, c, "unlock")
        /\ read_count' = IF consum_count' = CONSUM_NUM THEN 0 ELSE read_count
        /\ UNCHANGED <<mutex, semaphor, msg, i, last>>
    BY DEF Leave
  <1>2. PICK W \in SUBSET Waiting : Wake(W, c, "unlock")
    BY <1>1
  <1>3. /\ pc \in [Threads -> ProducerPCs \cup ConsumerPCs] /\ last[c] = msg
        /\ mutex = c
    BY <1>1 DEF IInv, TypeOK, LastInv, MutexInv, Critical
  <1>4. /\ pc'[c] = "unlock"
        /\ \A t \in Threads \ {c} :
              pc'[t] = pc[t] \/ (pc[t] = "waiting" /\ pc'[t] = "relock")
    BY <1>2 DEF Wake, Waiting
  <1>5. pc' \in [Threads -> ProducerPCs \cup ConsumerPCs]
    BY <1>2, <1>3 DEF Wake, ProducerPCs, ConsumerPCs
  <1>6. MutexInv' /\ LastInv'
    BY <1>1, <1>3, <1>4 DEF IInv, MutexInv, LastInv, Critical
  <1>7. Running
    BY <1>1 DEF IInv, Over, Left, Outside
  <1>8. Arrived = Consumers
    BY <1>1, <1>7 DEF Running, Leaving
  <1>9. /\ c \notin Left /\ Left' = Left \cup {c} /\ Fresh' = Fresh
        /\ Left \subseteq Consumers /\ Left' \subseteq Consumers
    BY <1>1, <1>3, <1>4 DEF Fresh, Left, Outside
  <1>10. Arrived' = Consumers
    BY <1>1, <1>3, <1>4, <1>8, <1>9 DEF Arrived
  <1>11. Cardinality(Fresh') = Cardinality(Fresh)
         /\ Cardinality(Arrived') = Cardinality(Arrived)
    BY <1>8, <1>9, <1>10, Zenon
  <1>12. Cardinality(Left') = Cardinality(Left) + 1
         /\ Cardinality(Left') \in 0..CONSUM_NUM
    BY <1>9
  <1>13. TypeOK'
    BY <1>1, <1>4, <1>5, <1>7, <1>12
    DEF IInv, TypeOK, Running, ProducerPCs, ConsumerPCs
  <1>14. SemInv'
    BY <1>1, <1>4, <1>11 DEF IInv, SemInv, PostsLeft
  <1>15. CASE consum_count' = CONSUM_NUM
    <2>1. Left' = Consumers
      BY <1>1, <1>7, <1>9, <1>12, <1>15 DEF Running
    <2>2. Over'
      BY <1>1, <1>15, <2>1 DEF Over
    <2>3. QED
      BY <1>6, <1>13, <1>14, <2>2 DEF IInv
  <1>16. CASE consum_count' # CONSUM_NUM
    <2>1. pc'[Producer] \notin {"lock", "write", "unlock"}
      BY <1>4, <1>7 DEF Running
    <2>2. Running'
      BY <1>1, <1>7, <1>8, <1>10, <1>11, <1>12, <1>16, <2>1 DEF Running
    <2>3. QED
      BY <1>6, <1>13, <1>14, <2>2 DEF IInv
  <1>17. QED
    BY <1>15, <1>16

-----------------------------------------------------------------------------
\* The invariant is inductive.
THEOREM Invariance == Spec => []IInv
  <1>1. IInv /\ [Next]_vars => IInv'
    <2> SUFFICES ASSUME IInv, [Next]_vars PROVE IInv'
      OBVIOUS
    <2>1. CASE UNCHANGED vars
      <3>1. Fresh' = Fresh /\ Left' = Left /\ Arrived' = Arrived
            /\ Leaving' = Leaving /\ PostsLeft' = PostsLeft
        BY <2>1 DEF vars, Fresh, Left, Arrived, Leaving, PostsLeft
      <3>2. TypeOK' /\ MutexInv' /\ LastInv'
        BY <2>1 DEF vars, IInv, TypeOK, MutexInv, Critical, LastInv
      <3>3. QED
        BY <2>1, <3>1, <3>2, SameSets DEF vars, IInv
    <2>2. CASE ProducerStep
      BY <2>2, NeutralSteps, WriteStep, PostStep, DoneStep DEF ProducerStep
    <2>3. ASSUME NEW c \in Consumers, ConsumerStep(c) PROVE IInv'
      BY <2>3, NeutralSteps, SemWaitStep, ReadStep, CountStep, PassStep, LeaveStep
      DEF ConsumerStep
    <2>4. CASE Spurious
      BY <2>4, NeutralSteps
    <2>5. QED
      BY <2>1, <2>2, <2>3, <2>4 DEF Next
  <1>2. QED
    BY Initially, <1>1, PTL DEF Spec

\* Every variable keeps its type.
THEOREM Typing == Spec => []TypeOK
  <1>1. IInv => TypeOK
    BY DEF IInv
  <1>2. QED
    BY <1>1, Invariance, PTL

\* Every consumer reads every message exactly once.
THEOREM EachMessageOnce == Spec => []ReadsEachMessageOnce
  <1>1. IInv => ReadsEachMessageOnce
    BY DEF IInv, LastInv, ReadsEachMessageOnce
  <1>2. QED
    BY <1>1, Invariance, PTL

\* The producer writes only between two rounds.
THEOREM WritesBetweenRounds == Spec => []NoOverwrite
  <1>1. IInv => NoOverwrite
    <2> SUFFICES ASSUME IInv, pc[Producer] = "write"
                 PROVE  /\ semaphor = 0 /\ read_count = 0
                        /\ \A c \in Consumers :
                              last[c] = msg /\ pc[c] \in {"sem", "consume"}
      BY DEF NoOverwrite
    <2>1. Over
      BY DEF IInv, Running
    <2>2. \A c \in Consumers : last[c] = msg /\ pc[c] \in Outside
      BY <2>1 DEF Over, Left
    <2>3. Fresh = {}
      BY <2>2 DEF Fresh
    <2>4. semaphor = 0
      BY <2>3, Sizes DEF IInv, TypeOK, SemInv, PostsLeft
    <2>5. \A c \in Consumers : pc[c] # "unlock"
      BY ThreadsAssumption DEF IInv, MutexInv, Critical, Threads
    <2>6. QED
      BY <2>1, <2>2, <2>4, <2>5 DEF Over, Outside
  <1>2. QED
    BY <1>1, Invariance, PTL
=============================================================================

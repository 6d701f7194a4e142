----------------------------- MODULE Rendezvous -----------------------------
(***************************************************************************)
(* Exercise 6 of Daniel/src/producers_consumers.c, the one its main runs:  *)
(* a producer broadcasts one message after the other to all consumers with *)
(* a semaphore, a mutex and a single condition variable, on which the      *)
(* producer and the consumers wait for different conditions.               *)
(* Messages are random numbers in the code; here they are numbered modulo  *)
(* Numbers, which tells a message from the one before it.                  *)
(***************************************************************************)
EXTENDS Naturals, FiniteSets

CONSTANTS Consumers,   \* the consumer threads
          Producer,    \* the producer thread
          Nobody,      \* owner of a free mutex
          Numbers      \* how many messages are told apart

CONSUM_NUM == Cardinality(Consumers)

ASSUME ThreadsAssumption == /\ IsFiniteSet(Consumers) /\ Consumers # {}
                            /\ Producer \notin Consumers
                            /\ Nobody \notin Consumers \cup {Producer}
ASSUME NumbersAssumption == Numbers \in Nat /\ Numbers >= 2

VARIABLES mutex, semaphor, msg, consum_count, read_count,
          pc,     \* where each thread is; "waiting" is in pthread_cond_wait
          i,      \* the producer's loop variable
          last    \* the message that each consumer read last

vars == <<mutex, semaphor, msg, consum_count, read_count, pc, i, last>>

Threads == Consumers \cup {Producer}
Msgs == 0 .. Numbers - 1
After(m) == (m + 1) % Numbers

ProducerPCs == {"lock", "write", "post", "test", "waiting", "relock", "unlock"}
ConsumerPCs == {"sem", "read", "lock", "count", "barrier", "waiting", "relock",
                "leave", "unlock", "consume"}

Init == /\ mutex = Nobody /\ semaphor = 0
        /\ msg = 0 /\ consum_count = 0 /\ read_count = 0
        /\ pc = [t \in Threads |-> IF t = Producer THEN "lock" ELSE "sem"]
        /\ i = 0
        /\ last = [c \in Consumers |-> 0]

-----------------------------------------------------------------------------
Goto(t, from, to) == pc[t] = from /\ pc' = [pc EXCEPT ![t] = to]

\* pthread_mutex_lock, from wherever it is called; so does a wait that ends.
LockFrom(t, from, to) == /\ Goto(t, from, to)
                         /\ mutex = Nobody /\ mutex' = t
                         /\ UNCHANGED <<semaphor, msg, consum_count, read_count,
                                        i, last>>

Unlock(t, to) == /\ Goto(t, "unlock", to)
                 /\ mutex' = Nobody
                 /\ UNCHANGED <<semaphor, msg, consum_count, read_count, i, last>>

\* pthread_cond_wait blocks and releases the mutex in one step.
Wait(t, from) == /\ Goto(t, from, "waiting")
                 /\ mutex' = Nobody
                 /\ UNCHANGED <<semaphor, msg, consum_count, read_count, i, last>>

\* All threads wait on read_var.
Waiting == {t \in Threads : pc[t] = "waiting"}

\* The threads of W are woken while t moves on.
Wake(W, t, to) == pc' = [u \in Threads |-> IF u = t THEN to
                                           ELSE IF u \in W THEN "relock" ELSE pc[u]]

-----------------------------------------------------------------------------
\* Producer6

ProducerLock == LockFrom(Producer, "lock", "write")

Write == /\ Goto(Producer, "write", "post")
         /\ msg' = After(msg)
         /\ consum_count' = 0
         /\ i' = 0
         /\ UNCHANGED <<mutex, semaphor, read_count, last>>

\* One sem_post per step: a consumer may run between two of them.
Post == /\ pc[Producer] = "post"
        /\ IF i < CONSUM_NUM
           THEN semaphor' = semaphor + 1 /\ i' = i + 1 /\ UNCHANGED pc
           ELSE Goto(Producer, "post", "test") /\ UNCHANGED <<semaphor, i>>
        /\ UNCHANGED <<mutex, msg, consum_count, read_count, last>>

ProducerWait == consum_count < CONSUM_NUM /\ Wait(Producer, "test")

\* Mutated form: an if around pthread_cond_wait instead of the while.
ProducerRelockIf == LockFrom(Producer, "relock", "unlock")

ProducerRelock == LockFrom(Producer, "relock", "test")

ProducerDone == /\ consum_count >= CONSUM_NUM
                /\ Goto(Producer, "test", "unlock")
                /\ UNCHANGED <<mutex, semaphor, msg, consum_count, read_count, i,
                               last>>

ProducerUnlock == Unlock(Producer, "lock")

-----------------------------------------------------------------------------
\* Consumer6

SemWait(c) == /\ Goto(c, "sem", "read")
              /\ semaphor > 0 /\ semaphor' = semaphor - 1
              /\ UNCHANGED <<mutex, msg, consum_count, read_count, i, last>>

\* The message is read without the mutex.
Read(c) == /\ Goto(c, "read", "lock")
           /\ last' = [last EXCEPT ![c] = msg]
           /\ UNCHANGED <<mutex, semaphor, msg, consum_count, read_count, i>>

ConsumerLock(c) == LockFrom(c, "lock", "count")

\* The last consumer broadcasts: it wakes the producer too, if that waits.
Count(c) ==
    /\ pc[c] = "count"
    /\ read_count' = read_count + 1
    /\ Wake(IF read_count' = CONSUM_NUM THEN Waiting ELSE {}, c, "barrier")
    /\ UNCHANGED <<mutex, semaphor, msg, consum_count, i, last>>

ConsumerWait(c) == read_count < CONSUM_NUM /\ Wait(c, "barrier")

ConsumerRelock(c) == LockFrom(c, "relock", "barrier")

\* Mutated form: the consumers do not wait for each other.
PassUnchecked(c) == /\ Goto(c, "barrier", "leave")
                    /\ UNCHANGED <<mutex, semaphor, msg, consum_count, read_count,
                                   i, last>>

Pass(c) == /\ read_count >= CONSUM_NUM
           /\ Goto(c, "barrier", "leave")
           /\ UNCHANGED <<mutex, semaphor, msg, consum_count, read_count, i, last>>

\* Mutated forms: read_count is not reset; the producer is not signalled.
LeaveWithoutReset(c) ==
    /\ pc[c] = "leave"
    /\ consum_count' = consum_count + 1
    /\ IF consum_count' = CONSUM_NUM
       THEN IF Waiting = {} THEN Wake({}, c, "unlock")
                            ELSE \E t \in Waiting : Wake({t}, c, "unlock")
       ELSE Wake({}, c, "unlock")
    /\ UNCHANGED <<mutex, semaphor, msg, read_count, i, last>>

LeaveSilently(c) ==
    /\ Goto(c, "leave", "unlock")
    /\ consum_count' = consum_count + 1
    /\ read_count' = IF consum_count' = CONSUM_NUM THEN 0 ELSE read_count
    /\ UNCHANGED <<mutex, semaphor, msg, i, last>>

\* The last one signals one of the waiting threads and resets read_count.
Leave(c) ==
    /\ pc[c] = "leave"
    /\ consum_count' = consum_count + 1
    /\ IF consum_count' = CONSUM_NUM
       THEN /\ read_count' = 0
            /\ IF Waiting = {} THEN Wake({}, c, "unlock")
                               ELSE \E t \in Waiting : Wake({t}, c, "unlock")
       ELSE Wake({}, c, "unlock") /\ UNCHANGED read_count
    /\ UNCHANGED <<mutex, semaphor, msg, i, last>>

ConsumerUnlock(c) == Unlock(c, "consume")

Consume(c) == /\ Goto(c, "consume", "sem")
              /\ UNCHANGED <<mutex, semaphor, msg, consum_count, read_count, i,
                             last>>

\* pthread_cond_wait may return without a signal.
SpuriousWakeup(t) == /\ Goto(t, "waiting", "relock")
                     /\ UNCHANGED <<mutex, semaphor, msg, consum_count, read_count,
                                    i, last>>

-----------------------------------------------------------------------------
ProducerStep == \/ ProducerLock \/ Write \/ Post \/ ProducerWait \/ ProducerRelock
                \/ ProducerDone \/ ProducerUnlock

ConsumerStep(c) == \/ SemWait(c) \/ Read(c) \/ ConsumerLock(c) \/ Count(c)
                   \/ ConsumerWait(c) \/ ConsumerRelock(c) \/ Pass(c) \/ Leave(c)
                   \/ ConsumerUnlock(c) \/ Consume(c)

Spurious == \E t \in Threads : SpuriousWakeup(t)

Next == ProducerStep \/ (\E c \in Consumers : ConsumerStep(c)) \/ Spurious

Spec == Init /\ [][Next]_vars

\* The threads are scheduled; nothing is assumed of the mutex's fairness, and
\* spurious wakeups end at some point.
LiveSpec == /\ Spec
            /\ WF_vars(ProducerStep)
            /\ \A c \in Consumers : WF_vars(ConsumerStep(c))
            /\ <>[][~Spurious]_vars

-----------------------------------------------------------------------------
\* Every variable keeps its type; no counter passes the number of consumers.
TypeOK == /\ mutex \in Threads \cup {Nobody}
          /\ semaphor \in 0..CONSUM_NUM
          /\ msg \in Msgs
          /\ consum_count \in 0..CONSUM_NUM /\ read_count \in 0..CONSUM_NUM
          /\ pc \in [Threads -> ProducerPCs \cup ConsumerPCs]
          /\ pc[Producer] \in ProducerPCs
          /\ \A c \in Consumers : pc[c] \in ConsumerPCs
          /\ i \in 0..CONSUM_NUM
          /\ last \in [Consumers -> Msgs]

\* A consumer that is about to read finds the message after the one it read
\* last: none is missed and none is read twice, although the semaphore does not
\* tell the consumers apart and the message is read without the mutex.
ReadsEachMessageOnce == \A c \in Consumers :
    pc[c] = "read" => msg = After(last[c])

\* The producer overwrites the message only when every consumer has read it,
\* passed the barrier and left it, so the counters are free to be reused.
NoOverwrite ==
    pc[Producer] = "write" =>
        /\ semaphor = 0 /\ read_count = 0
        /\ \A c \in Consumers : last[c] = msg /\ pc[c] \in {"sem", "consume"}

\* The rounds go on: neither the producer nor the consumers wait forever on the
\* condition variable that they share.  With NoOverwrite: every consumer
\* reads every message.
RoundsContinue == \A m \in Msgs : msg = m ~> msg = After(m)
=============================================================================

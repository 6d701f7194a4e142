----------------------------- MODULE WaitablePQ -----------------------------
(***************************************************************************)
(* WPQueue<T> of framework/include/waitable_pq.hpp at the grain of its     *)
(* mutex and its condition variable: several producers call Push, several  *)
(* consumers call Pop.  A step is one lock, one unlock, one call on the    *)
(* underlying std::priority_queue, one notify or one wait.                 *)
(***************************************************************************)
EXTENDS Naturals, FiniteSets

CONSTANTS Producers, Consumers,   \* the threads that Push and that Pop
          Items,                  \* elements, each handed to Push once
          Prio,                   \* the priority Compare orders by
          NoItem, NoThread

Threads == Producers \cup Consumers

ASSUME ThreadsAssumption == /\ Producers \cap Consumers = {}
                            /\ NoThread \notin Threads
                            /\ IsFiniteSet(Producers)
                            /\ IsFiniteSet(Consumers)

ASSUME ItemsAssumption == /\ NoItem \notin Items
                          /\ Prio \in [Items -> Nat]

VARIABLES m_mutex,     \* the owner of m_mutex, or NoThread
          m_queue,     \* the elements of the std::priority_queue
          front,       \* m_queue.top(), the root of its heap
          pc,          \* where each thread is; "waiting" is inside m_cv.wait
          elem,        \* element_ of Push, top of Pop
          fresh,       \* elements no Push was called with yet
          delivered    \* what Pop returned to each consumer

vars == <<m_mutex, m_queue, front, pc, elem, fresh, delivered>>

Maximal(S) == {x \in S : \A y \in S : Prio[y] <= Prio[x]}

\* The root of the heap after S lost its root: any maximal element.
Roots(S) == IF S = {} THEN {NoItem} ELSE Maximal(S)

PushPCs == {"idle", "pushLock", "pushInsert", "pushUnlock", "pushNotify"}
PopPCs  == {"idle", "popLock", "popTest", "popPop", "popReturn", "waiting"}

\* A thread that owns m_mutex is at one of these.
Critical == {"pushInsert", "pushUnlock", "popTest", "popPop", "popReturn"}

At(t, label) == pc[t] = label
Goto(t, label) == pc' = [pc EXCEPT ![t] = label]

Waiting == {c \in Consumers : pc[c] = "waiting"}

Lock(t)   == m_mutex = NoThread /\ m_mutex' = t
Unlock(t) == m_mutex' = NoThread

Init == /\ m_mutex = NoThread
        /\ m_queue = {}
        /\ front = NoItem
        /\ pc = [t \in Threads |-> "idle"]
        /\ elem = [t \in Threads |-> NoItem]
        /\ fresh = Items
        /\ delivered = [c \in Consumers |-> {}]

-----------------------------------------------------------------------------
\* Push(element_)

PushCall(p, x) == /\ At(p, "idle")
                  /\ x \in fresh
                  /\ fresh' = fresh \ {x}
                  /\ elem' = [elem EXCEPT ![p] = x]
                  /\ Goto(p, "pushLock")
                  /\ UNCHANGED <<m_mutex, m_queue, front, delivered>>

\* Mutated form: Push without the lock_guard.
PushUnguarded(p) == /\ At(p, "pushLock")
                    /\ Goto(p, "pushInsert")
                    /\ UNCHANGED <<m_mutex, m_queue, front, elem, fresh, delivered>>

PushLock(p) == /\ At(p, "pushLock")
               /\ Lock(p)
               /\ Goto(p, "pushInsert")
               /\ UNCHANGED <<m_queue, front, elem, fresh, delivered>>

\* Mutated form: the new element always goes to the root.
NewRootLast(x) == x

\* push_heap moves the new element to the root only past smaller ones.
NewRoot(x) == IF front = NoItem \/ Prio[front] < Prio[x] THEN x ELSE front

PushInsert(p) == /\ At(p, "pushInsert")
                 /\ m_queue' = m_queue \cup {elem[p]}
                 /\ front' = NewRoot(elem[p])
                 /\ Goto(p, "pushUnlock")
                 /\ UNCHANGED <<m_mutex, elem, fresh, delivered>>

PushUnlock(p) == /\ At(p, "pushUnlock")
                 /\ Unlock(p)
                 /\ Goto(p, "pushNotify")
                 /\ UNCHANGED <<m_queue, front, elem, fresh, delivered>>

\* Mutated forms: no notify; a notify only for the first element.
PushSilent(p) == /\ At(p, "pushNotify")
                 /\ Goto(p, "idle")
                 /\ elem' = [elem EXCEPT ![p] = NoItem]
                 /\ UNCHANGED <<m_mutex, m_queue, front, fresh, delivered>>

PushNotifyFirst(p) ==
    /\ At(p, "pushNotify")
    /\ \/ \E c \in Waiting :
             /\ Cardinality(m_queue) = 1
             /\ pc' = [pc EXCEPT ![p] = "idle", ![c] = "popLock"]
       \/ (Waiting = {} \/ Cardinality(m_queue) # 1) /\ Goto(p, "idle")
    /\ elem' = [elem EXCEPT ![p] = NoItem]
    /\ UNCHANGED <<m_mutex, m_queue, front, fresh, delivered>>

\* notify_one, outside the lock: it unblocks one waiter, if there is one.
PushNotify(p) ==
    /\ At(p, "pushNotify")
    /\ \/ \E c \in Waiting :
             pc' = [pc EXCEPT ![p] = "idle", ![c] = "popLock"]
       \/ Waiting = {} /\ Goto(p, "idle")
    /\ elem' = [elem EXCEPT ![p] = NoItem]
    /\ UNCHANGED <<m_mutex, m_queue, front, fresh, delivered>>

-----------------------------------------------------------------------------
\* Pop()

PopCall(c) == /\ At(c, "idle")
              /\ Goto(c, "popLock")
              /\ UNCHANGED <<m_mutex, m_queue, front, elem, fresh, delivered>>

\* The constructor of unique_lock, and wait re-acquiring the mutex.
PopLock(c) == /\ At(c, "popLock")
              /\ Lock(c)
              /\ Goto(c, "popTest")
              /\ UNCHANGED <<m_queue, front, elem, fresh, delivered>>

\* The predicate of wait is false: release the mutex and block, in one step.
PopWait(c) == /\ At(c, "popTest")
              /\ m_queue = {}
              /\ Unlock(c)
              /\ Goto(c, "waiting")
              /\ UNCHANGED <<m_queue, front, elem, fresh, delivered>>

\* Mutated form: the queue's emptiness is not tested again after the wait.
PopTopUnchecked(c) ==
    /\ At(c, "popTest")
    /\ elem' = [elem EXCEPT ![c] = front]
    /\ Goto(c, "popPop")
    /\ UNCHANGED <<m_mutex, m_queue, front, fresh, delivered>>

PopTop(c) == /\ At(c, "popTest")
             /\ m_queue # {}
             /\ elem' = [elem EXCEPT ![c] = front]
             /\ Goto(c, "popPop")
             /\ UNCHANGED <<m_mutex, m_queue, front, fresh, delivered>>

PopPop(c) == /\ At(c, "popPop")
             /\ m_queue' = m_queue \ {front}
             /\ front' \in Roots(m_queue')
             /\ Goto(c, "popReturn")
             /\ UNCHANGED <<m_mutex, elem, fresh, delivered>>

PopReturn(c) == /\ At(c, "popReturn")
                /\ Unlock(c)
                /\ delivered' = [delivered EXCEPT ![c] = @ \cup {elem[c]}]
                /\ elem' = [elem EXCEPT ![c] = NoItem]
                /\ Goto(c, "idle")
                /\ UNCHANGED <<m_queue, front, fresh>>

\* A condition variable may return without a notify.
SpuriousWakeup(c) ==
    /\ At(c, "waiting")
    /\ Goto(c, "popLock")
    /\ UNCHANGED <<m_mutex, m_queue, front, elem, fresh, delivered>>

-----------------------------------------------------------------------------
PushStep(p) == PushLock(p) \/ PushInsert(p) \/ PushUnlock(p) \/ PushNotify(p)

PopStep(c) == \/ PopLock(c) \/ PopWait(c) \/ PopTop(c)
              \/ PopPop(c) \/ PopReturn(c)

Next == \/ \E p \in Producers : PushStep(p) \/ \E x \in Items : PushCall(p, x)
        \/ \E c \in Consumers : PopCall(c) \/ PopStep(c) \/ SpuriousWakeup(c)

Spec == Init /\ [][Next]_vars

\* A thread inside Push or Pop is scheduled, and a worker calls Pop again
\* (ThreadPool::ExecutionLogic).  No producer has to call Push.  Spurious
\* wakeups stop at some point; nothing is assumed of the fairness of m_mutex.
Spurious == \E c \in Consumers : SpuriousWakeup(c)

Fairness == /\ \A p \in Producers : WF_vars(PushStep(p))
            /\ \A c \in Consumers : WF_vars(PopCall(c)) /\ WF_vars(PopStep(c))
            /\ <>[][~Spurious]_vars

LiveSpec == Spec /\ Fairness

-----------------------------------------------------------------------------
\* Every variable keeps its type, and front is what top() returns: an element
\* of the highest priority in m_queue, and none when m_queue is empty.
TypeOK == /\ m_mutex \in Threads \cup {NoThread}
          /\ m_queue \subseteq Items
          /\ front \in Roots(m_queue)
          /\ pc \in [Threads -> PushPCs \cup PopPCs]
          /\ \A p \in Producers : pc[p] \in PushPCs
          /\ \A c \in Consumers : pc[c] \in PopPCs
          /\ elem \in [Threads -> Items \cup {NoItem}]
          /\ fresh \subseteq Items
          /\ delivered \in [Consumers -> SUBSET Items]

\* The consumers that will look at the queue again before they can block,
\* and the producers whose notify_one is still to come.
Rechecking == {c \in Consumers : pc[c] \in {"popLock", "popTest", "popPop"}}
Notifying  == {p \in Producers : pc[p] \in {"pushUnlock", "pushNotify"}}

\* No lost wakeup: while a consumer is blocked in m_cv.wait, each element in
\* the queue is matched by a consumer about to recheck or by a notify_one
\* still to come, although Push notifies after it released the mutex.
NoLostWakeup ==
    Waiting # {} =>
        Cardinality(m_queue) <= Cardinality(Rechecking) + Cardinality(Notifying)

\* The element Pop copied with top() is the element its pop() removes, and no
\* element in the queue has a higher priority: Pop's two calls on the heap
\* are not separated by another thread's Push or Pop.
PopTakesTheTop == \A c \in Consumers :
    pc[c] = "popPop" => elem[c] = front /\ elem[c] \in Maximal(m_queue)

\* Elements popped but not returned yet count as delivered.
DeliveredAtPop ==
    [c \in Consumers |-> IF pc[c] = "popReturn" THEN delivered[c] \cup {elem[c]}
                                                ELSE delivered[c]]

Atomic == INSTANCE AtomicPQ WITH contents <- m_queue, delivered <- DeliveredAtPop

\* WPQueue implements the atomic queue: Push and Pop take effect in one step
\* and Pop returns a maximal element, to one caller.
ImplementsAtomicPQ == Atomic!ASpec

\* An element in the queue is returned by some Pop: no consumer sleeps while
\* there is something to take (Push's notify_one is never lost).
EveryElementIsDelivered == \A x \in Items :
    x \in m_queue ~> \E c \in Consumers : x \in delivered[c]
=============================================================================

-------------------------- MODULE ProgramsProofs ---------------------------
(***************************************************************************)
(* The invariants of Plugins, Network, Processes, Threads and NbdDevice,   *)
(* each kept by the steps of its own program: any number of files,         *)
(* threads, messages, tasks and requests.                                  *)
(***************************************************************************)
EXTENDS Plugins, Network, Processes, Threads, NbdDevice, FiniteSetTheorems, TLAPS

-----------------------------------------------------------------------------
\* singleton: types, the critical section, and what is known when.
SgPlaces == {"call", "acquire", "lock", "check", "fence", "store", "unlock", "return"}
SgInside == {"check", "fence", "store", "unlock"}
SgHands  == [tmp : BOOLEAN, knows : BOOLEAN]
SgRecords == [mutex : SgThreads \cup {Free}, s_instance : BOOLEAN, made : {0, 1},
              released : BOOLEAN]

SgTypes == at \in [SgThreads -> SgPlaces] /\ hand \in [SgThreads -> SgHands]
           /\ shared \in SgRecords

SgExclusion == \A t \in SgThreads : at[t] \in SgInside => shared.mutex = t

SgOnce == shared.made = 1 =>
             shared.s_instance \/ \E t \in SgThreads : at[t] \in {"fence", "store"}

SgKnown ==
    /\ shared.s_instance => shared.released
    /\ \A t \in SgThreads :
          /\ hand[t].tmp => shared.s_instance
          /\ at[t] = "check" /\ shared.s_instance => hand[t].knows
          /\ at[t] = "store" => shared.released
          /\ at[t] \in {"fence", "store", "unlock", "return"} => hand[t].knows
          /\ at[t] \in {"unlock", "return"} => shared.s_instance

SgInv == SgTypes /\ SgExclusion /\ SgOnce /\ SgKnown

LEMMA SgBegins ==
    ASSUME shared = SgShared, at = [t \in SgThreads |-> "call"],
           hand = [t \in SgThreads |-> SgHand]
    PROVE SgInv
  BY DEF SgInv, SgTypes, SgExclusion, SgOnce, SgKnown, SgShared, SgHand, SgPlaces,
         SgInside, SgHands, SgRecords

\* What a step of GetInstance writes into the shared record.
SgIs(s, m, i, n, r) ==
    s \in SgRecords /\ s.mutex = m /\ s.s_instance = i /\ s.made = n /\ s.released = r

LEMMA SgUpdate ==
    ASSUME NEW s \in SgRecords, NEW m \in SgThreads \cup {Free}, NEW b \in BOOLEAN,
           NEW n \in {0, 1}
    PROVE /\ SgIs([s EXCEPT !.mutex = m], m, s.s_instance, s.made, s.released)
          /\ SgIs([s EXCEPT !.s_instance = b], s.mutex, b, s.made, s.released)
          /\ SgIs([s EXCEPT !.made = n], s.mutex, s.s_instance, n, s.released)
          /\ SgIs([s EXCEPT !.released = b], s.mutex, s.s_instance, s.made, b)
<1> USE DEF SgIs, SgRecords
<1>1. SgIs([s EXCEPT !.mutex = m], m, s.s_instance, s.made, s.released)
  OBVIOUS
<1>2. SgIs([s EXCEPT !.s_instance = b], s.mutex, b, s.made, s.released)
  OBVIOUS
<1>3. SgIs([s EXCEPT !.made = n], s.mutex, s.s_instance, n, s.released)
  OBVIOUS
<1>4. SgIs([s EXCEPT !.released = b], s.mutex, s.s_instance, s.made, b)
  OBVIOUS
<1>5. QED
  BY <1>1, <1>2, <1>3, <1>4

LEMMA SgMoves ==
    ASSUME SgTypes, NEW t \in SgThreads, NEW from, NEW to \in SgPlaces,
           Moves(t, from, to)
    PROVE /\ at[t] = from /\ at'[t] = to /\ at' \in [SgThreads -> SgPlaces]
          /\ \A u \in SgThreads \ {t} : at'[u] = at[u]
  BY DEF SgTypes, Moves

LEMMA SgHolds ==
    ASSUME SgTypes, NEW t \in SgThreads, NEW a \in BOOLEAN, NEW b \in BOOLEAN
    PROVE /\ Holds(t, [tmp |-> a, knows |-> b]) =>
                /\ hand'[t].tmp = a /\ hand'[t].knows = b
                /\ hand' \in [SgThreads -> SgHands]
                /\ \A u \in SgThreads \ {t} : hand'[u] = hand[u]
          /\ Holds(t, [hand[t] EXCEPT !.knows = b]) =>
                /\ hand'[t].tmp = hand[t].tmp /\ hand'[t].knows = b
                /\ hand' \in [SgThreads -> SgHands]
                /\ \A u \in SgThreads \ {t} : hand'[u] = hand[u]
<1>1. ASSUME NEW v \in SgHands, Holds(t, v)
      PROVE /\ hand'[t] = v /\ hand' \in [SgThreads -> SgHands]
            /\ \A u \in SgThreads \ {t} : hand'[u] = hand[u]
  BY <1>1 DEF Holds, SgTypes
<1>2. /\ [tmp |-> a, knows |-> b] \in SgHands
      /\ [hand[t] EXCEPT !.knows = b] \in SgHands
      /\ [hand[t] EXCEPT !.knows = b].knows = b
      /\ [hand[t] EXCEPT !.knows = b].tmp = hand[t].tmp
  BY DEF SgTypes, SgHands
<1>3. Holds(t, [tmp |-> a, knows |-> b]) =>
         /\ hand'[t].tmp = a /\ hand'[t].knows = b
         /\ hand' \in [SgThreads -> SgHands]
         /\ \A u \in SgThreads \ {t} : hand'[u] = hand[u]
  BY <1>1, <1>2
<1>4. ASSUME Holds(t, [hand[t] EXCEPT !.knows = b])
      PROVE /\ hand'[t].tmp = hand[t].tmp /\ hand'[t].knows = b
            /\ hand' \in [SgThreads -> SgHands]
            /\ \A u \in SgThreads \ {t} : hand'[u] = hand[u]
  <2> DEFINE v == [hand[t] EXCEPT !.knows = b]
  <2>1. v \in SgHands /\ v.knows = b /\ v.tmp = hand[t].tmp /\ Holds(t, v)
    BY <1>2, <1>4
  <2> HIDE DEF v
  <2>2. QED
    BY <1>1, <2>1
<1>5. QED
  BY <1>3, <1>4

\* Each access of GetInstance keeps the invariant.
LEMMA SgStep == ASSUME SgInv, NEW t \in SgThreads, GetInstance(t) PROVE SgInv'
<1> USE PluginsAssumption DEF SgInv
<1>1. /\ hand[t].tmp \in BOOLEAN /\ hand[t].knows \in BOOLEAN
      /\ shared.s_instance \in BOOLEAN /\ shared.released \in BOOLEAN
      /\ shared.made \in {0, 1}
  BY DEF SgTypes, SgHands, SgRecords
<1>2. \A u \in SgThreads : at[t] \in SgInside /\ at[u] \in SgInside => u = t
  BY DEF SgExclusion
<1>3. ASSUME SgLoad(t, "call", "acquire", {FALSE, shared.s_instance}) PROVE SgInv'
  <2>1. PICK v \in {FALSE, shared.s_instance} :
           Holds(t, [tmp |-> v, knows |-> hand[t].knows])
    BY <1>3 DEF SgLoad
  <2>2. v \in BOOLEAN
    BY <1>1, <2>1
  <2>3. /\ hand'[t].tmp = v /\ hand'[t].knows = hand[t].knows
        /\ hand' \in [SgThreads -> SgHands]
        /\ \A u \in SgThreads \ {t} : hand'[u] = hand[u]
    BY <1>1, <2>1, <2>2, SgHolds
  <2>4. /\ UNCHANGED shared /\ at[t] = "call" /\ at'[t] = "acquire"
        /\ at' \in [SgThreads -> SgPlaces]
        /\ \A u \in SgThreads \ {t} : at'[u] = at[u]
    BY <1>3, SgMoves DEF SgLoad, SgPlaces
  <2>5. SgTypes' /\ SgExclusion' /\ SgOnce'
    BY <2>3, <2>4 DEF SgTypes, SgExclusion, SgOnce, SgInside
  <2>6. SgKnown'
    BY <2>1, <2>3, <2>4 DEF SgKnown
  <2>7. QED
    BY <2>5, <2>6
<1>4. ASSUME Moves(t, "acquire", IF hand[t].tmp THEN "return" ELSE "lock"),
             UNCHANGED shared,
             Holds(t, [hand[t] EXCEPT !.knows = @ \/ (hand[t].tmp /\ shared.released)])
      PROVE SgInv'
  <2> DEFINE to == IF hand[t].tmp THEN "return" ELSE "lock"
             k == hand[t].knows \/ (hand[t].tmp /\ shared.released)
  <2>1. to \in SgPlaces /\ k \in BOOLEAN
    BY DEF SgPlaces
  <2>2. Holds(t, [hand[t] EXCEPT !.knows = k])
    BY <1>4
  <2>3. hand[t].tmp => k = TRUE
    BY DEF SgKnown
  <2>4. Moves(t, "acquire", to)
    BY <1>4
  <2>5. to = "return" => hand[t].tmp
    OBVIOUS
  <2>6. to \in {"return", "lock"}
    OBVIOUS
  <2> HIDE DEF to, k
  <2>7. /\ hand'[t].tmp = hand[t].tmp /\ hand'[t].knows = k
        /\ hand' \in [SgThreads -> SgHands]
        /\ \A u \in SgThreads \ {t} : hand'[u] = hand[u]
    BY <1>1, <2>1, <2>2, SgHolds
  <2>8. /\ at[t] = "acquire" /\ at'[t] = to
        /\ at' \in [SgThreads -> SgPlaces]
        /\ \A u \in SgThreads \ {t} : at'[u] = at[u]
    BY <2>1, <2>4, SgMoves
  <2>9. SgTypes' /\ SgExclusion' /\ SgOnce'
    BY <1>4, <2>6, <2>7, <2>8 DEF SgTypes, SgExclusion, SgOnce, SgInside
  <2>10. SgKnown'
    BY <1>4, <2>3, <2>5, <2>6, <2>7, <2>8 DEF SgKnown
  <2>11. QED
    BY <2>9, <2>10
<1>5. ASSUME Moves(t, "lock", "check"), shared.mutex = Free,
             shared' = [shared EXCEPT !.mutex = t],
             Holds(t, [hand[t] EXCEPT !.knows = @ \/ shared.s_instance])
      PROVE SgInv'
  <2> DEFINE k == hand[t].knows \/ shared.s_instance
  <2>1. k \in BOOLEAN /\ Holds(t, [hand[t] EXCEPT !.knows = k])
        /\ (shared.s_instance => k = TRUE)
    BY <1>5
  <2> HIDE DEF k
  <2>2. /\ hand'[t].tmp = hand[t].tmp /\ hand'[t].knows = k
        /\ hand' \in [SgThreads -> SgHands]
        /\ \A u \in SgThreads \ {t} : hand'[u] = hand[u]
    BY <1>1, <2>1, SgHolds
  <2>3. /\ at[t] = "lock" /\ at'[t] = "check"
        /\ at' \in [SgThreads -> SgPlaces]
        /\ \A u \in SgThreads \ {t} : at'[u] = at[u]
    BY <1>5, SgMoves DEF SgPlaces
  <2>4. SgIs(shared', t, shared.s_instance, shared.made, shared.released)
    BY <1>5, SgUpdate DEF SgTypes
  <2>5. \A u \in SgThreads : at[u] \notin SgInside
    BY <1>5 DEF SgExclusion
  <2>6. SgTypes' /\ SgExclusion' /\ SgOnce'
    BY <2>2, <2>3, <2>4, <2>5 DEF SgTypes, SgExclusion, SgOnce, SgInside, SgIs
  <2>7. SgKnown'
    BY <2>1, <2>2, <2>3, <2>4 DEF SgKnown, SgIs
  <2>8. QED
    BY <2>6, <2>7
<1>6. ASSUME SgCreate(t), shared.s_instance PROVE SgInv'
  <2>1. UNCHANGED <<shared, hand>> /\ Moves(t, "check", "unlock")
    BY <1>6 DEF SgCreate, Nothing
  <2>2. /\ at[t] = "check" /\ at'[t] = "unlock" /\ at' \in [SgThreads -> SgPlaces]
        /\ \A u \in SgThreads \ {t} : at'[u] = at[u]
    BY <2>1, SgMoves DEF SgPlaces
  <2>3. SgTypes' /\ SgExclusion' /\ SgOnce'
    BY <2>1, <2>2 DEF SgTypes, SgExclusion, SgOnce, SgInside
  <2>4. SgKnown'
    BY <1>6, <2>1, <2>2 DEF SgKnown
  <2>5. QED
    BY <2>3, <2>4
<1>7. ASSUME SgCreate(t), ~shared.s_instance PROVE SgInv'
  <2>1. /\ Moves(t, "check", "fence") /\ shared' = [shared EXCEPT !.made = @ + 1]
        /\ Holds(t, [hand[t] EXCEPT !.knows = TRUE])
    BY <1>7 DEF SgCreate
  <2>2. /\ at[t] = "check" /\ at'[t] = "fence" /\ at' \in [SgThreads -> SgPlaces]
        /\ \A u \in SgThreads \ {t} : at'[u] = at[u]
    BY <2>1, SgMoves DEF SgPlaces
  <2>3. /\ hand'[t].tmp = hand[t].tmp /\ hand'[t].knows = TRUE
        /\ hand' \in [SgThreads -> SgHands]
        /\ \A u \in SgThreads \ {t} : hand'[u] = hand[u]
    BY <1>1, <2>1, SgHolds
  <2>4. shared.made = 0
    BY <1>1, <1>2, <1>7, <2>2 DEF SgOnce, SgInside
  <2>5. SgIs(shared', shared.mutex, shared.s_instance, 1, shared.released)
    <3>1. shared' = [shared EXCEPT !.made = 1]
      BY <2>1, <2>4
    <3>2. 1 \in {0, 1}
      OBVIOUS
    <3>3. QED
      BY <3>1, <3>2, SgUpdate DEF SgTypes
  <2>6. SgTypes' /\ SgExclusion' /\ SgOnce'
    BY <2>2, <2>3, <2>5 DEF SgTypes, SgExclusion, SgOnce, SgInside, SgIs
  <2>7. SgKnown'
    BY <1>7, <2>2, <2>3, <2>5 DEF SgKnown, SgIs
  <2>8. QED
    BY <2>6, <2>7
<1>8. ASSUME Moves(t, "fence", "store"), Sets([shared EXCEPT !.released = TRUE])
      PROVE SgInv'
  <2>1. SgIs(shared', shared.mutex, shared.s_instance, shared.made, TRUE)
    BY <1>8, SgUpdate DEF SgTypes, Sets
  <2>2. /\ at[t] = "fence" /\ at'[t] = "store" /\ at' \in [SgThreads -> SgPlaces]
        /\ \A u \in SgThreads \ {t} : at'[u] = at[u]
    BY <1>8, SgMoves DEF SgPlaces
  <2>3. UNCHANGED hand
    BY <1>8 DEF Sets
  <2>4. SgTypes' /\ SgExclusion' /\ SgOnce'
    BY <2>1, <2>2, <2>3 DEF SgTypes, SgExclusion, SgOnce, SgInside, SgIs
  <2>5. SgKnown'
    BY <2>1, <2>2, <2>3 DEF SgKnown, SgIs
  <2>6. QED
    BY <2>4, <2>5
<1>9. ASSUME Moves(t, "store", "unlock"), Sets([shared EXCEPT !.s_instance = TRUE])
      PROVE SgInv'
  <2>1. SgIs(shared', shared.mutex, TRUE, shared.made, shared.released)
    BY <1>9, SgUpdate DEF SgTypes, Sets
  <2>2. /\ at[t] = "store" /\ at'[t] = "unlock" /\ at' \in [SgThreads -> SgPlaces]
        /\ \A u \in SgThreads \ {t} : at'[u] = at[u] /\ at[u] \notin SgInside
    BY <1>2, <1>9, SgMoves DEF SgPlaces, SgInside
  <2>3. UNCHANGED hand
    BY <1>9 DEF Sets
  <2>4. SgTypes' /\ SgExclusion' /\ SgOnce'
    BY <2>1, <2>2, <2>3 DEF SgTypes, SgExclusion, SgOnce, SgInside, SgIs
  <2>5. SgKnown'
    BY <2>1, <2>2, <2>3 DEF SgKnown, SgInside, SgIs
  <2>6. QED
    BY <2>4, <2>5
<1>10. ASSUME GivesMutex(t, "unlock", "return") PROVE SgInv'
  <2>1. SgIs(shared', Free, shared.s_instance, shared.made, shared.released)
    BY <1>10, SgUpdate DEF SgTypes, Sets, GivesMutex
  <2>2. /\ at[t] = "unlock" /\ at'[t] = "return" /\ at' \in [SgThreads -> SgPlaces]
        /\ \A u \in SgThreads \ {t} : at'[u] = at[u] /\ at[u] \notin SgInside
    BY <1>2, <1>10, SgMoves DEF SgPlaces, SgInside, GivesMutex
  <2>3. UNCHANGED hand
    BY <1>10 DEF Sets, GivesMutex
  <2>4. SgTypes' /\ SgExclusion' /\ SgOnce'
    BY <2>1, <2>2, <2>3 DEF SgTypes, SgExclusion, SgOnce, SgInside, SgIs
  <2>5. SgKnown'
    BY <2>1, <2>2, <2>3 DEF SgKnown, SgIs
  <2>6. QED
    BY <2>4, <2>5
<1>11. QED
  BY <1>3, <1>4, <1>5, <1>6, <1>7, <1>8, <1>9, <1>10 DEF GetInstance

-----------------------------------------------------------------------------
\* pnp: types, where the two threads can be, and the order of the files.
ListenerPlaces == {"add", "wd", "read", "notify", "load", "end"}
MainPlaces == {"monitor", "loader", PgLive, "unregister", "remove watch", "close",
               "join", "end"}
PgRecords == [subscribers : Seq({"loader"}), handles : Seq(Nat), events : Seq(Int),
              files : Nat, watched : BOOLEAN, wd : BOOLEAN, closed : BOOLEAN,
              torn : BOOLEAN, unheard : SUBSET Int, open : SUBSET Int]

PgTypes == /\ at \in [{1, 2} -> ListenerPlaces \cup MainPlaces]
           /\ at[Listener] \in ListenerPlaces /\ at[Main] \in MainPlaces
           /\ hand \in [{1, 2} -> Int]
           /\ shared \in PgRecords

\* Files only grow from what is loaded over what is in hand to what is queued.
Rising(s) == \A k, l \in 1..Len(s) : k < l /\ 0 < s[k] /\ 0 < s[l] => s[k] < s[l]
Below(s, n) == \A k \in 1..Len(s) : s[k] < n
InHand == hand[Listener]

PgOrder ==
    /\ Rising(shared.handles) /\ Rising(shared.events)
    /\ \A k \in 1..Len(shared.handles) : shared.handles[k] \in 1..shared.files
    /\ \A k \in 1..Len(shared.events) :
          shared.events[k] \in {Ignored} \cup 1..shared.files
    /\ InHand \in {Idle, Blocked, Ignored} \cup 1..shared.files
    /\ 0 < InHand => Below(shared.handles, InHand)
    /\ \A k \in 1..Len(shared.events) : 0 < shared.events[k] =>
          Below(shared.handles, shared.events[k]) /\ InHand < shared.events[k]

PgHeard ==
    /\ shared.unheard \subseteq 1..shared.files
    /\ InHand \notin shared.unheard
    /\ \A k \in 1..Len(shared.handles) : shared.handles[k] \notin shared.unheard
    /\ \A k \in 1..Len(shared.events) : shared.events[k] \notin shared.unheard
    /\ shared.open = ToSet(shared.handles)

PgAlive ==
    /\ at[Listener] = "load" => 0 < InHand
    /\ at[Listener] = "notify" => 0 < InHand \/ InHand = Ignored
    /\ at[Main] = "end" => at[Listener] = "end"
    /\ ~shared.torn =>
          /\ at[Main] \notin {PgLive, "unregister"} =>
                at[Listener] # "load" /\ shared.subscribers = <<>>
          /\ at[Main] # PgLive => shared.handles = <<>>

PgInv == PgTypes /\ PgOrder /\ PgHeard /\ PgAlive

LEMMA PgBegins ==
    ASSUME shared = PgShared, at = <<"add", "monitor">>, hand = <<Idle, Idle>>
    PROVE PgInv
<1>1. /\ shared.subscribers = <<>> /\ shared.handles = <<>> /\ shared.events = <<>>
      /\ shared.files = 0 /\ shared.unheard = {} /\ shared.open = {}
      /\ shared \in PgRecords
  BY DEF PgShared, PgRecords
<1>2. /\ at[1] = "add" /\ at[2] = "monitor" /\ hand[1] = 0 /\ hand[2] = 0
      /\ at \in [{1, 2} -> {"add", "monitor"}] /\ hand \in [{1, 2} -> {0}]
  <2>1. 1..2 = {1, 2}
    OBVIOUS
  <2>2. QED
    BY <2>1 DEF Idle
<1>3. PgTypes
  <2>1. at \in [{1, 2} -> ListenerPlaces \cup MainPlaces]
    BY <1>2 DEF ListenerPlaces, MainPlaces
  <2>2. hand \in [{1, 2} -> Int]
    BY <1>2
  <2>3. at[1] \in ListenerPlaces /\ at[2] \in MainPlaces
    BY <1>2 DEF ListenerPlaces, MainPlaces
  <2>4. QED
    BY <1>1, <2>1, <2>2, <2>3 DEF PgTypes, Listener, Main
<1>4. PgOrder
  BY <1>1, <1>2 DEF PgOrder, Rising, Below, InHand, Listener, Idle
<1>5. PgHeard
  BY <1>1 DEF PgHeard, ToSet
<1>6. PgAlive
  BY <1>1, <1>2 DEF PgAlive, Listener, Main, PgLive
<1>7. QED
  BY <1>3, <1>4, <1>5, <1>6 DEF PgInv

\* What a step writes into the shared record.
PgIs(s, sub, han, ev, fil, wat, w, clo, tor, unh, ope) ==
    /\ s \in PgRecords
    /\ s.subscribers = sub /\ s.handles = han /\ s.events = ev /\ s.files = fil
    /\ s.watched = wat /\ s.wd = w /\ s.closed = clo /\ s.torn = tor
    /\ s.unheard = unh /\ s.open = ope

LEMMA PgSetsFiles ==
    ASSUME NEW s \in PgRecords, NEW f \in Nat, NEW ev \in Seq(Int), NEW unh \in SUBSET Int
    PROVE PgIs([s EXCEPT !.files = f, !.events = ev, !.unheard = unh],
               s.subscribers, s.handles, ev, f, s.watched, s.wd,
               s.closed, s.torn, unh, s.open)
  BY DEF PgIs, PgRecords

LEMMA PgSetsSubscribers ==
    ASSUME NEW s \in PgRecords, NEW sub \in Seq({"loader"}), NEW b \in BOOLEAN
    PROVE PgIs([s EXCEPT !.subscribers = sub, !.torn = b],
               sub, s.handles, s.events, s.files, s.watched, s.wd,
               s.closed, b, s.unheard, s.open)
  BY DEF PgIs, PgRecords

LEMMA PgSetsUnheard ==
    ASSUME NEW s \in PgRecords, NEW unh \in SUBSET Int
    PROVE PgIs([s EXCEPT !.unheard = unh],
               s.subscribers, s.handles, s.events, s.files, s.watched, s.wd,
               s.closed, s.torn, unh, s.open)
  BY DEF PgIs, PgRecords

LEMMA PgSetsEvents ==
    ASSUME NEW s \in PgRecords, NEW ev \in Seq(Int), NEW unh \in SUBSET Int
    PROVE PgIs([s EXCEPT !.events = ev, !.unheard = unh],
               s.subscribers, s.handles, ev, s.files, s.watched, s.wd,
               s.closed, s.torn, unh, s.open)
  BY DEF PgIs, PgRecords

LEMMA PgSetsHandles ==
    ASSUME NEW s \in PgRecords, NEW han \in Seq(Nat), NEW ope \in SUBSET Int, NEW b \in BOOLEAN
    PROVE PgIs([s EXCEPT !.handles = han, !.open = ope, !.torn = b],
               s.subscribers, han, s.events, s.files, s.watched, s.wd,
               s.closed, b, s.unheard, ope)
  BY DEF PgIs, PgRecords

LEMMA PgSetsOpen ==
    ASSUME NEW s \in PgRecords, NEW han \in Seq(Nat), NEW ope \in SUBSET Int, NEW b \in BOOLEAN
    PROVE PgIs([s EXCEPT !.open = ope, !.handles = han, !.torn = b],
               s.subscribers, han, s.events, s.files, s.watched, s.wd,
               s.closed, b, s.unheard, ope)
  BY DEF PgIs, PgRecords

LEMMA PgSetsWatched ==
    ASSUME NEW s \in PgRecords, NEW b \in BOOLEAN
    PROVE PgIs([s EXCEPT !.watched = b],
               s.subscribers, s.handles, s.events, s.files, b, s.wd,
               s.closed, s.torn, s.unheard, s.open)
  BY DEF PgIs, PgRecords

LEMMA PgEndsWatch ==
    ASSUME NEW s \in PgRecords, NEW b \in BOOLEAN, NEW ev \in Seq(Int)
    PROVE PgIs([s EXCEPT !.watched = b, !.events = ev],
               s.subscribers, s.handles, ev, s.files, b, s.wd,
               s.closed, s.torn, s.unheard, s.open)
  BY DEF PgIs, PgRecords

LEMMA PgSetsWd ==
    ASSUME NEW s \in PgRecords, NEW b \in BOOLEAN
    PROVE PgIs([s EXCEPT !.wd = b],
               s.subscribers, s.handles, s.events, s.files, s.watched, b,
               s.closed, s.torn, s.unheard, s.open)
  BY DEF PgIs, PgRecords

LEMMA PgSetsClosed ==
    ASSUME NEW s \in PgRecords, NEW b \in BOOLEAN
    PROVE PgIs([s EXCEPT !.closed = b],
               s.subscribers, s.handles, s.events, s.files, s.watched, s.wd,
               b, s.torn, s.unheard, s.open)
  BY DEF PgIs, PgRecords

\* Where the threads go, and what the listener takes in hand.
LEMMA PgMoves ==
    ASSUME PgTypes, NEW from, NEW to
    PROVE /\ Moves(Listener, from, to) /\ to \in ListenerPlaces =>
                /\ at[Listener] = from /\ at'[Listener] = to /\ at'[Main] = at[Main]
                /\ at' \in [{1, 2} -> ListenerPlaces \cup MainPlaces]
          /\ Moves(Main, from, to) /\ to \in MainPlaces =>
                /\ at[Main] = from /\ at'[Main] = to /\ at'[Listener] = at[Listener]
                /\ at' \in [{1, 2} -> ListenerPlaces \cup MainPlaces]
  BY DEF PgTypes, Moves, Listener, Main

LEMMA PgHolds ==
    ASSUME PgTypes, NEW v \in Int, Holds(Listener, v)
    PROVE hand'[Listener] = v /\ hand' \in [{1, 2} -> Int]
  BY DEF PgTypes, Holds, Listener

LEMMA PgFields ==
    ASSUME PgTypes
    PROVE /\ shared.subscribers \in Seq({"loader"}) /\ shared.handles \in Seq(Nat)
          /\ shared.events \in Seq(Int) /\ shared.files \in Nat
          /\ shared.watched \in BOOLEAN /\ shared.wd \in BOOLEAN
          /\ shared.closed \in BOOLEAN /\ shared.torn \in BOOLEAN
          /\ shared.unheard \in SUBSET Int /\ shared.open \in SUBSET Int
          /\ InHand \in Int /\ DOMAIN at = {1, 2}
  BY DEF PgTypes, PgRecords, InHand, Listener

\* The elements of a part of a sequence.
LEMMA Sliced ==
    ASSUME NEW S, NEW s \in Seq(S), NEW m \in 1..(Len(s) + 1), NEW n \in (m - 1)..Len(s)
    PROVE /\ SubSeq(s, m, n) \in Seq(S) /\ Len(SubSeq(s, m, n)) = n - m + 1
          /\ \A k \in 1..(n - m + 1) :
                k + m - 1 \in 1..Len(s) /\ SubSeq(s, m, n)[k] = s[k + m - 1]
          /\ \A x \in ToSet(SubSeq(s, m, n)) : \E k \in m..n : x = s[k]
<1>1. /\ Len(s) \in Nat /\ m \in Nat /\ n \in Nat /\ n - m + 1 \in Nat
      /\ \A k \in 1..Len(s) : s[k] \in S
  OBVIOUS
<1>2. \A k \in 1..(n - m + 1) : k + m - 1 \in 1..Len(s) /\ k + m - 1 \in m..n
  BY <1>1
<1> DEFINE u == [k \in 1..(n - m + 1) |-> s[k + m - 1]]
<1>3. SubSeq(s, m, n) = u
  BY <1>1
<1>4. u \in Seq(S) /\ Len(u) = n - m + 1 /\ DOMAIN u = 1..(n - m + 1)
  BY <1>1, <1>2
<1>5. \A x \in ToSet(u) : \E k \in m..n : x = s[k]
  BY <1>2, <1>4 DEF ToSet
<1>6. QED
  BY <1>2, <1>3, <1>4, <1>5

\* A sequence gets one more element.
LEMMA Appended ==
    ASSUME NEW S, NEW s \in Seq(S), NEW x \in S
    PROVE /\ Append(s, x) \in Seq(S) /\ Len(Append(s, x)) = Len(s) + 1
          /\ \A k \in 1..Len(s) : Append(s, x)[k] = s[k]
          /\ Append(s, x)[Len(s) + 1] = x
          /\ ToSet(Append(s, x)) = ToSet(s) \cup {x}
<1>1. /\ Append(s, x) \in Seq(S) /\ Len(Append(s, x)) = Len(s) + 1
      /\ \A k \in 1..Len(s) : Append(s, x)[k] = s[k]
      /\ Append(s, x)[Len(s) + 1] = x
  OBVIOUS
<1>2. DOMAIN Append(s, x) = 1..(Len(s) + 1) /\ DOMAIN s = 1..Len(s)
  OBVIOUS
<1>3. Len(s) \in Nat /\ 1..(Len(s) + 1) = 1..Len(s) \cup {Len(s) + 1}
  OBVIOUS
<1>4. ToSet(Append(s, x)) = ToSet(s) \cup {x}
  BY <1>1, <1>2, <1>3 DEF ToSet
<1>5. QED
  BY <1>1, <1>4

\* No order depends on where the threads are.
LEMMA PgOnlyMoves ==
    ASSUME PgInv, UNCHANGED <<shared, hand>> PROVE PgOrder' /\ PgHeard'
  BY DEF PgInv, PgOrder, PgHeard, Rising, Below, InHand, ToSet

\* Nor on subscribers, watched, wd, closed and torn.
LEMMA PgOtherFields ==
    ASSUME PgInv, UNCHANGED hand, shared'.handles = shared.handles,
           shared'.events = shared.events, shared'.files = shared.files,
           shared'.unheard = shared.unheard, shared'.open = shared.open
    PROVE PgOrder' /\ PgHeard'
  BY DEF PgInv, PgOrder, PgHeard, Rising, Below, InHand, ToSet

LEMMA PlugNPlayStep == ASSUME PgInv, PlugNPlay PROVE PgInv'
<1> USE DEF PgInv
<1>1. ASSUME Moves(Main, "monitor", "loader"), UNCHANGED <<shared, hand>> PROVE PgInv'
  <2>1. /\ at[Main] = "monitor" /\ at'[Main] = "loader" /\ at'[Listener] = at[Listener]
        /\ at' \in [{1, 2} -> ListenerPlaces \cup MainPlaces]
    BY <1>1, PgMoves DEF MainPlaces
  <2>2. PgTypes' /\ PgAlive'
    BY <1>1, <2>1 DEF PgTypes, PgAlive, MainPlaces, PgLive, InHand
  <2>3. QED
    BY <1>1, <2>2, PgOnlyMoves
<1>2. ASSUME Moves(Main, "loader", PgLive), UNCHANGED hand,
             shared' = PgTears([shared EXCEPT !.subscribers = <<"loader">>], InDispatcher)
      PROVE PgInv'
  <2>1. /\ at[Main] = "loader" /\ at'[Main] = PgLive /\ at'[Listener] = at[Listener]
        /\ at' \in [{1, 2} -> ListenerPlaces \cup MainPlaces]
    BY <1>2, PgMoves DEF MainPlaces
  <2> DEFINE b == shared.torn \/ \E t \in DOMAIN at : at[t] \in InDispatcher
  <2>2. shared' = [shared EXCEPT !.subscribers = <<"loader">>, !.torn = b]
    BY <1>2, PgFields DEF PgTears, PgTypes, PgRecords
  <2>3. b \in BOOLEAN /\ <<"loader">> \in Seq({"loader"})
    OBVIOUS
  <2> HIDE DEF b
  <2>4. PgIs(shared', <<"loader">>, shared.handles, shared.events, shared.files,
             shared.watched, shared.wd, shared.closed, b, shared.unheard, shared.open)
    BY <2>2, <2>3, PgSetsSubscribers DEF PgTypes
  <2>5. PgTypes' /\ PgAlive'
    BY <1>2, <2>1, <2>4 DEF PgTypes, PgAlive, PgIs, MainPlaces, PgLive, InHand
  <2>6. QED
    BY <1>2, <2>4, <2>5, PgOtherFields DEF PgIs
<1>3. QED
  BY <1>1, <1>2 DEF PlugNPlay

\* A file is queued behind all others, or missed.
LEMMA PgFileStep == ASSUME PgInv, PgFile PROVE PgInv'
<1> DEFINE f   == shared.files + 1
           ev  == IF shared.watched THEN Append(shared.events, f) ELSE shared.events
           unh == IF shared.watched THEN shared.unheard ELSE shared.unheard \cup {f}
<1>1. /\ PgTypes /\ PgOrder /\ PgHeard /\ PgAlive
      /\ shared.events \in Seq(Int) /\ shared.files \in Nat /\ shared.unheard \in SUBSET Int
      /\ shared.watched \in BOOLEAN
  BY PgFields DEF PgInv
<1>2. f \in Nat /\ shared.files < f /\ shared.files = f - 1
  BY <1>1
<1>3. UNCHANGED <<at, hand>> /\ shared' = [shared EXCEPT !.files = f, !.events = ev, !.unheard = unh]
  BY DEF PgFile
<1> HIDE DEF f
<1>4. ev \in Seq(Int) /\ unh \in SUBSET Int
  BY <1>1, <1>2, Appended
<1>5. /\ Len(ev) \in Nat /\ Len(shared.events) \in Nat
      /\ \A k \in 1..Len(shared.events) : ev[k] = shared.events[k]
      /\ \/ ev = shared.events
         \/ Len(ev) = Len(shared.events) + 1 /\ ev[Len(ev)] = f /\ unh = shared.unheard
      /\ \/ unh = shared.unheard
         \/ unh = shared.unheard \cup {f} /\ ev = shared.events
  BY <1>1, <1>2, Appended
<1> HIDE DEF ev, unh
<1>6. PgIs(shared', shared.subscribers, shared.handles, ev, f, shared.watched,
           shared.wd, shared.closed, shared.torn, unh, shared.open)
  BY <1>1, <1>2, <1>3, <1>4, PgSetsFiles DEF PgTypes
<1>7. \A k \in 1..Len(ev) :
         \/ k \in 1..Len(shared.events) /\ ev[k] = shared.events[k]
         \/ k = Len(ev) /\ ev[k] = f /\ unh = shared.unheard
  BY <1>5
<1>8. /\ \A k \in 1..Len(shared.events) : shared.events[k] < f
      /\ InHand < f /\ Below(shared.handles, f)
  <2>1. \A n \in {Idle, Blocked, Ignored} \cup 1..shared.files : n < f
    BY <1>1, <1>2 DEF Ignored, Idle, Blocked
  <2>2. \A k \in 1..Len(shared.events) : shared.events[k] < f
    BY <1>1, <2>1 DEF PgOrder
  <2>3. InHand < f
    BY <1>1, <2>1 DEF PgOrder
  <2>4. Below(shared.handles, f)
    BY <1>1, <2>1 DEF PgOrder, Below
  <2>5. QED
    BY <2>2, <2>3, <2>4
<1>9. Rising(ev)
  <2> SUFFICES ASSUME NEW k \in 1..Len(ev), NEW l \in 1..Len(ev), k < l,
                      0 < ev[k], 0 < ev[l]
               PROVE ev[k] < ev[l]
    BY DEF Rising
  <2>1. k \in 1..Len(shared.events) /\ ev[k] = shared.events[k]
    BY <1>5, <1>7
  <2>2. QED
    BY <1>1, <1>7, <1>8, <2>1 DEF PgOrder, Rising
<1>10. PgOrder'
  <2>1. Rising(shared'.handles) /\ Rising(shared'.events)
    BY <1>1, <1>6, <1>9 DEF PgOrder, PgIs
  <2>2. /\ \A k \in 1..Len(shared'.handles) : shared'.handles[k] \in 1..f
        /\ \A k \in 1..Len(ev) : ev[k] \in {Ignored} \cup 1..f
        /\ InHand \in {Idle, Blocked, Ignored} \cup 1..f
    <3>1. 1..shared.files \subseteq 1..f /\ f \in 1..f
      BY <1>1, <1>2
    <3>2. QED
      BY <1>1, <1>6, <1>7, <3>1 DEF PgOrder, PgIs
  <2>3. \A k \in 1..Len(ev) : 0 < ev[k] => Below(shared.handles, ev[k]) /\ InHand < ev[k]
    BY <1>1, <1>7, <1>8 DEF PgOrder
  <2>4. InHand' = InHand
    BY <1>3 DEF InHand
  <2>5. QED
    BY <1>1, <1>6, <2>1, <2>2, <2>3, <2>4 DEF PgOrder, PgIs
<1>11. PgHeard'
  <2>1. f \notin shared.unheard /\ unh \subseteq 1..f
    BY <1>1, <1>2, <1>5 DEF PgHeard
  <2>2. \A n \in Int : n < f /\ n \notin shared.unheard => n \notin unh
    BY <1>5
  <2>3. \A k \in 1..Len(ev) : ev[k] \notin unh
    <3>1. \A k \in 1..Len(shared.events) :
             shared.events[k] \in Int /\ shared.events[k] \notin shared.unheard
      BY <1>1 DEF PgHeard
    <3>2. QED
      BY <1>7, <1>8, <2>1, <2>2, <3>1
  <2>4. \A k \in 1..Len(shared.handles) : shared.handles[k] \notin unh
    BY <1>1, <1>8, <2>2 DEF PgHeard, PgTypes, PgRecords, Below
  <2>5. InHand' \notin unh
    BY <1>1, <1>3, <1>8, <2>2, PgFields DEF PgHeard, InHand
  <2>6. QED
    BY <1>1, <1>6, <2>1, <2>3, <2>4, <2>5 DEF PgHeard, PgIs
<1>12. PgTypes' /\ PgAlive'
  BY <1>1, <1>3, <1>6 DEF PgTypes, PgAlive, PgIs, InHand
<1>13. QED
  BY <1>10, <1>11, <1>12 DEF PgInv

\* The listener starts its watch, and reads.
LEMMA ListenerStarts ==
    ASSUME PgInv,
           \/ Moves(Listener, "add", "wd") /\ UNCHANGED hand
              /\ shared' = [shared EXCEPT !.watched = ~shared.closed]
           \/ Moves(Listener, "wd", "read") /\ UNCHANGED hand
              /\ shared' = [shared EXCEPT !.wd = TRUE]
    PROVE PgInv'
<1>1. PgTypes /\ PgOrder /\ PgHeard /\ PgAlive /\ shared.closed \in BOOLEAN
  BY PgFields DEF PgInv
<1>2. PICK to \in {"wd", "read"} :
         /\ at'[Listener] = to /\ at'[Main] = at[Main] /\ at[Listener] # "end"
         /\ at' \in [{1, 2} -> ListenerPlaces \cup MainPlaces]
  BY <1>1, PgMoves DEF ListenerPlaces
<1>3. \/ PgIs(shared', shared.subscribers, shared.handles, shared.events, shared.files,
              ~shared.closed, shared.wd, shared.closed, shared.torn, shared.unheard,
              shared.open)
      \/ PgIs(shared', shared.subscribers, shared.handles, shared.events, shared.files,
              shared.watched, TRUE, shared.closed, shared.torn, shared.unheard,
              shared.open)
  BY <1>1, PgSetsWatched, PgSetsWd DEF PgTypes
<1>4. /\ shared' \in PgRecords /\ UNCHANGED hand
      /\ shared'.handles = shared.handles /\ shared'.events = shared.events
      /\ shared'.files = shared.files /\ shared'.unheard = shared.unheard
      /\ shared'.open = shared.open /\ shared'.torn = shared.torn
      /\ shared'.subscribers = shared.subscribers
  BY <1>3 DEF PgIs
<1>5. PgTypes' /\ PgAlive'
  BY <1>1, <1>2, <1>4 DEF PgTypes, PgAlive, InHand, ListenerPlaces
<1>6. QED
  BY <1>4, <1>5, PgOtherFields DEF PgInv

\* Nothing but a new file in hand is more than what is loaded or missed.
LEMMA PutDown ==
    ASSUME PgInv, NEW v \in {Idle, Blocked}, Holds(Listener, v),
           UNCHANGED <<at, shared>> \/ (UNCHANGED shared /\ at'[Listener] = "read"
              /\ at'[Main] = at[Main] /\ at[Listener] # "end"
              /\ at' \in [{1, 2} -> ListenerPlaces \cup MainPlaces]),
           at[Listener] \in {"read", "load", "notify"}
    PROVE PgOrder' /\ PgHeard' /\ (at'[Listener] = "read" => PgInv')
<1>1. PgTypes /\ PgOrder /\ PgHeard /\ PgAlive
  BY DEF PgInv
<1>2. v \in Int /\ v <= 0
  BY DEF Idle, Blocked
<1>3. InHand' = v /\ hand' \in [{1, 2} -> Int] /\ UNCHANGED shared
  BY <1>1, <1>2, PgHolds DEF InHand
<1>4. PgOrder'
  <2>1. \A k \in 1..Len(shared.events) : 0 < shared.events[k] => v < shared.events[k]
    BY <1>1, <1>2, PgFields
  <2>2. ~(0 < v)
    BY <1>2
  <2>3. QED
    BY <1>1, <1>3, <2>1, <2>2 DEF PgOrder, Rising, Below
<1>5. PgHeard'
  <2>1. v \notin shared.unheard
    BY <1>1, <1>2 DEF PgHeard
  <2>2. QED
    BY <1>1, <1>3, <2>1 DEF PgHeard, ToSet
<1>6. ASSUME at'[Listener] = "read" PROVE PgTypes' /\ PgAlive'
  BY <1>1, <1>3, <1>6 DEF PgTypes, PgAlive, ListenerPlaces
<1>7. QED
  BY <1>4, <1>5, <1>6 DEF PgInv

LEMMA ListenerReadStep == ASSUME PgInv, ListenerRead PROVE PgInv'
<1>1. CASE shared.closed
  <2>1. Moves(Listener, "read", "end") /\ UNCHANGED <<shared, hand>>
    BY <1>1 DEF ListenerRead, Nothing
  <2>2. /\ at'[Listener] = "end" /\ at'[Main] = at[Main]
        /\ at' \in [{1, 2} -> ListenerPlaces \cup MainPlaces]
    BY <2>1, PgMoves DEF PgInv, ListenerPlaces
  <2>3. PgTypes' /\ PgAlive'
    BY <2>1, <2>2 DEF PgInv, PgTypes, PgAlive, InHand, ListenerPlaces
  <2>4. QED
    BY <2>1, <2>3, PgOnlyMoves DEF PgInv
<1>2. CASE ~shared.closed
  BY <1>2, PutDown DEF ListenerRead
<1>3. QED
  BY <1>1, <1>2

\* Of a read with h in front and mid behind it, left is what stays.
PgReads(ev, h, mid, left) ==
    /\ left \in Seq(Int) /\ Rising(left) /\ h \notin mid
    /\ \A x \in mid : x # Ignored /\ \E l \in 1..Len(ev) : x = ev[l]
    /\ \A k \in 1..Len(left) : /\ left[k] \notin mid /\ (0 < left[k] => h < left[k])
                               /\ \E l \in 1..Len(ev) : left[k] = ev[l]

LEMMA PgReadsSome ==
    ASSUME NEW ev \in Seq(Int), NEW n \in 1..Len(ev), Rising(ev),
           \A k \in 1..Len(ev) : ev[k] = Ignored \/ 0 < ev[k]
    PROVE PgReads(ev, ev[1], ToSet(SubSeq(ev, 2, n)) \ {Ignored}, SubSeq(ev, n + 1, Len(ev)))
<1> DEFINE mid  == SubSeq(ev, 2, n)
           left == SubSeq(ev, n + 1, Len(ev))
<1>1. /\ Len(ev) \in Nat /\ n \in Nat /\ 1 <= n /\ n <= Len(ev)
      /\ \A k \in 1..Len(ev) : ev[k] \in Int
  OBVIOUS
<1>2. \A x \in ToSet(mid) : \E k \in 2..n : x = ev[k]
  <2>1. 2 \in 1..(Len(ev) + 1) /\ n \in (2 - 1)..Len(ev)
    BY <1>1
  <2>2. QED
    BY <2>1, Sliced
<1>3. /\ left \in Seq(Int) /\ Len(left) = Len(ev) - n
      /\ \A k \in 1..Len(left) : k + n \in 1..Len(ev) /\ left[k] = ev[k + n]
  <2>1. n + 1 \in 1..(Len(ev) + 1) /\ Len(ev) \in ((n + 1) - 1)..Len(ev)
    BY <1>1
  <2>2. /\ left \in Seq(Int) /\ Len(left) = Len(ev) - (n + 1) + 1
        /\ \A k \in 1..(Len(ev) - (n + 1) + 1) :
              k + (n + 1) - 1 \in 1..Len(ev) /\ left[k] = ev[k + (n + 1) - 1]
    BY <2>1, Sliced
  <2>3. \A k \in Int : k + (n + 1) - 1 = k + n
    BY <1>1
  <2> HIDE DEF left
  <2>4. Len(left) = Len(ev) - n /\ Len(left) = Len(ev) - (n + 1) + 1
    BY <1>1, <2>2
  <2>5. QED
    BY <2>2, <2>3, <2>4
<1> HIDE DEF mid, left
<1>4. ASSUME NEW k \in 1..Len(ev), NEW l \in 1..Len(ev), k < l, 0 < ev[l]
      PROVE ev[k] < ev[l] /\ ev[k] # ev[l]
  <2>1. CASE ev[k] = Ignored
    BY <1>4, <2>1 DEF Ignored
  <2>2. CASE 0 < ev[k]
    BY <1>1, <1>4, <2>2 DEF Rising
  <2>3. QED
    BY <2>1, <2>2
<1>5. \A x \in ToSet(mid) \ {Ignored} : x # Ignored /\ 0 < x
         /\ \E k \in 1..Len(ev) : 1 < k /\ k <= n /\ x = ev[k]
  BY <1>1, <1>2
<1>6. ev[1] \notin ToSet(mid) \ {Ignored}
  BY <1>1, <1>4, <1>5
<1>7. Rising(left)
  <2>1. ASSUME NEW k \in 1..Len(left), NEW l \in 1..Len(left), k < l,
               0 < left[k], 0 < left[l]
        PROVE left[k] < left[l]
    <3>1. /\ k + n \in 1..Len(ev) /\ left[k] = ev[k + n]
          /\ l + n \in 1..Len(ev) /\ left[l] = ev[l + n]
      BY <1>3
    <3>2. k + n < l + n
      <4>1. k \in Int /\ l \in Int /\ n \in Int
        OBVIOUS
      <4>2. QED
        BY <2>1, <4>1
    <3>3. ev[k + n] < ev[l + n]
      BY <1>4, <2>1, <3>1, <3>2
    <3>4. QED
      BY <3>1, <3>3
  <2>2. QED
    BY <2>1 DEF Rising
<1>8. ASSUME NEW k \in 1..Len(left)
      PROVE /\ left[k] \notin ToSet(mid) \ {Ignored} /\ (0 < left[k] => ev[1] < left[k])
            /\ \E l \in 1..Len(ev) : left[k] = ev[l]
  <2>1. /\ k + n \in 1..Len(ev) /\ left[k] = ev[k + n] /\ 1 < k + n /\ n < k + n
        /\ 1 \in 1..Len(ev)
    BY <1>1, <1>3
  <2>2. ASSUME left[k] \in ToSet(mid) \ {Ignored} PROVE FALSE
    <3>1. PICK l \in 1..Len(ev) : l <= n /\ left[k] = ev[l] /\ 0 < left[k]
      BY <1>5, <2>2
    <3>2. l < k + n /\ 0 < ev[k + n]
      BY <1>1, <2>1, <3>1
    <3>3. QED
      BY <1>4, <2>1, <3>1, <3>2
  <2>3. 0 < left[k] => ev[1] < left[k]
    BY <1>4, <2>1
  <2>4. QED
    BY <2>1, <2>2, <2>3
<1>9. PgReads(ev, ev[1], ToSet(mid) \ {Ignored}, left)
  BY <1>3, <1>5, <1>6, <1>7, <1>8 DEF PgReads
<1>10. QED
  BY <1>9 DEF mid, left

\* One event is handled, the others of the same read are missed.
LEMMA ListenerTakes ==
    ASSUME PgInv, hand[Listener] = Blocked, NEW n \in DOMAIN shared.events,
           Moves(Listener, "read", "notify"), Holds(Listener, Head(shared.events)),
           shared' = [shared EXCEPT
              !.events = SubSeq(@, n + 1, Len(@)),
              !.unheard = @ \cup (ToSet(SubSeq(shared.events, 2, n)) \ {Ignored})]
    PROVE PgInv'
<1> DEFINE ev   == shared.events
           h    == ev[1]
           mid  == ToSet(SubSeq(ev, 2, n)) \ {Ignored}
           left == SubSeq(ev, n + 1, Len(ev))
           unh  == shared.unheard \cup mid
<1>1. PgTypes /\ PgOrder /\ PgHeard /\ PgAlive
  BY DEF PgInv
<1>2. /\ ev \in Seq(Int) /\ n \in 1..Len(ev) /\ 1 \in 1..Len(ev)
      /\ h = Head(ev) /\ h \in Int /\ shared.handles \in Seq(Nat) /\ shared.files \in Nat
      /\ shared.unheard \in SUBSET Int
  BY <1>1, PgFields
<1>3. \A k \in 1..Len(ev) :
         /\ ev[k] \in {Ignored} \cup 1..shared.files /\ (ev[k] = Ignored \/ 0 < ev[k])
         /\ ev[k] # Ignored => ev[k] \in 1..shared.files /\ Below(shared.handles, ev[k])
  BY <1>1, <1>2 DEF PgOrder
<1>4. PgReads(ev, h, mid, left)
  BY <1>1, <1>2, <1>3, PgReadsSome DEF PgOrder
<1>5. Holds(Listener, h) /\ shared' = [shared EXCEPT !.events = left, !.unheard = unh]
  BY <1>1, <1>2 DEF PgTypes, PgRecords
<1> HIDE DEF mid, left
<1>6. /\ \A x \in mid : x \in 1..shared.files /\ Below(shared.handles, x)
      /\ mid \subseteq Int
  BY <1>2, <1>3, <1>4 DEF PgReads
<1>7. unh \in SUBSET Int /\ unh \subseteq 1..shared.files
  BY <1>1, <1>2, <1>6 DEF PgHeard
<1>8. h \notin unh
  BY <1>1, <1>2, <1>4 DEF PgHeard, PgReads
<1>9. \A k \in 1..Len(shared.handles) : shared.handles[k] \notin unh
  <2>1. ASSUME NEW k \in 1..Len(shared.handles), shared.handles[k] \in mid PROVE FALSE
    <3>1. shared.handles[k] \in Int /\ shared.handles[k] < shared.handles[k]
      BY <1>6, <2>1 DEF Below
    <3>2. QED
      BY <3>1
  <2>2. QED
    BY <1>1, <2>1 DEF PgHeard
<1>10. \A k \in 1..Len(left) :
          /\ left[k] \in {Ignored} \cup 1..shared.files
          /\ 0 < left[k] => Below(shared.handles, left[k]) /\ h < left[k]
          /\ left[k] \notin unh
  <2>1. ASSUME NEW k \in 1..Len(left)
        PROVE /\ left[k] \in {Ignored} \cup 1..shared.files
              /\ 0 < left[k] => Below(shared.handles, left[k]) /\ h < left[k]
              /\ left[k] \notin unh
    <3>1. PICK l \in 1..Len(ev) : left[k] = ev[l]
      BY <1>4 DEF PgReads
    <3>2. ev[l] \notin shared.unheard
      BY <1>1, <1>2 DEF PgHeard
    <3>3. QED
      BY <1>3, <1>4, <3>1, <3>2 DEF PgReads, Ignored
  <2>2. QED
    BY <2>1
<1>11. /\ h \in {Ignored} \cup 1..shared.files /\ (0 < h \/ h = Ignored)
       /\ 0 < h => Below(shared.handles, h)
  BY <1>2, <1>3 DEF Ignored
<1>12. left \in Seq(Int) /\ Rising(left)
  BY <1>4 DEF PgReads
<1> HIDE DEF h, unh
<1>14. PgIs(shared', shared.subscribers, shared.handles, left, shared.files,
            shared.watched, shared.wd, shared.closed, shared.torn, unh, shared.open)
  <2>1. shared \in PgRecords /\ left \in Seq(Int) /\ unh \in SUBSET Int
    BY <1>1, <1>7, <1>12 DEF PgTypes
  <2>2. PgIs([shared EXCEPT !.events = left, !.unheard = unh],
             shared.subscribers, shared.handles, left, shared.files,
             shared.watched, shared.wd, shared.closed, shared.torn, unh, shared.open)
    BY <2>1, PgSetsEvents
  <2>3. QED
    BY <1>5, <2>2
<1>15. InHand' = h /\ hand' \in [{1, 2} -> Int]
  BY <1>1, <1>2, <1>5, PgHolds DEF InHand
<1>16. /\ at'[Listener] = "notify" /\ at'[Main] = at[Main] /\ at[Listener] = "read"
       /\ at' \in [{1, 2} -> ListenerPlaces \cup MainPlaces]
  BY <1>1, PgMoves DEF ListenerPlaces
<1>17. PgTypes' /\ PgAlive'
  BY <1>1, <1>11, <1>14, <1>15, <1>16 DEF PgTypes, PgAlive, PgIs, ListenerPlaces
<1>18. PgOrder'
  BY <1>1, <1>10, <1>11, <1>12, <1>14, <1>15 DEF PgOrder, PgIs, Ignored, Idle, Blocked
<1>19. PgHeard'
  BY <1>1, <1>7, <1>8, <1>9, <1>10, <1>14, <1>15 DEF PgHeard, PgIs
<1>20. QED
  BY <1>17, <1>18, <1>19 DEF PgInv

LEMMA NotifyAllStep == ASSUME PgInv, NotifyAll PROVE PgInv'
<1> DEFINE h   == hand[Listener]
           unh == shared.unheard \cup ({h} \ {Ignored})
<1>1. PgTypes /\ PgOrder /\ PgHeard /\ PgAlive /\ at[Listener] = "notify"
  BY DEF PgInv, NotifyAll
<1>2. h \in Int /\ (0 < h \/ h = Ignored) /\ h \in {Idle, Blocked, Ignored} \cup 1..shared.files
  BY <1>1, PgFields DEF PgAlive, PgOrder, InHand
<1>3. CASE shared.subscribers = <<>> \/ h = Ignored
  <2>1. /\ Moves(Listener, "notify", "read") /\ Holds(Listener, Idle)
        /\ shared' = [shared EXCEPT !.unheard = unh]
    BY <1>3 DEF NotifyAll
  <2>2. 1..shared.files \subseteq Int /\ shared.unheard \subseteq 1..shared.files
    BY <1>1, PgFields DEF PgHeard
  <2>3. h # Ignored => h \in 1..shared.files
    BY <1>2 DEF Idle, Blocked, Ignored
  <2>4. unh \subseteq 1..shared.files /\ unh \in SUBSET Int
    BY <2>2, <2>3
  <2>5. \A k \in 1..Len(shared.handles) : shared.handles[k] \notin unh
    <3> SUFFICES ASSUME NEW k \in 1..Len(shared.handles), h # Ignored
                 PROVE shared.handles[k] # h
      BY <1>1 DEF PgHeard
    <3>1. shared.handles[k] \in Nat /\ Below(shared.handles, h)
      BY <1>1, <1>2, PgFields DEF PgOrder, InHand
    <3>2. shared.handles[k] < h
      BY <3>1 DEF Below
    <3>3. QED
      BY <1>2, <3>1, <3>2
  <2>6. \A k \in 1..Len(shared.events) : shared.events[k] \notin unh
    <3> SUFFICES ASSUME NEW k \in 1..Len(shared.events), h # Ignored
                 PROVE shared.events[k] # h
      BY <1>1 DEF PgHeard
    <3>1. shared.events[k] \in Int /\ (0 < shared.events[k] => h < shared.events[k])
      BY <1>1, PgFields DEF PgOrder, InHand
    <3>2. QED
      BY <1>2, <3>1
  <2>7. Idle \notin unh
    BY <1>1, <2>4, PgFields DEF Idle
  <2> HIDE DEF h, unh
  <2>8. PgIs(shared', shared.subscribers, shared.handles, shared.events, shared.files,
             shared.watched, shared.wd, shared.closed, shared.torn, unh, shared.open)
    BY <1>1, <2>1, <2>4, PgSetsUnheard DEF PgTypes
  <2>9. InHand' = Idle /\ Idle = 0 /\ hand' \in [{1, 2} -> Int]
    BY <1>1, <2>1, PgHolds DEF InHand, Idle
  <2>10. /\ at'[Listener] = "read" /\ at'[Main] = at[Main]
         /\ at' \in [{1, 2} -> ListenerPlaces \cup MainPlaces]
    BY <1>1, <2>1, PgMoves DEF ListenerPlaces
  <2>11. PgTypes' /\ PgAlive'
    BY <1>1, <2>8, <2>9, <2>10 DEF PgTypes, PgAlive, PgIs, ListenerPlaces
  <2>12. PgOrder'
    BY <1>1, <2>8, <2>9 DEF PgOrder, PgIs
  <2>13. PgHeard'
    BY <1>1, <2>4, <2>5, <2>6, <2>7, <2>8, <2>9 DEF PgHeard, PgIs
  <2>14. QED
    BY <2>11, <2>12, <2>13 DEF PgInv
<1>4. CASE ~(shared.subscribers = <<>> \/ h = Ignored)
  <2>1. Moves(Listener, "notify", "load") /\ UNCHANGED <<shared, hand>>
    BY <1>4 DEF NotifyAll, Nothing
  <2>2. /\ at'[Listener] = "load" /\ at'[Main] = at[Main]
        /\ at' \in [{1, 2} -> ListenerPlaces \cup MainPlaces]
    BY <1>1, <2>1, PgMoves DEF ListenerPlaces
  <2>3. PgTypes' /\ PgAlive'
    BY <1>1, <1>2, <1>4, <2>1, <2>2 DEF PgTypes, PgAlive, InHand, ListenerPlaces
  <2>4. QED
    BY <2>1, <2>3, PgOnlyMoves DEF PgInv
<1>5. QED
  BY <1>3, <1>4

\* What dlopen gives is above all handles and none that was missed.
LEMMA LoadStep == ASSUME PgInv, Load PROVE PgInv'
<1> DEFINE h   == hand[Listener]
           han == Append(shared.handles, h)
           ope == shared.open \cup {h}
           b   == shared.torn \/ at[Main] = "unregister"
<1>1. PgTypes /\ PgOrder /\ PgHeard /\ PgAlive
  BY DEF PgInv
<1>2. /\ at[Listener] = "load" /\ at'[Listener] = "read" /\ at'[Main] = at[Main]
      /\ at' \in [{1, 2} -> ListenerPlaces \cup MainPlaces]
      /\ Holds(Listener, Idle)
  BY <1>1, PgMoves DEF Load, ListenerPlaces
<1>3. CASE UNCHANGED shared
  BY <1>2, <1>3, PutDown
<1>4. CASE shared' = [shared EXCEPT !.handles = han, !.open = ope, !.torn = b]
  <2>1. h \in Nat /\ 0 < h /\ h \in 1..shared.files /\ Below(shared.handles, h)
    BY <1>1, <1>2, PgFields DEF PgAlive, PgOrder, InHand, Idle, Blocked, Ignored
  <2>2. /\ shared.handles \in Seq(Nat) /\ Len(shared.handles) \in Nat
        /\ han \in Seq(Nat) /\ Len(han) = Len(shared.handles) + 1
        /\ \A k \in 1..Len(shared.handles) : han[k] = shared.handles[k]
        /\ han[Len(han)] = h /\ ToSet(han) = ToSet(shared.handles) \cup {h}
    <3>1. shared.handles \in Seq(Nat) /\ Len(shared.handles) \in Nat
      BY <1>1, PgFields
    <3>2. h \in Nat
      BY <2>1
    <3> HIDE DEF h
    <3>3. /\ han \in Seq(Nat) /\ Len(han) = Len(shared.handles) + 1
          /\ \A k \in 1..Len(shared.handles) : han[k] = shared.handles[k]
          /\ han[Len(shared.handles) + 1] = h
          /\ ToSet(han) = ToSet(shared.handles) \cup {h}
      BY <3>1, <3>2, Appended
    <3>4. QED
      BY <3>1, <3>3
  <2>3. \A k \in 1..Len(han) : \/ k \in 1..Len(shared.handles) /\ han[k] = shared.handles[k]
                               \/ k = Len(han) /\ han[k] = h
    BY <2>2
  <2>4. ope \in SUBSET Int /\ b \in BOOLEAN /\ ope = ToSet(han)
    BY <1>1, <2>1, <2>2, PgFields DEF PgHeard
  <2>5. h \notin shared.unheard /\ (at[Main] = "unregister" => b)
    BY <1>1 DEF PgHeard, InHand
  <2>6. \A k \in 1..Len(shared.events) : 0 < shared.events[k] => h < shared.events[k]
    BY <1>1 DEF PgOrder, InHand
  <2>7. ~b => ~shared.torn
    OBVIOUS
  <2>8. InHand' = 0 /\ hand' \in [{1, 2} -> Int]
    BY <1>1, <1>2, PgHolds DEF InHand, Idle
  <2> HIDE DEF h, han, ope, b
  <2>9. PgIs(shared', shared.subscribers, han, shared.events, shared.files,
             shared.watched, shared.wd, shared.closed, b, shared.unheard, ope)
    <3>1. shared \in PgRecords /\ han \in Seq(Nat) /\ ope \in SUBSET Int /\ b \in BOOLEAN
      BY <1>1, <2>2, <2>4 DEF PgTypes
    <3>2. PgIs([shared EXCEPT !.handles = han, !.open = ope, !.torn = b],
               shared.subscribers, han, shared.events, shared.files, shared.watched,
               shared.wd, shared.closed, b, shared.unheard, ope)
      BY <3>1, PgSetsHandles
    <3>3. QED
      BY <1>4, <3>2
  <2>10. Rising(han) /\ \A n \in Int : h < n /\ Below(shared.handles, n) => Below(han, n)
    <3>1. ASSUME NEW k \in 1..Len(han), NEW l \in 1..Len(han), k < l, 0 < han[k], 0 < han[l]
          PROVE han[k] < han[l]
      <4>1. k \in 1..Len(shared.handles) /\ han[k] = shared.handles[k]
        BY <2>2, <2>3, <3>1
      <4>2. CASE l = Len(han)
        BY <2>1, <2>2, <4>1, <4>2 DEF Below
      <4>3. CASE l \in 1..Len(shared.handles) /\ han[l] = shared.handles[l]
        BY <1>1, <3>1, <4>1, <4>3 DEF PgOrder, Rising
      <4>4. QED
        BY <2>3, <4>2, <4>3
    <3>2. \A n \in Int : h < n /\ Below(shared.handles, n) => Below(han, n)
      BY <2>3 DEF Below
    <3>3. QED
      BY <3>1, <3>2 DEF Rising
  <2>11. PgOrder'
    <3>1. \A k \in 1..Len(shared.events) : 0 < shared.events[k] =>
             Below(han, shared.events[k])
      BY <1>1, <2>6, <2>10, PgFields DEF PgOrder
    <3>2. \A k \in 1..Len(han) : han[k] \in 1..shared.files
      BY <1>1, <2>1, <2>3 DEF PgOrder
    <3>3. QED
      BY <1>1, <2>8, <2>9, <2>10, <3>1, <3>2 DEF PgOrder, PgIs, Idle
  <2>12. PgHeard'
    <3>1. \A k \in 1..Len(han) : han[k] \notin shared.unheard
      BY <1>1, <2>3, <2>5 DEF PgHeard
    <3>2. 0 \notin shared.unheard
      BY <1>1, PgFields DEF PgHeard
    <3>3. QED
      BY <1>1, <2>4, <2>8, <2>9, <3>1, <3>2 DEF PgHeard, PgIs
  <2>13. PgTypes' /\ PgAlive'
    BY <1>1, <1>2, <2>5, <2>7, <2>8, <2>9 DEF PgTypes, PgAlive, PgIs, ListenerPlaces
  <2>14. QED
    BY <2>11, <2>12, <2>13 DEF PgInv
<1>5. QED
  BY <1>3, <1>4 DEF Load

LEMMA ListenerStep == ASSUME PgInv, ListenerThread PROVE PgInv'
  BY ListenerStarts, ListenerReadStep, ListenerTakes, NotifyAllStep, LoadStep
     DEF ListenerThread

\* ~SOLoader: the handles go, then the call back.
LEMMA DestroyLoaderStep == ASSUME PgInv, DestroyLoader PROVE PgInv'
<1>1. PgTypes /\ PgOrder /\ PgHeard /\ PgAlive
  BY DEF PgInv
<1> DEFINE none == <<>>
<1>2. none \in Seq(Nat) /\ none \in Seq({"loader"}) /\ Len(none) = 0 /\ ToSet(none) = {}
      /\ none = <<>>
  BY DEF ToSet
<1>3. ASSUME Moves(Main, PgLive, "unregister"), UNCHANGED hand,
             shared' = PgTears([shared EXCEPT !.open = @ \ ToSet(shared.handles),
                                              !.handles = <<>>], {"load"})
      PROVE PgInv'
  <2> DEFINE b == shared.torn \/ \E t \in DOMAIN at : at[t] \in {"load"}
             ope == {}
  <2>1. shared.open \ ToSet(shared.handles) = ope
    BY <1>1 DEF PgHeard
  <2>2. shared' = [shared EXCEPT !.open = ope, !.handles = none, !.torn = b]
    BY <1>1, <1>3, <2>1 DEF PgTears, PgTypes, PgRecords
  <2>3. b \in BOOLEAN /\ ope \in SUBSET Int /\ ope = {}
    OBVIOUS
  <2>4. ~b => ~shared.torn /\ at[Listener] # "load"
    BY <1>1 DEF PgTypes, Listener
  <2>5. /\ at[Main] = PgLive /\ at'[Main] = "unregister" /\ at'[Listener] = at[Listener]
        /\ at' \in [{1, 2} -> ListenerPlaces \cup MainPlaces]
    BY <1>1, <1>3, PgMoves DEF MainPlaces
  <2> HIDE DEF b, ope, none
  <2>6. PgIs([shared EXCEPT !.open = ope, !.handles = none, !.torn = b],
             shared.subscribers, none, shared.events, shared.files, shared.watched,
             shared.wd, shared.closed, b, shared.unheard, ope)
    <3>1. shared \in PgRecords
      BY <1>1 DEF PgTypes
    <3>2. QED
      BY <1>2, <2>3, <3>1, PgSetsOpen
  <2>7. PgIs(shared', shared.subscribers, none, shared.events, shared.files,
             shared.watched, shared.wd, shared.closed, b, shared.unheard, ope)
    BY <2>2, <2>6
  <2>8. InHand' = InHand
    BY <1>3 DEF InHand
  <2>9. PgOrder'
    BY <1>1, <1>2, <2>7, <2>8 DEF PgOrder, PgIs, Rising, Below
  <2>10. PgHeard'
    BY <1>1, <1>2, <2>3, <2>7, <2>8 DEF PgHeard, PgIs
  <2>11. PgTypes' /\ PgAlive'
    BY <1>1, <1>2, <1>3, <2>4, <2>5, <2>7, <2>8
       DEF PgTypes, PgAlive, PgIs, MainPlaces, PgLive
  <2>12. QED
    BY <2>9, <2>10, <2>11 DEF PgInv
<1>4. ASSUME Moves(Main, "unregister", "remove watch"), UNCHANGED hand,
             shared' = PgTears([shared EXCEPT !.subscribers = <<>>], InDispatcher)
      PROVE PgInv'
  <2> DEFINE b == shared.torn \/ \E t \in DOMAIN at : at[t] \in InDispatcher
  <2>1. shared' = [shared EXCEPT !.subscribers = none, !.torn = b]
    BY <1>1, <1>4 DEF PgTears, PgTypes, PgRecords
  <2>2. b \in BOOLEAN /\ (~b => ~shared.torn /\ at[Listener] # "load")
    BY <1>1 DEF PgTypes, Listener, InDispatcher
  <2>3. /\ at[Main] = "unregister" /\ at'[Main] = "remove watch"
        /\ at'[Listener] = at[Listener]
        /\ at' \in [{1, 2} -> ListenerPlaces \cup MainPlaces]
    BY <1>1, <1>4, PgMoves DEF MainPlaces
  <2> HIDE DEF b, none
  <2>4. PgIs([shared EXCEPT !.subscribers = none, !.torn = b],
             none, shared.handles, shared.events, shared.files, shared.watched,
             shared.wd, shared.closed, b, shared.unheard, shared.open)
    <3>1. shared \in PgRecords
      BY <1>1 DEF PgTypes
    <3>2. QED
      BY <1>2, <2>2, <3>1, PgSetsSubscribers
  <2>5. PgIs(shared', none, shared.handles, shared.events, shared.files,
             shared.watched, shared.wd, shared.closed, b, shared.unheard, shared.open)
    BY <2>1, <2>4
  <2>6. PgTypes' /\ PgAlive'
    BY <1>1, <1>2, <1>4, <2>2, <2>3, <2>5
       DEF PgTypes, PgAlive, PgIs, MainPlaces, PgLive, InHand
  <2>7. QED
    BY <1>4, <2>5, <2>6, PgOtherFields DEF PgIs, PgInv
<1>5. QED
  BY <1>3, <1>4 DEF DestroyLoader

\* ~DirMonitor: the watch, the descriptor and the thread.
LEMMA DestroyMonitorStep == ASSUME PgInv, DestroyMonitor PROVE PgInv'
<1>1. PgTypes /\ PgOrder /\ PgHeard /\ PgAlive /\ shared \in PgRecords
  BY DEF PgInv, PgTypes
<1>2. ASSUME Moves(Main, "remove watch", "close"), UNCHANGED hand,
             shared' = IF shared.wd THEN [shared EXCEPT !.watched = FALSE,
                                              !.events = Append(@, Ignored)]
                       ELSE shared
      PROVE PgInv'
  <2>1. /\ at[Main] = "remove watch" /\ at'[Main] = "close" /\ at'[Listener] = at[Listener]
        /\ at' \in [{1, 2} -> ListenerPlaces \cup MainPlaces]
    BY <1>1, <1>2, PgMoves DEF MainPlaces
  <2>2. CASE ~shared.wd
    <3>1. PgTypes' /\ PgAlive'
      BY <1>1, <1>2, <2>1, <2>2 DEF PgTypes, PgAlive, InHand, MainPlaces, PgLive
    <3>2. QED
      BY <1>2, <2>2, <3>1, PgOnlyMoves DEF PgInv
  <2>3. CASE shared.wd
    <3> DEFINE ev == Append(shared.events, Ignored)
               b  == FALSE
    <3>1. /\ shared.events \in Seq(Int) /\ Len(shared.events) \in Nat
          /\ Ignored \in Int /\ ~(0 < Ignored) /\ shared.files \in Nat
      BY <1>1, PgFields DEF Ignored
    <3>2. /\ ev \in Seq(Int) /\ Len(ev) = Len(shared.events) + 1
          /\ \A k \in 1..Len(shared.events) : ev[k] = shared.events[k]
          /\ ev[Len(ev)] = Ignored
      BY <3>1, Appended
    <3>3. \A k \in 1..Len(ev) : \/ k \in 1..Len(shared.events) /\ ev[k] = shared.events[k]
                                \/ ev[k] = Ignored
      BY <3>1, <3>2
    <3>4. shared' = [shared EXCEPT !.watched = b, !.events = ev] /\ b \in BOOLEAN
      BY <1>2, <2>3
    <3> HIDE DEF ev, b
    <3>5. PgIs([shared EXCEPT !.watched = b, !.events = ev],
               shared.subscribers, shared.handles, ev, shared.files, b, shared.wd,
               shared.closed, shared.torn, shared.unheard, shared.open)
      BY <1>1, <3>2, <3>4, PgEndsWatch
    <3>6. PgIs(shared', shared.subscribers, shared.handles, ev, shared.files, b,
               shared.wd, shared.closed, shared.torn, shared.unheard, shared.open)
      BY <3>4, <3>5
    <3>7. InHand' = InHand
      BY <1>2 DEF InHand
    <3>8. Rising(ev)
      <4>1. ASSUME NEW k \in 1..Len(ev), NEW l \in 1..Len(ev), k < l, 0 < ev[k], 0 < ev[l]
            PROVE ev[k] < ev[l]
        BY <1>1, <3>1, <3>3, <4>1 DEF PgOrder, Rising
      <4>2. QED
        BY <4>1 DEF Rising
    <3>9. PgOrder'
      BY <1>1, <3>1, <3>3, <3>6, <3>7, <3>8 DEF PgOrder, PgIs
    <3>10. Ignored \notin shared.unheard
      BY <1>1, <3>1 DEF PgHeard
    <3>11. PgHeard'
      BY <1>1, <3>3, <3>6, <3>7, <3>10 DEF PgHeard, PgIs
    <3>12. PgTypes' /\ PgAlive'
      BY <1>1, <1>2, <2>1, <3>6, <3>7 DEF PgTypes, PgAlive, PgIs, MainPlaces, PgLive
    <3>13. QED
      BY <3>9, <3>11, <3>12 DEF PgInv
  <2>4. QED
    BY <2>2, <2>3
<1>3. ASSUME Moves(Main, "close", "join"), Sets([shared EXCEPT !.closed = TRUE])
      PROVE PgInv'
  <2>1. /\ at[Main] = "close" /\ at'[Main] = "join" /\ at'[Listener] = at[Listener]
        /\ at' \in [{1, 2} -> ListenerPlaces \cup MainPlaces]
    BY <1>1, <1>3, PgMoves DEF MainPlaces
  <2>2. /\ PgIs(shared', shared.subscribers, shared.handles, shared.events, shared.files,
                shared.watched, shared.wd, TRUE, shared.torn, shared.unheard, shared.open)
        /\ UNCHANGED hand
    BY <1>1, <1>3, PgSetsClosed DEF Sets
  <2>3. PgTypes' /\ PgAlive'
    BY <1>1, <2>1, <2>2 DEF PgTypes, PgAlive, PgIs, MainPlaces, PgLive, InHand
  <2>4. QED
    BY <2>2, <2>3, PgOtherFields DEF PgIs, PgInv
<1>4. ASSUME at[Listener] = "end", Moves(Main, "join", "end"), UNCHANGED <<shared, hand>>
      PROVE PgInv'
  <2>1. /\ at[Main] = "join" /\ at'[Main] = "end" /\ at'[Listener] = at[Listener]
        /\ at' \in [{1, 2} -> ListenerPlaces \cup MainPlaces]
    BY <1>1, <1>4, PgMoves DEF MainPlaces
  <2>2. PgTypes' /\ PgAlive'
    BY <1>1, <1>4, <2>1 DEF PgTypes, PgAlive, InHand, MainPlaces, PgLive
  <2>3. QED
    BY <1>4, <2>2, PgOnlyMoves DEF PgInv
<1>5. QED
  BY <1>2, <1>3, <1>4 DEF DestroyMonitor, Nothing

\* What orders the files makes pnp orderly.
LEMMA PgInvIsOrderly == PgInv => PnpIsOrderly
<1> SUFFICES ASSUME PgInv, ~shared.torn PROVE PnpIsOrderly
  BY DEF PnpIsOrderly
<1>1. /\ PgTypes /\ PgOrder /\ PgHeard /\ PgAlive /\ DOMAIN shared.handles = 1..Len(shared.handles)
      /\ shared.files \in Nat
  BY PgFields DEF PgInv
<1>2. \A k, l \in DOMAIN shared.handles : k < l => shared.handles[k] < shared.handles[l]
  BY <1>1 DEF PgOrder, Rising
<1>3. shared.open \cap shared.unheard = {} /\ shared.open = ToSet(shared.handles)
  BY <1>1 DEF PgHeard, ToSet
<1>4. at[Main] = "end" => shared.open = {} /\ at[Listener] = "end"
  BY <1>1, <1>3 DEF PgAlive, PgLive, ToSet
<1>5. QED
  BY <1>2, <1>3, <1>4 DEF PnpIsOrderly

-----------------------------------------------------------------------------
\* Both programs.
PluginsInv == /\ game = "pnp" => PgInv
              /\ game = "singleton" => SgInv

LEMMA PluginsBegin == PgInit => PluginsInv
  BY PgBegins, SgBegins DEF PgInit, PluginsInv

LEMMA PluginsStep == ASSUME PluginsInv, PgNext PROVE PluginsInv'
<1>1. ASSUME game = "pnp", PnpStep \/ PgFile PROVE PgInv'
  BY <1>1, PlugNPlayStep, ListenerStep, DestroyLoaderStep, DestroyMonitorStep, PgFileStep
     DEF PnpStep, PluginsInv
<1>2. ASSUME game = "singleton", NEW t \in SgThreads, GetInstance(t) PROVE SgInv'
  BY <1>2, SgStep DEF PluginsInv
<1>3. QED
  BY <1>1, <1>2 DEF PgNext, PluginsInv

LEMMA PluginsStutter == ASSUME PluginsInv, UNCHANGED exVars PROVE PluginsInv'
<1>1. UNCHANGED <<game, shared, at, hand>>
  BY DEF exVars
<1>2. PgInv => PgInv'
  BY <1>1 DEF PgInv, PgTypes, PgOrder, PgHeard, PgAlive, Rising, Below, InHand, ToSet
<1>3. SgInv => SgInv'
  BY <1>1 DEF SgInv, SgTypes, SgExclusion, SgOnce, SgKnown
<1>4. QED
  BY <1>1, <1>2, <1>3 DEF PluginsInv

LEMMA PluginsInvIsSafe == PluginsInv => PluginsAreSafe
<1>1. SgInv => SingletonIsOne
  BY DEF SgInv, SgTypes, SgRecords, SgKnown, SingletonIsOne
<1>2. QED
  BY <1>1, PgInvIsOrderly DEF PluginsInv, PluginsAreSafe
-----------------------------------------------------------------------------
\* Threads move one at a time.
LEMMA OneMoves ==
    ASSUME NEW D, NEW P, at \in [D -> P], NEW t \in D, NEW from, NEW to \in P,
           Moves(t, from, to)
    PROVE /\ at' \in [D -> P] /\ at[t] = from /\ at'[t] = to
          /\ \A u \in D \ {t} : at'[u] = at[u]
  BY DEF Moves

-----------------------------------------------------------------------------
\* Of two things, how many are in a set.
If1(b) == IF b THEN 1 ELSE 0

LEMMA CountTwo ==
    ASSUME NEW a, NEW b, a # b, NEW S, S \subseteq {a, b}
    PROVE Cardinality(S) = If1(a \in S) + If1(b \in S)
<1>1. CASE S = {}
  BY <1>1, FS_EmptySet DEF If1
<1>2. CASE S = {a}
  BY <1>2, FS_Singleton DEF If1
<1>3. CASE S = {b}
  BY <1>3, FS_Singleton DEF If1
<1>4. CASE S = {a, b}
  <2>1. IsFiniteSet({a}) /\ Cardinality({a}) = 1 /\ b \notin {a} /\ {a} \cup {b} = {a, b}
    BY FS_Singleton
  <2>2. Cardinality({a} \cup {b}) = 2
    BY <2>1, FS_AddElement
  <2>3. QED
    BY <1>4, <2>1, <2>2 DEF If1
<1>5. QED
  BY <1>1, <1>2, <1>3, <1>4

-----------------------------------------------------------------------------
NtHands == [i : Nat, from : 1..3]

\* SERVER_TCP_UDP: select is never given the sockets.
SelPlaces  == {"bind", "select", "connect", "send", "recv", "exit"}
SelRecords == [up : BOOLEAN, master_fds : {{}}, pending : SUBSET {"stdin", "tcp", "udp"},
               answered : {FALSE}]
SelInv == /\ at \in [1..3 -> SelPlaces] /\ hand \in [1..3 -> NtHands] /\ shared \in SelRecords
          /\ hand[2].i = 0
          /\ at[2] = "recv" => "tcp" \in shared.pending

LEMMA SelBegins == ASSUME NtInit, game = "tcp_udp" PROVE SelInv
<1>1. NtOf(game) = 1..3
  BY DEF NtOf, Server, Client, Other
<1>2. shared = SelShared /\ hand = [t \in 1..3 |-> [i |-> 0, from |-> t]]
  BY <1>1 DEF NtInit
<1>3. at = [t \in 1..3 |-> NtFirst(game, t)]
  BY <1>1 DEF NtInit
<1>4. \A t \in 1..3 : NtFirst(game, t) \in SelPlaces \ {"recv"}
  BY DEF NtFirst, SelPlaces
<1>5. shared \in SelRecords
  BY <1>2 DEF SelShared, SelRecords
<1>6. hand \in [1..3 -> NtHands] /\ hand[2].i = 0
  BY <1>2 DEF NtHands
<1>7. QED
  BY <1>3, <1>4, <1>5, <1>6 DEF SelInv

\* What changes in the record.
LEMMA SelSet ==
    ASSUME shared \in SelRecords
    PROVE /\ \A b \in BOOLEAN :
                LET s == [shared EXCEPT !.up = b]
                IN  s \in SelRecords /\ s.pending = shared.pending
          /\ \A p \in SUBSET {"stdin", "tcp", "udp"} :
                LET s == [shared EXCEPT !.pending = p]
                IN  s \in SelRecords /\ s.pending = p
          /\ LET s == [shared EXCEPT !.answered = FALSE]
             IN  s \in SelRecords /\ s.pending = shared.pending
  BY DEF SelRecords

\* What a step leaves: the place, and the record.
LEMMA SelKeeps ==
    ASSUME SelInv, NEW t \in 1..3, NEW from, NEW to \in SelPlaces, Moves(t, from, to),
           UNCHANGED hand, shared' \in SelRecords,
           "tcp" \in shared.pending => "tcp" \in shared'.pending,
           t = 2 /\ to = "recv" => "tcp" \in shared'.pending
    PROVE SelInv'
<1>1. at' \in [1..3 -> SelPlaces] /\ at'[t] = to /\ \A u \in 1..3 \ {t} : at'[u] = at[u]
  BY OneMoves DEF SelInv
<1>2. at'[2] = "recv" => "tcp" \in shared'.pending
  BY <1>1 DEF SelInv
<1>3. QED
  BY <1>1, <1>2 DEF SelInv

LEMMA SelExits == ASSUME SelInv, game = "tcp_udp", NEW t \in 1..3, ExitIfError(t) PROVE SelInv'
<1>1. Moves(t, NtFirst(game, t), "exit") /\ UNCHANGED <<shared, hand>>
  BY DEF ExitIfError, Nothing
<1>2. "exit" \in SelPlaces /\ shared' \in SelRecords
  BY <1>1 DEF SelPlaces, SelInv
<1>3. QED
  BY <1>1, <1>2, SelKeeps

LEMMA SelServes == ASSUME SelInv, RunServer PROVE SelInv'
<1> DEFINE ready == {"stdin"} \cap shared.pending
<1>1. shared.master_fds = {} /\ shared \in SelRecords
  BY DEF SelInv, SelRecords
<1>2. CASE Moves(Server, "bind", "select") /\ Sets([shared EXCEPT !.up = TRUE])
  <2>1. shared' \in SelRecords /\ shared'.pending = shared.pending
    BY <1>1, <1>2, SelSet DEF Sets
  <2>2. Moves(1, "bind", "select") /\ UNCHANGED hand /\ "select" \in SelPlaces
    BY <1>2 DEF Server, Sets, SelPlaces
  <2>3. QED
    BY <2>1, <2>2, SelKeeps
<1>3. CASE /\ ready # {}
           /\ Moves(Server, "select", "exit") /\ Sets([shared EXCEPT !.up = FALSE])
  <2>1. shared' \in SelRecords /\ shared'.pending = shared.pending
    BY <1>1, <1>3, SelSet DEF Sets
  <2>2. Moves(1, "select", "exit") /\ UNCHANGED hand /\ "exit" \in SelPlaces
    BY <1>3 DEF Server, Sets, SelPlaces
  <2>3. QED
    BY <2>1, <2>2, SelKeeps
<1>4. ready # {} => "stdin" \in ready
  OBVIOUS
<1>5. shared.master_fds \cup {"stdin"} = {"stdin"}
  BY <1>1
<1>6. QED
  BY <1>2, <1>3, <1>4, <1>5 DEF RunServer

LEMMA SelTyped == ASSUME SelInv, SelTypes PROVE SelInv'
<1>1. shared.pending \cup {"stdin"} \in SUBSET {"stdin", "tcp", "udp"} /\ shared \in SelRecords
  BY DEF SelInv, SelRecords
<1>2. shared' = [shared EXCEPT !.pending = shared.pending \cup {"stdin"}] /\ UNCHANGED <<at, hand>>
  BY DEF SelTypes, Sets
<1>3. shared' \in SelRecords /\ shared'.pending = shared.pending \cup {"stdin"}
  BY <1>1, <1>2, SelSet
<1>4. QED
  BY <1>2, <1>3 DEF SelInv

LEMMA SelAsks == ASSUME SelInv, RunTCPClient PROVE SelInv'
<1>1. shared \in SelRecords
  BY DEF SelInv
<1>2. {"send", "exit", "recv"} \subseteq SelPlaces
  BY DEF SelPlaces
<1>3. CASE /\ Moves(Client, "connect", IF shared.up THEN "send" ELSE "exit") /\ Nothing
  <2>1. PICK to \in {"send", "exit"} : Moves(2, "connect", to)
    BY <1>3 DEF Client
  <2>2. UNCHANGED hand /\ shared' = shared
    BY <1>3 DEF Nothing
  <2>3. QED
    BY <1>1, <1>2, <2>1, <2>2, SelKeeps
<1>4. CASE /\ Moves(Client, "send", IF shared.up THEN "recv" ELSE "exit")
           /\ Sets([shared EXCEPT !.pending = IF shared.up THEN @ \cup {"tcp"} ELSE @])
  <2> DEFINE p == IF shared.up THEN shared.pending \cup {"tcp"} ELSE shared.pending
  <2>1. p \in SUBSET {"stdin", "tcp", "udp"}
    BY <1>1 DEF SelRecords
  <2>2. shared' = [shared EXCEPT !.pending = p] /\ UNCHANGED hand
    BY <1>4 DEF Sets
  <2>3. shared' \in SelRecords /\ shared'.pending = p
    BY <1>1, <2>1, <2>2, SelSet
  <2>4. PICK to \in {"recv", "exit"} : Moves(2, "send", to) /\ (to = "recv" => shared.up)
    BY <1>4 DEF Client
  <2>5. QED
    BY <1>2, <2>2, <2>3, <2>4, SelKeeps
<1>5. CASE /\ shared.answered \/ ~shared.up
           /\ Moves(Client, "recv", IF shared.up THEN "send" ELSE "exit")
           /\ hand' = IF shared.up THEN NtCounts(Client) ELSE hand
           /\ shared' = [shared EXCEPT !.answered = FALSE]
  <2>1. ~shared.up
    BY <1>1, <1>5 DEF SelRecords
  <2>2. Moves(2, "recv", "exit") /\ UNCHANGED hand
    BY <1>5, <2>1 DEF Client
  <2>3. shared' \in SelRecords /\ shared'.pending = shared.pending
    BY <1>1, <1>5, SelSet
  <2>4. QED
    BY <1>2, <2>2, <2>3, SelKeeps
<1>6. QED
  BY <1>3, <1>4, <1>5 DEF RunTCPClient

LEMMA SelSends == ASSUME SelInv, RunUDPClient PROVE SelInv'
<1> DEFINE p == IF shared.up THEN shared.pending \cup {"udp"} ELSE shared.pending
<1>1. p \in SUBSET {"stdin", "tcp", "udp"} /\ shared \in SelRecords
  BY DEF SelInv, SelRecords
<1>2. shared' = [shared EXCEPT !.pending = p] /\ UNCHANGED hand
  BY DEF RunUDPClient, Sets
<1>3. shared' \in SelRecords /\ shared'.pending = p
  BY <1>1, <1>2, SelSet
<1>4. Moves(3, "send", "recv") /\ "recv" \in SelPlaces
  BY DEF RunUDPClient, Other, SelPlaces
<1>5. QED
  BY <1>2, <1>3, <1>4, SelKeeps

LEMMA SelStep ==
    ASSUME SelInv, game = "tcp_udp", NEW t \in DOMAIN at, NtStep(t)
    PROVE SelInv'
<1>1. t \in 1..3
  BY DEF SelInv
<1>2. QED
  BY <1>1, SelExits, SelServes, SelAsks, SelSends DEF NtStep

LEMMA SelAnswers == ASSUME SelInv PROVE SelAnswersNobody
  BY DEF SelInv, SelAnswersNobody, Client

\* tcp_servers.c: who waits for an accept has not been heard.
SrvPlaces  == {"bind", "accept", "recv", "connect", "send", "close", "end", "exit"}
SrvRecords == [listening : BOOLEAN, backlog : Seq({2, 3}), bytes : [1..3 -> Nat],
               closed : [1..3 -> BOOLEAN], got : [1..3 -> Int]]
Unheard(c) == shared.got[c] = -1 /\ at[c] # "connect"

SrvQueue == /\ \A j, k \in 1 .. Len(shared.backlog) :
                  shared.backlog[j] = shared.backlog[k] => j = k
            /\ \A k \in 1 .. Len(shared.backlog) : Unheard(shared.backlog[k])
SrvHeard == at[1] = "recv" =>
               /\ hand[1].from \in {2, 3} /\ Unheard(hand[1].from)
               /\ \A k \in 1 .. Len(shared.backlog) : shared.backlog[k] # hand[1].from
SrvOf(t) == /\ at[t] = "connect" => shared.got[t] = -1
            /\ shared.got[t] > 0 \/ shared.bytes[t] > 0 => at[t] \in {"close", "end"}

SrvInv == /\ at \in [1..3 -> SrvPlaces] /\ hand \in [1..3 -> NtHands] /\ shared \in SrvRecords
          /\ SrvQueue /\ SrvHeard /\ SrvOf(2) /\ SrvOf(3)

LEMMA SrvBegins == ASSUME NtInit, game = "tcp_servers" PROVE SrvInv
<1>1. NtOf(game) = 1..3
  BY DEF NtOf, Server, Client, Other
<1>2. shared = SrvShared /\ hand = [t \in 1..3 |-> [i |-> 0, from |-> t]]
  BY <1>1 DEF NtInit
<1>3. at = [t \in 1..3 |-> IF t = 1 THEN "bind" ELSE "connect"]
  BY <1>1 DEF NtInit, NtFirst, Server, Other
<1>4. shared \in SrvRecords /\ shared.backlog = <<>>
      /\ \A t \in {2, 3} : shared.got[t] = -1 /\ shared.bytes[t] = 0
  <2> DEFINE bytes == <<0, 0, 0>>
             closed == <<FALSE, FALSE, FALSE>>
             got == <<-1, -1, -1>>
  <2>1. bytes \in [1..3 -> Nat] /\ bytes[2] = 0 /\ bytes[3] = 0
    OBVIOUS
  <2>2. closed \in [1..3 -> BOOLEAN]
    <3>1. \A b \in BOOLEAN : <<b, b, b>> \in [1..3 -> BOOLEAN]
      OBVIOUS
    <3>2. QED
      BY <3>1
  <2>3. got \in [1..3 -> Int] /\ got[2] = -1 /\ got[3] = -1
    OBVIOUS
  <2>4. shared = [listening |-> FALSE, backlog |-> <<>>, bytes |-> bytes, closed |-> closed,
                  got |-> got]
    BY <1>2 DEF SrvShared
  <2>5. <<>> \in Seq({2, 3})
    OBVIOUS
  <2> HIDE DEF bytes, closed, got
  <2>6. QED
    BY <2>1, <2>2, <2>3, <2>4, <2>5 DEF SrvRecords
<1>5. at \in [1..3 -> SrvPlaces] /\ hand \in [1..3 -> NtHands]
  BY <1>2, <1>3 DEF SrvPlaces, NtHands
<1>6. Len(shared.backlog) = 0
  BY <1>4
<1>7. QED
  BY <1>3, <1>4, <1>5, <1>6 DEF SrvInv, SrvQueue, SrvHeard, SrvOf

LEMMA SrvSet ==
    ASSUME shared \in SrvRecords
    PROVE /\ LET s == [shared EXCEPT !.listening = TRUE]
             IN  /\ s \in SrvRecords /\ s.backlog = shared.backlog /\ s.got = shared.got
                 /\ s.bytes = shared.bytes
          /\ \A q \in Seq({2, 3}) :
                LET s == [shared EXCEPT !.backlog = q]
                IN  s \in SrvRecords /\ s.backlog = q /\ s.got = shared.got /\ s.bytes = shared.bytes
          /\ \A t \in 1..3 :
                LET s == [shared EXCEPT !.closed[t] = TRUE]
                IN  /\ s \in SrvRecords /\ s.backlog = shared.backlog /\ s.got = shared.got
                    /\ s.bytes = shared.bytes
          /\ \A t \in 1..3, n \in Nat :
                LET s == [shared EXCEPT !.bytes[t] = n]
                IN  /\ s \in SrvRecords /\ s.backlog = shared.backlog /\ s.got = shared.got
                    /\ s.bytes = [shared.bytes EXCEPT ![t] = n]
          /\ \A t \in 1..3, n \in Int :
                LET s == [shared EXCEPT !.got[t] = n, !.bytes[t] = 0]
                IN  /\ s \in SrvRecords /\ s.backlog = shared.backlog
                    /\ s.got = [shared.got EXCEPT ![t] = n]
                    /\ s.bytes = [shared.bytes EXCEPT ![t] = 0]
  BY DEF SrvRecords

\* A step that neither makes nor takes a connection.
LEMMA SrvKeeps ==
    ASSUME SrvInv, NEW t \in 1..3, NEW from, NEW to \in SrvPlaces, Moves(t, from, to),
           UNCHANGED hand, shared' \in SrvRecords,
           shared'.backlog = shared.backlog, shared'.got = shared.got,
           to \notin {"recv", "connect"},
           \A u \in {2, 3} \ {t} : shared'.bytes[u] = shared.bytes[u],
           t \in {2, 3} => /\ shared'.bytes[t] > 0 => to \in {"close", "end"}
                           /\ from \in {"close", "end"} => to \in {"close", "end"}
    PROVE SrvInv'
<1>1. /\ at' \in [1..3 -> SrvPlaces] /\ at[t] = from /\ at'[t] = to
      /\ \A u \in 1..3 \ {t} : at'[u] = at[u]
  BY OneMoves DEF SrvInv
<1>2. \A c \in {2, 3} : Unheard(c) => Unheard(c)'
  BY <1>1 DEF Unheard
<1>3. shared.backlog \in Seq({2, 3})
  BY DEF SrvInv, SrvRecords
<1>4. SrvQueue'
  <2>1. \A k \in 1 .. Len(shared.backlog) : shared.backlog[k] \in {2, 3}
    BY <1>3
  <2>2. QED
    BY <1>2, <2>1 DEF SrvInv, SrvQueue, Unheard
<1>5. SrvHeard'
  BY <1>1, <1>2 DEF SrvInv, SrvHeard
<1>6. SrvOf(2)' /\ SrvOf(3)'
  BY <1>1 DEF SrvInv, SrvOf
<1>7. QED
  BY <1>1, <1>4, <1>5, <1>6 DEF SrvInv

LEMMA SrvExits == ASSUME SrvInv, game = "tcp_servers", NEW t \in 1..3, ExitIfError(t) PROVE SrvInv'
<1>1. Moves(t, NtFirst(game, t), "exit") /\ UNCHANGED <<shared, hand>>
  BY DEF ExitIfError, Nothing
<1>2. "exit" \in SrvPlaces /\ shared' \in SrvRecords
  BY <1>1 DEF SrvPlaces, SrvInv
<1>3. NtFirst(game, t) \in {"bind", "connect"}
  BY DEF NtFirst, Other
<1>5. t \in {2, 3} => ~(shared.bytes[t] > 0)
  BY <1>1, <1>3 DEF SrvInv, SrvOf, Moves
<1>6. QED
  BY <1>1, <1>2, <1>3, <1>5, SrvKeeps

LEMMA SrvWaiting ==
    ASSUME NEW q \in Seq({2, 3}) PROVE \A k \in 1 .. Len(q) : q[k] \in {2, 3}
  OBVIOUS

\* A client's connection waits behind the others.
Joins(t) == UNCHANGED hand /\ shared' = [shared EXCEPT !.backlog = Append(@, t)]

LEMMA SrvConnects ==
    ASSUME SrvInv, NEW t \in {2, 3}, Moves(t, "connect", "send"), Joins(t)
    PROVE SrvInv'
<1> DEFINE q == Append(shared.backlog, t)
<1>0. SrvQueue
  BY DEF SrvInv
<1>1. /\ at' \in [1..3 -> SrvPlaces] /\ at[t] = "connect" /\ at'[t] = "send"
      /\ \A u \in 1..3 \ {t} : at'[u] = at[u]
  <2>1. "send" \in SrvPlaces
    BY DEF SrvPlaces
  <2>2. QED
    BY <2>1, OneMoves DEF SrvInv
<1>2. shared.backlog \in Seq({2, 3}) /\ Len(shared.backlog) \in Nat /\ shared \in SrvRecords
  BY DEF SrvInv, SrvRecords
<1>3. /\ q \in Seq({2, 3}) /\ Len(q) = Len(shared.backlog) + 1 /\ q[Len(shared.backlog) + 1] = t
      /\ \A k \in 1 .. Len(shared.backlog) : q[k] = shared.backlog[k]
  BY <1>2
<1>3a. shared' = [shared EXCEPT !.backlog = q] /\ hand' = hand
  BY DEF Joins
<1> HIDE DEF q
<1>4. /\ shared' \in SrvRecords /\ shared'.backlog = q /\ shared'.got = shared.got
      /\ shared'.bytes = shared.bytes
  BY <1>2, <1>3, <1>3a, SrvSet
<1>5. \A k \in 1 .. Len(q) : k \in 1 .. Len(shared.backlog) \/ k = Len(shared.backlog) + 1
  BY <1>2, <1>3
<1>6. \A k \in 1 .. Len(shared.backlog) : shared.backlog[k] # t
  BY <1>1 DEF SrvInv, SrvQueue, Unheard
<1>7. \A c \in {2, 3} : Unheard(c) => Unheard(c)'
  BY <1>1, <1>4 DEF Unheard
<1>8. Unheard(t)'
  BY <1>1, <1>4 DEF Unheard, SrvInv, SrvOf
<1>9. SrvQueue'
  <2>1. \A j, k \in 1 .. Len(q) : q[j] = q[k] => j = k
    <3>1. SUFFICES ASSUME NEW j \in 1 .. Len(q), NEW k \in 1 .. Len(q), q[j] = q[k] PROVE j = k
      OBVIOUS
    <3>2. CASE j \in 1 .. Len(shared.backlog) /\ k \in 1 .. Len(shared.backlog)
      BY <1>3, <3>1, <3>2 DEF SrvInv, SrvQueue
    <3>3. CASE j = Len(shared.backlog) + 1 \/ k = Len(shared.backlog) + 1
      BY <1>3, <1>5, <1>6, <3>1, <3>3
    <3>4. QED
      BY <1>5, <3>2, <3>3
  <2>2. \A k \in 1 .. Len(shared.backlog) : shared.backlog[k] \in {2, 3}
    BY <1>2, SrvWaiting
  <2>3. \A d \in {2, 3}, k \in 1 .. Len(shared.backlog) :
           shared.backlog[k] = d => Unheard(d)
    BY <1>0 DEF SrvQueue
  <2>4. \A d \in {2, 3}, k \in 1 .. Len(q) : q[k] = d => Unheard(d)'
    BY <1>3, <1>5, <1>7, <1>8, <2>3
  <2>5. \A k \in 1 .. Len(q) : q[k] \in {2, 3}
    BY <1>3, SrvWaiting
  <2>6. QED
    BY <1>4, <2>1, <2>4, <2>5 DEF SrvQueue, Unheard
<1>10. SrvHeard'
  <2>1. SUFFICES ASSUME at'[1] = "recv" PROVE SrvHeard'
    BY DEF SrvHeard
  <2>2. at[1] = "recv" /\ hand'[1].from # t /\ hand' = hand
    BY <1>1, <1>3a, <2>1 DEF SrvInv, SrvHeard, Unheard
  <2>3. \A k \in 1 .. Len(q) : q[k] # hand'[1].from
    BY <1>3, <1>5, <2>2 DEF SrvInv, SrvHeard
  <2>4. QED
    BY <1>4, <1>7, <2>2, <2>3 DEF SrvInv, SrvHeard
<1>11. SrvOf(2)' /\ SrvOf(3)'
  BY <1>1, <1>4 DEF SrvInv, SrvOf
<1>12. QED
  BY <1>1, <1>3a, <1>4, <1>9, <1>10, <1>11 DEF SrvInv

\* And is accepted when it is the first.
TakesFirst == /\ shared.backlog # <<>>
              /\ hand' = [hand EXCEPT ![1].from = Head(shared.backlog)]
              /\ shared' = [shared EXCEPT !.backlog = Tail(@)]

LEMMA SrvAccepts == ASSUME SrvInv, Moves(1, "accept", "recv"), TakesFirst PROVE SrvInv'
<1> DEFINE q == Tail(shared.backlog)
           c == shared.backlog[1]
<1>0. SrvQueue
  BY DEF SrvInv
<1>1. /\ at' \in [1..3 -> SrvPlaces] /\ at[1] = "accept" /\ at'[1] = "recv"
      /\ \A u \in 1..3 \ {1} : at'[u] = at[u]
  <2>1. "recv" \in SrvPlaces /\ 1 \in 1..3
    BY DEF SrvPlaces
  <2>2. QED
    BY <2>1, OneMoves DEF SrvInv
<1>2. shared.backlog \in Seq({2, 3}) /\ Len(shared.backlog) \in Nat /\ shared \in SrvRecords
  BY DEF SrvInv, SrvRecords
<1>2a. shared.backlog # <<>> /\ Len(shared.backlog) > 0
  BY <1>2 DEF TakesFirst
<1>3. /\ q \in Seq({2, 3}) /\ Len(q) = Len(shared.backlog) - 1
      /\ \A k \in 1 .. Len(q) : q[k] = shared.backlog[k + 1] /\ k + 1 \in 1 .. Len(shared.backlog)
  BY <1>2, <1>2a
<1>3a. /\ shared' = [shared EXCEPT !.backlog = q]
       /\ hand' = [hand EXCEPT ![1].from = c]
  BY <1>2, <1>2a DEF TakesFirst
<1> HIDE DEF q, c
<1>3b. c = shared.backlog[1]
  BY DEF c
<1>4. /\ shared' \in SrvRecords /\ shared'.backlog = q /\ shared'.got = shared.got
      /\ shared'.bytes = shared.bytes
  BY <1>2, <1>3, <1>3a, SrvSet
<1>5. 1 \in 1 .. Len(shared.backlog) /\ c \in {2, 3} /\ Unheard(c)
  BY <1>2, <1>2a, <1>3b DEF SrvInv, SrvQueue
<1>6. hand' \in [1..3 -> NtHands] /\ hand'[1].from = c
  BY <1>3a, <1>5 DEF SrvInv, NtHands
<1>7. \A d \in {2, 3} : Unheard(d) => Unheard(d)'
  BY <1>1, <1>4 DEF Unheard
<1>8. SrvQueue'
  <2>1. \A j, k \in 1 .. Len(q) : q[j] = q[k] => j = k
    <3>1. SUFFICES ASSUME NEW j \in 1 .. Len(q), NEW k \in 1 .. Len(q), q[j] = q[k] PROVE j = k
      OBVIOUS
    <3>2. j + 1 = k + 1
      BY <1>3, <3>1 DEF SrvInv, SrvQueue
    <3>3. QED
      BY <3>2
  <2>2. \A k \in 1 .. Len(shared.backlog) : shared.backlog[k] \in {2, 3}
    BY <1>2, SrvWaiting
  <2>3. \A d \in {2, 3}, k \in 1 .. Len(shared.backlog) :
           shared.backlog[k] = d => Unheard(d)
    BY <1>0 DEF SrvQueue
  <2>4. \A d \in {2, 3}, k \in 1 .. Len(q) : q[k] = d => Unheard(d)'
    BY <1>3, <1>7, <2>3
  <2>5. \A k \in 1 .. Len(q) : q[k] \in {2, 3}
    BY <1>3, SrvWaiting
  <2>6. QED
    BY <1>4, <2>1, <2>4, <2>5 DEF SrvQueue, Unheard
<1>9. SrvHeard'
  <2>1. \A k \in 1 .. Len(q) : q[k] # c
    <3>1. ASSUME NEW k \in 1 .. Len(q), q[k] = c PROVE FALSE
      <4>1. k + 1 = 1
        BY <1>3, <1>3b, <1>5, <3>1 DEF SrvInv, SrvQueue
      <4>2. QED
        BY <4>1
    <3>2. QED
      BY <3>1
  <2>2. QED
    BY <1>4, <1>5, <1>6, <1>7, <2>1 DEF SrvHeard
<1>10. SrvOf(2)' /\ SrvOf(3)'
  BY <1>1, <1>4 DEF SrvInv, SrvOf
<1>11. QED
  BY <1>1, <1>4, <1>6, <1>8, <1>9, <1>10 DEF SrvInv

\* Who is heard is not waiting any more.
Hears(c, n) == /\ hand' = [hand EXCEPT ![1].from = 1]
               /\ shared' = [shared EXCEPT !.got[c] = n, !.bytes[c] = 0]

LEMMA SrvReceives ==
    ASSUME SrvInv, Moves(1, "recv", "accept"), NEW c, c = hand[1].from,
           NEW n \in Int, n <= shared.bytes[c], Hears(c, n)
    PROVE SrvInv'
<1>1. /\ at' \in [1..3 -> SrvPlaces] /\ at[1] = "recv" /\ at'[1] = "accept"
      /\ \A u \in 1..3 \ {1} : at'[u] = at[u]
  <2>1. "accept" \in SrvPlaces /\ 1 \in 1..3
    BY DEF SrvPlaces
  <2>2. QED
    BY <2>1, OneMoves DEF SrvInv
<1>2. /\ c \in {2, 3} /\ Unheard(c) /\ shared \in SrvRecords
      /\ \A k \in 1 .. Len(shared.backlog) : shared.backlog[k] # c
  BY <1>1 DEF SrvInv, SrvHeard
<1>3. /\ shared' \in SrvRecords /\ shared'.backlog = shared.backlog
      /\ shared'.got = [shared.got EXCEPT ![c] = n]
      /\ shared'.bytes = [shared.bytes EXCEPT ![c] = 0]
  <2>1. shared' = [shared EXCEPT !.got[c] = n, !.bytes[c] = 0] /\ c \in 1..3
    BY <1>2 DEF Hears
  <2>2. QED
    BY <1>2, <2>1, SrvSet
<1>4. /\ shared'.got[c] = n /\ shared'.bytes[c] = 0 /\ shared.bytes[c] \in Nat
      /\ \A d \in {2, 3} \ {c} : shared'.got[d] = shared.got[d] /\ shared'.bytes[d] = shared.bytes[d]
  <2>1. shared.got \in [1..3 -> Int] /\ shared.bytes \in [1..3 -> Nat] /\ c \in 1..3
    BY <1>2 DEF SrvRecords
  <2>2. QED
    BY <1>2, <1>3, <2>1, SMTT(30)
<1>5. hand' \in [1..3 -> NtHands]
  BY DEF SrvInv, NtHands, Hears
<1>6. \A d \in {2, 3} \ {c} : Unheard(d) => Unheard(d)'
  BY <1>1, <1>4 DEF Unheard
<1>7. SrvQueue'
  <2>1. \A k \in 1 .. Len(shared.backlog) : shared.backlog[k] \in {2, 3} \ {c}
    BY <1>2 DEF SrvRecords
  <2>2. QED
    BY <1>3, <1>6, <2>1 DEF SrvInv, SrvQueue
<1>8. SrvHeard'
  BY <1>1 DEF SrvHeard
<1>9. SrvOf(c)'
  <2>1. at[c] # "connect" /\ at'[c] = at[c]
    BY <1>1, <1>2 DEF Unheard
  <2>2. shared'.got[c] > 0 => shared.bytes[c] > 0
    BY <1>4
  <2>3. shared.bytes[c] > 0 => at[c] \in {"close", "end"}
    BY <1>2 DEF SrvInv, SrvOf
  <2>4. QED
    BY <1>4, <2>1, <2>2, <2>3 DEF SrvOf
<1>10. \A d \in {2, 3} \ {c} : SrvOf(d)'
  BY <1>1, <1>4 DEF SrvInv, SrvOf
<1>11. QED
  BY <1>1, <1>2, <1>3, <1>5, <1>7, <1>8, <1>9, <1>10 DEF SrvInv

\* The server and the clients.
LEMMA SrvServes == ASSUME SrvInv, SrvServer PROVE SrvInv'
<1>1. shared \in SrvRecords /\ hand \in [1..3 -> NtHands]
  BY DEF SrvInv
<1>2. CASE Moves(Server, "bind", "accept") /\ Sets([shared EXCEPT !.listening = TRUE])
  <2>1. shared' = [shared EXCEPT !.listening = TRUE] /\ UNCHANGED hand
    BY <1>2 DEF Sets
  <2>2. /\ shared' \in SrvRecords /\ shared'.backlog = shared.backlog
        /\ shared'.got = shared.got /\ shared'.bytes = shared.bytes
    BY <1>1, <2>1, SrvSet
  <2>3. Moves(1, "bind", "accept") /\ "accept" \in SrvPlaces /\ hand' = hand
    BY <1>2, <2>1 DEF Server, SrvPlaces
  <2>4. QED
    BY <2>2, <2>3, SrvKeeps
<1>3. CASE /\ shared.backlog # <<>> /\ Moves(Server, "accept", "recv")
           /\ hand' = [hand EXCEPT ![Server].from = Head(shared.backlog)]
           /\ shared' = [shared EXCEPT !.backlog = Tail(@)]
  BY <1>3, SrvAccepts DEF TakesFirst, Server
<1>4. CASE /\ Moves(Server, "recv", "accept")
           /\ hand' = [hand EXCEPT ![Server].from = Server]
           /\ \E n \in Min({1, shared.bytes[hand[Server].from]})
                       .. shared.bytes[hand[Server].from] :
                 shared' = [shared EXCEPT !.got[hand[Server].from] = n,
                                          !.bytes[hand[Server].from] = 0]
  <2>1. PICK n \in Min({1, shared.bytes[hand[1].from]}) .. shared.bytes[hand[1].from] :
               shared' = [shared EXCEPT !.got[hand[1].from] = n, !.bytes[hand[1].from] = 0]
    BY <1>4 DEF Server
  <2>2. n \in Int /\ n <= shared.bytes[hand[1].from]
    OBVIOUS
  <2>3. Moves(1, "recv", "accept") /\ Hears(hand[1].from, n)
    BY <1>4, <2>1 DEF Server, Hears
  <2> DEFINE c == hand[1].from
  <2>4. n <= shared.bytes[c] /\ Hears(c, n) /\ c = hand[1].from
    BY <2>2, <2>3
  <2> HIDE DEF c
  <2>5. QED
    BY <2>2, <2>3, <2>4, SrvReceives
<1>5. QED
  BY <1>2, <1>3, <1>4 DEF SrvServer

LEMMA SrvAsks == ASSUME SrvInv, NEW t \in NtPeers, SrvClient(t) PROVE SrvInv'
<1>1. shared \in SrvRecords /\ t \in {2, 3} /\ t \in 1..3
  BY DEF SrvInv, NtPeers, Client, Other
<1>2. {"send", "close", "exit", "end"} \subseteq SrvPlaces
  BY DEF SrvPlaces
<1>3. CASE Moves(t, "connect", "send") /\ Sets([shared EXCEPT !.backlog = Append(@, t)])
  BY <1>1, <1>3, SrvConnects DEF Sets, Joins
<1>4. CASE Moves(t, "connect", "exit") /\ Nothing
  <2>1. Moves(t, "connect", "exit") /\ UNCHANGED hand /\ shared' = shared
    BY <1>4 DEF Nothing
  <2>2. ~(shared.bytes[t] > 0)
    BY <1>1, <2>1 DEF Moves, SrvInv, SrvOf
  <2>3. QED
    BY <1>1, <1>2, <2>1, <2>2, SrvKeeps
<1>5. CASE Moves(t, "send", "close") /\ Sets([shared EXCEPT !.bytes[t] = NtLen])
  <2>1. shared' = [shared EXCEPT !.bytes[t] = NtLen] /\ UNCHANGED hand
    BY <1>5 DEF Sets
  <2>2. NtLen \in Nat
    BY NetworkAssumption
  <2>3. /\ shared' \in SrvRecords /\ shared'.backlog = shared.backlog
        /\ shared'.got = shared.got /\ shared'.bytes = [shared.bytes EXCEPT ![t] = NtLen]
    BY <1>1, <2>1, <2>2, SrvSet
  <2>4. shared.bytes \in [1..3 -> Nat]
    BY <1>1 DEF SrvRecords
  <2>5. \A u \in {2, 3} \ {t} : shared'.bytes[u] = shared.bytes[u]
    BY <1>1, <2>3, <2>4
  <2>6. Moves(t, "send", "close") /\ hand' = hand
    BY <1>5, <2>1
  <2>7. QED
    BY <1>1, <1>2, <2>3, <2>5, <2>6, SrvKeeps
<1>6. ASSUME NEW from \in {"send", "close"}, NEW to \in {"exit", "end"}, Moves(t, from, to),
             from = "close" <=> to = "end", Sets([shared EXCEPT !.closed[t] = TRUE])
      PROVE SrvInv'
  <2>1. shared' = [shared EXCEPT !.closed[t] = TRUE] /\ UNCHANGED hand
    BY <1>6 DEF Sets
  <2>2. /\ shared' \in SrvRecords /\ shared'.backlog = shared.backlog
        /\ shared'.got = shared.got /\ shared'.bytes = shared.bytes
    BY <1>1, <2>1, SrvSet
  <2>3. shared.bytes[t] > 0 => from = "close"
    BY <1>1, <1>6 DEF Moves, SrvInv, SrvOf
  <2>4. Moves(t, from, to) /\ hand' = hand
    BY <1>6, <2>1
  <2>5. /\ to \in SrvPlaces \ {"recv", "connect"}
        /\ shared'.bytes[t] > 0 => to \in {"close", "end"}
        /\ from \in {"close", "end"} => to \in {"close", "end"}
    BY <1>2, <1>6, <2>2, <2>3
  <2>6. QED
    BY <1>1, <2>2, <2>4, <2>5, SrvKeeps
<1>7. CASE Moves(t, "send", "exit") /\ Sets([shared EXCEPT !.closed[t] = TRUE])
  BY <1>6, <1>7
<1>8. CASE Moves(t, "close", "end") /\ Sets([shared EXCEPT !.closed[t] = TRUE])
  BY <1>6, <1>8
<1>9. QED
  BY <1>3, <1>4, <1>5, <1>7, <1>8 DEF SrvClient

LEMMA SrvStep ==
    ASSUME SrvInv, game = "tcp_servers", NEW t \in DOMAIN at, NtStep(t)
    PROVE SrvInv'
<1>1. t \in 1..3
  BY DEF SrvInv
<1>2. QED
  BY <1>1, SrvExits, SrvServes, SrvAsks DEF NtStep

LEMMA SrvIsHeard == ASSUME SrvInv PROVE SrvHearsEach
<1> DEFINE served == {t \in NtPeers : shared.got[t] # -1}
<1>1. shared.backlog \in Seq({2, 3}) /\ NtPeers = {2, 3} /\ hand[Server].from = hand[1].from
  BY DEF SrvInv, SrvRecords, NtPeers, Client, Other, Server
<1>2. served \cap ToSet(shared.backlog) = {}
  <2>1. ToSet(shared.backlog) = {shared.backlog[k] : k \in 1 .. Len(shared.backlog)}
    BY <1>1 DEF ToSet
  <2>2. \A k \in 1 .. Len(shared.backlog) : shared.got[shared.backlog[k]] = -1
    BY DEF SrvInv, SrvQueue, Unheard
  <2>3. QED
    BY <2>1, <2>2
<1>3. at[Server] = "recv" => hand[1].from \in NtPeers \ served
  BY <1>1 DEF SrvInv, SrvHeard, Unheard, Server
<1>4. \A t \in NtPeers : /\ at[t] = "connect" => shared.got[t] = -1
                         /\ shared.got[t] > 0 => at[t] \in {"close", "end"}
  BY <1>1 DEF SrvInv, SrvOf
<1> HIDE DEF served
<1>5. QED
  <2>1. SrvHearsEach = LET c == hand[Server].from IN
             /\ served \cap ToSet(shared.backlog) = {}
             /\ \A t \in NtPeers : /\ at[t] = "connect" => shared.got[t] = -1
                                   /\ shared.got[t] > 0 => at[t] \in {"close", "end"}
             /\ at[Server] = "recv" => c \in NtPeers \ served
    BY DEF SrvHearsEach, served
  <2>2. QED
    BY <1>1, <1>2, <1>3, <1>4, <2>1

-----------------------------------------------------------------------------
\* Sequences without repetition.
Distinct(q) == \A j, k \in 1 .. Len(q) : q[j] = q[k] => j = k

LEMMA DistinctAppend ==
    ASSUME NEW S, NEW q \in Seq(S), NEW x \in S, Distinct(q), x \notin ToSet(q)
    PROVE Distinct(Append(q, x))
<1>1. /\ Append(q, x) \in Seq(S) /\ Len(Append(q, x)) = Len(q) + 1 /\ Len(q) \in Nat
      /\ \A k \in 1 .. Len(q) : Append(q, x)[k] = q[k]
      /\ Append(q, x)[Len(q) + 1] = x
  OBVIOUS
<1>2. \A k \in 1 .. Len(q) : q[k] # x
  BY DEF ToSet
<1>3. \A k \in 1 .. Len(q) + 1 : k \in 1 .. Len(q) \/ k = Len(q) + 1
  BY <1>1
<1>4. SUFFICES ASSUME NEW j \in 1 .. Len(q) + 1, NEW k \in 1 .. Len(q) + 1,
                      Append(q, x)[j] = Append(q, x)[k]
               PROVE j = k
  BY <1>1 DEF Distinct
<1>5. CASE j \in 1 .. Len(q) /\ k \in 1 .. Len(q)
  BY <1>1, <1>4, <1>5 DEF Distinct
<1>6. CASE j = Len(q) + 1 \/ k = Len(q) + 1
  BY <1>1, <1>2, <1>3, <1>4, <1>6
<1>7. QED
  BY <1>3, <1>5, <1>6

LEMMA DistinctTail ==
    ASSUME NEW S, NEW q \in Seq(S), q # <<>>, Distinct(q)
    PROVE /\ Head(q) \in S /\ Tail(q) \in Seq(S) /\ Distinct(Tail(q))
          /\ Head(q) \in ToSet(q) /\ ToSet(Tail(q)) = ToSet(q) \ {Head(q)}
<1>1. /\ Len(q) \in Nat \ {0} /\ Head(q) = q[1] /\ q[1] \in S
      /\ Tail(q) \in Seq(S) /\ Len(Tail(q)) = Len(q) - 1
      /\ \A k \in 1 .. Len(q) - 1 : Tail(q)[k] = q[k + 1]
  OBVIOUS
<1>2. \A k \in 1 .. Len(q) - 1 : k + 1 \in 1 .. Len(q) /\ k + 1 # 1
  BY <1>1
<1>3. \A k \in 1 .. Len(q) : k = 1 \/ (k - 1 \in 1 .. Len(q) - 1 /\ (k - 1) + 1 = k)
  BY <1>1
<1>4. Distinct(Tail(q))
  <2>1. SUFFICES ASSUME NEW j \in 1 .. Len(q) - 1, NEW k \in 1 .. Len(q) - 1,
                        Tail(q)[j] = Tail(q)[k]
                 PROVE j = k
    BY <1>1 DEF Distinct
  <2>2. j + 1 = k + 1
    BY <1>1, <1>2, <2>1 DEF Distinct
  <2>3. QED
    BY <2>2
<1>5. ToSet(q) = {q[k] : k \in 1 .. Len(q)}
      /\ ToSet(Tail(q)) = {Tail(q)[k] : k \in 1 .. Len(q) - 1}
  <2>1. DOMAIN q = 1 .. Len(q) /\ DOMAIN Tail(q) = 1 .. Len(Tail(q))
    BY <1>1
  <2>2. QED
    BY <1>1, <2>1 DEF ToSet
<1>6. \A k \in 1 .. Len(q) - 1 : Tail(q)[k] \in ToSet(q) /\ Tail(q)[k] # q[1]
  <2>1. ASSUME NEW k \in 1 .. Len(q) - 1 PROVE Tail(q)[k] \in ToSet(q) /\ Tail(q)[k] # q[1]
    <3>1. k + 1 \in 1 .. Len(q) /\ k + 1 # 1 /\ Tail(q)[k] = q[k + 1] /\ 1 \in 1 .. Len(q)
      BY <1>1, <1>2, <2>1
    <3>2. q[k + 1] # q[1]
      BY <3>1 DEF Distinct
    <3>3. QED
      BY <1>5, <3>1, <3>2
  <2>2. QED
    BY <2>1
<1>7. \A k \in 1 .. Len(q) : q[k] # q[1] => q[k] \in ToSet(Tail(q))
  <2>1. ASSUME NEW k \in 1 .. Len(q), q[k] # q[1] PROVE q[k] \in ToSet(Tail(q))
    <3>1. k - 1 \in 1 .. Len(q) - 1 /\ Tail(q)[k - 1] = q[k]
      BY <1>1, <1>3, <2>1
    <3>2. QED
      BY <1>5, <3>1
  <2>2. QED
    BY <2>1
<1>8. 1 \in 1 .. Len(q)
  BY <1>1
<1>9. QED
  BY <1>1, <1>4, <1>5, <1>6, <1>7, <1>8

\* udp_ping.c: a datagram is in the server's socket, in its hand, or answered.
UdpPlaces  == {"bind", "receive", "reply", "send", "end", "exit"}
UdpRecords == [bound : BOOLEAN, box : [1..3 -> Seq(1..3)], lost : BOOLEAN, stranger : BOOLEAN]
UdpTypes == /\ at \in [1..3 -> UdpPlaces] /\ hand \in [1..3 -> NtHands]
            /\ shared \in UdpRecords
            /\ shared.box[1] \in Seq({2, 3}) /\ Distinct(shared.box[1])

\* f is answered, what waits is from W; i rounds at the server, j at the
\* client, which has n answers to read.
UdpIs(a, i_, j_, f, W, n, st) ==
    /\ n \in 0..1 /\ i_ - j_ - n \in 0..1
    /\ 2 \in W \/ (a[1] = "reply" /\ f = 2) \/ n = 1 => a[2] = "receive"
    /\ a[1] = "reply" /\ f = 2 => 2 \notin W /\ n = 0
    /\ 2 \in W => n = 0
    /\ 3 \in W \/ (a[1] = "reply" /\ f = 3) \/ i_ - j_ - n = 1 => a[3] = "end"
    /\ a[1] = "reply" /\ f = 3 => 3 \notin W /\ i_ - j_ - n = 0 /\ st
    /\ i_ - j_ - n = 1 => st /\ 3 \notin W
    /\ a[1] = "reply" => f \in {2, 3}
    /\ a[1] # "end" => i_ < NtRounds
    /\ a[2] = "end" => j_ >= NtRounds

UdpInv == UdpTypes /\ UdpIs(at, hand[1].i, hand[2].i, hand[1].from, ToSet(shared.box[1]),
                            Len(shared.box[2]), shared.stranger)

\* tcp_ping.c, as long as the stream delivers each message as it was sent.
TcpPlaces  == {"bind", "accept", "read", "write", "connect", "send", "recv", "close", "end",
               "exit"}
TcpRecords == [conn : {"none", "listening", "open", "closed", "reset"}, ping : Nat,
               pong : Nat, torn : BOOLEAN, split : BOOLEAN]
TcpTypes == at \in [1..2 -> TcpPlaces] /\ hand \in [1..2 -> NtHands] /\ shared \in TcpRecords

TcpIs(a, i_, j_, c, pi, po) ==
    /\ pi \in {0, NtLen} /\ po \in {0, NtLen}
    /\ a[2] = "recv" <=> pi # 0 \/ a[1] = "write" \/ po # 0
    /\ a[1] = "write" => pi = 0 /\ po = 0
    /\ pi # 0 => po = 0
    /\ i_ = j_ + IF po = 0 THEN 0 ELSE 1
    /\ a[2] \in {"send", "recv", "close"} => c = "open"
    /\ a[2] = "end" => c = "closed"
    /\ a[1] = "bind" => c = "none"
    /\ IF a[2] \in {"close", "end"} THEN j_ = NtRounds ELSE j_ < NtRounds

\* The bytes of i messages; the server has read, or has to read, no more than the
\* client has sent.
TcpBytes(i_) == NtLen * i_

TcpPays(a, i_, j_, pi) ==
    TcpBytes(i_) + (IF a[1] = "write" THEN NtLen ELSE 0) + pi
       <= TcpBytes(j_) + (IF a[2] = "recv" THEN NtLen ELSE 0)

TcpInv == /\ TcpTypes
          /\ TcpPays(at, hand[1].i, hand[2].i, shared.ping)
          /\ ~shared.torn /\ ~shared.split =>
                TcpIs(at, hand[1].i, hand[2].i, shared.conn, shared.ping, shared.pong)

\* What changes in the record.
LEMMA UdpSet ==
    ASSUME shared \in UdpRecords
    PROVE /\ \A b \in BOOLEAN :
                LET s == [shared EXCEPT !.bound = b]
                IN  s \in UdpRecords /\ s.box = shared.box /\ s.stranger = shared.stranger
          /\ \A b \in BOOLEAN :
                LET s == [shared EXCEPT !.lost = b]
                IN  s \in UdpRecords /\ s.box = shared.box /\ s.stranger = shared.stranger
          /\ \A f \in [1..3 -> Seq(1..3)] :
                LET s == [shared EXCEPT !.box = f]
                IN  s \in UdpRecords /\ s.box = f /\ s.stranger = shared.stranger
          /\ \A f \in [1..3 -> Seq(1..3)], b \in BOOLEAN :
                LET s == [shared EXCEPT !.box = f, !.stranger = b]
                IN  s \in UdpRecords /\ s.box = f /\ s.stranger = b
          /\ \A f \in [1..3 -> Seq(1..3)], b \in BOOLEAN :
                LET s == [shared EXCEPT !.bound = b, !.box = f]
                IN  s \in UdpRecords /\ s.box = f /\ s.stranger = shared.stranger
  BY DEF UdpRecords

LEMMA UdpBox ==
    ASSUME shared \in UdpRecords, NEW t \in 1..3, NEW q \in Seq(1..3)
    PROVE LET f == [shared.box EXCEPT ![t] = q]
          IN  /\ f \in [1..3 -> Seq(1..3)] /\ f[t] = q
              /\ \A u \in 1..3 \ {t} : f[u] = shared.box[u]
<1>1. shared.box \in [1..3 -> Seq(1..3)]
  BY DEF UdpRecords
<1>2. QED
  BY <1>1

LEMMA UdpFields ==
    ASSUME UdpTypes
    PROVE /\ shared.box \in [1..3 -> Seq(1..3)] /\ Len(shared.box[2]) \in Nat
          /\ shared.stranger \in BOOLEAN /\ shared.lost \in BOOLEAN
          /\ shared.box[2] = <<>> <=> Len(shared.box[2]) = 0
          /\ ToSet(shared.box[1]) \subseteq {2, 3}
          /\ hand[1] \in NtHands /\ hand[2] \in NtHands
          /\ hand[1].i \in Nat /\ hand[2].i \in Nat /\ hand[1].from \in 1..3
<1>1. shared.box \in [1..3 -> Seq(1..3)] /\ shared.stranger \in BOOLEAN /\ shared.lost \in BOOLEAN
  BY DEF UdpTypes, UdpRecords
<1>2. Len(shared.box[2]) \in Nat /\ (shared.box[2] = <<>> <=> Len(shared.box[2]) = 0)
  <2>1. shared.box[2] \in Seq(1..3)
    BY <1>1
  <2>2. QED
    BY <2>1
<1>3. ToSet(shared.box[1]) \subseteq {2, 3}
  <2>1. \A q \in Seq({2, 3}) : ToSet(q) \subseteq {2, 3}
    BY DEF ToSet
  <2>2. QED
    BY <2>1 DEF UdpTypes
<1>4. hand[1] \in NtHands /\ hand[2] \in NtHands
  BY DEF UdpTypes
<1>5. hand[1].i \in Nat /\ hand[2].i \in Nat /\ hand[1].from \in 1..3
  BY <1>4 DEF NtHands
<1>6. QED
  BY <1>1, <1>2, <1>3, <1>4, <1>5

\* What a thread that counts a round has.
LEMMA NtCounted ==
    ASSUME hand \in [1..3 -> NtHands], NEW t \in 1..3, hand' = NtCounts(t)
    PROVE /\ hand' \in [1..3 -> NtHands] /\ hand'[t].i = hand[t].i + 1
          /\ hand'[t].from = hand[t].from /\ \A u \in 1..3 \ {t} : hand'[u] = hand[u]
  BY DEF NtCounts, NtHands

LEMMA UdpBegins == ASSUME NtInit, game = "udp_ping" PROVE UdpInv
<1>1. NtOf(game) = 1..3
  BY DEF NtOf, Server, Client, Other
<1>2. shared = UdpShared /\ hand = [t \in 1..3 |-> [i |-> 0, from |-> t]]
  BY <1>1 DEF NtInit
<1>3. at = [t \in 1..3 |-> IF t = 1 THEN "bind" ELSE "send"]
  BY <1>1 DEF NtInit, NtFirst, Server
<1>4. /\ shared \in UdpRecords /\ shared.box[1] = <<>> /\ shared.box[2] = <<>>
      /\ shared.stranger = FALSE
  BY <1>2 DEF UdpShared, UdpRecords
<1>5. at \in [1..3 -> UdpPlaces] /\ hand \in [1..3 -> NtHands]
  BY <1>2, <1>3 DEF UdpPlaces, NtHands
<1>6. /\ Distinct(<<>>) /\ <<>> \in Seq({2, 3}) /\ Len(<<>>) = 0 /\ ToSet(<<>>) = {}
  BY DEF Distinct, ToSet
<1>7. UdpTypes
  BY <1>4, <1>5, <1>6 DEF UdpTypes
<1>8. UdpIs(at, 0, 0, hand[1].from, {}, 0, FALSE)
  BY <1>3, NetworkAssumption DEF UdpIs
<1>9. hand[1].i = 0 /\ hand[2].i = 0 /\ Len(shared.box[2]) = 0 /\ ToSet(shared.box[1]) = {}
  BY <1>2, <1>4, <1>6
<1>10. QED
  BY <1>4, <1>7, <1>8, <1>9 DEF UdpInv

LEMMA UdpMoves ==
    ASSUME UdpInv, NEW t \in 1..3, NEW from, NEW to \in UdpPlaces, Moves(t, from, to)
    PROVE /\ at' \in [1..3 -> UdpPlaces] /\ at[t] = from /\ at'[t] = to
          /\ \A u \in 1..3 \ {t} : at'[u] = at[u]
<1>1. at \in [1..3 -> UdpPlaces]
  BY DEF UdpInv, UdpTypes
<1>2. QED
  BY <1>1, OneMoves

\* A step that sends nothing and takes nothing.
LEMMA UdpKeeps ==
    ASSUME UdpInv, NEW t \in 1..3, NEW from \in {"bind", "send"}, NEW to \in UdpPlaces,
           Moves(t, from, to), to # "reply", to = "end" => t = 3, UNCHANGED hand,
           shared' \in UdpRecords, shared'.box = shared.box,
           shared'.stranger = shared.stranger
    PROVE UdpInv'
<1>1. /\ at' \in [1..3 -> UdpPlaces] /\ at[t] = from /\ at'[t] = to
      /\ \A u \in 1..3 \ {t} : at'[u] = at[u]
  BY UdpMoves
<1>2. UdpTypes'
  BY <1>1 DEF UdpInv, UdpTypes
<1>3. UdpIs(at', hand[1].i, hand[2].i, hand[1].from, ToSet(shared.box[1]),
            Len(shared.box[2]), shared.stranger)
  BY <1>1 DEF UdpInv, UdpIs
<1>4. QED
  BY <1>2, <1>3 DEF UdpInv

LEMMA UdpExits == ASSUME UdpInv, game = "udp_ping", NEW t \in 1..3, ExitIfError(t) PROVE UdpInv'
<1>1. Moves(t, NtFirst(game, t), "exit") /\ UNCHANGED <<shared, hand>>
  BY DEF ExitIfError, Nothing
<1>2. "exit" \in UdpPlaces /\ shared' \in UdpRecords /\ NtFirst(game, t) \in {"bind", "send"}
  BY <1>1 DEF UdpPlaces, UdpInv, UdpTypes, NtFirst
<1>3. QED
  BY <1>1, <1>2, UdpKeeps

\* A datagram comes to the port, or is lost.
Arrives(t) == shared' = [shared EXCEPT !.box[1] = Append(@, t)]

LEMMA UdpReaches ==
    ASSUME UdpInv, NEW t \in {2, 3}, NEW to, to = (IF t = 2 THEN "receive" ELSE "end"),
           Moves(t, "send", to), UNCHANGED hand, Arrives(t)
    PROVE UdpInv'
<1> DEFINE W == ToSet(shared.box[1])
           q == Append(shared.box[1], t)
           f == [shared.box EXCEPT ![1] = q]
<1>1. /\ at' \in [1..3 -> UdpPlaces] /\ at[t] = "send" /\ at'[t] = to
      /\ \A u \in 1..3 \ {t} : at'[u] = at[u]
  <2>1. t \in 1..3 /\ to \in UdpPlaces /\ at \in [1..3 -> UdpPlaces]
    BY DEF UdpPlaces, UdpInv, UdpTypes
  <2>2. QED
    BY <2>1, OneMoves
<1>2. UdpTypes /\ UdpIs(at, hand[1].i, hand[2].i, hand[1].from, W, Len(shared.box[2]),
                        shared.stranger)
  BY DEF UdpInv
<1>3. t \notin W
  BY <1>1, <1>2 DEF UdpIs
<1>4. q \in Seq({2, 3}) /\ q \in Seq(1..3) /\ Distinct(q) /\ ToSet(q) = W \cup {t}
  <2>1. shared.box[1] \in Seq({2, 3}) /\ Distinct(shared.box[1])
    BY <1>2 DEF UdpTypes
  <2>2. q \in Seq({2, 3}) /\ ToSet(q) = W \cup {t}
    BY <2>1, Appended
  <2>3. Distinct(q)
    BY <1>3, <2>1, DistinctAppend
  <2>4. \A p \in Seq({2, 3}) : p \in Seq(1..3)
    OBVIOUS
  <2>5. QED
    BY <2>2, <2>3, <2>4
<1>5. shared' = [shared EXCEPT !.box = f] /\ shared \in UdpRecords
  BY <1>2 DEF Arrives, UdpTypes
<1> HIDE DEF q
<1>6. f \in [1..3 -> Seq(1..3)] /\ f[1] = q /\ f[2] = shared.box[2]
  BY <1>4, <1>5, UdpBox
<1> HIDE DEF f
<1>7. shared' \in UdpRecords /\ shared'.box = f /\ shared'.stranger = shared.stranger
  BY <1>5, <1>6, UdpSet
<1>8. UdpTypes'
  BY <1>1, <1>2, <1>4, <1>6, <1>7 DEF UdpTypes
<1> HIDE DEF W
<1>9. UdpIs(at', hand[1].i, hand[2].i, hand[1].from, W \cup {t}, Len(shared.box[2]),
            shared.stranger)
  BY <1>1, <1>2 DEF UdpIs
<1>10. /\ ToSet(shared'.box[1]) = W \cup {t} /\ shared'.box[2] = shared.box[2]
  BY <1>4, <1>6, <1>7
<1>11. QED
  BY <1>7, <1>8, <1>9, <1>10 DEF UdpInv

LEMMA UdpAsks ==
    ASSUME UdpInv, NEW t \in {2, 3}, Moves(t, "send", IF t = 2 THEN "receive" ELSE "end"),
           Sets(UdpSends(t, Server))
    PROVE UdpInv'
<1> DEFINE to == IF t = 2 THEN "receive" ELSE "end"
           b  == shared.lost \/ t = Client
<1>1. Moves(t, "send", to) /\ hand' = hand /\ to = (IF t = 2 THEN "receive" ELSE "end")
      /\ to \in UdpPlaces /\ to # "reply" /\ (to = "end" => t = 3)
  BY DEF Sets, UdpPlaces
<1> HIDE DEF to
<1>2. CASE shared.bound
  <2>1. Arrives(t)
    BY <1>2 DEF Sets, UdpSends, Arrives, Server
  <2>2. QED
    BY <1>1, <2>1, UdpReaches
<1>3. CASE ~shared.bound
  <2>1. shared' = [shared EXCEPT !.lost = b] /\ shared \in UdpRecords
    BY <1>3 DEF Sets, UdpSends, UdpInv, UdpTypes
  <2>2. b \in BOOLEAN
    BY UdpFields DEF UdpInv
  <2> HIDE DEF b
  <2>3. shared' \in UdpRecords /\ shared'.box = shared.box /\ shared'.stranger = shared.stranger
    BY <2>1, <2>2, UdpSet
  <2>4. t \in 1..3 /\ "send" \in {"bind", "send"}
    OBVIOUS
  <2>5. QED
    BY <1>1, <2>3, <2>4, UdpKeeps
<1>4. QED
  BY <1>2, <1>3

\* The first datagram is taken to be answered.
Becomes(q, r, b) == /\ shared' \in UdpRecords /\ shared'.box[1] = q /\ shared'.box[2] = r
                    /\ shared'.stranger = b
Answers(h) == /\ hand' \in [1..3 -> NtHands] /\ hand'[1].from = h
              /\ hand'[1].i = hand[1].i /\ hand'[2] = hand[2]

LEMMA UdpTakes ==
    ASSUME UdpInv, Moves(1, "receive", "reply"), shared.box[1] # <<>>,
           Answers(Head(shared.box[1])),
           Becomes(Tail(shared.box[1]), shared.box[2],
                   shared.stranger \/ Head(shared.box[1]) # 2)
    PROVE UdpInv'
<1> DEFINE W == ToSet(shared.box[1])
           h == Head(shared.box[1])
           q == Tail(shared.box[1])
           b == shared.stranger \/ h # 2
<1>0. Answers(h) /\ Becomes(q, shared.box[2], b)
  OBVIOUS
<1>1. /\ at' \in [1..3 -> UdpPlaces] /\ at[1] = "receive" /\ at'[1] = "reply"
      /\ at'[2] = at[2] /\ at'[3] = at[3]
  <2>1. 1 \in 1..3 /\ "reply" \in UdpPlaces
    BY DEF UdpPlaces
  <2>2. QED
    BY <2>1, UdpMoves
<1>2. UdpTypes /\ UdpIs(at, hand[1].i, hand[2].i, hand[1].from, W, Len(shared.box[2]),
                        shared.stranger)
  BY DEF UdpInv
<1>3. h \in {2, 3} /\ q \in Seq({2, 3}) /\ Distinct(q) /\ h \in W /\ ToSet(q) = W \ {h}
  <2>1. shared.box[1] \in Seq({2, 3}) /\ Distinct(shared.box[1]) /\ shared.box[1] # <<>>
    BY <1>2 DEF UdpTypes
  <2>2. QED
    BY <2>1, DistinctTail
<1>5. shared.stranger \in BOOLEAN /\ b \in BOOLEAN /\ (h = 3 => b) /\ (shared.stranger => b)
  <2>1. shared.stranger \in BOOLEAN
    BY <1>2, UdpFields
  <2>2. QED
    BY <2>1
<1> HIDE DEF W, h, q, b
<1>4. UdpTypes'
  BY <1>0, <1>1, <1>3 DEF UdpTypes, Answers, Becomes
<1>6. UdpIs(at', hand[1].i, hand[2].i, h, W \ {h}, Len(shared.box[2]), b)
  BY <1>1, <1>2, <1>3, <1>5 DEF UdpIs
<1>7. ToSet(shared'.box[1]) = W \ {h} /\ Len(shared'.box[2]) = Len(shared.box[2])
      /\ shared'.stranger = b
  BY <1>0, <1>3 DEF Becomes
<1>8. hand'[1].i = hand[1].i /\ hand'[2].i = hand[2].i /\ hand'[1].from = h
  BY <1>0 DEF Answers
<1>9. QED
  BY <1>4, <1>6, <1>7, <1>8 DEF UdpInv

\* And answered, to whom sent it; the last round closes the port.
LEMMA UdpReplies ==
    ASSUME UdpInv,
           Moves(1, "reply", IF hand[1].i + 1 < NtRounds THEN "receive" ELSE "end"),
           hand' = NtCounts(1),
           Becomes(shared.box[1],
                   IF hand[1].from = 2 THEN Append(shared.box[2], 1) ELSE shared.box[2],
                   shared.stranger)
    PROVE UdpInv'
<1> DEFINE W == ToSet(shared.box[1])
           to == IF hand[1].i + 1 < NtRounds THEN "receive" ELSE "end"
           q == IF hand[1].from = 2 THEN Append(shared.box[2], 1) ELSE shared.box[2]
           n == Len(shared.box[2])
           m == n + (IF hand[1].from = 2 THEN 1 ELSE 0)
<1>1. /\ at' \in [1..3 -> UdpPlaces] /\ at[1] = "reply" /\ at'[1] = to
      /\ at'[2] = at[2] /\ at'[3] = at[3]
  <2>1. 1 \in 1..3 /\ to \in UdpPlaces
    BY DEF UdpPlaces
  <2>2. Moves(1, "reply", to)
    OBVIOUS
  <2> HIDE DEF to
  <2>3. QED
    BY <2>1, <2>2, UdpMoves
<1>2. UdpTypes /\ UdpIs(at, hand[1].i, hand[2].i, hand[1].from, W, n, shared.stranger)
  BY DEF UdpInv
<1>3. /\ hand' \in [1..3 -> NtHands] /\ hand'[1].i = hand[1].i + 1
      /\ hand'[1].from = hand[1].from /\ hand'[2] = hand[2]
  <2>1. hand \in [1..3 -> NtHands] /\ 1 \in 1..3
    BY <1>2 DEF UdpTypes
  <2>2. QED
    BY <2>1, NtCounted
<1>4. UdpTypes'
  BY <1>1, <1>2, <1>3 DEF UdpTypes, Becomes
<1>5. Len(q) = m
  <2>1. shared.box[2] \in Seq(1..3)
    BY <1>2, UdpFields
  <2>2. Len(Append(shared.box[2], 1)) = n + 1 /\ n \in Nat
    BY <2>1
  <2>3. CASE hand[1].from = 2
    BY <2>2, <2>3
  <2>4. CASE hand[1].from # 2
    BY <2>2, <2>4
  <2>5. QED
    BY <2>3, <2>4
<1>6. n \in Nat /\ hand[1].i \in Nat /\ hand[2].i \in Nat
  BY <1>2, UdpFields
<1>7. UdpIs(at', hand[1].i + 1, hand[2].i, hand[1].from, W, m, shared.stranger)
  <2> HIDE DEF W, n
  <2> DEFINE i_ == hand[1].i
             j_ == hand[2].i
             f  == hand[1].from
  <2>1. i_ \in Nat /\ j_ \in Nat /\ n \in Nat /\ NtRounds \in Nat /\ f \in {2, 3}
    BY <1>1, <1>2, <1>6, NetworkAssumption DEF UdpIs
  <2>2. UdpIs(at, i_, j_, f, W, n, shared.stranger)
    BY <1>2
  <2>2a. /\ at[1] = "reply" /\ at'[1] # "reply" /\ at'[2] = at[2] /\ at'[3] = at[3]
         /\ at'[1] # "end" => i_ + 1 < NtRounds
    BY <1>1
  <2> HIDE DEF i_, j_, f
  <2>3. CASE f = 2
    <3>1. n = 0 /\ 2 \notin W /\ i_ - j_ - n \in 0..1 /\ at[2] = "receive"
      BY <1>1, <2>2, <2>3 DEF UdpIs
    <3>2. i_ + 1 - j_ - 1 = i_ - j_ - n
      BY <2>1, <3>1
    <3>3. UdpIs(at', i_ + 1, j_, f, W, 1, shared.stranger)
      BY <2>1, <2>2, <2>2a, <2>3, <3>1, <3>2 DEF UdpIs
    <3>4. QED
      BY <2>3, <3>1, <3>3 DEF f, i_, j_
  <2>4. CASE f = 3
    <3>1. 3 \notin W /\ i_ - j_ - n = 0 /\ at[3] = "end" /\ shared.stranger /\ n \in 0..1
      BY <1>1, <2>2, <2>4 DEF UdpIs
    <3>2. i_ + 1 - j_ - n = 1
      BY <2>1, <3>1
    <3>3. UdpIs(at', i_ + 1, j_, f, W, n, shared.stranger)
      BY <2>1, <2>2, <2>2a, <2>4, <3>1, <3>2 DEF UdpIs
    <3>4. m = n
      BY <2>1, <2>4 DEF f
    <3>5. QED
      BY <3>3, <3>4 DEF f, i_, j_
  <2>5. QED
    BY <2>1, <2>3, <2>4
<1> HIDE DEF W, n, m
<1>8. ToSet(shared'.box[1]) = W /\ Len(shared'.box[2]) = m /\ shared'.stranger = shared.stranger
  BY <1>5 DEF W, Becomes
<1>9. QED
  BY <1>3, <1>4, <1>7, <1>8 DEF UdpInv

\* The client has its answer.
LEMMA UdpReads ==
    ASSUME UdpInv,
           Moves(2, "receive", IF hand[2].i + 1 < NtRounds THEN "send" ELSE "end"),
           hand' = NtCounts(2), shared.box[2] # <<>>,
           Becomes(shared.box[1], Tail(shared.box[2]), shared.stranger)
    PROVE UdpInv'
<1> DEFINE W == ToSet(shared.box[1])
           to == IF hand[2].i + 1 < NtRounds THEN "send" ELSE "end"
           q == Tail(shared.box[2])
           n == Len(shared.box[2])
<1>1. /\ at' \in [1..3 -> UdpPlaces] /\ at[2] = "receive" /\ at'[2] = to
      /\ at'[1] = at[1] /\ at'[3] = at[3]
  <2>1. 2 \in 1..3 /\ to \in UdpPlaces
    BY DEF UdpPlaces
  <2>2. Moves(2, "receive", to)
    OBVIOUS
  <2> HIDE DEF to
  <2>3. QED
    BY <2>1, <2>2, UdpMoves
<1>2. UdpTypes /\ UdpIs(at, hand[1].i, hand[2].i, hand[1].from, W, n, shared.stranger)
  BY DEF UdpInv
<1>3. /\ hand' \in [1..3 -> NtHands] /\ hand'[2].i = hand[2].i + 1 /\ hand'[1] = hand[1]
  <2>1. hand \in [1..3 -> NtHands] /\ 2 \in 1..3
    BY <1>2 DEF UdpTypes
  <2>2. QED
    BY <2>1, NtCounted
<1>4. UdpTypes'
  BY <1>1, <1>2, <1>3 DEF UdpTypes, Becomes
<1>5. n = 1 /\ Len(q) = 0
  <2>1. shared.box[2] \in Seq(1..3) /\ n \in 0..1
    BY <1>2, UdpFields DEF UdpIs
  <2>2. QED
    BY <2>1
<1>6. UdpIs(at', hand[1].i, hand[2].i + 1, hand[1].from, W, 0, shared.stranger)
  <2> HIDE DEF W, n
  <2> DEFINE i_ == hand[1].i
             j_ == hand[2].i
             f  == hand[1].from
  <2>1. i_ \in Nat /\ j_ \in Nat /\ NtRounds \in Nat
    BY <1>2, UdpFields, NetworkAssumption
  <2>2. UdpIs(at, i_, j_, f, W, 1, shared.stranger)
    BY <1>2, <1>5
  <2>3. to = (IF j_ + 1 < NtRounds THEN "send" ELSE "end")
    OBVIOUS
  <2> HIDE DEF i_, j_, f
  <2>4. i_ - (j_ + 1) - 0 = i_ - j_ - 1
    BY <2>1
  <2>5. UdpIs(at', i_, j_ + 1, f, W, 0, shared.stranger)
    BY <1>1, <2>1, <2>2, <2>3, <2>4 DEF UdpIs
  <2>6. QED
    BY <2>5 DEF i_, j_, f
<1> HIDE DEF W, n
<1>7. ToSet(shared'.box[1]) = W /\ Len(shared'.box[2]) = 0 /\ shared'.stranger = shared.stranger
  BY <1>5 DEF W, Becomes
<1>8. QED
  BY <1>3, <1>4, <1>6, <1>7 DEF UdpInv

LEMMA UdpServes == ASSUME UdpInv, UdpServer PROVE UdpInv'
<1>0. UdpTypes /\ shared \in UdpRecords /\ hand \in [1..3 -> NtHands]
  BY DEF UdpInv, UdpTypes
<1>1. shared.box \in [1..3 -> Seq(1..3)] /\ shared.stranger \in BOOLEAN
  BY <1>0, UdpFields
<1>2. CASE Moves(Server, "bind", "receive") /\ Sets([shared EXCEPT !.bound = TRUE])
  <2>1. shared' = [shared EXCEPT !.bound = TRUE] /\ hand' = hand
    BY <1>2 DEF Sets
  <2>2. shared' \in UdpRecords /\ shared'.box = shared.box /\ shared'.stranger = shared.stranger
    BY <1>0, <2>1, UdpSet
  <2>3. Moves(1, "bind", "receive") /\ "receive" \in UdpPlaces /\ hand' = hand
    BY <1>2, <2>1 DEF Server, UdpPlaces
  <2>4. QED
    BY <2>2, <2>3, UdpKeeps
<1>3. CASE /\ shared.box[Server] # <<>> /\ Moves(Server, "receive", "reply")
           /\ shared' = [shared EXCEPT !.box[Server] = Tail(@),
                                       !.stranger = @ \/ Head(shared.box[Server]) # Client]
           /\ hand' = [hand EXCEPT ![Server].from = Head(shared.box[Server])]
  <2> DEFINE q == Tail(shared.box[1])
             h == Head(shared.box[1])
             b == shared.stranger \/ h # 2
             f == [shared.box EXCEPT ![1] = q]
  <2>1. shared' = [shared EXCEPT !.box = f, !.stranger = b]
    BY <1>3 DEF Server, Client
  <2>2. hand' = [hand EXCEPT ![1].from = h] /\ Moves(1, "receive", "reply")
        /\ shared.box[1] # <<>>
    BY <1>3 DEF Server
  <2>3. q \in Seq(1..3) /\ h \in 1..3 /\ b \in BOOLEAN
    <3>1. shared.box[1] \in Seq(1..3)
      BY <1>1
    <3>2. QED
      BY <1>1, <2>2, <3>1
  <2> HIDE DEF q, h, b
  <2>4. f \in [1..3 -> Seq(1..3)] /\ f[1] = q /\ f[2] = shared.box[2]
    BY <1>0, <2>3, UdpBox
  <2> HIDE DEF f
  <2>5. shared' \in UdpRecords /\ shared'.box = f /\ shared'.stranger = b
    BY <1>0, <2>1, <2>3, <2>4, UdpSet
  <2>6. Becomes(q, shared.box[2], b)
    BY <2>4, <2>5 DEF Becomes
  <2>7. Answers(h)
    BY <1>0, <2>2, <2>3 DEF Answers, NtHands
  <2>8. QED
    BY <2>2, <2>6, <2>7, UdpTakes DEF q, h, b
<1>4. CASE /\ Moves(Server, "reply", IF hand[Server].i + 1 < NtRounds THEN "receive" ELSE "end")
           /\ hand' = NtCounts(Server)
           /\ shared' = [shared EXCEPT !.bound = hand[Server].i + 1 < NtRounds,
                             !.box[Client] = IF hand[Server].from = Client THEN Append(@, Server)
                                             ELSE @]
  <2> DEFINE q == IF hand[1].from = 2 THEN Append(shared.box[2], 1) ELSE shared.box[2]
             f == [shared.box EXCEPT ![2] = q]
             b == hand[1].i + 1 < NtRounds
  <2>1. shared' = [shared EXCEPT !.bound = b, !.box = f]
    BY <1>4 DEF Server, Client
  <2>2. /\ Moves(1, "reply", IF hand[1].i + 1 < NtRounds THEN "receive" ELSE "end")
        /\ hand' = NtCounts(1)
    BY <1>4 DEF Server
  <2>3. q \in Seq(1..3) /\ b \in BOOLEAN
    <3>1. shared.box[2] \in Seq(1..3)
      BY <1>1
    <3>2. QED
      BY <3>1
  <2> HIDE DEF q, b
  <2>4. f \in [1..3 -> Seq(1..3)] /\ f[2] = q /\ f[1] = shared.box[1]
    BY <1>0, <2>3, UdpBox
  <2> HIDE DEF f
  <2>5. shared' \in UdpRecords /\ shared'.box = f /\ shared'.stranger = shared.stranger
    BY <1>0, <2>1, <2>3, <2>4, UdpSet
  <2>6. Becomes(shared.box[1], q, shared.stranger)
    BY <2>4, <2>5 DEF Becomes
  <2>7. QED
    BY <2>2, <2>6, UdpReplies DEF q
<1>5. QED
  BY <1>2, <1>3, <1>4 DEF UdpServer

LEMMA UdpWaits == ASSUME UdpInv, UdpClient PROVE UdpInv'
<1>0. UdpTypes /\ shared \in UdpRecords
  BY DEF UdpInv, UdpTypes
<1>1. shared.box \in [1..3 -> Seq(1..3)]
  BY <1>0, UdpFields
<1>2. CASE Moves(Client, "send", "receive") /\ Sets(UdpSends(Client, Server))
  BY <1>2, UdpAsks DEF Client
<1>3. CASE /\ shared.box[Client] # <<>>
           /\ Moves(Client, "receive", IF hand[Client].i + 1 < NtRounds THEN "send" ELSE "end")
           /\ hand' = NtCounts(Client)
           /\ shared' = [shared EXCEPT !.box[Client] = Tail(@)]
  <2> DEFINE q == Tail(shared.box[2])
             f == [shared.box EXCEPT ![2] = q]
  <2>1. shared' = [shared EXCEPT !.box = f]
    BY <1>3 DEF Client
  <2>2. /\ Moves(2, "receive", IF hand[2].i + 1 < NtRounds THEN "send" ELSE "end")
        /\ hand' = NtCounts(2) /\ shared.box[2] # <<>>
    BY <1>3 DEF Client
  <2>3. q \in Seq(1..3)
    <3>1. shared.box[2] \in Seq(1..3)
      BY <1>1
    <3>2. QED
      BY <2>2, <3>1
  <2> HIDE DEF q
  <2>4. f \in [1..3 -> Seq(1..3)] /\ f[2] = q /\ f[1] = shared.box[1]
    BY <1>0, <2>3, UdpBox
  <2> HIDE DEF f
  <2>5. shared' \in UdpRecords /\ shared'.box = f /\ shared'.stranger = shared.stranger
    BY <1>0, <2>1, <2>4, UdpSet
  <2>6. Becomes(shared.box[1], q, shared.stranger)
    BY <2>4, <2>5 DEF Becomes
  <2>7. QED
    BY <2>2, <2>6, UdpReads DEF q
<1>4. QED
  BY <1>2, <1>3 DEF UdpClient

LEMMA UdpStep ==
    ASSUME UdpInv, game = "udp_ping", NEW t \in DOMAIN at, NtStep(t)
    PROVE UdpInv'
<1>1. t \in 1..3
  BY DEF UdpInv, UdpTypes
<1>2. CASE UdpBroadcast
  BY <1>2, UdpAsks DEF UdpBroadcast, Other
<1>3. QED
  BY <1>1, <1>2, UdpExits, UdpServes, UdpWaits DEF NtStep

LEMMA UdpTogether == ASSUME UdpInv PROVE UdpRoundsMatch
<1> DEFINE i_ == hand[1].i
           j_ == hand[2].i
           n  == Len(shared.box[2])
           W  == ToSet(shared.box[1])
<1>1. UdpTypes /\ UdpIs(at, i_, j_, hand[1].from, W, n, shared.stranger)
  BY DEF UdpInv
<1>2. i_ \in Nat /\ j_ \in Nat /\ n \in Nat /\ (shared.box[2] = <<>> <=> n = 0)
  BY <1>1, UdpFields
<1>3. NtRounds \in Nat
  BY NetworkAssumption
<1> HIDE DEF i_, j_, n, W
<1>4. i_ - j_ \in 0 .. IF shared.stranger THEN 2 ELSE 1
  <2>1. n \in 0..1 /\ i_ - j_ - n \in 0..1 /\ (i_ - j_ - n = 1 => shared.stranger)
    BY <1>1 DEF UdpIs
  <2>2. CASE shared.stranger
    <3>1. i_ - j_ \in 0..2
      BY <1>2, <2>1
    <3>2. QED
      BY <2>2, <3>1
  <2>3. CASE ~shared.stranger
    <3>1. i_ - j_ - n # 1
      BY <2>1, <2>3
    <3>2. i_ - j_ \in 0..1
      BY <1>2, <2>1, <3>1
    <3>3. QED
      BY <2>3, <3>2
  <2>4. QED
    BY <2>2, <2>3
<1>5. at[2] = "end" => at[1] = "end"
  <2>1. at[2] = "end" => j_ >= NtRounds /\ i_ - j_ - n \in 0..1 /\ n \in 0..1
    BY <1>1 DEF UdpIs
  <2>2. at[1] # "end" => i_ < NtRounds
    BY <1>1 DEF UdpIs
  <2>3. QED
    BY <1>2, <1>3, <2>1, <2>2
<1>6. at[2] # "receive" => shared.box[2] = <<>>
  BY <1>1, <1>2 DEF UdpIs
<1>7. QED
  BY <1>4, <1>5, <1>6 DEF UdpRoundsMatch, Server, Client, i_, j_

LEMMA TcpSet ==
    ASSUME shared \in TcpRecords
    PROVE /\ \A c \in {"none", "listening", "open", "closed", "reset"} :
                LET s == [shared EXCEPT !.conn = c]
                IN  /\ s \in TcpRecords /\ s.conn = c /\ s.ping = shared.ping
                    /\ s.pong = shared.pong /\ s.torn = shared.torn /\ s.split = shared.split
          /\ \A c \in {"none", "listening", "open", "closed", "reset"} :
                LET s == [shared EXCEPT !.conn = c, !.pong = 0]
                IN  /\ s \in TcpRecords /\ s.conn = c /\ s.ping = shared.ping
                    /\ s.pong = 0 /\ s.torn = shared.torn /\ s.split = shared.split
          /\ \A n \in Nat :
                LET s == [shared EXCEPT !.ping = n]
                IN  /\ s \in TcpRecords /\ s.conn = shared.conn /\ s.ping = n
                    /\ s.pong = shared.pong /\ s.torn = shared.torn /\ s.split = shared.split
          /\ \A n \in Nat :
                LET s == [shared EXCEPT !.pong = n]
                IN  /\ s \in TcpRecords /\ s.conn = shared.conn /\ s.ping = shared.ping
                    /\ s.pong = n /\ s.torn = shared.torn /\ s.split = shared.split
  BY DEF TcpRecords

LEMMA TcpTorn ==
    ASSUME shared \in TcpRecords, NEW n \in Nat, NEW b \in BOOLEAN,
           shared' = [shared EXCEPT !.ping = n, !.torn = b]
    PROVE /\ shared' \in TcpRecords /\ shared'.conn = shared.conn /\ shared'.ping = n
          /\ shared'.pong = shared.pong /\ shared'.torn = b /\ shared'.split = shared.split
  BY DEF TcpRecords

LEMMA TcpSplit ==
    ASSUME shared \in TcpRecords, NEW n \in Nat, NEW b \in BOOLEAN,
           shared' = [shared EXCEPT !.pong = n, !.split = b]
    PROVE /\ shared' \in TcpRecords /\ shared'.conn = shared.conn /\ shared'.ping = shared.ping
          /\ shared'.pong = n /\ shared'.torn = shared.torn /\ shared'.split = b
  BY DEF TcpRecords

LEMMA TcpFields ==
    ASSUME TcpTypes
    PROVE /\ shared.ping \in Nat /\ shared.pong \in Nat /\ shared.torn \in BOOLEAN
          /\ shared.split \in BOOLEAN
          /\ shared.conn \in {"none", "listening", "open", "closed", "reset"}
          /\ hand[1].i \in Nat /\ hand[2].i \in Nat
<1>1. hand[1] \in NtHands /\ hand[2] \in NtHands
  BY DEF TcpTypes
<1>2. hand[1].i \in Nat /\ hand[2].i \in Nat
  BY <1>1 DEF NtHands
<1>3. QED
  BY <1>2 DEF TcpTypes, TcpRecords

LEMMA TcpMoves ==
    ASSUME TcpTypes, NEW t \in 1..2, NEW from, NEW to \in TcpPlaces, Moves(t, from, to)
    PROVE /\ at' \in [1..2 -> TcpPlaces] /\ at[t] = from /\ at'[t] = to
          /\ \A u \in 1..2 \ {t} : at'[u] = at[u]
<1>1. at \in [1..2 -> TcpPlaces]
  BY DEF TcpTypes
<1>2. QED
  BY <1>1, OneMoves

LEMMA TcpCounted ==
    ASSUME hand \in [1..2 -> NtHands], NEW t \in 1..2, hand' = NtCounts(t)
    PROVE /\ hand' \in [1..2 -> NtHands] /\ hand'[t].i = hand[t].i + 1
          /\ \A u \in 1..2 \ {t} : hand'[u] = hand[u]
  BY DEF NtCounts, NtHands

LEMMA TcpNext ==
    ASSUME NEW i_ \in Nat
    PROVE TcpBytes(i_) \in Nat /\ TcpBytes(i_ + 1) = TcpBytes(i_) + NtLen
<1>1. NtLen \in Nat
  BY NetworkAssumption
<1>2. \A m, n \in Nat : m * n \in Nat /\ m * (n + 1) = m * n + m
  OBVIOUS
<1>3. QED
  BY <1>1, <1>2 DEF TcpBytes

LEMMA TcpBehind ==
    ASSUME NEW i_ \in Nat, NEW j_ \in Nat, TcpBytes(i_) <= TcpBytes(j_) + NtLen
    PROVE i_ <= j_ + 1
<1>1. NtLen \in Nat \ {0}
  BY NetworkAssumption
<1>2. TcpBytes(j_ + 1) = TcpBytes(j_) + NtLen
  BY TcpNext
<1>3. ASSUME j_ + 1 < i_ PROVE FALSE
  <2> DEFINE d == i_ - (j_ + 1)
  <2>1. d \in Nat \ {0} /\ i_ = (j_ + 1) + d
    BY <1>3
  <2>2. \A m, n \in Nat : NtLen * (m + n) = NtLen * m + NtLen * n
    BY <1>1
  <2>3. NtLen * d > 0
    <3>1. \A m, n \in Nat \ {0} : m * n > 0
      OBVIOUS
    <3>2. QED
      BY <1>1, <2>1, <3>1
  <2> HIDE DEF d
  <2>4. TcpBytes(i_) = TcpBytes(j_ + 1) + NtLen * d
    BY <2>1, <2>2 DEF TcpBytes
  <2>5. TcpBytes(i_) \in Nat /\ TcpBytes(j_ + 1) \in Nat /\ NtLen * d \in Int
    <3>1. j_ + 1 \in Nat
      OBVIOUS
    <3>2. QED
      BY <1>1, <2>1, <3>1, TcpNext
  <2>6. QED
    BY <1>2, <2>3, <2>4, <2>5
<1>4. QED
  BY <1>3

LEMMA TcpBegins == ASSUME NtInit, game = "tcp_ping" PROVE TcpInv
<1>1. NtOf(game) = 1..2
  BY DEF NtOf, Server, Client
<1>2. shared = TcpShared /\ hand = [t \in 1..2 |-> [i |-> 0, from |-> t]]
  BY <1>1 DEF NtInit
<1>3. at = [t \in 1..2 |-> IF t = 1 THEN "bind" ELSE "connect"]
  BY <1>1 DEF NtInit, NtFirst, Server, Other
<1>4. shared \in TcpRecords /\ shared.conn = "none" /\ shared.ping = 0 /\ shared.pong = 0
  BY <1>2 DEF TcpShared, TcpRecords
<1>5. at \in [1..2 -> TcpPlaces] /\ hand \in [1..2 -> NtHands]
  BY <1>2, <1>3 DEF TcpPlaces, NtHands
<1>6. hand[1].i = 0 /\ hand[2].i = 0
  BY <1>2
<1>7. TcpIs(at, 0, 0, "none", 0, 0)
  BY <1>3, NetworkAssumption DEF TcpIs
<1>8. TcpPays(at, 0, 0, 0)
  BY <1>3, TcpNext DEF TcpPays
<1>9. QED
  BY <1>4, <1>5, <1>6, <1>7, <1>8 DEF TcpInv, TcpTypes

\* What a step makes of the connection.
Stream(c, pi, po, to, sp) ==
    /\ shared' \in TcpRecords /\ shared'.conn = c /\ shared'.ping = pi /\ shared'.pong = po
    /\ shared'.torn = to /\ shared'.split = sp

Follows(t, from, to, c, pi, po) ==
    /\ TcpIs(at, hand[1].i, hand[2].i, shared.conn, shared.ping, shared.pong)
    /\ at[t] = from /\ at'[t] = to /\ \A u \in 1..2 \ {t} : at'[u] = at[u]
    => TcpIs(at', hand'[1].i, hand'[2].i, c, pi, po)

\* What a step makes of the bytes read and sent.
TcpOwing(t, from, to, pi) ==
    /\ TcpPays(at, hand[1].i, hand[2].i, shared.ping)
    /\ at[t] = from /\ at'[t] = to /\ \A u \in 1..2 \ {t} : at'[u] = at[u]
    => TcpPays(at', hand'[1].i, hand'[2].i, pi)

LEMMA TcpOwes ==
    ASSUME TcpTypes, NEW t \in 1..2, NEW from, NEW to, hand' = hand,
           t = 1 => from # "write" /\ to # "write", t = 2 => from # "recv" /\ to # "recv"
    PROVE TcpOwing(t, from, to, shared.ping)
  BY DEF TcpOwing, TcpPays

\* The invariant of a step, if it has the counts of the rounds right.
LEMMA TcpHolds ==
    ASSUME TcpInv, NEW t \in 1..2, NEW from, NEW to \in TcpPlaces, Moves(t, from, to),
           NEW c, NEW pi, NEW po, NEW tn, NEW sp, Stream(c, pi, po, tn, sp),
           hand' \in [1..2 -> NtHands],
           ~tn => ~shared.torn, ~sp => ~shared.split,
           TcpOwing(t, from, to, pi), ~tn /\ ~sp => Follows(t, from, to, c, pi, po)
    PROVE TcpInv'
<1>1. TcpTypes
  BY DEF TcpInv
<1>2. /\ at' \in [1..2 -> TcpPlaces] /\ at[t] = from /\ at'[t] = to
      /\ \A u \in 1..2 \ {t} : at'[u] = at[u]
  BY <1>1, TcpMoves
<1>3. TcpTypes'
  BY <1>2 DEF TcpTypes, Stream
<1>4. ASSUME ~shared'.torn, ~shared'.split
      PROVE TcpIs(at', hand'[1].i, hand'[2].i, shared'.conn, shared'.ping, shared'.pong)
  <2>1. ~tn /\ ~sp
    BY <1>4 DEF Stream
  <2>2. TcpIs(at, hand[1].i, hand[2].i, shared.conn, shared.ping, shared.pong)
    BY <2>1 DEF TcpInv
  <2>3. TcpIs(at', hand'[1].i, hand'[2].i, c, pi, po)
    BY <1>2, <2>1, <2>2 DEF Follows
  <2>4. QED
    BY <2>3 DEF Stream
<1>5. TcpPays(at', hand'[1].i, hand'[2].i, shared'.ping)
  BY <1>2 DEF TcpOwing, TcpInv, Stream
<1>6. QED
  BY <1>3, <1>4, <1>5 DEF TcpInv

LEMMA TcpExits == ASSUME TcpInv, game = "tcp_ping", NEW t \in 1..2, ExitIfError(t) PROVE TcpInv'
<1> DEFINE from == NtFirst(game, t)
<1>1. Moves(t, from, "exit") /\ shared' = shared /\ hand' = hand /\ from \in {"bind", "connect"}
  BY DEF ExitIfError, Nothing, NtFirst, Other
<1> HIDE DEF from
<1>2. TcpTypes /\ "exit" \in TcpPlaces
  BY DEF TcpInv, TcpPlaces
<1>3. Stream(shared.conn, shared.ping, shared.pong, shared.torn, shared.split)
  BY <1>1, <1>2 DEF Stream, TcpTypes
<1>4. Follows(t, from, "exit", shared.conn, shared.ping, shared.pong)
  BY <1>1 DEF Follows, TcpIs
<1>5. hand' \in [1..2 -> NtHands]
  BY <1>1, <1>2 DEF TcpTypes
<1>6. TcpOwing(t, from, "exit", shared.ping)
  BY <1>1, <1>2, TcpOwes
<1>7. QED
  BY <1>1, <1>2, <1>3, <1>4, <1>5, <1>6, TcpHolds

\* The server reads what came, answers a whole PING, or sees the end.
LEMMA TcpServes == ASSUME TcpInv, TcpServer PROVE TcpInv'
<1>0. TcpTypes /\ shared \in TcpRecords /\ hand \in [1..2 -> NtHands] /\ NtLen \in Nat \ {0}
  BY NetworkAssumption DEF TcpInv, TcpTypes
<1>1. /\ shared.ping \in Nat /\ shared.pong \in Nat
      /\ shared.torn \in BOOLEAN /\ shared.split \in BOOLEAN
      /\ hand[1].i \in Nat /\ hand[2].i \in Nat
  BY <1>0, TcpFields
<1>2. {"accept", "read", "write", "end", "exit"} \subseteq TcpPlaces
  BY DEF TcpPlaces
<1>3. CASE Moves(Server, "bind", "accept") /\ Sets([shared EXCEPT !.conn = "listening"])
  <2>1. shared' = [shared EXCEPT !.conn = "listening"] /\ hand' = hand
    BY <1>3 DEF Sets
  <2>2. Stream("listening", shared.ping, shared.pong, shared.torn, shared.split)
    BY <1>0, <2>1, TcpSet DEF Stream
  <2>3. Moves(1, "bind", "accept") /\ hand' = hand
    BY <1>3, <2>1 DEF Server
  <2>4. Follows(1, "bind", "accept", "listening", shared.ping, shared.pong)
    BY <2>3 DEF Follows, TcpIs
  <2>5. TcpOwing(1, "bind", "accept", shared.ping)
    BY <1>0, <2>3, TcpOwes
  <2>6. QED
    BY <1>0, <1>2, <2>2, <2>3, <2>4, <2>5, TcpHolds
<1>4. CASE shared.conn = "open" /\ Moves(Server, "accept", "read") /\ Nothing
  <2>1. Moves(1, "accept", "read") /\ hand' = hand /\ shared' = shared
    BY <1>4 DEF Nothing, Server
  <2>2. Stream(shared.conn, shared.ping, shared.pong, shared.torn, shared.split)
    BY <1>0, <2>1 DEF Stream
  <2>3. Follows(1, "accept", "read", shared.conn, shared.ping, shared.pong)
    BY <2>1 DEF Follows, TcpIs
  <2>4. TcpOwing(1, "accept", "read", shared.ping)
    BY <1>0, <2>1, TcpOwes
  <2>5. QED
    BY <1>0, <1>2, <2>1, <2>2, <2>3, <2>4, TcpHolds
<1>5. CASE \E n \in 1..shared.ping :
              /\ Moves(Server, "read", IF n = NtLen THEN "write" ELSE "read")
              /\ Sets([shared EXCEPT !.ping = @ - n, !.torn = @ \/ n < NtLen])
  <2>1. PICK n \in 1..shared.ping :
              /\ Moves(Server, "read", IF n = NtLen THEN "write" ELSE "read")
              /\ Sets([shared EXCEPT !.ping = @ - n, !.torn = @ \/ n < NtLen])
    BY <1>5
  <2> DEFINE m  == shared.ping - n
             b  == shared.torn \/ n < NtLen
             to == IF n = NtLen THEN "write" ELSE "read"
  <2>2. m \in Nat /\ b \in BOOLEAN /\ n \in Nat \ {0}
    BY <1>1
  <2>3. shared' = [shared EXCEPT !.ping = m, !.torn = b] /\ Moves(1, "read", to) /\ hand' = hand
    BY <2>1 DEF Sets, Server
  <2>4. to \in TcpPlaces /\ (~b => ~shared.torn)
    BY <1>2
  <2>5. ASSUME TcpIs(at, hand[1].i, hand[2].i, shared.conn, shared.ping, shared.pong), ~b,
               at[1] = "read", at'[1] = to, \A u \in 1..2 \ {1} : at'[u] = at[u]
        PROVE  TcpIs(at', hand'[1].i, hand'[2].i, shared.conn, m, shared.pong)
    <3>1. n = NtLen /\ shared.ping = NtLen
      BY <1>0, <1>1, <2>2, <2>5 DEF TcpIs
    <3>2. m = 0 /\ at'[1] = "write" /\ at'[2] = at[2] /\ shared.ping # 0
      BY <1>0, <2>5, <3>1
    <3>3. QED
      BY <2>3, <2>5, <3>2 DEF TcpIs
  <2>6. ~b => Follows(1, "read", to, shared.conn, m, shared.pong)
    BY <2>5 DEF Follows
  <2>7. TcpOwing(1, "read", to, m)
    <3>1. /\ m = shared.ping - n /\ n <= shared.ping
          /\ to = "write" => n = NtLen
          /\ TcpBytes(hand[1].i) \in Nat /\ TcpBytes(hand[2].i) \in Nat
      BY <1>1, TcpNext
    <3> HIDE DEF m, to
    <3>2. QED
      BY <1>0, <1>1, <2>2, <2>3, <3>1 DEF TcpOwing, TcpPays
  <2> HIDE DEF m, b, to
  <2>8. Stream(shared.conn, m, shared.pong, b, shared.split)
    <3>1. /\ shared' \in TcpRecords /\ shared'.conn = shared.conn /\ shared'.ping = m
          /\ shared'.pong = shared.pong /\ shared'.torn = b /\ shared'.split = shared.split
      BY <1>0, <2>2, <2>3, TcpTorn
    <3>2. QED
      BY <3>1 DEF Stream
  <2>9. Moves(1, "read", to) /\ hand' = hand
    BY <2>3
  <2>10. QED
    BY <1>0, <2>4, <2>6, <2>7, <2>8, <2>9, TcpHolds
<1>6. CASE /\ shared.ping = 0 /\ shared.conn \in {"closed", "reset"}
           /\ Moves(Server, "read", IF shared.conn = "closed" THEN "end" ELSE "exit") /\ Nothing
  <2> DEFINE to == IF shared.conn = "closed" THEN "end" ELSE "exit"
  <2>1. Moves(1, "read", to) /\ hand' = hand /\ shared' = shared /\ to \in {"end", "exit"}
    BY <1>6 DEF Nothing, Server
  <2> HIDE DEF to
  <2>2. Stream(shared.conn, shared.ping, shared.pong, shared.torn, shared.split)
    BY <1>0, <2>1 DEF Stream
  <2>3. Follows(1, "read", to, shared.conn, shared.ping, shared.pong)
    BY <2>1 DEF Follows, TcpIs
  <2>4. to \in TcpPlaces
    BY <1>2, <2>1
  <2>5. TcpOwing(1, "read", to, shared.ping)
    BY <1>0, <2>1, TcpOwes
  <2>6. QED
    BY <1>0, <2>1, <2>2, <2>3, <2>4, <2>5, TcpHolds
<1>7. CASE /\ Moves(Server, "write", "read") /\ hand' = NtCounts(Server)
           /\ shared' = IF shared.conn = "open" THEN [shared EXCEPT !.pong = @ + NtLen]
                        ELSE [shared EXCEPT !.conn = "reset"]
  <2> DEFINE n == shared.pong + NtLen
             c == IF shared.conn = "open" THEN shared.conn ELSE "reset"
             p == IF shared.conn = "open" THEN n ELSE shared.pong
  <2>1. Moves(1, "write", "read") /\ hand' = NtCounts(1)
    BY <1>7 DEF Server
  <2>2. hand' \in [1..2 -> NtHands] /\ hand'[1].i = hand[1].i + 1 /\ hand'[2] = hand[2]
    BY <1>0, <2>1, TcpCounted
  <2>3. Stream(c, shared.ping, p, shared.torn, shared.split)
    <3>1. n \in Nat
      BY <1>0, <1>1
    <3>2. CASE shared.conn = "open"
      <4>1. shared' = [shared EXCEPT !.pong = n]
        BY <1>7, <3>2
      <4>2. c = shared.conn /\ p = n
        BY <3>2
      <4> HIDE DEF c, p, n
      <4>3. QED
        BY <1>0, <3>1, <4>1, <4>2, TcpSet DEF Stream
    <3>3. CASE shared.conn # "open"
      <4>1. shared' = [shared EXCEPT !.conn = "reset"] /\ c = "reset" /\ p = shared.pong
        BY <1>7, <3>3
      <4> HIDE DEF c, p, n
      <4>2. QED
        BY <1>0, <4>1, TcpSet DEF Stream
    <3>4. QED
      BY <3>2, <3>3
  <2>4. ASSUME TcpIs(at, hand[1].i, hand[2].i, shared.conn, shared.ping, shared.pong),
               at[1] = "write", at'[1] = "read", \A u \in 1..2 \ {1} : at'[u] = at[u]
        PROVE  TcpIs(at', hand'[1].i, hand'[2].i, c, shared.ping, p)
    <3>1. at[2] = "recv" /\ shared.conn = "open" /\ shared.ping = 0 /\ shared.pong = 0
          /\ at'[2] = at[2] /\ hand[1].i = hand[2].i + 0
      BY <2>4 DEF TcpIs
    <3>2. c = "open" /\ p = NtLen
      BY <1>0, <3>1
    <3>3. hand[1].i + 1 = hand[2].i + 1
      BY <1>1, <3>1
    <3>4. QED
      BY <1>0, <2>2, <2>4, <3>1, <3>2, <3>3 DEF TcpIs
  <2>5. Follows(1, "write", "read", c, shared.ping, p)
    BY <2>4 DEF Follows
  <2>6. TcpOwing(1, "write", "read", shared.ping)
    <3>1. /\ TcpBytes(hand[1].i) \in Nat /\ TcpBytes(hand[2].i) \in Nat
          /\ TcpBytes(hand[1].i + 1) = TcpBytes(hand[1].i) + NtLen
      BY <1>1, TcpNext
    <3>2. QED
      BY <1>0, <1>1, <2>2, <3>1 DEF TcpOwing, TcpPays
  <2> HIDE DEF n, c, p
  <2>7. QED
    BY <1>2, <2>1, <2>2, <2>3, <2>5, <2>6, TcpHolds
<1>8. QED
  BY <1>3, <1>4, <1>5, <1>6, <1>7 DEF TcpServer

\* The client connects, sends, and reads its answer.
LEMMA TcpAsks == ASSUME TcpInv, TcpClient PROVE TcpInv'
<1>0. TcpTypes /\ shared \in TcpRecords /\ hand \in [1..2 -> NtHands] /\ NtLen \in Nat \ {0}
      /\ NtRounds \in Nat
  BY NetworkAssumption DEF TcpInv, TcpTypes
<1>1. /\ shared.ping \in Nat /\ shared.pong \in Nat
      /\ shared.torn \in BOOLEAN /\ shared.split \in BOOLEAN
      /\ hand[1].i \in Nat /\ hand[2].i \in Nat
  BY <1>0, TcpFields
<1>2. {"send", "recv", "close", "end", "exit"} \subseteq TcpPlaces
  BY DEF TcpPlaces
<1>3. CASE /\ shared.conn = "listening"
           /\ Moves(Client, "connect", "send") /\ Sets([shared EXCEPT !.conn = "open"])
  <2>1. shared' = [shared EXCEPT !.conn = "open"] /\ hand' = hand
    BY <1>3 DEF Sets
  <2>2. Stream("open", shared.ping, shared.pong, shared.torn, shared.split)
    BY <1>0, <2>1, TcpSet DEF Stream
  <2>3. Moves(2, "connect", "send") /\ hand' = hand /\ shared.conn = "listening"
    BY <1>3, <2>1 DEF Client
  <2>4. Follows(2, "connect", "send", "open", shared.ping, shared.pong)
    BY <2>3 DEF Follows, TcpIs
  <2>5. TcpOwing(2, "connect", "send", shared.ping)
    BY <1>0, <2>3, TcpOwes
  <2>6. QED
    BY <1>0, <1>2, <2>2, <2>3, <2>4, <2>5, TcpHolds
<1>4. CASE Moves(Client, "connect", "exit") /\ Nothing
  <2>1. Moves(2, "connect", "exit") /\ hand' = hand /\ shared' = shared
    BY <1>4 DEF Nothing, Client
  <2>2. Stream(shared.conn, shared.ping, shared.pong, shared.torn, shared.split)
    BY <1>0, <2>1 DEF Stream
  <2>3. Follows(2, "connect", "exit", shared.conn, shared.ping, shared.pong)
    BY <2>1 DEF Follows, TcpIs
  <2>4. TcpOwing(2, "connect", "exit", shared.ping)
    BY <1>0, <2>1, TcpOwes
  <2>5. QED
    BY <1>0, <1>2, <2>1, <2>2, <2>3, <2>4, TcpHolds
<1>5. CASE Moves(Client, "send", "recv") /\ Sets([shared EXCEPT !.ping = @ + NtLen])
  <2> DEFINE n == shared.ping + NtLen
  <2>1. shared' = [shared EXCEPT !.ping = n] /\ hand' = hand /\ n \in Nat
    BY <1>0, <1>1, <1>5 DEF Sets
  <2>2. Moves(2, "send", "recv") /\ hand' = hand
    BY <1>5, <2>1 DEF Client
  <2>3. ASSUME TcpIs(at, hand[1].i, hand[2].i, shared.conn, shared.ping, shared.pong),
               at[2] = "send", at'[2] = "recv", \A u \in 1..2 \ {2} : at'[u] = at[u]
        PROVE  TcpIs(at', hand'[1].i, hand'[2].i, shared.conn, n, shared.pong)
    <3>1. shared.ping = 0 /\ shared.pong = 0 /\ at[1] # "write" /\ shared.conn = "open"
      BY <2>3 DEF TcpIs
    <3>2. n = NtLen /\ NtLen # 0 /\ at'[1] = at[1]
      BY <1>0, <2>3, <3>1
    <3> HIDE DEF n
    <3>3. QED
      BY <2>2, <2>3, <3>1, <3>2 DEF TcpIs
  <2>4. Follows(2, "send", "recv", shared.conn, n, shared.pong)
    BY <2>3 DEF Follows
  <2>7. TcpOwing(2, "send", "recv", n)
    <3>1. TcpBytes(hand[1].i) \in Nat /\ TcpBytes(hand[2].i) \in Nat
      BY <1>1, TcpNext
    <3>2. QED
      BY <1>0, <1>1, <2>2, <3>1 DEF TcpOwing, TcpPays
  <2> HIDE DEF n
  <2>5. Stream(shared.conn, n, shared.pong, shared.torn, shared.split)
    <3>1. /\ shared' \in TcpRecords /\ shared'.conn = shared.conn /\ shared'.ping = n
          /\ shared'.pong = shared.pong /\ shared'.torn = shared.torn
          /\ shared'.split = shared.split
      BY <1>0, <2>1, TcpSet
    <3>2. QED
      BY <3>1 DEF Stream
  <2>8. QED
    BY <1>0, <1>2, <2>2, <2>4, <2>5, <2>7, TcpHolds
<1>6. CASE \E n \in 1..shared.pong :
              /\ Moves(Client, "recv", IF hand[Client].i + 1 < NtRounds THEN "send" ELSE "close")
              /\ hand' = NtCounts(Client)
              /\ shared' = [shared EXCEPT !.pong = @ - n, !.split = @ \/ n < NtLen]
  <2>1. PICK n \in 1..shared.pong :
              /\ Moves(Client, "recv", IF hand[Client].i + 1 < NtRounds THEN "send" ELSE "close")
              /\ hand' = NtCounts(Client)
              /\ shared' = [shared EXCEPT !.pong = @ - n, !.split = @ \/ n < NtLen]
    BY <1>6
  <2> DEFINE m  == shared.pong - n
             b  == shared.split \/ n < NtLen
             to == IF hand[2].i + 1 < NtRounds THEN "send" ELSE "close"
  <2>2. m \in Nat /\ b \in BOOLEAN /\ n \in Nat \ {0} /\ (~b => ~shared.split)
    BY <1>1
  <2>3. shared' = [shared EXCEPT !.pong = m, !.split = b] /\ Moves(2, "recv", to)
        /\ hand' = NtCounts(2)
    BY <2>1 DEF Client
  <2>4. to \in TcpPlaces
    BY <1>2
  <2>5. hand' \in [1..2 -> NtHands] /\ hand'[2].i = hand[2].i + 1 /\ hand'[1] = hand[1]
    BY <1>0, <2>3, TcpCounted
  <2>6. ASSUME TcpIs(at, hand[1].i, hand[2].i, shared.conn, shared.ping, shared.pong), ~b,
               at[2] = "recv", at'[2] = to, \A u \in 1..2 \ {2} : at'[u] = at[u]
        PROVE  TcpIs(at', hand'[1].i, hand'[2].i, shared.conn, shared.ping, m)
    <3>1. n = NtLen /\ shared.pong = NtLen /\ shared.pong # 0
      BY <1>0, <1>1, <2>2, <2>6 DEF TcpIs
    <3>2. m = 0 /\ at'[1] = at[1]
      BY <1>0, <2>6, <3>1
    <3>3. /\ shared.ping = 0 /\ at[1] # "write" /\ shared.conn = "open"
          /\ hand[1].i = hand[2].i + 1 /\ hand[2].i < NtRounds
      BY <2>6, <3>1 DEF TcpIs
    <3>4. /\ to \in {"send", "close"} /\ (to = "send" => hand[2].i + 1 < NtRounds)
          /\ (to = "close" => hand[2].i + 1 = NtRounds)
      BY <1>0, <1>1, <3>3
    <3>5. hand[2].i + 1 = hand[2].i + 1 + 0
      BY <1>1
    <3> HIDE DEF to, m, b
    <3>6. QED
      BY <2>5, <2>6, <3>2, <3>3, <3>4, <3>5 DEF TcpIs
  <2>7. ~b => Follows(2, "recv", to, shared.conn, shared.ping, m)
    BY <2>6 DEF Follows
  <2>11. TcpOwing(2, "recv", to, shared.ping)
    <3>1. /\ TcpBytes(hand[1].i) \in Nat /\ TcpBytes(hand[2].i) \in Nat
          /\ TcpBytes(hand[2].i + 1) = TcpBytes(hand[2].i) + NtLen /\ to # "recv"
      BY <1>1, TcpNext
    <3> HIDE DEF to
    <3>2. QED
      BY <1>0, <1>1, <2>5, <3>1 DEF TcpOwing, TcpPays
  <2> HIDE DEF m, b, to
  <2>8. Stream(shared.conn, shared.ping, m, shared.torn, b)
    <3>1. /\ shared' \in TcpRecords /\ shared'.conn = shared.conn /\ shared'.ping = shared.ping
          /\ shared'.pong = m /\ shared'.torn = shared.torn /\ shared'.split = b
      BY <1>0, <2>2, <2>3, TcpSplit
    <3>2. QED
      BY <3>1 DEF Stream
  <2>9. Moves(2, "recv", to)
    BY <2>3
  <2>10. QED
    BY <1>0, <2>2, <2>4, <2>5, <2>7, <2>8, <2>9, <2>11, TcpHolds
<1>7. CASE /\ Moves(Client, "close", "end")
           /\ Sets([shared EXCEPT !.conn = IF shared.pong = 0 THEN "closed" ELSE "reset",
                                  !.pong = 0])
  <2> DEFINE c == IF shared.pong = 0 THEN "closed" ELSE "reset"
  <2>1. shared' = [shared EXCEPT !.conn = c, !.pong = 0] /\ hand' = hand
        /\ c \in {"closed", "reset"}
    BY <1>7 DEF Sets
  <2>2. Moves(2, "close", "end") /\ hand' = hand
    BY <1>7, <2>1 DEF Client
  <2>3. ASSUME TcpIs(at, hand[1].i, hand[2].i, shared.conn, shared.ping, shared.pong),
               at[2] = "close", at'[2] = "end", \A u \in 1..2 \ {2} : at'[u] = at[u]
        PROVE  TcpIs(at', hand'[1].i, hand'[2].i, c, shared.ping, 0)
    <3>1. shared.pong = 0 /\ shared.ping = 0 /\ at[1] # "write" /\ shared.conn = "open"
      BY <2>3 DEF TcpIs
    <3>2. c = "closed" /\ at'[1] = at[1]
      BY <2>3, <3>1
    <3> HIDE DEF c
    <3>3. QED
      BY <2>2, <2>3, <3>1, <3>2 DEF TcpIs
  <2>4. Follows(2, "close", "end", c, shared.ping, 0)
    BY <2>3 DEF Follows
  <2> HIDE DEF c
  <2>5. Stream(c, shared.ping, 0, shared.torn, shared.split)
    <3>1. /\ shared' \in TcpRecords /\ shared'.conn = c /\ shared'.ping = shared.ping
          /\ shared'.pong = 0 /\ shared'.torn = shared.torn /\ shared'.split = shared.split
      BY <1>0, <2>1, TcpSet
    <3>2. QED
      BY <3>1 DEF Stream
  <2>6. TcpOwing(2, "close", "end", shared.ping)
    BY <1>0, <2>2, TcpOwes
  <2>7. QED
    BY <1>0, <1>2, <2>2, <2>4, <2>5, <2>6, TcpHolds
<1>8. QED
  BY <1>3, <1>4, <1>5, <1>6, <1>7 DEF TcpClient

LEMMA TcpStep ==
    ASSUME TcpInv, game = "tcp_ping", NEW t \in DOMAIN at, NtStep(t)
    PROVE TcpInv'
<1>1. t \in 1..2
  BY DEF TcpInv, TcpTypes
<1>2. QED
  BY <1>1, TcpExits, TcpServes, TcpAsks DEF NtStep

LEMMA TcpTogether == ASSUME TcpInv PROVE TcpRoundsMatch
<1> DEFINE i_ == hand[1].i
           j_ == hand[2].i
<1>1. i_ \in Nat /\ j_ \in Nat /\ NtLen \in Nat \ {0} /\ NtRounds \in Nat
  BY TcpFields, NetworkAssumption DEF TcpInv
<1>2. ASSUME ~shared.torn, ~shared.split
      PROVE /\ i_ >= j_
            /\ at[2] = "end" => i_ = NtRounds /\ shared.conn = "closed"
  <2>1. TcpIs(at, i_, j_, shared.conn, shared.ping, shared.pong)
    BY <1>2 DEF TcpInv
  <2> HIDE DEF i_, j_
  <2>2. i_ = j_ \/ i_ = j_ + 1
    BY <1>1, <2>1 DEF TcpIs
  <2>3. at[2] = "end" => shared.pong = 0 /\ j_ = NtRounds /\ shared.conn = "closed"
    BY <2>1 DEF TcpIs
  <2>4. shared.pong = 0 => i_ = j_
    BY <1>1, <2>1 DEF TcpIs
  <2>5. QED
    BY <1>1, <2>2, <2>3, <2>4
<1>3. i_ - j_ <= 1
  <2>1. TcpPays(at, i_, j_, shared.ping) /\ shared.ping \in Nat
    BY TcpFields DEF TcpInv
  <2> HIDE DEF i_, j_
  <2>2. TcpBytes(i_) \in Nat /\ TcpBytes(j_) \in Nat
    BY <1>1, TcpNext
  <2>3. TcpBytes(i_) <= TcpBytes(j_) + NtLen
    BY <1>1, <2>1, <2>2 DEF TcpPays
  <2>4. i_ <= j_ + 1
    BY <1>1, <2>3, TcpBehind
  <2>5. QED
    BY <1>1, <2>4
<1> HIDE DEF i_, j_
<1>4. QED
  BY <1>2, <1>3 DEF TcpRoundsMatch, Server, Client, i_, j_

\* What the programs over sockets keep, each for itself.
NetworkInv == /\ game = "udp_ping" => UdpInv
              /\ game = "tcp_ping" => TcpInv
              /\ game = "tcp_servers" => SrvInv
              /\ game = "tcp_udp" => SelInv

LEMMA NetworkStutters == ASSUME NetworkInv, UNCHANGED exVars PROVE NetworkInv'
<1>1. UNCHANGED <<game, shared, at, hand>>
  BY DEF exVars
<1>2. ASSUME UdpInv PROVE UdpInv'
  BY <1>1, <1>2 DEF UdpInv, UdpTypes, UdpIs
<1>3. ASSUME TcpInv PROVE TcpInv'
  BY <1>1, <1>3 DEF TcpInv, TcpTypes, TcpIs, TcpPays
<1>4. ASSUME SrvInv PROVE SrvInv'
  BY <1>1, <1>4 DEF SrvInv, SrvQueue, SrvHeard, SrvOf, Unheard
<1>5. ASSUME SelInv PROVE SelInv'
  BY <1>1, <1>5 DEF SelInv
<1>6. QED
  BY <1>1, <1>2, <1>3, <1>4, <1>5 DEF NetworkInv

-----------------------------------------------------------------------------
\* IPCpingpong.cpp: the semaphore is free, or one of the two has it.
IpcPlaces  == {"sleep", "print", "signal"}
IpcInv == /\ at \in [{1, 2} -> IpcPlaces] /\ shared.sem.turn \in Nat
          /\ shared \in [sem : [turn : Nat], printed : Nat]
          /\ shared.sem.turn + If1(at[1] # "sleep") + If1(at[2] # "sleep") = 1

LEMMA IpcBegins == ASSUME PrInit, game = "ipc" PROVE IpcInv
<1>1. at = [t \in {1, 2} |-> "sleep"] /\ shared = IpcShared
  BY DEF PrInit, PrOf, PrFirst
<1>2. QED
  BY <1>1 DEF IpcInv, IpcPlaces, IpcShared, If1

LEMMA IpcSet ==
    ASSUME shared \in [sem : [turn : Nat], printed : Nat]
    PROVE /\ \A n \in Nat :
                LET s == [shared EXCEPT !.sem["turn"] = n]
                IN  s \in [sem : [turn : Nat], printed : Nat] /\ s.sem.turn = n
          /\ \A n \in Nat :
                LET s == [shared EXCEPT !.printed = n]
                IN  s \in [sem : [turn : Nat], printed : Nat] /\ s.sem = shared.sem
  OBVIOUS

LEMMA IpcMoves ==
    ASSUME IpcInv, NEW p \in {1, 2}, NEW from, NEW to \in IpcPlaces, Moves(p, from, to)
    PROVE /\ at' \in [{1, 2} -> IpcPlaces] /\ at[p] = from /\ at'[p] = to
          /\ \A u \in {1, 2} \ {p} : at'[u] = at[u]
<1>1. at \in [{1, 2} -> IpcPlaces]
  BY DEF IpcInv
<1>2. QED
  BY <1>1, OneMoves

LEMMA IpcStep == ASSUME IpcInv, NEW p \in {1, 2}, Ipc(p) PROVE IpcInv'
<1> DEFINE n == shared.sem["turn"]
<1>0. shared \in [sem : [turn : Nat], printed : Nat] /\ n \in Nat /\ n = shared.sem.turn
      /\ n + If1(at[1] # "sleep") + If1(at[2] # "sleep") = 1 /\ shared.printed \in Nat
  BY DEF IpcInv
<1>1. IpcPlaces = {"sleep", "print", "signal"}
  BY DEF IpcPlaces
<1>2. CASE SemWaits(p, "turn", "sleep", "print")
  <2> DEFINE m == n - 1
  <2>1. m \in Nat /\ shared' = [shared EXCEPT !.sem["turn"] = m] /\ Moves(p, "sleep", "print")
    BY <1>0, <1>2 DEF SemWaits, Sets
  <2>2. /\ at' \in [{1, 2} -> IpcPlaces] /\ at[p] = "sleep" /\ at'[p] = "print"
        /\ \A u \in {1, 2} \ {p} : at'[u] = at[u]
    BY <1>1, <2>1, IpcMoves
  <2>3. m + 1 = n
    BY <1>0
  <2> HIDE DEF m, n
  <2>4. shared' \in [sem : [turn : Nat], printed : Nat] /\ shared'.sem.turn = m
    BY <1>0, <2>1, IpcSet
  <2>5. m + If1(at'[1] # "sleep") + If1(at'[2] # "sleep") = 1
    BY <1>0, <2>1, <2>2, <2>3 DEF If1
  <2>6. QED
    BY <2>1, <2>2, <2>4, <2>5 DEF IpcInv
<1>3. CASE /\ Moves(p, "print", "signal")
           /\ Sets([shared EXCEPT !.printed = @ + IF p = Parent THEN 1 ELSE 0])
  <2> DEFINE k == shared.printed + IF p = Parent THEN 1 ELSE 0
  <2>1. k \in Nat /\ shared' = [shared EXCEPT !.printed = k] /\ Moves(p, "print", "signal")
    BY <1>0, <1>3 DEF Sets
  <2>2. /\ at' \in [{1, 2} -> IpcPlaces] /\ at[p] = "print" /\ at'[p] = "signal"
        /\ \A u \in {1, 2} \ {p} : at'[u] = at[u]
    BY <1>1, <2>1, IpcMoves
  <2> HIDE DEF k, n
  <2>3. shared' \in [sem : [turn : Nat], printed : Nat] /\ shared'.sem = shared.sem
    BY <1>0, <2>1, IpcSet
  <2>4. n + If1(at'[1] # "sleep") + If1(at'[2] # "sleep") = 1
    BY <1>0, <2>2 DEF If1
  <2>5. QED
    BY <1>0, <2>2, <2>3, <2>4 DEF IpcInv
<1>4. CASE SemPosts(p, "turn", "signal", "sleep")
  <2> DEFINE m == n + 1
  <2>1. m \in Nat /\ shared' = [shared EXCEPT !.sem["turn"] = m] /\ Moves(p, "signal", "sleep")
    BY <1>0, <1>4 DEF SemPosts, Sets
  <2>2. /\ at' \in [{1, 2} -> IpcPlaces] /\ at[p] = "signal" /\ at'[p] = "sleep"
        /\ \A u \in {1, 2} \ {p} : at'[u] = at[u]
    BY <1>1, <2>1, IpcMoves
  <2>3. m = n + 1
    OBVIOUS
  <2> HIDE DEF m, n
  <2>4. shared' \in [sem : [turn : Nat], printed : Nat] /\ shared'.sem.turn = m
    BY <1>0, <2>1, IpcSet
  <2>5. m + If1(at'[1] # "sleep") + If1(at'[2] # "sleep") = 1
    BY <1>0, <2>1, <2>2, <2>3 DEF If1
  <2>6. QED
    BY <2>1, <2>2, <2>4, <2>5 DEF IpcInv
<1>5. QED
  BY <1>2, <1>3, <1>4 DEF Ipc

LEMMA IpcCounts == ASSUME IpcInv PROVE OnePrints
<1> DEFINE S == {p \in {1, 2} : at[p] # "sleep"}
<1>1. Cardinality(S) = If1(1 \in S) + If1(2 \in S)
  <2>1. S \subseteq {1, 2} /\ 1 # 2
    OBVIOUS
  <2> HIDE DEF S
  <2>2. QED
    BY <2>1, CountTwo
<1>2. If1(1 \in S) = If1(at[1] # "sleep") /\ If1(2 \in S) = If1(at[2] # "sleep")
  BY DEF If1
<1>3. Quantify({1, 2}, LAMBDA p : at[p] # "sleep") = Cardinality(S)
  BY DEF Quantify
<1>4. shared.sem.turn + If1(at[1] # "sleep") + If1(at[2] # "sleep") = 1
      /\ shared.sem.turn \in Nat
  BY DEF IpcInv
<1>5. If1(at[1] # "sleep") \in Int /\ If1(at[2] # "sleep") \in Int
  BY DEF If1
<1>6. QED
  BY <1>1, <1>2, <1>3, <1>4, <1>5 DEF OnePrints

-----------------------------------------------------------------------------
\* semaphore.c: what a process would undo is what it owes, and the value the
\* sum, as long as nothing went astray.
SemRecords == [val : Int, semadj : [{1, 2} -> Int], total : Int, owed : [{1, 2} -> Int],
               astray : BOOLEAN]
SemHands == [{1, 2} -> [op : {-1, 2, 0}, undo : BOOLEAN, val : Int]]
SemTypes == /\ at \in [{1, 2} -> {"command", "apply", "gone"}]
            /\ hand \in SemHands
            /\ shared \in SemRecords
SemBalanced(s) == s.val = s.total /\ \A p \in {1, 2} : s.semadj[p] = -s.owed[p]
SumInv == SemTypes /\ (~shared.astray => SemBalanced(shared))

LEMMA SemZero == SemShared \in SemRecords /\ SemBalanced(SemShared)
<1> DEFINE z == [p \in {1, 2} |-> 0]
<1>1. z \in [{1, 2} -> Int] /\ \A p \in {1, 2} : z[p] = 0
  OBVIOUS
<1>2. SemShared = [val |-> 0, semadj |-> z, total |-> 0, owed |-> z, astray |-> FALSE]
  BY DEF SemShared
<1> HIDE DEF z
<1>3. SemShared \in SemRecords
  BY <1>1, <1>2 DEF SemRecords
<1>4. SemShared.val = 0 /\ SemShared.total = 0 /\ SemShared.semadj = z /\ SemShared.owed = z
  BY <1>2
<1>5. \A p \in {1, 2} : z[p] = -z[p]
  BY <1>1
<1>6. QED
  BY <1>3, <1>4, <1>5 DEF SemBalanced

LEMMA SemLost ==
    ASSUME NEW r \in SemRecords, NEW b \in BOOLEAN, NEW v \in Int, NEW f \in [{1, 2} -> Int]
    PROVE LET z == [r EXCEPT !.astray = b, !.val = v, !.semadj = f]
          IN  z \in SemRecords /\ z.astray = b
  BY DEF SemRecords

LEMMA SemBegins == ASSUME PrInit, game = "semaphore" PROVE SumInv
<1>1. /\ at = [t \in {1, 2} |-> "command"] /\ shared = SemShared
      /\ hand = [t \in {1, 2} |-> [op |-> 0, undo |-> FALSE, val |-> 0]]
  BY DEF PrInit, PrOf, PrFirst
<1>2. shared \in SemRecords /\ SemBalanced(shared)
  BY <1>1, SemZero
<1>3. SemTypes
  BY <1>1, <1>2 DEF SemTypes, SemHands
<1>4. QED
  BY <1>2, <1>3 DEF SumInv

\* What the semaphore becomes: a record of its own, or one that is astray.
LEMMA SemChanges ==
    ASSUME NEW s \in SemRecords, SemBecomes(s), ~s.astray => SemBalanced(s)
    PROVE shared' \in SemRecords /\ (~shared'.astray => SemBalanced(shared'))
<1>1. CASE Straight(s)
  BY <1>1 DEF Straight
<1>2. CASE Stray(s)
  <2> DEFINE z == [SemShared EXCEPT !.astray = TRUE, !.val = s.val, !.semadj = s.semadj]
  <2>1. s.val \in Int /\ s.semadj \in [{1, 2} -> Int]
    BY DEF SemRecords
  <2>2. TRUE \in BOOLEAN
    OBVIOUS
  <2>5. z \in SemRecords /\ z.astray = TRUE
    BY <2>1, <2>2, SemZero, SemLost
  <2>6. shared' = z
    BY <1>2 DEF Stray
  <2> HIDE DEF z
  <2>7. QED
    BY <2>5, <2>6
<1>3. QED
  BY <1>1, <1>2 DEF SemBecomes

\* The three changes.
SetTo(v, f, n, b) == [shared EXCEPT !.val = v, !.semadj = f, !.total = n, !.astray = b]
Added(v, f, n, g) == [shared EXCEPT !.val = v, !.semadj = f, !.total = n, !.owed = g]
Undone(v, f, n, g, b) ==
  [shared EXCEPT !.val = v, !.semadj = f, !.total = n, !.owed = g, !.astray = b]

SemOf(s, v, f, n, g, b) ==
  /\ s \in SemRecords /\ s.val = v /\ s.semadj = f /\ s.total = n /\ s.owed = g
  /\ s.astray = b

LEMMA SemSetTo ==
    ASSUME shared \in SemRecords, NEW v \in Int, NEW n \in Int, NEW b \in BOOLEAN,
           NEW f \in [{1, 2} -> Int]
    PROVE SemOf(SetTo(v, f, n, b), v, f, n, shared.owed, b)
  BY DEF SemRecords, SetTo, SemOf

LEMMA SemAdded ==
    ASSUME shared \in SemRecords, NEW v \in Int, NEW n \in Int,
           NEW f \in [{1, 2} -> Int], NEW g \in [{1, 2} -> Int]
    PROVE SemOf(Added(v, f, n, g), v, f, n, g, shared.astray)
  BY DEF SemRecords, Added, SemOf

LEMMA SemUndone ==
    ASSUME shared \in SemRecords, NEW v \in Int, NEW n \in Int, NEW b \in BOOLEAN,
           NEW f \in [{1, 2} -> Int], NEW g \in [{1, 2} -> Int]
    PROVE SemOf(Undone(v, f, n, g, b), v, f, n, g, b)
  BY DEF SemRecords, Undone, SemOf

LEMMA SemFields ==
    ASSUME SemTypes, NEW p \in {1, 2}
    PROVE /\ shared.val \in Int /\ shared.total \in Int /\ shared.astray \in BOOLEAN
          /\ shared.semadj \in [{1, 2} -> Int] /\ shared.owed \in [{1, 2} -> Int]
          /\ hand[p] \in [op : {-1, 2, 0}, undo : BOOLEAN, val : Int]
          /\ hand[p].op \in Int /\ hand[p].val \in Int
<1>1. shared.val \in Int /\ shared.total \in Int /\ shared.astray \in BOOLEAN
      /\ shared.semadj \in [{1, 2} -> Int] /\ shared.owed \in [{1, 2} -> Int]
  BY DEF SemTypes, SemRecords
<1>2. hand[p] \in [op : {-1, 2, 0}, undo : BOOLEAN, val : Int]
  BY DEF SemTypes, SemHands
<1>3. QED
  BY <1>1, <1>2

\* Where a process is does not matter.
LEMMA SemHolds ==
    ASSUME SemTypes, NEW p \in {1, 2}, NEW from, NEW to \in {"command", "apply", "gone"},
           Moves(p, from, to),
           hand' \in SemHands,
           shared' \in SemRecords, ~shared'.astray => SemBalanced(shared')
    PROVE SumInv'
<1>1. at' \in [{1, 2} -> {"command", "apply", "gone"}]
  <2>1. at \in [{1, 2} -> {"command", "apply", "gone"}]
    BY DEF SemTypes
  <2>2. QED
    BY <2>1 DEF Moves
<1>2. QED
  BY <1>1 DEF SumInv, SemTypes, SemBalanced

LEMMA SemCommand == ASSUME NEW line PROVE (IF DoCommand(line) = "decrease" THEN -1 ELSE 2) \in {-1, 2, 0}
  OBVIOUS

LEMMA SemAsks ==
    ASSUME SumInv, NEW p \in {1, 2}, SemReads(p) \/ SemPrints(p) PROVE SumInv'
<1>1. SemTypes /\ shared \in SemRecords /\ (~shared.astray => SemBalanced(shared))
  BY DEF SumInv, SemTypes
<1>2. shared.val \in Int
  BY <1>1, SemFields
<1>3. CASE SemReads(p)
  <2>1. PICK line : Holds(p, [op |-> IF DoCommand(line) = "decrease" THEN -1 ELSE 2,
                              undo |-> SemIsUndo(line), val |-> shared.val])
    BY <1>3 DEF SemReads
  <2> DEFINE o == IF DoCommand(line) = "decrease" THEN -1 ELSE 2
             u == SemIsUndo(line)
             h == [op |-> o, undo |-> u, val |-> shared.val]
  <2>2. o \in {-1, 2, 0} /\ u \in BOOLEAN
    BY DEF SemIsUndo
  <2>3. h \in [op : {-1, 2, 0}, undo : BOOLEAN, val : Int]
    <3> HIDE DEF o, u
    <3>1. QED
      BY <1>2, <2>2
  <2>4. hand' = [hand EXCEPT ![p] = h]
    BY <2>1 DEF Holds
  <2> HIDE DEF h
  <2>5. hand' \in SemHands
    BY <1>1, <2>3, <2>4 DEF SemTypes, SemHands
  <2>6. Moves(p, "command", "apply") /\ shared' = shared
    BY <1>3 DEF SemReads
  <2>7. QED
    BY <1>1, <2>5, <2>6, SemHolds
<1>4. CASE SemPrints(p)
  <2>1. hand' = [hand EXCEPT ![p].val = shared.val]
    BY <1>4 DEF SemPrints
  <2>2. hand' \in SemHands
    BY <1>1, <1>2, <2>1 DEF SemTypes, SemHands
  <2>3. Moves(p, "command", "command") /\ shared' = shared
    BY <1>4 DEF SemPrints
  <2>4. QED
    BY <1>1, <2>2, <2>3, SemHolds
<1>5. QED
  BY <1>3, <1>4

LEMMA SemSets == ASSUME SumInv, NEW p \in {1, 2}, SemSet(p) PROVE SumInv'
<1> DEFINE v == hand[p].val + hand[p].op
           n == shared.total + hand[p].op
           f == [q \in {1, 2} |-> 0]
           b == \/ shared.astray \/ shared.val # hand[p].val
                \/ \E q \in {1, 2} : shared.owed[q] # 0
           s == [shared EXCEPT !.val = v, !.semadj = f, !.total = n, !.astray = b]
<1>1. SemTypes /\ shared \in SemRecords /\ (~shared.astray => SemBalanced(shared))
      /\ hand \in SemHands
  BY DEF SumInv, SemTypes
<1>2. /\ shared.val \in Int /\ shared.total \in Int /\ shared.astray \in BOOLEAN
      /\ shared.owed \in [{1, 2} -> Int] /\ hand[p].op \in Int /\ hand[p].val \in Int
  BY <1>1, SemFields
<1>3. Moves(p, "apply", "command") /\ hand' = hand
  BY DEF SemSet
<1>4. SemBecomes(s) \/ shared' = shared
  BY DEF SemSet
<1>5. v \in Int /\ n \in Int /\ b \in BOOLEAN /\ f \in [{1, 2} -> Int]
  BY <1>2
<1>6. ~b => /\ ~shared.astray /\ shared.val = hand[p].val
            /\ \A q \in {1, 2} : shared.owed[q] = 0 /\ f[q] = -shared.owed[q]
  BY <1>2
<1>7. ~b => v = n
  BY <1>1, <1>2, <1>6 DEF SemBalanced
<1> HIDE DEF v, n, f, b
<1>8a. s = SetTo(v, f, n, b)
  BY DEF SetTo
<1> HIDE DEF s
<1>8b. SemOf(s, v, f, n, shared.owed, b)
  BY <1>1, <1>5, <1>8a, SemSetTo
<1>8. /\ s \in SemRecords /\ s.val = v /\ s.semadj = f /\ s.total = n
      /\ s.owed = shared.owed /\ s.astray = b
  BY <1>8b DEF SemOf
<1>9. ~s.astray => SemBalanced(s)
  BY <1>6, <1>7, <1>8 DEF SemBalanced
<1>10. shared' \in SemRecords /\ (~shared'.astray => SemBalanced(shared'))
  BY <1>1, <1>4, <1>8, <1>9, SemChanges
<1>11. QED
  BY <1>1, <1>3, <1>10, SemHolds

LEMMA SemUndoes == ASSUME SumInv, NEW p \in {1, 2}, SemUndo(p) PROVE SumInv'
<1> DEFINE o == hand[p].op
           v == shared.val + o
           n == shared.total + o
           f == [shared.semadj EXCEPT ![p] = shared.semadj[p] - o]
           g == [shared.owed EXCEPT ![p] = shared.owed[p] + o]
           s == [shared EXCEPT !.val = v, !.semadj = f, !.total = n, !.owed = g]
<1>1. SemTypes /\ shared \in SemRecords /\ (~shared.astray => SemBalanced(shared))
      /\ hand \in SemHands
  BY DEF SumInv, SemTypes
<1>2. /\ shared.val \in Int /\ shared.total \in Int /\ shared.astray \in BOOLEAN
      /\ shared.semadj \in [{1, 2} -> Int] /\ shared.owed \in [{1, 2} -> Int] /\ o \in Int
  BY <1>1, SemFields
<1>3. Moves(p, "apply", "command") /\ hand' = hand
  BY DEF SemUndo
<1>4. shared' = shared \/ SemBecomes(s)
  BY DEF SemUndo
<1> HIDE DEF o
<1>5. v \in Int /\ n \in Int /\ f \in [{1, 2} -> Int] /\ g \in [{1, 2} -> Int]
  BY <1>2
<1>6. SemBalanced(shared) => v = n /\ \A q \in {1, 2} : f[q] = -g[q]
  BY <1>2 DEF SemBalanced
<1> HIDE DEF v, n, f, g
<1>7a. s = Added(v, f, n, g)
  BY DEF Added
<1> HIDE DEF s
<1>7b. SemOf(s, v, f, n, g, shared.astray)
  BY <1>1, <1>5, <1>7a, SemAdded
<1>7. /\ s \in SemRecords /\ s.val = v /\ s.semadj = f /\ s.total = n
      /\ s.owed = g /\ s.astray = shared.astray
  BY <1>7b DEF SemOf
<1>8. ~s.astray => SemBalanced(s)
  BY <1>1, <1>6, <1>7 DEF SemBalanced
<1>9. shared' \in SemRecords /\ (~shared'.astray => SemBalanced(shared'))
  BY <1>1, <1>4, <1>7, <1>8, SemChanges
<1>10. QED
  BY <1>1, <1>3, <1>9, SemHolds

\* The kernel undoes what the process owes, down to 0.
LEMMA MaxOfZero == ASSUME NEW a \in Int PROVE Max({0, a}) = IF a < 0 THEN 0 ELSE a
<1> DEFINE m == IF a < 0 THEN 0 ELSE a
<1>1. m \in {0, a} /\ \A x \in {0, a} : m >= x
  OBVIOUS
<1>2. \A y \in {0, a} : (\A x \in {0, a} : y >= x) => y = m
  OBVIOUS
<1>3. Max({0, a}) = CHOOSE y \in {0, a} : \A x \in {0, a} : y >= x
  BY DEF Max
<1> HIDE DEF m
<1>4. Max({0, a}) = m
  BY <1>1, <1>2, <1>3
<1>5. QED
  BY <1>4 DEF m

LEMMA SemLeaves == ASSUME SumInv, NEW p \in {1, 2}, SemExits(p) PROVE SumInv'
<1> DEFINE to == shared.val + shared.semadj[p]
           v == Max({0, to})
           n == shared.total - shared.owed[p]
           f == [shared.semadj EXCEPT ![p] = 0]
           g == [shared.owed EXCEPT ![p] = 0]
           b == shared.astray \/ to < 0
           s == [shared EXCEPT !.val = v, !.semadj = f, !.total = n, !.owed = g, !.astray = b]
<1>1. SemTypes /\ shared \in SemRecords /\ (~shared.astray => SemBalanced(shared))
      /\ hand \in SemHands
  BY DEF SumInv, SemTypes
<1>2. /\ shared.val \in Int /\ shared.total \in Int /\ shared.astray \in BOOLEAN
      /\ shared.semadj \in [{1, 2} -> Int] /\ shared.owed \in [{1, 2} -> Int]
  BY <1>1, SemFields
<1>3. Moves(p, "command", "gone") /\ hand' = hand
  BY DEF SemExits
<1>4. SemBecomes([shared EXCEPT !.val = v, !.semadj[p] = 0, !.total = n, !.owed[p] = 0,
                                !.astray = b])
  BY DEF SemExits
<1>5. SemBecomes(s)
  <2>1. [shared EXCEPT !.val = v, !.semadj[p] = 0, !.total = n, !.owed[p] = 0,
                       !.astray = b] = s
    <3> HIDE DEF v, n, b
    <3>1. QED
      BY <1>1 DEF SemRecords
  <2>2. QED
    BY <1>4, <2>1
<1>6. to \in Int /\ v = (IF to < 0 THEN 0 ELSE to)
  BY <1>2, MaxOfZero
<1>7. /\ v \in Int /\ n \in Int /\ b \in BOOLEAN
      /\ f \in [{1, 2} -> Int] /\ g \in [{1, 2} -> Int]
  <2>1. v \in Int
    BY <1>6
  <2> HIDE DEF v
  <2>2. QED
    BY <1>2, <2>1
<1>8. SemBalanced(shared) => \A q \in {1, 2} : f[q] = -g[q]
  BY <1>2 DEF SemBalanced
<1>9. ~b => ~shared.astray /\ v = to
  <2>1. ~b => ~shared.astray /\ ~(to < 0)
    OBVIOUS
  <2> HIDE DEF to, v, b
  <2>2. QED
    BY <1>6, <2>1
<1>10. SemBalanced(shared) => to = n
  BY <1>2 DEF SemBalanced
<1> HIDE DEF to, v, n, f, g, b
<1>11a. s = Undone(v, f, n, g, b)
  BY DEF Undone
<1> HIDE DEF s
<1>11b. SemOf(s, v, f, n, g, b)
  BY <1>1, <1>7, <1>11a, SemUndone
<1>11. /\ s \in SemRecords /\ s.val = v /\ s.semadj = f /\ s.total = n
      /\ s.owed = g /\ s.astray = b
  BY <1>11b DEF SemOf
<1>12. ~s.astray => SemBalanced(s)
  BY <1>1, <1>8, <1>9, <1>10, <1>11 DEF SemBalanced
<1>13. shared' \in SemRecords /\ (~shared'.astray => SemBalanced(shared'))
  BY <1>5, <1>11, <1>12, SemChanges
<1>14. QED
  BY <1>1, <1>3, <1>13, SemHolds

-----------------------------------------------------------------------------
\* uid.c and task.c used by threads: what a thread is about to give a task as its
\* uid was counted under the mutex, and is neither given nor about to be given
\* by the other.
TkPlaces == {"join", "malloc", "uid", "count", "increment", "time", "unlock", "compare",
             "execute", "set", "destroy", "gone"}
TkInside == {"count", "increment", "time", "unlock"}
TkIdle   == {"malloc", "gone"}
TkMakers == {2, 3}

TkHand    == [count : Int, uid : Int, ran : Int, made : Int]
TkRecords == [mutex : {Free, 2, 3}, count_st : Nat, blocks : SUBSET TkMakers, uids : Seq(Int)]
TkTypes   == at \in [1..3 -> TkPlaces] /\ hand \in [1..3 -> TkHand] /\ shared \in TkRecords

\* The uid a thread has and has not given, and that of each.
TkPending(place, h) == IF place = "time" THEN h.count
                       ELSE IF place \in {"unlock", "compare"} THEN h.uid
                       ELSE UID_BAD
TkPendings == [t \in TkMakers |-> TkPending(at[t], hand[t])]

TkFresh(uids, count, pending) ==
    /\ \A k \in DOMAIN uids : uids[k] \in 0 .. count - 1
    /\ IsInjective(uids)
    /\ \A t \in TkMakers : pending[t] # UID_BAD =>
          /\ pending[t] \in 0 .. count - 1
          /\ \A k \in DOMAIN uids : uids[k] # pending[t]
          /\ \A u \in TkMakers \ {t} : pending[u] # pending[t]

TkLocked == \A t \in TkMakers : at[t] \in TkInside <=> shared.mutex = t
TkBlocks == \A t \in TkMakers : at[t] \notin TkIdle <=> t \in shared.blocks
TkReads  == \A t \in TkMakers : at[t] = "increment" => hand[t].count = shared.count_st
TkInv == /\ TkTypes /\ at[1] \in {"join", "gone"}
         /\ TkLocked /\ TkBlocks /\ TkReads
         /\ TkFresh(shared.uids, shared.count_st, TkPendings)

LEMMA TkForgets ==
    ASSUME NEW uids \in Seq(Int), NEW n \in Nat, NEW p \in [TkMakers -> Int], NEW q \in [TkMakers -> Int],
           TkFresh(uids, n, p), \A t \in TkMakers : q[t] = p[t] \/ q[t] = UID_BAD
    PROVE TkFresh(uids, n, q)
  BY DEF TkFresh, TkMakers

LEMMA TkCounts ==
    ASSUME NEW uids \in Seq(Int), NEW n \in Nat, NEW p \in [TkMakers -> Int], NEW q \in [TkMakers -> Int],
           NEW t \in TkMakers, TkFresh(uids, n, p), q[t] = n,
           \A u \in TkMakers \ {t} : q[u] = p[u]
    PROVE TkFresh(uids, n + 1, q)
<1>1. \A k \in DOMAIN uids : uids[k] \in 0 .. n - 1
  BY DEF TkFresh
<1>2. \A k \in DOMAIN uids : uids[k] \in 0 .. (n + 1) - 1 /\ uids[k] # n
  BY <1>1
<1>3. ASSUME NEW u \in TkMakers, q[u] # UID_BAD
      PROVE /\ q[u] \in 0 .. (n + 1) - 1
            /\ \A k \in DOMAIN uids : uids[k] # q[u]
            /\ \A v \in TkMakers \ {u} : q[v] # q[u]
  <2>1. CASE u = t
    <3>1. ASSUME NEW v \in TkMakers \ {t} PROVE q[v] # n
      BY <3>1 DEF TkFresh, UID_BAD
    <3>2. QED
      BY <1>2, <2>1, <3>1
  <2>2. CASE u # t
    <3>1. /\ q[u] = p[u] /\ p[u] \in 0 .. n - 1 /\ \A k \in DOMAIN uids : uids[k] # p[u]
          /\ \A v \in TkMakers \ {u} : p[v] # p[u]
      BY <1>3, <2>2 DEF TkFresh
    <3>2. ASSUME NEW v \in TkMakers \ {u} PROVE q[v] # q[u]
      BY <3>1, <3>2
    <3>3. QED
      BY <3>1, <3>2
  <2>3. QED
    BY <2>1, <2>2
<1>4. IsInjective(uids)
  BY DEF TkFresh
<1>5. QED
  BY <1>2, <1>3, <1>4 DEF TkFresh

LEMMA TkGives ==
    ASSUME NEW uids \in Seq(Int), NEW n \in Nat, NEW p \in [TkMakers -> Int], NEW q \in [TkMakers -> Int],
           NEW t \in TkMakers, TkFresh(uids, n, p), p[t] # UID_BAD, q[t] = UID_BAD,
           \A u \in TkMakers \ {t} : q[u] = p[u]
    PROVE TkFresh(Append(uids, p[t]), n, q)
<1> DEFINE a == Append(uids, p[t])
           m == Len(uids)
<1>1. /\ m \in Nat /\ DOMAIN uids = 1 .. m /\ DOMAIN a = 1 .. m + 1 /\ a[m + 1] = p[t]
      /\ \A k \in 1 .. m : a[k] = uids[k]
  OBVIOUS
<1>2. /\ p[t] \in 0 .. n - 1 /\ \A k \in DOMAIN uids : uids[k] # p[t]
      /\ \A u \in TkMakers \ {t} : p[u] # p[t]
  BY DEF TkFresh
<1>3. \A k \in DOMAIN uids : uids[k] \in 0 .. n - 1
  BY DEF TkFresh
<1>4. \A j, k \in DOMAIN uids : uids[j] = uids[k] => j = k
  BY DEF TkFresh, IsInjective
<1> HIDE DEF a, m
<1>5. \A k \in DOMAIN a : (k \in 1 .. m /\ a[k] = uids[k]) \/ (k = m + 1 /\ a[k] = p[t])
  BY <1>1
<1>6. \A k \in DOMAIN a : a[k] \in 0 .. n - 1
  BY <1>1, <1>2, <1>3, <1>5
<1>7. \A j, k \in DOMAIN a : a[j] = a[k] => j = k
  BY <1>1, <1>2, <1>4, <1>5
<1>8. ASSUME NEW u \in TkMakers, q[u] # UID_BAD
      PROVE /\ q[u] \in 0 .. n - 1
            /\ \A k \in DOMAIN a : a[k] # q[u]
            /\ \A v \in TkMakers \ {u} : q[v] # q[u]
  <2>1. /\ u # t /\ q[u] = p[u] /\ p[u] \in 0 .. n - 1 /\ \A k \in DOMAIN uids : uids[k] # p[u]
        /\ \A v \in TkMakers \ {u} : p[v] # p[u]
    BY <1>8 DEF TkFresh
  <2>2. \A k \in DOMAIN a : a[k] # q[u]
    BY <1>1, <1>2, <1>5, <2>1
  <2>3. ASSUME NEW v \in TkMakers \ {u} PROVE q[v] # q[u]
    BY <1>8, <2>1, <2>3
  <2>4. QED
    BY <2>1, <2>2, <2>3
<1>9. QED
  BY <1>6, <1>7, <1>8 DEF TkFresh, IsInjective, a

LEMMA TkBegins == ASSUME ThInit, game = "tasks" PROVE TkInv
<1>1. /\ shared = [mutex |-> Free, count_st |-> 0, blocks |-> {}, uids |-> <<>>]
      /\ at = <<"join", "malloc", "malloc">>
      /\ hand = [t \in 1..3 |-> [count |-> 0, uid |-> -1, ran |-> 0, made |-> 0]]
  BY DEF ThInit, TkInit
<1>2. /\ shared \in TkRecords /\ shared.mutex = 0 /\ shared.blocks = {} /\ shared.uids = <<>>
  BY <1>1 DEF TkRecords, Free
<1>3. /\ at \in [1..3 -> TkPlaces] /\ at[1] = "join" /\ \A t \in TkMakers : at[t] = "malloc"
  BY <1>1 DEF TkPlaces, TkMakers
<1>4. hand \in [1..3 -> TkHand]
  BY <1>1 DEF TkHand
<1>5. \A t \in TkMakers : TkPendings[t] = UID_BAD
  BY <1>3 DEF TkPendings, TkPending
<1>6. TkFresh(shared.uids, shared.count_st, TkPendings)
  BY <1>2, <1>5 DEF TkFresh, IsInjective
<1>7. TkLocked /\ TkBlocks /\ TkReads
  BY <1>2, <1>3 DEF TkLocked, TkBlocks, TkReads, TkInside, TkIdle, TkMakers
<1>8. QED
  BY <1>2, <1>3, <1>4, <1>6, <1>7 DEF TkInv, TkTypes

\* What a step of maker t changes: the mutex, the blocks, the counter.
TkTurns(t, from, to) ==
    \/ shared'.mutex = shared.mutex /\ (from \in TkInside <=> to \in TkInside)
    \/ shared.mutex = Free /\ shared'.mutex = t /\ to \in TkInside
    \/ from \in TkInside /\ shared'.mutex = Free /\ to \notin TkInside
TkUses(t, from, to) ==
    \/ shared'.blocks = shared.blocks /\ (from \in TkIdle <=> to \in TkIdle)
    \/ shared'.blocks = shared.blocks \cup {t} /\ to \notin TkIdle
    \/ shared'.blocks = shared.blocks \ {t} /\ to \in TkIdle
TkCalls(t, from, to) ==
    /\ to = "increment" => hand'[t].count = shared'.count_st
    /\ shared'.count_st = shared.count_st \/ from = "increment"
TkSteps(t, from, to) == TkTurns(t, from, to) /\ TkUses(t, from, to) /\ TkCalls(t, from, to)
TkHolding(t) == hand' \in [1..3 -> TkHand] /\ \A u \in 1..3 \ {t} : hand'[u] = hand[u]

LEMMA TkMoved ==
    ASSUME TkInv, NEW t \in TkMakers, NEW from, NEW to \in TkPlaces, Moves(t, from, to),
           shared' \in TkRecords, TkHolding(t), TkSteps(t, from, to),
           TkFresh(shared.uids, shared.count_st, TkPendings)'
    PROVE TkInv'
<1>1. /\ at \in [1..3 -> TkPlaces] /\ shared \in TkRecords /\ t \in 1..3
      /\ TkMakers \subseteq 1..3 /\ t # 1
  BY DEF TkInv, TkTypes, TkMakers
<1>2. /\ at' \in [1..3 -> TkPlaces] /\ at[t] = from /\ at'[t] = to
      /\ \A u \in 1..3 \ {t} : at'[u] = at[u]
  BY <1>1 DEF Moves
<1>3. hand' \in [1..3 -> TkHand] /\ \A u \in 1..3 \ {t} : hand'[u] = hand[u]
  BY DEF TkHolding
<1>4. TkLocked'
  <2>1. \A u \in TkMakers : at[u] \in TkInside <=> shared.mutex = u
    BY DEF TkInv, TkLocked
  <2>2. Free \notin TkMakers
    BY DEF Free, TkMakers
  <2>3. \A u \in TkMakers : at'[u] \in TkInside <=> shared'.mutex = u
    BY <1>1, <1>2, <2>1, <2>2 DEF TkSteps, TkTurns
  <2>4. QED
    BY <2>3 DEF TkLocked
<1>5. TkBlocks'
  <2>1. \A u \in TkMakers : at[u] \notin TkIdle <=> u \in shared.blocks
    BY DEF TkInv, TkBlocks
  <2>2. \A u \in TkMakers : at'[u] \notin TkIdle <=> u \in shared'.blocks
    BY <1>1, <1>2, <2>1 DEF TkSteps, TkUses
  <2>3. QED
    BY <2>2 DEF TkBlocks
<1>6. TkReads'
  <2>1. \A u \in TkMakers : at[u] = "increment" => hand[u].count = shared.count_st
    BY DEF TkInv, TkReads
  <2>2. \A u \in TkMakers \ {t} : from = "increment" => at[u] # "increment"
    BY <1>2 DEF TkInv, TkLocked, TkInside
  <2>3. \A u \in TkMakers : at'[u] = "increment" => hand'[u].count = shared'.count_st
    BY <1>1, <1>2, <1>3, <2>1, <2>2 DEF TkSteps, TkCalls
  <2>4. QED
    BY <2>3 DEF TkReads
<1>7. at'[1] \in {"join", "gone"}
  BY <1>1, <1>2 DEF TkInv
<1>8. QED
  BY <1>2, <1>3, <1>4, <1>5, <1>6, <1>7 DEF TkInv, TkTypes

\* The others' uids stay what they are, and the counter and the uids given do.
LEMMA TkKept ==
    ASSUME TkInv, NEW t \in TkMakers, NEW from, NEW to \in TkPlaces, Moves(t, from, to), TkHolding(t)
    PROVE /\ TkPendings \in [TkMakers -> Int] /\ TkPendings' \in [TkMakers -> Int]
          /\ TkPendings[t] = TkPending(from, hand[t])
          /\ TkPendings'[t] = TkPending(to, hand'[t])
          /\ \A u \in TkMakers \ {t} : TkPendings'[u] = TkPendings[u]
<1>1. /\ at \in [1..3 -> TkPlaces] /\ hand \in [1..3 -> TkHand] /\ t \in 1..3
      /\ TkMakers \subseteq 1..3
  BY DEF TkInv, TkTypes, TkMakers
<1>2. /\ at' \in [1..3 -> TkPlaces] /\ at[t] = from /\ at'[t] = to
      /\ \A u \in 1..3 \ {t} : at'[u] = at[u]
  BY <1>1 DEF Moves
<1>3. hand' \in [1..3 -> TkHand] /\ \A u \in 1..3 \ {t} : hand'[u] = hand[u]
  BY DEF TkHolding
<1>4. \A h \in TkHand : \A p \in TkPlaces : TkPending(p, h) \in Int
  BY DEF TkPending, TkHand, UID_BAD
<1>5. TkPendings' = [u \in TkMakers |-> TkPending(at'[u], hand'[u])]
  BY DEF TkPendings, TkPending
<1>6. \A u \in TkMakers : TkPendings[u] = TkPending(at[u], hand[u])
  BY DEF TkPendings
<1>7. \A u \in TkMakers : TkPending(at[u], hand[u]) \in Int /\ TkPending(at'[u], hand'[u]) \in Int
  BY <1>1, <1>2, <1>3, <1>4
<1>8. TkPendings \in [TkMakers -> Int] /\ TkPendings' \in [TkMakers -> Int]
  BY <1>5, <1>7 DEF TkPendings
<1>9. QED
  BY <1>1, <1>2, <1>3, <1>5, <1>6, <1>8

\* Most steps give and count no uid, and keep the one in hand or forget it.
LEMMA TkGoes ==
    ASSUME TkInv, NEW t \in TkMakers, NEW from, NEW to \in TkPlaces, Moves(t, from, to), TkHolding(t),
           shared' \in TkRecords, TkSteps(t, from, to),
           shared'.count_st = shared.count_st, shared'.uids = shared.uids,
           TkPending(to, hand'[t]) \in {TkPending(from, hand[t]), UID_BAD}
    PROVE TkInv'
<1> DEFINE p == TkPendings
           q == TkPendings'
           s == shared.uids
           n == shared.count_st
<1>1. /\ p \in [TkMakers -> Int] /\ q \in [TkMakers -> Int]
      /\ p[t] = TkPending(from, hand[t]) /\ q[t] = TkPending(to, hand'[t])
      /\ \A u \in TkMakers \ {t} : q[u] = p[u]
  BY TkKept
<1>2. TkFresh(s, n, p) /\ s \in Seq(Int) /\ n \in Nat
  BY DEF TkInv, TkTypes, TkRecords
<1>3. TkFresh(shared.uids, shared.count_st, TkPendings)' <=> TkFresh(s, n, q)
  BY DEF TkFresh
<1> HIDE DEF p, q, s, n
<1>4. TkFresh(s, n, q)
  BY <1>1, <1>2, TkForgets
<1>5. QED
  BY <1>3, <1>4, TkMoved

LEMMA TkHolds ==
    ASSUME TkInv, NEW t \in TkMakers
    PROVE /\ hand \in [1..3 -> TkHand] /\ hand[t] \in TkHand /\ t \in 1..3
          /\ shared \in TkRecords
          /\ UNCHANGED hand => TkHolding(t)
          /\ \A h \in TkHand : Holds(t, h) => TkHolding(t) /\ hand'[t] = h
  BY DEF TkInv, TkTypes, TkHolding, Holds, TkMakers

LEMMA TkSame ==
    ASSUME TkInv, NEW t \in TkMakers, NEW from, NEW to, UNCHANGED shared,
           from \in TkInside <=> to \in TkInside, from \in TkIdle <=> to \in TkIdle,
           to = "increment" => hand'[t].count = shared.count_st
    PROVE /\ shared' \in TkRecords /\ TkSteps(t, from, to)
          /\ shared'.count_st = shared.count_st /\ shared'.uids = shared.uids
  BY DEF TkInv, TkTypes, TkSteps, TkTurns, TkUses, TkCalls

\* shared when one of its fields is changed.
LEMMA TkMutex ==
    ASSUME shared \in TkRecords, NEW m \in {Free, 2, 3}, shared' = [shared EXCEPT !.mutex = m]
    PROVE /\ shared' \in TkRecords /\ shared'.mutex = m /\ shared'.blocks = shared.blocks
          /\ shared'.count_st = shared.count_st /\ shared'.uids = shared.uids
  BY DEF TkRecords

LEMMA TkBlock ==
    ASSUME shared \in TkRecords, NEW b \in SUBSET TkMakers, shared' = [shared EXCEPT !.blocks = b]
    PROVE /\ shared' \in TkRecords /\ shared'.mutex = shared.mutex /\ shared'.blocks = b
          /\ shared'.count_st = shared.count_st /\ shared'.uids = shared.uids
  BY DEF TkRecords

LEMMA TkCounter ==
    ASSUME shared \in TkRecords, NEW n \in Nat, shared' = [shared EXCEPT !.count_st = n]
    PROVE /\ shared' \in TkRecords /\ shared'.mutex = shared.mutex /\ shared'.blocks = shared.blocks
          /\ shared'.count_st = n /\ shared'.uids = shared.uids
  BY DEF TkRecords

LEMMA TkUids ==
    ASSUME shared \in TkRecords, NEW s \in Seq(Int), shared' = [shared EXCEPT !.uids = s]
    PROVE /\ shared' \in TkRecords /\ shared'.mutex = shared.mutex /\ shared'.blocks = shared.blocks
          /\ shared'.count_st = shared.count_st /\ shared'.uids = s
  BY DEF TkRecords

LEMMA TkLocks ==
    ASSUME TkInv, NEW t \in TkMakers, TakesMutex(t, "uid", "count") \/ GivesMutex(t, "unlock", "compare")
    PROVE TkInv'
<1>1. shared \in TkRecords /\ TkHolding(t) /\ t \in {Free, 2, 3} /\ Free \in {Free, 2, 3}
      /\ (UNCHANGED hand => hand'[t] = hand[t])
  BY TkHolds DEF TakesMutex, GivesMutex, Sets, TkMakers
<1>2. CASE TakesMutex(t, "uid", "count")
  <2>1. /\ Moves(t, "uid", "count") /\ shared' = [shared EXCEPT !.mutex = t]
        /\ shared.mutex = Free /\ "count" \in TkPlaces
    BY <1>2 DEF TakesMutex, Sets, TkPlaces
  <2>2. /\ shared' \in TkRecords /\ shared'.mutex = t /\ shared'.blocks = shared.blocks
        /\ shared'.count_st = shared.count_st /\ shared'.uids = shared.uids
    BY <1>1, <2>1, TkMutex
  <2>3. TkSteps(t, "uid", "count")
    BY <2>1, <2>2 DEF TkSteps, TkTurns, TkUses, TkCalls, TkInside, TkIdle
  <2>4. TkPending("count", hand'[t]) = UID_BAD
    BY DEF TkPending
  <2>5. QED
    BY <1>1, <2>1, <2>2, <2>3, <2>4, TkGoes
<1>3. CASE GivesMutex(t, "unlock", "compare")
  <2>1. /\ Moves(t, "unlock", "compare") /\ shared' = [shared EXCEPT !.mutex = Free]
        /\ hand'[t] = hand[t] /\ "compare" \in TkPlaces
    BY <1>1, <1>3 DEF GivesMutex, Sets, TkPlaces
  <2>2. /\ shared' \in TkRecords /\ shared'.mutex = Free /\ shared'.blocks = shared.blocks
        /\ shared'.count_st = shared.count_st /\ shared'.uids = shared.uids
    BY <1>1, <2>1, TkMutex
  <2>3. TkSteps(t, "unlock", "compare")
    BY <2>1, <2>2 DEF TkSteps, TkTurns, TkUses, TkCalls, TkInside, TkIdle
  <2>4. TkPending("compare", hand'[t]) = TkPending("unlock", hand[t])
    BY <2>1 DEF TkPending
  <2>5. QED
    BY <1>1, <2>1, <2>2, <2>3, <2>4, TkGoes
<1>4. QED
  BY <1>2, <1>3

\* The counter is read, and goes up by one.
LEMMA TkReadsCount ==
    ASSUME TkInv, NEW t \in TkMakers, Moves(t, "count", "increment"), UNCHANGED shared,
           Holds(t, [hand[t] EXCEPT !.count = shared.count_st])
    PROVE TkInv'
<1> DEFINE h == [hand[t] EXCEPT !.count = shared.count_st]
<1>1. hand[t] \in TkHand /\ shared.count_st \in Int
  BY TkHolds DEF TkRecords
<1>2. h \in TkHand /\ h.count = shared.count_st
  BY <1>1 DEF TkHand
<1> HIDE DEF h
<1>3. TkHolding(t) /\ hand'[t] = h
  BY <1>2, TkHolds DEF h
<1>4. /\ "increment" \in TkPlaces /\ ("count" \in TkInside <=> "increment" \in TkInside)
      /\ ("count" \in TkIdle <=> "increment" \in TkIdle)
      /\ TkPending("increment", hand'[t]) = UID_BAD
  BY DEF TkPlaces, TkInside, TkIdle, TkPending
<1>5. /\ shared' \in TkRecords /\ TkSteps(t, "count", "increment")
      /\ shared'.count_st = shared.count_st /\ shared'.uids = shared.uids
  BY <1>2, <1>3, <1>4, TkSame
<1>6. QED
  BY <1>3, <1>4, <1>5, TkGoes

LEMMA TkIncrements ==
    ASSUME TkInv, NEW t \in TkMakers, Moves(t, "increment", "time"),
           Sets([shared EXCEPT !.count_st = @ + 1])
    PROVE TkInv'
<1> DEFINE p == TkPendings
           q == TkPendings'
           s == shared.uids
           n == shared.count_st
           m == n + 1
<1>1. /\ shared \in TkRecords /\ TkHolding(t) /\ hand'[t] = hand[t]
  BY TkHolds DEF Sets
<1>2. /\ TkFresh(s, n, p) /\ s \in Seq(Int) /\ n \in Nat /\ at[t] = "increment" /\ hand[t].count = n
      /\ "time" \in TkPlaces
  BY DEF TkInv, TkTypes, TkRecords, TkReads, Moves, TkPlaces
<1>3. shared' = [shared EXCEPT !.count_st = m] /\ m \in Nat
  BY <1>2 DEF Sets
<1>4. /\ p \in [TkMakers -> Int] /\ q \in [TkMakers -> Int]
      /\ q[t] = TkPending("time", hand'[t])
      /\ \A u \in TkMakers \ {t} : q[u] = p[u]
  BY <1>1, <1>2, TkKept
<1>5. q[t] = n
  BY <1>1, <1>2, <1>4 DEF TkPending
<1> HIDE DEF m
<1>6. /\ shared' \in TkRecords /\ shared'.mutex = shared.mutex /\ shared'.blocks = shared.blocks
      /\ shared'.count_st = m /\ shared'.uids = shared.uids
  BY <1>1, <1>3, TkCounter
<1>7. TkFresh(shared.uids, shared.count_st, TkPendings)' <=> TkFresh(s, m, q)
  BY <1>6 DEF TkFresh
<1> HIDE DEF p, q, s, n
<1>8. TkFresh(s, m, q)
  BY <1>2, <1>4, <1>5, TkCounts DEF m
<1>9. TkSteps(t, "increment", "time")
  BY <1>6 DEF TkSteps, TkTurns, TkUses, TkCalls, TkInside, TkIdle
<1>10. QED
  BY <1>1, <1>2, <1>6, <1>7, <1>8, <1>9, TkMoved

\* time or getifaddrs may fail; otherwise the uid is what was counted.
LEMMA TkTimes ==
    ASSUME TkInv, NEW t \in TkMakers, Moves(t, "time", "unlock"), UNCHANGED shared,
           NEW failed \in BOOLEAN,
           Holds(t, [hand[t] EXCEPT !.uid = IF failed THEN UID_BAD ELSE hand[t].count])
    PROVE TkInv'
<1> DEFINE v == IF failed THEN UID_BAD ELSE hand[t].count
           h == [hand[t] EXCEPT !.uid = v]
<1>1. hand[t] \in TkHand /\ v \in Int /\ v \in {hand[t].count, UID_BAD}
  BY TkHolds DEF TkHand, UID_BAD
<1> HIDE DEF v
<1>2. h \in TkHand /\ h.uid = v
  BY <1>1 DEF TkHand
<1> HIDE DEF h
<1>3. TkHolding(t) /\ hand'[t] = h
  BY <1>2, TkHolds DEF h, v
<1>4. /\ "unlock" \in TkPlaces /\ ("time" \in TkInside <=> "unlock" \in TkInside)
      /\ ("time" \in TkIdle <=> "unlock" \in TkIdle)
      /\ TkPending("unlock", hand'[t]) = v /\ TkPending("time", hand[t]) = hand[t].count
  BY <1>2, <1>3 DEF TkPlaces, TkInside, TkIdle, TkPending
<1>5. /\ shared' \in TkRecords /\ TkSteps(t, "time", "unlock")
      /\ shared'.count_st = shared.count_st /\ shared'.uids = shared.uids
  BY <1>4, TkSame
<1>6. QED
  BY <1>1, <1>3, <1>4, <1>5, TkGoes

\* A task that has its uid keeps it.
LEMMA TkGivesUid ==
    ASSUME TkInv, NEW t \in TkMakers, Moves(t, "compare", "execute"), UNCHANGED hand,
           hand[t].uid # UID_BAD,
           shared' = [shared EXCEPT !.uids = Append(@, hand[t].uid)]
    PROVE TkInv'
<1> DEFINE p == TkPendings
           q == TkPendings'
           s == shared.uids
           n == shared.count_st
           v == hand[t].uid
           a == Append(s, v)
<1>1. /\ shared \in TkRecords /\ TkHolding(t) /\ hand'[t] = hand[t] /\ v \in Int
  BY TkHolds DEF TkHand
<1>2. TkFresh(s, n, p) /\ s \in Seq(Int) /\ n \in Nat /\ "execute" \in TkPlaces
  BY DEF TkInv, TkTypes, TkRecords, TkPlaces
<1>3. a \in Seq(Int) /\ shared' = [shared EXCEPT !.uids = a]
  BY <1>1, <1>2
<1>4. /\ p \in [TkMakers -> Int] /\ q \in [TkMakers -> Int]
      /\ p[t] = TkPending("compare", hand[t]) /\ q[t] = TkPending("execute", hand'[t])
      /\ \A u \in TkMakers \ {t} : q[u] = p[u]
  BY <1>1, <1>2, TkKept
<1>5. p[t] = v /\ q[t] = UID_BAD /\ v # UID_BAD
  BY <1>4 DEF TkPending
<1>6. a = Append(s, p[t])
  BY <1>5
<1> HIDE DEF a, v
<1>7. /\ shared' \in TkRecords /\ shared'.mutex = shared.mutex /\ shared'.blocks = shared.blocks
      /\ shared'.count_st = shared.count_st /\ shared'.uids = a
  BY <1>1, <1>3, TkUids
<1>8. TkFresh(shared.uids, shared.count_st, TkPendings)' <=> TkFresh(a, n, q)
  BY <1>7 DEF TkFresh
<1> HIDE DEF p, q, s, n
<1>9. TkFresh(a, n, q)
  BY <1>2, <1>4, <1>5, <1>6, TkGives
<1>10. TkSteps(t, "compare", "execute")
  BY <1>7 DEF TkSteps, TkTurns, TkUses, TkCalls, TkInside, TkIdle
<1>11. QED
  BY <1>1, <1>2, <1>7, <1>8, <1>9, <1>10, TkMoved

\* What goes on outside the mutex, with no uid in hand or the one there was.
LEMMA TkWalks ==
    ASSUME TkInv, NEW t \in TkMakers, NEW from, NEW to \in TkPlaces \ TkInside, Moves(t, from, to),
           TkHolding(t), UNCHANGED shared, from \notin TkInside, to # "compare",
           from \in TkIdle <=> to \in TkIdle
    PROVE TkInv'
<1>1. to \in TkPlaces /\ to # "increment" /\ TkPending(to, hand'[t]) = UID_BAD
  BY DEF TkInside, TkPending
<1>2. /\ shared' \in TkRecords /\ TkSteps(t, from, to)
      /\ shared'.count_st = shared.count_st /\ shared'.uids = shared.uids
  BY <1>1, TkSame
<1>3. QED
  BY <1>1, <1>2, TkGoes

\* A task's memory is taken and given back.
LEMMA TkAllocates ==
    ASSUME TkInv, NEW t \in TkMakers, NEW from, NEW to \in TkPlaces \ TkInside, Moves(t, from, to),
           TkHolding(t), from \notin TkInside, to # "compare",
           NEW b, shared' = [shared EXCEPT !.blocks = b],
           \/ b = shared.blocks \cup {t} /\ to \notin TkIdle
           \/ b = shared.blocks \ {t} /\ to \in TkIdle
    PROVE TkInv'
<1>1. /\ to \in TkPlaces /\ to # "increment" /\ to \notin TkInside
      /\ TkPending(to, hand'[t]) = UID_BAD
  BY DEF TkInside, TkPending
<1>2. shared \in TkRecords /\ b \in SUBSET TkMakers
  BY TkHolds DEF TkRecords
<1>3. /\ shared' \in TkRecords /\ shared'.mutex = shared.mutex /\ shared'.blocks = b
      /\ shared'.count_st = shared.count_st /\ shared'.uids = shared.uids
  BY <1>2, TkBlock
<1>4. TkSteps(t, from, to)
  BY <1>1, <1>3 DEF TkSteps, TkTurns, TkUses, TkCalls
<1>5. QED
  BY <1>1, <1>3, <1>4, TkGoes

TkLeft(h, m, v) == [h EXCEPT !.made = m, !.ran = 0, !.uid = v]
LEMMA TkNewHand ==
    ASSUME NEW h \in TkHand, NEW m \in Int, NEW v \in Int
    PROVE TkLeft(h, m, v) \in TkHand
<1>1. [h EXCEPT !.made = m] \in TkHand
  BY DEF TkHand
<1>2. [[h EXCEPT !.made = m] EXCEPT !.ran = 0] \in TkHand
  <2> DEFINE g == [h EXCEPT !.made = m]
  <2>1. g \in TkHand
    BY <1>1
  <2> HIDE DEF g
  <2>2. [g EXCEPT !.ran = 0] \in TkHand
    BY <2>1 DEF TkHand
  <2>3. QED
    BY <2>2 DEF g
<1>3. [[[h EXCEPT !.made = m] EXCEPT !.ran = 0] EXCEPT !.uid = v] \in TkHand
  <2> DEFINE g == [[h EXCEPT !.made = m] EXCEPT !.ran = 0]
  <2>1. g \in TkHand
    BY <1>2
  <2> HIDE DEF g
  <2>2. [g EXCEPT !.uid = v] \in TkHand
    BY <2>1 DEF TkHand
  <2>3. QED
    BY <2>2 DEF g
<1>4. QED
  BY <1>3 DEF TkLeft

LEMMA TkHandsOn ==
    ASSUME TkInv, NEW t \in TkMakers
    PROVE /\ [hand[t] EXCEPT !.made = @ + 1] \in TkHand
          /\ [hand[t] EXCEPT !.made = @ + 1, !.ran = 0, !.uid = UID_BAD] \in TkHand
          /\ [hand[t] EXCEPT !.ran = @ + 1] \in TkHand
          /\ TkNextTask(t) \in TkIdle
<1>1. hand[t] \in TkHand
  BY TkHolds
<1>2. [hand[t] EXCEPT !.made = @ + 1] \in TkHand
  BY <1>1 DEF TkHand
<1>3. [hand[t] EXCEPT !.made = @ + 1, !.ran = 0, !.uid = UID_BAD] \in TkHand
  <2>1. UID_BAD \in Int /\ hand[t].made + 1 \in Int
    BY <1>1 DEF UID_BAD, TkHand
  <2>2. TkLeft(hand[t], hand[t].made + 1, UID_BAD) \in TkHand
    BY <1>1, <2>1, TkNewHand
  <2>3. QED
    BY <2>2 DEF TkLeft
<1>4. [hand[t] EXCEPT !.ran = @ + 1] \in TkHand
  BY <1>1 DEF TkHand
<1>5. TkNextTask(t) \in TkIdle
  BY DEF TkNextTask, TkIdle
<1>6. QED
  BY <1>2, <1>3, <1>4, <1>5

LEMMA TkPlacesAre ==
    /\ {"malloc", "gone", "uid", "execute", "set", "destroy"} \subseteq TkPlaces \ TkInside
    /\ {"malloc", "gone", "uid", "compare", "execute", "set", "destroy"} \cap TkInside = {}
    /\ {"uid", "compare", "execute", "set", "destroy"} \cap TkIdle = {}
    /\ TkIdle = {"malloc", "gone"}
  BY DEF TkPlaces, TkInside, TkIdle

LEMMA TkStep == ASSUME TkInv, NEW t \in TkMakers, TaskMaker(t) PROVE TkInv'
<1> USE TkHolds, TkHandsOn, TkPlacesAre
<1>0. t # ThMain
  BY DEF TkMakers, ThMain
<1>1. CASE Moves(t, "malloc", "uid") /\ Sets([shared EXCEPT !.blocks = @ \cup {t}])
  <2>1. TkHolding(t) /\ shared' = [shared EXCEPT !.blocks = shared.blocks \cup {t}]
    BY <1>1 DEF Sets
  <2>2. QED
    BY <1>1, <2>1, TkAllocates
<1>2. CASE /\ Moves(t, "malloc", TkNextTask(t)) /\ UNCHANGED shared
           /\ Holds(t, [hand[t] EXCEPT !.made = @ + 1])
  <2>1. TkHolding(t)
    BY <1>2
  <2>2. QED
    BY <1>2, <2>1, TkWalks
<1>3. CASE UidCreate(t)
  <2>1. CASE TakesMutex(t, "uid", "count") \/ GivesMutex(t, "unlock", "compare")
    BY <2>1, TkLocks
  <2>2. CASE /\ Moves(t, "count", "increment") /\ UNCHANGED shared
             /\ Holds(t, [hand[t] EXCEPT !.count = shared.count_st])
    BY <2>2, TkReadsCount
  <2>3. CASE Moves(t, "increment", "time") /\ Sets([shared EXCEPT !.count_st = @ + 1])
    BY <2>3, TkIncrements
  <2>4. CASE /\ Moves(t, "time", "unlock") /\ UNCHANGED shared
             /\ \E failed \in BOOLEAN :
                   Holds(t, [hand[t] EXCEPT !.uid = IF failed THEN UID_BAD ELSE hand[t].count])
    BY <2>4, TkTimes
  <2>5. QED
    BY <1>3, <2>1, <2>2, <2>3, <2>4 DEF UidCreate
<1>4. CASE Moves(t, "compare", "destroy") /\ Nothing
  BY <1>4, TkWalks DEF Nothing
<1>5. CASE /\ ~UidIsEqual(UID_BAD, hand[t].uid) /\ Moves(t, "compare", "execute") /\ UNCHANGED hand
           /\ shared' = [shared EXCEPT !.uids = Append(@, hand[t].uid)]
  BY <1>5, TkGivesUid DEF UidIsEqual
<1>6. CASE TaskExecute(t)
  <2>1. PICK again \in BOOLEAN :
             /\ Moves(t, "execute", IF again THEN "set" ELSE "destroy")
             /\ Holds(t, [hand[t] EXCEPT !.ran = @ + 1])
    BY <1>6 DEF TaskExecute
  <2>2. TkHolding(t) /\ UNCHANGED shared
    BY <1>6, <2>1 DEF TaskExecute
  <2>3. QED
    BY <2>1, <2>2, TkWalks
<1>7. CASE TaskSetExecuteTime(t)
  BY <1>7, TkWalks DEF TaskSetExecuteTime, Nothing
<1>8. CASE TaskDestroy(t)
  <2>1. /\ TkHolding(t) /\ shared' = [shared EXCEPT !.blocks = shared.blocks \ {t}]
        /\ Moves(t, "destroy", TkNextTask(t))
    BY <1>8 DEF TaskDestroy
  <2> DEFINE to == TkNextTask(t)
             b == shared.blocks \ {t}
  <2>2. /\ to \in TkPlaces \ TkInside /\ to # "compare" /\ to \in TkIdle
        /\ shared' = [shared EXCEPT !.blocks = b]
    BY <2>1
  <2>3. b = shared.blocks \ {t} /\ Moves(t, "destroy", to)
    BY <2>1
  <2> HIDE DEF to, b
  <2>4. QED
    BY <2>1, <2>2, <2>3, TkAllocates
<1>9. TaskCreate(t) \/ TaskExecute(t) \/ TaskSetExecuteTime(t) \/ TaskDestroy(t)
  BY <1>0 DEF TaskMaker
<1>10. CASE TaskCreate(t)
  BY <1>1, <1>2, <1>3, <1>4, <1>5, <1>10 DEF TaskCreate
<1>11. QED
  BY <1>6, <1>7, <1>8, <1>9, <1>10

LEMMA TkJoins == ASSUME TkInv, TaskMaker(1) PROVE TkInv'
<1>1. Moves(1, "join", "gone") /\ UNCHANGED <<shared, hand>>
  BY DEF TaskMaker, ThMain, Nothing
<1>2. /\ at' \in [1..3 -> TkPlaces] /\ at'[1] = "gone"
      /\ \A t \in TkMakers : at'[t] = at[t]
  BY <1>1 DEF TkInv, TkTypes, Moves, TkPlaces, TkMakers
<1>3. TkPendings' = TkPendings
  BY <1>1, <1>2 DEF TkPendings
<1>4. QED
  BY <1>1, <1>2, <1>3 DEF TkInv, TkTypes, TkLocked, TkBlocks, TkReads, TkFresh

LEMMA TkRight == ASSUME TkInv PROVE TasksHaveTheirUids
<1>1. IsInjective(shared.uids)
  BY DEF TkInv, TkFresh
<1>2. ThOthers = TkMakers
  BY DEF ThOthers, ThMain, TkMakers, TkInv, TkTypes
<1>3. shared.blocks = {t \in TkMakers : at[t] \notin {"malloc", "gone"}}
  <2>1. shared.blocks \subseteq TkMakers
    BY DEF TkInv, TkTypes, TkRecords
  <2>2. QED
    BY <2>1 DEF TkInv, TkBlocks, TkIdle
<1>4. shared.mutex # Free => at[shared.mutex] \in {"count", "increment", "time", "unlock"}
  <2>1. shared.mutex \in {Free, 2, 3}
    BY DEF TkInv, TkTypes, TkRecords
  <2>2. QED
    BY <2>1 DEF TkInv, TkLocked, TkInside, TkMakers
<1>5. QED
  BY <1>1, <1>2, <1>3, <1>4 DEF TasksHaveTheirUids

-----------------------------------------------------------------------------
\* mt_count_sort_fix.c: the chunks of the threads are the file, byte by byte.
CsCount(s, b) == Cardinality({k \in DOMAIN s : s[k] = b})

LEMMA CsOccurs == ASSUME NEW s PROVE Occurrences(s) = [b \in CsBytes |-> CsCount(s, b)]
  BY DEF Occurrences, Quantify, CsCount

LEMMA CsFinite == ASSUME NEW s \in Seq(CsChars), NEW b PROVE CsCount(s, b) \in Nat
<1>1. IsFiniteSet(1 .. Len(s)) /\ DOMAIN s = 1 .. Len(s)
  BY FS_Interval
<1>2. IsFiniteSet({k \in DOMAIN s : s[k] = b})
  BY <1>1, FS_Subset
<1>3. QED
  BY <1>2, FS_CardinalityType DEF CsCount

\* B is A, c further on.
CsShift(A, B, c) == /\ A \subseteq Int /\ B \subseteq Int
                    /\ \A k \in Int : k \in A <=> k + c \in B

LEMMA CsShifts ==
    ASSUME NEW A, NEW B, IsFiniteSet(A), NEW c \in Int, CsShift(A, B, c)
    PROVE IsFiniteSet(B) /\ Cardinality(B) = Cardinality(A)
<1> USE DEF CsShift
<1> DEFINE f == [k \in A |-> k + c]
<1>1. f \in Bijection(A, B)
  <2>1. f \in [A -> B]
    OBVIOUS
  <2>2. \A j, k \in A : f[j] = f[k] => j = k
    OBVIOUS
  <2>3. ASSUME NEW y \in B PROVE \E k \in A : f[k] = y
    <3>1. y - c \in Int /\ (y - c) + c = y
      OBVIOUS
    <3>2. y - c \in A
      BY <3>1
    <3>3. f[y - c] = y
      BY <3>1, <3>2
    <3>4. QED
      BY <3>2, <3>3
  <2> HIDE DEF f
  <2>4. f \in Injection(A, B)
    BY <2>1, <2>2 DEF Injection, IsInjective
  <2>5. f \in Surjection(A, B)
    BY <2>1, <2>3 DEF Surjection
  <2>6. QED
    BY <2>4, <2>5 DEF Bijection
<1>2. ExistsBijection(A, B)
  BY <1>1 DEF ExistsBijection
<1>3. QED
  BY <1>2, FS_Bijection

LEMMA CsSplits ==
    ASSUME NEW s \in Seq(CsChars), NEW b
    PROVE CsCount(s, b) = CsCount(ChunkOf(1, s), b) + CsCount(ChunkOf(2, s), b)
<1> DEFINE n == Len(s)
           c == n \div 2
           u == ChunkOf(1, s)
           v == ChunkOf(2, s)
           U == {k \in DOMAIN u : u[k] = b}
           V == {k \in DOMAIN v : v[k] = b}
           W == {k \in c + 1 .. n : s[k] = b}
<1>1. n \in Nat /\ c \in Nat /\ 2 * c <= n /\ c + (c + (n % 2)) = n /\ n % 2 \in Nat
  OBVIOUS
<1>2. DOMAIN s = 1 .. n
  OBVIOUS
<1>3. u = SubSeq(s, 1, c)
  BY <1>1 DEF ChunkOf, CsThreads
<1>4. v = SubSeq(s, c + 1, n)
  BY <1>1 DEF ChunkOf, CsThreads
<1> HIDE DEF n, c, u, v
<1>5. DOMAIN u = 1 .. c /\ \A k \in 1 .. c : u[k] = s[k]
  <2>1. u \in Seq(CsChars) /\ Len(u) = c
    BY <1>1, <1>3 DEF n
  <2>2. \A k \in 1 .. c : u[k] = s[k]
    BY <1>1, <1>3 DEF n
  <2>3. QED
    BY <2>1, <2>2
<1>6. DOMAIN v = 1 .. n - c /\ \A k \in 1 .. n - c : v[k] = s[k + c]
  <2>1. v \in Seq(CsChars) /\ Len(v) = n - c
    BY <1>1, <1>4 DEF n
  <2>2. \A k \in 1 .. n - c : v[k] = s[k + c]
    BY <1>1, <1>4 DEF n
  <2>3. QED
    BY <2>1, <2>2
<1>7. U = {k \in 1 .. c : s[k] = b}
  BY <1>5
<1>8. \A k \in Int : k \in V <=> k + c \in W
  BY <1>1, <1>6
<1>9. {k \in DOMAIN s : s[k] = b} = U \cup W /\ U \cap W = {}
  BY <1>1, <1>2, <1>7
<1>10. IsFiniteSet(U) /\ IsFiniteSet(V)
  <2>1. IsFiniteSet(1 .. c) /\ IsFiniteSet(1 .. n - c)
    BY <1>1, FS_Interval
  <2>2. U \subseteq 1 .. c /\ V \subseteq 1 .. n - c
    BY <1>5, <1>6
  <2> HIDE DEF U, V
  <2>3. QED
    BY <2>1, <2>2, FS_Subset
<1>11. U \subseteq Int /\ V \subseteq Int /\ W \subseteq Int
  BY <1>1, <1>5, <1>6
<1> HIDE DEF U, V, W
<1>12. IsFiniteSet(W) /\ Cardinality(W) = Cardinality(V)
  <2>1. CsShift(V, W, c) /\ c \in Int
    BY <1>1, <1>8, <1>11 DEF CsShift
  <2>2. QED
    BY <1>10, <2>1, CsShifts
<1>13. Cardinality(U \cup W) = Cardinality(U) + Cardinality(W)
  <2>1. Cardinality(U \cup W) = Cardinality(U) + Cardinality(W) - Cardinality(U \cap W)
    BY <1>10, <1>12, FS_Union
  <2>2. Cardinality(U \cap W) = 0
    BY <1>9, FS_EmptySet
  <2>3. Cardinality(U) \in Nat /\ Cardinality(W) \in Nat
    BY <1>10, <1>12, FS_CardinalityType
  <2>4. QED
    BY <2>1, <2>2, <2>3
<1>14. /\ CsCount(s, b) = Cardinality(U \cup W) /\ CsCount(u, b) = Cardinality(U)
       /\ CsCount(v, b) = Cardinality(V)
  BY <1>9 DEF CsCount, U, V
<1>15. QED
  BY <1>12, <1>13, <1>14 DEF u, v

CsLocal(t, data) == Occurrences(ChunkOf(t, data))
CsTables == [CsBytes -> Int]

LEMMA CsAdds ==
    ASSUME NEW s \in Seq(CsChars)
    PROVE /\ \A t \in {1, 2} : CsLocal(t, s) \in CsTables
          /\ \A b \in CsBytes : Occurrences(s)[b] = CsLocal(1, s)[b] + CsLocal(2, s)[b]
<1>1. ASSUME NEW t \in {1, 2} PROVE ChunkOf(t, s) \in Seq(CsChars)
  <2> DEFINE n == Len(s)
             c == n \div 2
  <2>1. n \in Nat /\ c \in Nat /\ 2 * c <= n /\ c + (c + (n % 2)) = n
    OBVIOUS
  <2>2. ChunkOf(1, s) = SubSeq(s, 1, c) /\ ChunkOf(2, s) = SubSeq(s, c + 1, n)
    BY <2>1 DEF ChunkOf, CsThreads
  <2> HIDE DEF n, c
  <2>3. SubSeq(s, 1, c) \in Seq(CsChars) /\ SubSeq(s, c + 1, n) \in Seq(CsChars)
    BY <2>1 DEF n
  <2>4. QED
    BY <2>2, <2>3
<1>2. \A t \in {1, 2} : CsLocal(t, s) \in CsTables
  BY <1>1, CsOccurs, CsFinite DEF CsLocal, CsTables
<1>3. \A b \in CsBytes : Occurrences(s)[b] = CsLocal(1, s)[b] + CsLocal(2, s)[b]
  BY CsOccurs, CsSplits DEF CsLocal
<1>4. QED
  BY <1>2, <1>3

-----------------------------------------------------------------------------
\* The general histogram is, byte by byte, what the threads have added; under
\* the mutex, so that none is added to what another has read.
CsPlaces  == {"count", "lock", "read", "write", "unlock", "free", "join", "gone"}
CsInside  == {"read", "write", "unlock"}
CsHand    == [histogram_local : CsTables, i : Nat, sum : Int]
CsRecords == [mutex : {Free, 1, 2}, data : Seq(CsChars), histogram_general : CsTables]
CsTypes   == at \in [1..3 -> CsPlaces] /\ hand \in [1..3 -> CsHand] /\ shared \in CsRecords

\* What thread t has added to entry b, i entries done.
CsAdded(local, n, b) == IF b < n THEN local[b] ELSE 0
CsSums(table, local, n) ==
    \A b \in CsBytes : table[b] = CsAdded(local[1], n[1], b) + CsAdded(local[2], n[2], b)

\* A thread at a place, its hand being h.
CsThreadIs(place, h, local, table) ==
    /\ place # "count" => h.histogram_local = local
    /\ place \in {"count", "lock"} => h.i = 0
    /\ h.i <= CsLast + 1
    /\ place = "write" => h.i \in CsBytes /\ h.sum = table[h.i] + local[h.i]
    /\ place \in {"unlock", "free", "gone"} => h.i = CsLast + 1

CsLocals == [t \in {1, 2} |-> CsLocal(t, shared.data)]
CsDone   == [t \in {1, 2} |-> hand[t].i]
CsLocked == \A t \in {1, 2} : at[t] # "join" /\ (at[t] \in CsInside <=> shared.mutex = t)
CsThreadsAre ==
    \A t \in {1, 2} : CsThreadIs(at[t], hand[t], CsLocals[t], shared.histogram_general)
CsInv == /\ CsTypes /\ CsLocked /\ CsThreadsAre
         /\ CsSums(shared.histogram_general, CsLocals, CsDone)
         /\ at[3] \in {"join", "gone"}
         /\ at[3] = "gone" => at[1] = "gone" /\ at[2] = "gone"

LEMMA CsRight == ASSUME CsInv PROVE HistogramIsRight
<1> SUFFICES ASSUME at[CsMain] = "gone"
             PROVE shared.histogram_general = Occurrences(shared.data)
  BY DEF HistogramIsRight
<1> DEFINE H == shared.histogram_general
           s == shared.data
<1>1. H \in CsTables /\ s \in Seq(CsChars)
  BY DEF CsInv, CsTypes, CsRecords
<1>2. at[1] = "gone" /\ at[2] = "gone"
  BY DEF CsInv, CsMain
<1>3. CsDone[1] = CsLast + 1 /\ CsDone[2] = CsLast + 1
  BY <1>2 DEF CsInv, CsThreadsAre, CsThreadIs, CsDone
<1>4. CsLast \in Nat
  BY ProcessesAssumption
<1>5. ASSUME NEW b \in CsBytes PROVE H[b] = Occurrences(s)[b]
  <2>1. b < CsLast + 1
    BY <1>4 DEF CsBytes
  <2>2. H[b] = CsAdded(CsLocals[1], CsDone[1], b) + CsAdded(CsLocals[2], CsDone[2], b)
    BY DEF CsInv, CsSums
  <2>3. H[b] = CsLocals[1][b] + CsLocals[2][b]
    BY <1>3, <2>1, <2>2 DEF CsAdded
  <2>4. CsLocals[1] = CsLocal(1, s) /\ CsLocals[2] = CsLocal(2, s)
    BY DEF CsLocals
  <2>5. QED
    BY <1>1, <2>3, <2>4, CsAdds
<1>6. Occurrences(s) = [b \in CsBytes |-> Occurrences(s)[b]]
  BY CsOccurs
<1>7. H = [b \in CsBytes |-> H[b]]
  BY <1>1 DEF CsTables
<1>8. QED
  BY <1>5, <1>6, <1>7

LEMMA CsBegins == ASSUME PrInit, game = "count_sort" PROVE CsInv
<1>1. /\ at = [t \in 1..3 |-> IF t = 3 THEN "join" ELSE "count"]
      /\ hand = [t \in 1..3 |-> [histogram_local |-> [b \in CsBytes |-> 0], i |-> 0, sum |-> 0]]
      /\ \E n \in 1..CsSize : \E data \in [1..n -> CsChars] : shared = CsShared(data)
  BY DEF PrInit, PrOf, PrFirst, CsMain
<1>2. PICK n \in 1..CsSize : \E data \in [1..n -> CsChars] : shared = CsShared(data)
  BY <1>1
<1>3. PICK data \in [1..n -> CsChars] : shared = CsShared(data)
  BY <1>2
<1> DEFINE zero == [b \in CsBytes |-> 0]
<1>4. data \in Seq(CsChars)
  <2>1. n \in Nat
    BY ProcessesAssumption
  <2>2. QED
    BY <2>1
<1>5. zero \in CsTables /\ \A b \in CsBytes : zero[b] = 0
  BY DEF CsTables
<1>6. /\ hand = [t \in 1..3 |-> [histogram_local |-> zero, i |-> 0, sum |-> 0]]
      /\ shared = [mutex |-> Free, data |-> data, histogram_general |-> zero]
  BY <1>1, <1>3 DEF CsShared
<1> HIDE DEF zero
<1>7. hand \in [1..3 -> CsHand] /\ \A t \in 1..3 : hand[t].i = 0
  BY <1>5, <1>6 DEF CsHand
<1>8. shared \in CsRecords /\ shared.mutex = Free /\ shared.histogram_general = zero
  BY <1>4, <1>5, <1>6 DEF CsRecords
<1>9. /\ at \in [1..3 -> CsPlaces] /\ at[3] = "join" /\ at[1] = "count" /\ at[2] = "count"
  BY <1>1 DEF CsPlaces
<1>10. CsDone[1] = 0 /\ CsDone[2] = 0
  BY <1>7 DEF CsDone
<1>11. CsSums(zero, CsLocals, CsDone)
  <2>1. ASSUME NEW b \in CsBytes
        PROVE zero[b] = CsAdded(CsLocals[1], CsDone[1], b) + CsAdded(CsLocals[2], CsDone[2], b)
    <3>1. ~(b < 0)
      BY DEF CsBytes
    <3>2. QED
      BY <1>5, <1>10, <3>1 DEF CsAdded
  <2>2. QED
    BY <2>1 DEF CsSums
<1>12. CsLocked
  BY <1>8, <1>9 DEF CsLocked, CsInside, Free
<1>13. CsThreadsAre
  BY <1>7, <1>9, ProcessesAssumption DEF CsThreadsAre, CsThreadIs
<1>14. QED
  BY <1>7, <1>8, <1>9, <1>11, <1>12, <1>13 DEF CsInv, CsTypes

CsTurns(t, from, to) ==
    \/ shared'.mutex = shared.mutex /\ (from \in CsInside <=> to \in CsInside)
    \/ shared.mutex = Free /\ shared'.mutex = t /\ to \in CsInside
    \/ from \in CsInside /\ shared'.mutex = Free /\ to \notin CsInside
CsHolding(t) == hand' \in [1..3 -> CsHand] /\ \A u \in 1..3 \ {t} : hand'[u] = hand[u]

LEMMA CsMoved ==
    ASSUME CsInv, NEW t \in {1, 2}, NEW from, NEW to \in CsPlaces, Moves(t, from, to),
           from # "gone", to # "join", CsHolding(t), CsTurns(t, from, to),
           shared' \in CsRecords, shared'.data = shared.data,
           shared'.histogram_general = shared.histogram_general \/ from = "write",
           CsThreadIs(to, hand'[t], CsLocals[t], shared'.histogram_general),
           CsSums(shared'.histogram_general, CsLocals, CsDone')
    PROVE CsInv'
<1>1. at \in [1..3 -> CsPlaces] /\ t \in 1..3 /\ {1, 2} \subseteq 1..3 /\ t # 3
  BY DEF CsInv, CsTypes
<1>2. /\ at' \in [1..3 -> CsPlaces] /\ at[t] = from /\ at'[t] = to
      /\ \A u \in 1..3 \ {t} : at'[u] = at[u]
  BY <1>1 DEF Moves
<1>3. hand' \in [1..3 -> CsHand] /\ \A u \in 1..3 \ {t} : hand'[u] = hand[u]
  BY DEF CsHolding
<1>4. CsLocals' = CsLocals
  BY DEF CsLocals
<1>5. CsLocked'
  <2>1. \A u \in {1, 2} : at[u] # "join" /\ (at[u] \in CsInside <=> shared.mutex = u)
    BY DEF CsInv, CsLocked
  <2>2. Free \notin {1, 2}
    BY DEF Free
  <2>3. \A u \in {1, 2} : at'[u] # "join"
    BY <1>1, <1>2, <2>1
  <2>4. \A u \in {1, 2} : at'[u] \in CsInside <=> shared'.mutex = u
    BY <1>1, <1>2, <2>1, <2>2 DEF CsTurns
  <2>5. QED
    BY <2>3, <2>4 DEF CsLocked
<1>6. CsThreadsAre'
  <2>1. ASSUME NEW u \in {1, 2}
        PROVE CsThreadIs(at'[u], hand'[u], CsLocals[u], shared'.histogram_general)
    <3>1. CASE u = t
      BY <1>2, <3>1
    <3>2. CASE u # t
      <4>1. at'[u] = at[u] /\ hand'[u] = hand[u]
        BY <1>1, <1>2, <1>3, <3>2
      <4>2. CsThreadIs(at[u], hand[u], CsLocals[u], shared.histogram_general)
        BY DEF CsInv, CsThreadsAre
      <4>3. at[u] = "write" => shared'.histogram_general = shared.histogram_general
        <5>1. \A w \in {1, 2} : at[w] \in CsInside <=> shared.mutex = w
          BY DEF CsInv, CsLocked
        <5>2. "write" \in CsInside
          BY DEF CsInside
        <5>3. QED
          BY <1>2, <3>2, <5>1, <5>2
      <4>4. QED
        BY <4>1, <4>2, <4>3 DEF CsThreadIs
    <3>3. QED
      BY <3>1, <3>2
  <2>2. QED
    BY <1>4, <2>1 DEF CsThreadsAre, CsThreadIs
<1>7. CsSums(shared.histogram_general, CsLocals, CsDone)'
  BY <1>4 DEF CsSums, CsAdded
<1>8. at'[3] \in {"join", "gone"} /\ (at'[3] = "gone" => at'[1] = "gone" /\ at'[2] = "gone")
  <2>1. at'[3] = at[3] /\ at[3] # "gone"
    BY <1>1, <1>2 DEF CsInv
  <2>2. QED
    BY <2>1 DEF CsInv
<1>9. QED
  BY <1>2, <1>3, <1>5, <1>6, <1>7, <1>8 DEF CsInv, CsTypes

LEMMA CsFacts ==
    ASSUME CsInv, NEW t \in {1, 2}
    PROVE /\ hand \in [1..3 -> CsHand] /\ hand[t] \in CsHand /\ t \in 1..3 /\ shared \in CsRecords
          /\ shared.histogram_general \in CsTables /\ CsLocals[t] \in CsTables
          /\ CsThreadIs(at[t], hand[t], CsLocals[t], shared.histogram_general)
          /\ CsSums(shared.histogram_general, CsLocals, CsDone)
          /\ CsLocals[t] = CsLocal(t, shared.data)
          /\ UNCHANGED hand => CsHolding(t) /\ CsDone' = CsDone
          /\ \A h \in CsHand : Holds(t, h) =>
                CsHolding(t) /\ hand'[t] = h /\ CsDone' = [CsDone EXCEPT ![t] = h.i]
<1>1. hand \in [1..3 -> CsHand] /\ t \in 1..3 /\ shared \in CsRecords
  BY DEF CsInv, CsTypes
<1>2. shared.histogram_general \in CsTables /\ shared.data \in Seq(CsChars)
  BY <1>1 DEF CsRecords
<1>3. CsLocals[t] = CsLocal(t, shared.data)
  BY DEF CsLocals
<1>4. CsLocals[t] \in CsTables
  BY <1>2, <1>3, CsAdds
<1>5. UNCHANGED hand => CsHolding(t) /\ CsDone' = CsDone
  BY <1>1 DEF CsHolding, CsDone
<1>6. ASSUME NEW h \in CsHand, Holds(t, h)
      PROVE CsHolding(t) /\ hand'[t] = h /\ CsDone' = [CsDone EXCEPT ![t] = h.i]
  <2>1. hand' = [hand EXCEPT ![t] = h]
    BY <1>6 DEF Holds
  <2>2. hand' \in [1..3 -> CsHand] /\ hand'[t] = h /\ \A u \in 1..3 \ {t} : hand'[u] = hand[u]
    BY <1>1, <1>6, <2>1
  <2>3. CsDone' = [u \in {1, 2} |-> hand'[u].i]
    BY DEF CsDone
  <2>4. \A u \in {1, 2} : hand'[u].i = IF u = t THEN h.i ELSE CsDone[u]
    BY <2>2 DEF CsDone
  <2>5. CsDone' = [CsDone EXCEPT ![t] = h.i]
    BY <2>3, <2>4 DEF CsDone
  <2>6. QED
    BY <2>2, <2>5 DEF CsHolding
<1>7. QED
  BY <1>1, <1>2, <1>3, <1>4, <1>5, <1>6 DEF CsInv, CsThreadsAre

LEMMA CsMutex ==
    ASSUME shared \in CsRecords, NEW m \in {Free, 1, 2}, shared' = [shared EXCEPT !.mutex = m]
    PROVE /\ shared' \in CsRecords /\ shared'.mutex = m /\ shared'.data = shared.data
          /\ shared'.histogram_general = shared.histogram_general
  BY DEF CsRecords

LEMMA CsTable ==
    ASSUME shared \in CsRecords, NEW f \in CsTables, shared' = [shared EXCEPT !.histogram_general = f]
    PROVE /\ shared' \in CsRecords /\ shared'.mutex = shared.mutex /\ shared'.data = shared.data
          /\ shared'.histogram_general = f
  BY DEF CsRecords

\* The local histogram is made.
LEMMA CsCounts ==
    ASSUME CsInv, NEW t \in {1, 2}, Moves(t, "count", "lock"), UNCHANGED shared,
           Holds(t, [histogram_local |-> CsLocal(t, shared.data), i |-> 0, sum |-> 0])
    PROVE CsInv'
<1> DEFINE h == [histogram_local |-> CsLocals[t], i |-> 0, sum |-> 0]
<1>1. /\ CsLocals[t] \in CsTables /\ CsLocals[t] = CsLocal(t, shared.data) /\ shared \in CsRecords
      /\ CsSums(shared.histogram_general, CsLocals, CsDone) /\ hand[t].i = 0
  <2>1. at[t] = "count"
    BY DEF Moves
  <2>2. CsThreadIs(at[t], hand[t], CsLocals[t], shared.histogram_general)
    BY CsFacts
  <2>3. hand[t].i = 0
    BY <2>1, <2>2 DEF CsThreadIs
  <2>4. QED
    BY <2>3, CsFacts
<1>2. h \in CsHand /\ h.i = 0 /\ h.histogram_local = CsLocals[t] /\ Holds(t, h)
  BY <1>1 DEF CsHand
<1> HIDE DEF h
<1>3. CsHolding(t) /\ hand'[t] = h /\ CsDone' = [CsDone EXCEPT ![t] = 0]
  BY <1>2, CsFacts
<1>4. CsDone' = CsDone
  BY <1>1, <1>3 DEF CsDone
<1>5. CsThreadIs("lock", hand'[t], CsLocals[t], shared'.histogram_general)
  BY <1>2, <1>3, ProcessesAssumption DEF CsThreadIs
<1>6. CsTurns(t, "count", "lock") /\ "lock" \in CsPlaces
  BY DEF CsTurns, CsInside, CsPlaces
<1>7. QED
  BY <1>1, <1>3, <1>4, <1>5, <1>6, CsMoved

LEMMA CsLocks ==
    ASSUME CsInv, NEW t \in {1, 2}, TakesMutex(t, "lock", "read") \/ GivesMutex(t, "unlock", "free")
    PROVE CsInv'
<1>1. /\ UNCHANGED hand /\ CsHolding(t) /\ CsDone' = CsDone /\ hand'[t] = hand[t]
      /\ shared \in CsRecords /\ t \in {Free, 1, 2} /\ Free \in {Free, 1, 2}
      /\ CsSums(shared.histogram_general, CsLocals, CsDone)
      /\ CsThreadIs(at[t], hand[t], CsLocals[t], shared.histogram_general)
  BY CsFacts DEF TakesMutex, GivesMutex, Sets
<1>2. CASE TakesMutex(t, "lock", "read")
  <2>1. /\ Moves(t, "lock", "read") /\ shared' = [shared EXCEPT !.mutex = t]
        /\ shared.mutex = Free /\ "read" \in CsPlaces /\ at[t] = "lock"
    BY <1>2 DEF TakesMutex, Sets, CsPlaces, Moves
  <2>2. /\ shared' \in CsRecords /\ shared'.mutex = t /\ shared'.data = shared.data
        /\ shared'.histogram_general = shared.histogram_general
    BY <1>1, <2>1, CsMutex
  <2>3. CsTurns(t, "lock", "read")
    BY <2>1, <2>2 DEF CsTurns, CsInside
  <2>4. CsThreadIs("read", hand'[t], CsLocals[t], shared'.histogram_general)
    BY <1>1, <2>1, <2>2 DEF CsThreadIs
  <2>5. QED
    BY <1>1, <2>1, <2>2, <2>3, <2>4, CsMoved
<1>3. CASE GivesMutex(t, "unlock", "free")
  <2>1. /\ Moves(t, "unlock", "free") /\ shared' = [shared EXCEPT !.mutex = Free]
        /\ "free" \in CsPlaces /\ at[t] = "unlock"
    BY <1>3 DEF GivesMutex, Sets, CsPlaces, Moves
  <2>2. /\ shared' \in CsRecords /\ shared'.mutex = Free /\ shared'.data = shared.data
        /\ shared'.histogram_general = shared.histogram_general
    BY <1>1, <2>1, CsMutex
  <2>3. CsTurns(t, "unlock", "free")
    BY <2>1, <2>2 DEF CsTurns, CsInside
  <2>4. CsThreadIs("free", hand'[t], CsLocals[t], shared'.histogram_general)
    BY <1>1, <2>1, <2>2 DEF CsThreadIs
  <2>5. QED
    BY <1>1, <2>1, <2>2, <2>3, <2>4, CsMoved
<1>4. QED
  BY <1>2, <1>3

\* The next entry is read, or there is none.
LEMMA CsReadsEntry ==
    ASSUME CsInv, NEW t \in {1, 2}, UNCHANGED shared,
           Moves(t, "read", IF hand[t].i \in CsBytes THEN "write" ELSE "unlock"),
           IF hand[t].i \notin CsBytes THEN UNCHANGED hand
           ELSE Holds(t, [hand[t] EXCEPT !.sum = shared.histogram_general[hand[t].i]
                                                 + hand[t].histogram_local[hand[t].i]])
    PROVE CsInv'
<1> DEFINE H == shared.histogram_general
           L == CsLocals[t]
           n == hand[t].i
           v == H[n] + hand[t].histogram_local[n]
           h == [hand[t] EXCEPT !.sum = v]
<1>1. /\ hand[t] \in CsHand /\ shared \in CsRecords /\ H \in CsTables /\ L \in CsTables
      /\ CsThreadIs(at[t], hand[t], L, H) /\ CsSums(H, CsLocals, CsDone)
  BY CsFacts
<1>2. at[t] = "read"
  BY DEF Moves
<1>3. hand[t].histogram_local = L /\ n <= CsLast + 1 /\ n \in Nat /\ CsLast \in Nat
  BY <1>1, <1>2, ProcessesAssumption DEF CsThreadIs, CsHand
<1>4. CASE n \in CsBytes
  <2>1. v \in Int /\ v = H[n] + L[n]
    BY <1>1, <1>3, <1>4 DEF CsTables
  <2>2. Holds(t, h) /\ Moves(t, "read", "write")
    BY <1>4
  <2> HIDE DEF v
  <2>3. h \in CsHand /\ h.i = n /\ h.sum = v /\ h.histogram_local = L
    BY <1>1, <1>3, <2>1 DEF CsHand
  <2> HIDE DEF h
  <2>4. CsHolding(t) /\ hand'[t] = h /\ CsDone' = [CsDone EXCEPT ![t] = n]
    BY <2>2, <2>3, CsFacts
  <2>5. CsDone' = CsDone
    BY <2>4 DEF CsDone
  <2> HIDE DEF n
  <2>6. CsThreadIs("write", h, L, H)
    BY <1>3, <1>4, <2>1, <2>3 DEF CsThreadIs
  <2>7. CsTurns(t, "read", "write") /\ "write" \in CsPlaces
    BY DEF CsTurns, CsInside, CsPlaces
  <2>8. QED
    BY <1>1, <2>2, <2>4, <2>5, <2>6, <2>7, CsMoved
<1>5. CASE n \notin CsBytes
  <2>1. n = CsLast + 1
    BY <1>3, <1>5 DEF CsBytes
  <2>2. UNCHANGED hand /\ Moves(t, "read", "unlock")
    BY <1>5
  <2>3. CsHolding(t) /\ hand'[t] = hand[t] /\ CsDone' = CsDone
    BY <2>2, CsFacts
  <2>4. CsThreadIs("unlock", hand'[t], L, H)
    BY <1>3, <2>1, <2>3 DEF CsThreadIs
  <2>5. CsTurns(t, "read", "unlock") /\ "unlock" \in CsPlaces
    BY DEF CsTurns, CsInside, CsPlaces
  <2>6. QED
    BY <1>1, <2>2, <2>3, <2>4, <2>5, CsMoved
<1>6. QED
  BY <1>4, <1>5

\* Entry n of thread t is added.
LEMMA CsSumsUp ==
    ASSUME NEW H \in CsTables, NEW local \in [{1, 2} -> CsTables], NEW done \in [{1, 2} -> Nat],
           NEW t \in {1, 2}, NEW n \in CsBytes, done[t] = n, CsSums(H, local, done),
           NEW G \in CsTables, G[n] = H[n] + local[t][n],
           \A b \in CsBytes \ {n} : G[b] = H[b],
           NEW next \in [{1, 2} -> Nat], next[t] = n + 1,
           \A u \in {1, 2} \ {t} : next[u] = done[u]
    PROVE CsSums(G, local, next)
<1> SUFFICES ASSUME NEW b \in CsBytes
             PROVE G[b] = CsAdded(local[1], next[1], b) + CsAdded(local[2], next[2], b)
  BY DEF CsSums
<1>1. b \in Int /\ n \in Int
  BY DEF CsBytes
<1>2. H[b] = CsAdded(local[1], done[1], b) + CsAdded(local[2], done[2], b)
  BY DEF CsSums
<1>3. \A u \in {1, 2} \ {t} : CsAdded(local[u], next[u], b) = CsAdded(local[u], done[u], b)
  OBVIOUS
<1>4. \A u \in {1, 2} : CsAdded(local[u], done[u], b) \in Int /\ local[u][b] \in Int
  BY DEF CsAdded, CsTables
<1>5. CASE b = n
  <2>1. CsAdded(local[t], done[t], b) = 0 /\ CsAdded(local[t], next[t], b) = local[t][b]
    BY <1>1, <1>5 DEF CsAdded
  <2>2. G[b] = H[b] + local[t][b]
    BY <1>5
  <2>3. QED
    BY <1>2, <1>3, <1>4, <2>1, <2>2
<1>6. CASE b # n
  <2>1. CsAdded(local[t], next[t], b) = CsAdded(local[t], done[t], b)
    BY <1>1, <1>6 DEF CsAdded
  <2>2. G[b] = H[b]
    BY <1>6
  <2>3. QED
    BY <1>2, <1>3, <1>4, <2>1, <2>2
<1>7. QED
  BY <1>5, <1>6

LEMMA CsWritesEntry ==
    ASSUME CsInv, NEW t \in {1, 2}, Moves(t, "write", "read"), Holds(t, [hand[t] EXCEPT !.i = @ + 1]),
           shared' = [shared EXCEPT !.histogram_general[hand[t].i] = hand[t].sum]
    PROVE CsInv'
<1> DEFINE H == shared.histogram_general
           L == CsLocals[t]
           n == hand[t].i
           m == n + 1
           v == hand[t].sum
           G == [H EXCEPT ![n] = v]
           h == [hand[t] EXCEPT !.i = m]
<1>1. /\ hand[t] \in CsHand /\ shared \in CsRecords /\ H \in CsTables /\ L \in CsTables
      /\ CsThreadIs(at[t], hand[t], L, H) /\ CsSums(H, CsLocals, CsDone)
  BY CsFacts
<1>2. at[t] = "write"
  BY DEF Moves
<1>3. /\ hand[t].histogram_local = L /\ n \in CsBytes /\ n \in Nat /\ CsLast \in Nat
      /\ v = H[n] + L[n] /\ v \in Int
  BY <1>1, <1>2, ProcessesAssumption DEF CsThreadIs, CsHand
<1>4. m \in Nat /\ m <= CsLast + 1
  BY <1>3 DEF CsBytes
<1>5. Holds(t, h) /\ shared' = [shared EXCEPT !.histogram_general = G]
  OBVIOUS
<1> HIDE DEF m, v
<1>6. G \in CsTables /\ G[n] = v /\ \A b \in CsBytes \ {n} : G[b] = H[b]
  BY <1>1, <1>3 DEF CsTables
<1> HIDE DEF G
<1>7. h \in CsHand /\ h.i = m /\ h.histogram_local = L
  BY <1>1, <1>3, <1>4 DEF CsHand
<1> HIDE DEF h
<1>8. CsHolding(t) /\ hand'[t] = h /\ CsDone' = [CsDone EXCEPT ![t] = m]
  BY <1>5, <1>7, CsFacts
<1>9. /\ shared' \in CsRecords /\ shared'.mutex = shared.mutex /\ shared'.data = shared.data
      /\ shared'.histogram_general = G
  BY <1>1, <1>5, <1>6, CsTable
<1>10. CsSums(G, CsLocals, CsDone')
  <2> DEFINE done == CsDone
             next == CsDone'
             local == CsLocals
  <2>1. local \in [{1, 2} -> CsTables]
    BY CsFacts DEF CsLocals
  <2>2. done \in [{1, 2} -> Nat] /\ done[t] = n
    <3>1. \A u \in {1, 2} : hand[u].i \in Nat
      BY CsFacts DEF CsHand
    <3>2. QED
      BY <3>1 DEF CsDone
  <2>3. next = [done EXCEPT ![t] = m]
    BY <1>8
  <2> HIDE DEF next, done, local
  <2>4. /\ next \in [{1, 2} -> Nat] /\ next[t] = m
        /\ \A u \in {1, 2} \ {t} : next[u] = done[u]
    BY <1>4, <2>2, <2>3
  <2>5. CsSums(H, local, done) /\ local[t] = L
    BY <1>1 DEF done, local
  <2> HIDE DEF H, L, n
  <2>6. G[n] = H[n] + local[t][n] /\ next[t] = n + 1
    BY <1>3, <1>6, <2>4, <2>5 DEF m
  <2>7. CsSums(G, local, next)
    BY <1>1, <1>3, <1>6, <2>1, <2>2, <2>4, <2>5, <2>6, CsSumsUp
  <2>8. QED
    BY <2>7 DEF next, local
<1>11. CsThreadIs("read", hand'[t], L, shared'.histogram_general)
  BY <1>4, <1>7, <1>8 DEF CsThreadIs
<1>12. CsTurns(t, "write", "read") /\ "read" \in CsPlaces
  BY <1>9 DEF CsTurns, CsInside, CsPlaces
<1>13. QED
  BY <1>8, <1>9, <1>10, <1>11, <1>12, CsMoved

\* The block is given back, and the thread ends.
LEMMA CsFrees == ASSUME CsInv, NEW t \in {1, 2}, Moves(t, "free", "gone"), Nothing PROVE CsInv'
<1>1. /\ UNCHANGED <<shared, hand>> /\ CsHolding(t) /\ CsDone' = CsDone /\ hand'[t] = hand[t]
      /\ shared \in CsRecords /\ CsSums(shared.histogram_general, CsLocals, CsDone)
      /\ CsThreadIs(at[t], hand[t], CsLocals[t], shared.histogram_general)
  BY CsFacts DEF Nothing
<1>2. at[t] = "free" /\ "gone" \in CsPlaces /\ CsTurns(t, "free", "gone")
  BY <1>1 DEF Moves, CsPlaces, CsTurns, CsInside
<1>3. CsThreadIs("gone", hand'[t], CsLocals[t], shared'.histogram_general)
  BY <1>1, <1>2 DEF CsThreadIs
<1>4. QED
  BY <1>1, <1>2, <1>3, CsMoved

\* A process that crashed stands still; one that did not is as CsInv says.
CsCrashed == \A t \in DOMAIN at : at[t] = "crashed"
CsStands  == DOMAIN at = 1..3 /\ (CsInv \/ CsCrashed)

LEMMA CsCrashes == ASSUME DOMAIN at = 1..3, Crashes PROVE CsStands'
  BY DEF Crashes, CsStands, CsCrashed

LEMMA CsStep == ASSUME CsInv, NEW t \in {1, 2}, CountSort(t) PROVE CsInv' \/ Crashes
<1>1. CountElement(t)
  BY DEF CountSort, CsMain
<1>2. QED
  BY <1>1, CsCounts, CsLocks, CsReadsEntry, CsWritesEntry, CsFrees DEF CountElement, CsLocal

LEMMA CsJoins == ASSUME CsInv, CountSort(3) PROVE CsInv'
<1>1. /\ Moves(3, "join", "gone") /\ UNCHANGED <<shared, hand>>
      /\ at[1] = "gone" /\ at[2] = "gone"
  BY DEF CountSort, CsMain, Nothing
<1>2. /\ at' \in [1..3 -> CsPlaces] /\ at'[3] = "gone" /\ at'[1] = at[1] /\ at'[2] = at[2]
  BY <1>1 DEF CsInv, CsTypes, Moves, CsPlaces
<1>3. CsLocals' = CsLocals /\ CsDone' = CsDone
  BY <1>1 DEF CsLocals, CsDone
<1>4. \A t \in {1, 2} : at'[t] = at[t]
  BY <1>2
<1>5. CsLocked' /\ CsThreadsAre'
  BY <1>1, <1>3, <1>4 DEF CsInv, CsLocked, CsThreadsAre, CsThreadIs
<1>6. CsSums(shared.histogram_general, CsLocals, CsDone)'
  BY <1>1, <1>3 DEF CsInv, CsSums, CsAdded
<1>7. QED
  BY <1>1, <1>2, <1>5, <1>6 DEF CsInv, CsTypes

LEMMA CsKeeps == ASSUME CsStands, NEW t \in 1..3, CountSort(t) PROVE CsStands'
<1>1. CASE CsInv
  <2>1. CsInv' \/ Crashes
    BY <1>1, CsStep, CsJoins
  <2>2. CsInv' => DOMAIN at' = 1..3
    BY DEF CsInv, CsTypes
  <2>3. QED
    BY <2>1, <2>2, CsCrashes DEF CsStands
<1>2. CASE CsCrashed
  <2>1. \A u \in 1..3 : at[u] = "crashed"
    BY <1>2 DEF CsCrashed, CsStands
  <2>2. QED
    BY <2>1 DEF CountSort, CountElement, CsMain, Moves, TakesMutex, GivesMutex
<1>3. QED
  BY <1>1, <1>2 DEF CsStands

-----------------------------------------------------------------------------
\* tmp.c: whoever is between its lock and its unlock is alone, so that what it
\* saw of the buffer is still so when it writes, and the producer finds a place.
SpPlaces  == {"join", "next", "locked", "store", "exchange", "unlock", "gone"}
SpInside  == {"locked", "store", "exchange", "unlock"}
SpWorkers == {2, 3}

SpHand    == [i : 1 .. BUFFER_SIZE + 1, calls : 1 .. SpItems + 1]
SpRecords == [buffer : [1..BUFFER_SIZE -> Nat], lock : BOOLEAN, taken : Seq(Nat)]
SpTypes   == at \in [1..3 -> SpPlaces] /\ hand \in [1..3 -> SpHand] /\ shared \in SpRecords

SpLocked == /\ shared.lock <=> \E t \in SpWorkers : at[t] \in SpInside
            /\ ~(at[2] \in SpInside /\ at[3] \in SpInside)

\* What is so of thread t at a place, of what it has in hand and the buffer b.
SpIs(t, place, h, b) ==
    /\ place \in SpPlaces \ {"join"} /\ (t = 2 => place # "exchange") /\ (t = 3 => place # "store")
    /\ place = "gone" <=> h.calls = SpItems + 1
    /\ place = "next" => h.i = 1
    /\ place = "locked" /\ t = 2 => \A k \in 1 .. h.i - 1 : b[k] # 0
    /\ place = "store" => h.i <= BUFFER_SIZE /\ b[h.i] = 0
    /\ place = "exchange" => h.i <= BUFFER_SIZE /\ b[h.i] # 0

\* How many numbers the producer has stored.
SpStored(place, h) == h.calls - (IF place = "unlock" THEN 0 ELSE 1)

\* The numbers from 1 to m are in the buffer b or the sequence q, each once.
SpHeld(b, q, v) == (\E k \in 1..BUFFER_SIZE : b[k] = v) \/ \E j \in DOMAIN q : q[j] = v
SpOnce(b, q, m) ==
    /\ \A j, k \in 1..BUFFER_SIZE : b[j] # 0 /\ b[j] = b[k] => j = k
    /\ \A j, k \in DOMAIN q : q[j] = q[k] => j = k
    /\ \A k \in 1..BUFFER_SIZE : \A j \in DOMAIN q : b[k] # q[j]
    /\ \A j \in DOMAIN q : q[j] # 0
    /\ \A v \in Nat \ {0} : v \in 1..m <=> SpHeld(b, q, v)

SpInv == /\ SpTypes /\ at[1] \in {"join", "gone"} /\ SpLocked
         /\ \A t \in SpWorkers : SpIs(t, at[t], hand[t], shared.buffer)
         /\ SpOnce(shared.buffer, shared.taken, SpStored(at[2], hand[2]))

LEMMA SpBounds == SpItems \in Nat \ {0} /\ BUFFER_SIZE \in Nat /\ SpItems <= BUFFER_SIZE
  BY MakersAssumption

\* The next number goes to a place that was free.
LEMMA SpStores ==
    ASSUME NEW b \in [1..BUFFER_SIZE -> Nat], NEW q \in Seq(Nat), NEW m \in Nat, SpOnce(b, q, m),
           NEW i \in 1..BUFFER_SIZE, b[i] = 0, NEW c, c = [b EXCEPT ![i] = m + 1]
    PROVE  c \in [1..BUFFER_SIZE -> Nat] /\ SpOnce(c, q, m + 1)
<1>1. m + 1 \in Nat \ {0} /\ m + 1 \notin 1..m /\ BUFFER_SIZE \in Nat
  BY SpBounds
<1>2. ~SpHeld(b, q, m + 1)
  BY <1>1 DEF SpOnce
<1>3. (\A k \in 1..BUFFER_SIZE : b[k] # m + 1) /\ \A j \in DOMAIN q : q[j] # m + 1
  BY <1>2 DEF SpHeld
<1>4. c \in [1..BUFFER_SIZE -> Nat] /\ \A k \in 1..BUFFER_SIZE : c[k] = IF k = i THEN m + 1 ELSE b[k]
  BY <1>1
<1>5. /\ \A j, k \in 1..BUFFER_SIZE : b[j] # 0 /\ b[j] = b[k] => j = k
      /\ \A j, k \in DOMAIN q : q[j] = q[k] => j = k
      /\ \A k \in 1..BUFFER_SIZE : \A j \in DOMAIN q : b[k] # q[j]
      /\ \A j \in DOMAIN q : q[j] # 0
  BY DEF SpOnce
<1>6. \A j, k \in 1..BUFFER_SIZE : c[j] # 0 /\ c[j] = c[k] => j = k
  BY <1>1, <1>3, <1>4, <1>5
<1>7. \A k \in 1..BUFFER_SIZE : \A j \in DOMAIN q : c[k] # q[j]
  BY <1>3, <1>4, <1>5
<1>8. ASSUME NEW v \in Nat \ {0} PROVE v \in 1 .. m + 1 <=> SpHeld(c, q, v)
  <2>1. v \in 1..m <=> SpHeld(b, q, v)
    BY DEF SpOnce
  <2>2. CASE v = m + 1
    <3>1. c[i] = v
      BY <1>4, <2>2
    <3>2. QED
      BY <1>1, <2>2, <3>1 DEF SpHeld
  <2>3. CASE v # m + 1
    <3>1. v \in 1 .. m + 1 <=> v \in 1..m
      BY <2>3
    <3>2. (\E k \in 1..BUFFER_SIZE : c[k] = v) <=> \E k \in 1..BUFFER_SIZE : b[k] = v
      BY <1>4, <2>3
    <3>3. QED
      BY <2>1, <3>1, <3>2 DEF SpHeld
  <2>4. QED
    BY <2>2, <2>3
<1>9. QED
  BY <1>4, <1>5, <1>6, <1>7, <1>8 DEF SpOnce

\* A number goes from the buffer to what was taken.
LEMMA SpTakes ==
    ASSUME NEW b \in [1..BUFFER_SIZE -> Nat], NEW q \in Seq(Nat), NEW m \in Nat, SpOnce(b, q, m),
           NEW i \in 1..BUFFER_SIZE, b[i] # 0, NEW c, c = [b EXCEPT ![i] = 0],
           NEW r, r = Append(q, b[i])
    PROVE  c \in [1..BUFFER_SIZE -> Nat] /\ r \in Seq(Nat) /\ SpOnce(c, r, m)
<1> DEFINE n == Len(q)
<1>1. /\ n \in Nat /\ DOMAIN q = 1..n /\ r \in Seq(Nat) /\ DOMAIN r = 1 .. n + 1
      /\ r[n + 1] = b[i] /\ \A j \in 1..n : r[j] = q[j]
  OBVIOUS
<1>2. \A j \in DOMAIN r : (j \in DOMAIN q /\ r[j] = q[j]) \/ (j = n + 1 /\ r[j] = b[i])
  BY <1>1
<1>3. DOMAIN q \subseteq DOMAIN r /\ n + 1 \in DOMAIN r
  BY <1>1
<1> HIDE DEF n
<1>4. c \in [1..BUFFER_SIZE -> Nat] /\ \A k \in 1..BUFFER_SIZE : c[k] = IF k = i THEN 0 ELSE b[k]
  OBVIOUS
<1>5. /\ \A j, k \in 1..BUFFER_SIZE : b[j] # 0 /\ b[j] = b[k] => j = k
      /\ \A j, k \in DOMAIN q : q[j] = q[k] => j = k
      /\ \A k \in 1..BUFFER_SIZE : \A j \in DOMAIN q : b[k] # q[j]
      /\ \A j \in DOMAIN q : q[j] # 0
  BY DEF SpOnce
<1>6. \A j, k \in 1..BUFFER_SIZE : c[j] # 0 /\ c[j] = c[k] => j = k
  BY <1>4, <1>5
<1>7. \A j, k \in DOMAIN r : r[j] = r[k] => j = k
  BY <1>2, <1>5
<1>8. \A j \in DOMAIN r : r[j] # 0
  BY <1>2, <1>5
<1>9. ASSUME NEW k \in 1..BUFFER_SIZE, NEW j \in DOMAIN r PROVE c[k] # r[j]
  <2>1. CASE k = i
    BY <1>4, <1>8, <2>1
  <2>2. CASE k # i
    <3>1. c[k] = b[k] /\ b[k] # b[i] 
      BY <1>4, <1>5, <2>2
    <3>2. QED
      BY <1>2, <1>5, <3>1
  <2>3. QED
    BY <2>1, <2>2
<1>10. ASSUME NEW v \in Nat \ {0} PROVE v \in 1 .. m <=> SpHeld(c, r, v)
  <2>1. v \in 1..m <=> SpHeld(b, q, v)
    BY DEF SpOnce
  <2>2. SpHeld(b, q, v) => SpHeld(c, r, v)
    <3>1. ASSUME NEW k \in 1..BUFFER_SIZE, b[k] = v PROVE SpHeld(c, r, v)
      <4>1. CASE k = i
        BY <1>1, <1>3, <3>1, <4>1 DEF SpHeld
      <4>2. CASE k # i
        BY <1>4, <3>1, <4>2 DEF SpHeld
      <4>3. QED
        BY <4>1, <4>2
    <3>2. ASSUME NEW j \in DOMAIN q, q[j] = v PROVE SpHeld(c, r, v)
      BY <1>1, <1>3, <3>2 DEF SpHeld
    <3>3. QED
      BY <3>1, <3>2 DEF SpHeld
  <2>3. SpHeld(c, r, v) => SpHeld(b, q, v)
    <3>1. ASSUME NEW k \in 1..BUFFER_SIZE, c[k] = v PROVE SpHeld(b, q, v)
      BY <1>4, <3>1 DEF SpHeld
    <3>2. ASSUME NEW j \in DOMAIN r, r[j] = v PROVE SpHeld(b, q, v)
      BY <1>2, <3>2 DEF SpHeld
    <3>3. QED
      BY <3>1, <3>2 DEF SpHeld
  <2>4. QED
    BY <2>1, <2>2, <2>3
<1>11. QED
  BY <1>1, <1>4, <1>6, <1>7, <1>8, <1>9, <1>10 DEF SpOnce

\* With fewer numbers than places, not all places hold one.
LEMMA SpRoom ==
    ASSUME NEW b \in [1..BUFFER_SIZE -> Nat], NEW q \in Seq(Nat), NEW m \in Nat, SpOnce(b, q, m),
           m < BUFFER_SIZE
    PROVE  \E k \in 1..BUFFER_SIZE : b[k] = 0
<1> SUFFICES ASSUME \A k \in 1..BUFFER_SIZE : b[k] # 0 PROVE FALSE
  OBVIOUS
<1>1. ASSUME NEW k \in 1..BUFFER_SIZE PROVE b[k] \in 1..m
  <2>1. b[k] \in Nat \ {0} /\ SpHeld(b, q, b[k])
    BY DEF SpHeld
  <2>2. QED
    BY <2>1 DEF SpOnce
<1>2. b \in [1..BUFFER_SIZE -> 1..m]
  BY <1>1
<1>3. \A j, k \in 1..BUFFER_SIZE : b[j] = b[k] => j = k
  BY DEF SpOnce
<1>4. b \in Injection(1..BUFFER_SIZE, 1..m)
  BY <1>2, <1>3 DEF Injection, IsInjective
<1>5. /\ IsFiniteSet(1..m) /\ Cardinality(1..m) = m
      /\ Cardinality(1..BUFFER_SIZE) = BUFFER_SIZE
  <2>1. ASSUME NEW n \in Nat PROVE IsFiniteSet(1..n) /\ Cardinality(1..n) = n
    <3>1. 1 \in Int /\ n \in Int
      OBVIOUS
    <3>2. IsFiniteSet(1..n) /\ Cardinality(1..n) = IF 1 > n THEN 0 ELSE n - 1 + 1
      BY ONLY <3>1, FS_Interval
    <3>3. QED
      BY <3>2
  <2>2. BUFFER_SIZE \in Nat
    BY SpBounds
  <2>3. QED
    BY <2>1, <2>2
<1>6. Cardinality(1..BUFFER_SIZE) <= Cardinality(1..m)
  <2> DEFINE S == 1..BUFFER_SIZE
             T == 1..m
  <2>1. b \in Injection(S, T) /\ IsFiniteSet(T)
    BY <1>4, <1>5
  <2> HIDE DEF S, T
  <2>2. Cardinality(S) <= Cardinality(T)
    BY ONLY <2>1, FS_Injection
  <2>3. QED
    BY <2>2 DEF S, T
<1>7. QED
  BY <1>5, <1>6, SpBounds

LEMMA SpBegins == ASSUME ThInit, game = "spinlock" PROVE SpInv
<1>0. SpItems \in Nat \ {0} /\ BUFFER_SIZE \in Nat /\ SpItems <= BUFFER_SIZE
  BY SpBounds
<1>1. /\ shared = [buffer |-> [i \in 1..BUFFER_SIZE |-> 0], lock |-> FALSE, taken |-> <<>>]
      /\ at = <<"join", "next", "next">>
      /\ hand = [t \in 1..3 |-> [i |-> 1, calls |-> 1]]
  BY DEF ThInit, SpInit
<1>2. /\ shared.buffer = [i \in 1..BUFFER_SIZE |-> 0] /\ shared.lock = FALSE /\ shared.taken = <<>>
  BY <1>1
<1>3. shared \in SpRecords
  <2> DEFINE b == [i \in 1..BUFFER_SIZE |-> 0]
  <2>1. b \in [1..BUFFER_SIZE -> Nat]
    OBVIOUS
  <2>2. shared = [buffer |-> b, lock |-> FALSE, taken |-> <<>>]
    BY <1>1
  <2> HIDE DEF b
  <2>3. QED
    BY <2>1, <2>2 DEF SpRecords
<1>4. at \in [1..3 -> SpPlaces] /\ at[1] = "join" /\ at[2] = "next" /\ at[3] = "next"
  BY <1>1 DEF SpPlaces
<1>5. hand \in [1..3 -> SpHand] /\ hand[2].i = 1 /\ hand[2].calls = 1 /\ hand[3].i = 1 /\ hand[3].calls = 1
  BY <1>0, <1>1 DEF SpHand
<1>6. SpLocked
  BY <1>2, <1>4 DEF SpLocked, SpWorkers, SpInside
<1>7. \A t \in SpWorkers : SpIs(t, at[t], hand[t], shared.buffer)
  BY <1>0, <1>4, <1>5 DEF SpIs, SpWorkers, SpPlaces
<1>8. SpOnce(shared.buffer, shared.taken, SpStored(at[2], hand[2]))
  <2>1. SpStored(at[2], hand[2]) = 0
    BY <1>4, <1>5 DEF SpStored
  <2>2. \A k \in 1..BUFFER_SIZE : shared.buffer[k] = 0
    BY <1>2
  <2>3. DOMAIN shared.taken = {}
    BY <1>2
  <2>4. QED
    BY <2>1, <2>2, <2>3 DEF SpOnce, SpHeld
<1>9. QED
  BY <1>3, <1>4, <1>5, <1>6, <1>7, <1>8 DEF SpInv, SpTypes

\* What a step does to the lock, and that only who holds it writes to the buffer.
SpTurns(t, from, to) ==
    \/ shared'.lock = shared.lock /\ (from \in SpInside <=> to \in SpInside)
    \/ ~shared.lock /\ shared'.lock /\ to \in SpInside
    \/ from \in SpInside /\ ~shared'.lock /\ to \notin SpInside
SpHolding(t) == hand' \in [1..3 -> SpHand] /\ \A u \in 1..3 \ {t} : hand'[u] = hand[u]

LEMMA SpMoved ==
    ASSUME SpInv, NEW t \in SpWorkers, NEW from, NEW to \in SpPlaces, Moves(t, from, to),
           shared' \in SpRecords, SpHolding(t), SpTurns(t, from, to),
           shared'.buffer = shared.buffer \/ from \in SpInside,
           SpIs(t, to, hand'[t], shared'.buffer),
           SpOnce(shared'.buffer, shared'.taken, SpStored(at'[2], hand'[2]))
    PROVE SpInv'
<1>1. /\ at \in [1..3 -> SpPlaces] /\ hand \in [1..3 -> SpHand] /\ shared \in SpRecords
      /\ SpWorkers \subseteq 1..3 /\ t # 1 /\ t \in 1..3
  BY DEF SpInv, SpTypes, SpWorkers
<1>2. /\ at' \in [1..3 -> SpPlaces] /\ at[t] = from /\ at'[t] = to
      /\ \A u \in 1..3 \ {t} : at'[u] = at[u]
  BY <1>1 DEF Moves
<1>3. hand' \in [1..3 -> SpHand] /\ \A u \in 1..3 \ {t} : hand'[u] = hand[u]
  BY DEF SpHolding
<1>4. SpLocked'
  <2>1. /\ shared.lock <=> at[2] \in SpInside \/ at[3] \in SpInside
        /\ ~(at[2] \in SpInside /\ at[3] \in SpInside)
    BY DEF SpInv, SpLocked, SpWorkers
  <2>2. /\ shared'.lock <=> at'[2] \in SpInside \/ at'[3] \in SpInside
        /\ ~(at'[2] \in SpInside /\ at'[3] \in SpInside)
    <3>1. CASE t = 2
      <4>1. at[2] = from /\ at'[2] = to /\ at'[3] = at[3]
        BY <1>2, <3>1
      <4>2. QED
        BY <2>1, <4>1 DEF SpTurns
    <3>2. CASE t = 3
      <4>1. at[3] = from /\ at'[3] = to /\ at'[2] = at[2]
        BY <1>2, <3>2
      <4>2. QED
        BY <2>1, <4>1 DEF SpTurns
    <3>3. QED
      BY <3>1, <3>2 DEF SpWorkers
  <2>3. QED
    BY <2>2 DEF SpLocked, SpWorkers
<1>5. ASSUME NEW u \in SpWorkers PROVE SpIs(u, at'[u], hand'[u], shared'.buffer)
  <2>1. CASE u = t
    BY <1>2, <2>1
  <2>2. CASE u # t
    <3>1. at'[u] = at[u] /\ hand'[u] = hand[u] /\ SpIs(u, at[u], hand[u], shared.buffer)
      BY <1>1, <1>2, <1>3, <2>2 DEF SpInv
    <3>2. CASE shared'.buffer = shared.buffer
      BY <3>1, <3>2
    <3>3. CASE from \in SpInside
      <4>1. at[u] \notin SpInside
        BY <1>2, <2>2, <3>3 DEF SpInv, SpLocked, SpWorkers
      <4>2. at[u] \notin {"locked", "store", "exchange"}
        BY <4>1 DEF SpInside
      <4>3. QED
        BY <3>1, <4>2 DEF SpIs
    <3>4. QED
      BY <3>2, <3>3
  <2>3. QED
    BY <2>1, <2>2
<1>6. at'[1] \in {"join", "gone"}
  BY <1>1, <1>2 DEF SpInv
<1>7. QED
  BY <1>2, <1>3, <1>4, <1>5, <1>6 DEF SpInv, SpTypes

\* What the threads know of what they have in hand.
LEMMA SpFacts ==
    ASSUME SpInv, NEW t \in SpWorkers
    PROVE /\ shared \in SpRecords /\ shared.buffer \in [1..BUFFER_SIZE -> Nat] /\ shared.taken \in Seq(Nat)
          /\ hand[t] \in SpHand /\ hand[t].i \in 1 .. BUFFER_SIZE + 1 /\ hand[t].calls \in 1 .. SpItems + 1
          /\ SpIs(t, at[t], hand[t], shared.buffer)
          /\ SpOnce(shared.buffer, shared.taken, SpStored(at[2], hand[2]))
          /\ SpStored(at[2], hand[2]) \in Nat
          /\ UNCHANGED hand => SpHolding(t) /\ hand'[t] = hand[t] /\ hand'[2] = hand[2]
          /\ \A h \in SpHand : Holds(t, h) => SpHolding(t) /\ hand'[t] = h
          /\ \A from, to : Moves(t, from, to) =>
                at[t] = from /\ at'[t] = to /\ (t # 2 => at'[2] = at[2] /\ (SpHolding(t) => hand'[2] = hand[2]))
<1>1. /\ at \in [1..3 -> SpPlaces] /\ hand \in [1..3 -> SpHand] /\ shared \in SpRecords
      /\ t \in 1..3 /\ 2 \in 1..3
  BY DEF SpInv, SpTypes, SpWorkers
<1>2. hand[t] \in SpHand /\ hand[t].i \in 1 .. BUFFER_SIZE + 1 /\ hand[t].calls \in 1 .. SpItems + 1
  BY <1>1 DEF SpHand
<1>3. shared.buffer \in [1..BUFFER_SIZE -> Nat] /\ shared.taken \in Seq(Nat)
  BY <1>1 DEF SpRecords
<1>4. SpStored(at[2], hand[2]) \in Nat
  <2>1. hand[2].calls \in 1 .. SpItems + 1
    BY <1>1 DEF SpHand
  <2>2. QED
    BY <2>1, SpBounds DEF SpStored
<1>5. /\ UNCHANGED hand => SpHolding(t) /\ hand'[t] = hand[t] /\ hand'[2] = hand[2]
      /\ \A h \in SpHand : Holds(t, h) => SpHolding(t) /\ hand'[t] = h
  BY <1>1 DEF SpHolding, Holds
<1>6. \A from, to : Moves(t, from, to) =>
         at[t] = from /\ at'[t] = to /\ (t # 2 => at'[2] = at[2] /\ (SpHolding(t) => hand'[2] = hand[2]))
  BY <1>1 DEF Moves, SpHolding
<1>7. QED
  BY <1>1, <1>2, <1>3, <1>4, <1>5, <1>6 DEF SpInv

\* A step that neither stores nor takes, nor changes what the producer has made.
LEMMA SpGoes ==
    ASSUME SpInv, NEW t \in SpWorkers, NEW from, NEW to \in SpPlaces, Moves(t, from, to),
           shared' \in SpRecords, SpHolding(t), SpTurns(t, from, to),
           shared'.buffer = shared.buffer, shared'.taken = shared.taken,
           SpIs(t, to, hand'[t], shared.buffer),
           t = 2 => SpStored(to, hand'[2]) = SpStored(from, hand[2])
    PROVE SpInv'
<1>1. SpOnce(shared.buffer, shared.taken, SpStored(at[2], hand[2]))
  BY SpFacts
<1>2. SpStored(at'[2], hand'[2]) = SpStored(at[2], hand[2])
  <2>1. CASE t = 2
    BY <2>1, SpFacts
  <2>2. CASE t # 2
    BY <2>2, SpFacts
  <2>3. QED
    BY <2>1, <2>2
<1>3. QED
  BY <1>1, <1>2, SpMoved

LEMMA SpLock ==
    ASSUME SpInv, NEW t \in SpWorkers, SpLocks(t) PROVE SpInv'
<1>1. /\ Moves(t, "next", "locked") /\ shared' = [shared EXCEPT !.lock = TRUE] /\ ~shared.lock
      /\ UNCHANGED hand
  BY DEF SpLocks, Sets
<1>2. /\ shared \in SpRecords /\ SpHolding(t) /\ hand'[t] = hand[t] /\ hand'[2] = hand[2] /\ at[t] = "next"
      /\ SpIs(t, at[t], hand[t], shared.buffer)
  BY <1>1, SpFacts
<1>3. /\ shared' \in SpRecords /\ shared'.lock /\ shared'.buffer = shared.buffer
      /\ shared'.taken = shared.taken
  BY <1>1, <1>2 DEF SpRecords
<1>4. SpTurns(t, "next", "locked") /\ "locked" \in SpPlaces
  BY <1>1, <1>3 DEF SpTurns, SpInside, SpPlaces
<1>5. SpIs(t, "locked", hand'[t], shared.buffer)
  <2>1. hand'[t].i = 1 /\ 1 .. hand'[t].i - 1 = {}
    BY <1>2 DEF SpIs
  <2>2. QED
    BY <1>2, <2>1 DEF SpIs, SpPlaces
<1>6. SpStored("locked", hand'[2]) = SpStored("next", hand[2])
  BY <1>2 DEF SpStored
<1>7. QED
  BY <1>1, <1>2, <1>3, <1>4, <1>5, <1>6, SpGoes

\* The loop over the buffer.  The producer does not come to its end.
LEMMA SpScans ==
    ASSUME SpInv, NEW t \in SpWorkers, NEW those, NEW found,
           \/ t = 2 /\ those = {0} /\ found = "store"
           \/ t = 3 /\ those = 1..SpItems /\ found = "exchange",
           SpScan(t, those, found)
    PROVE SpInv'
<1> DEFINE i == hand[t].i
           b == shared.buffer
<1>1. /\ at[t] = "locked" /\ UNCHANGED shared
      /\ \/ i > BUFFER_SIZE /\ Moves(t, "locked", "unlock") /\ UNCHANGED hand
         \/ /\ i <= BUFFER_SIZE /\ b[i] \in those
            /\ Moves(t, "locked", found) /\ UNCHANGED hand
         \/ /\ i <= BUFFER_SIZE /\ b[i] \notin those
            /\ UNCHANGED at /\ Holds(t, [hand[t] EXCEPT !.i = @ + 1])
  BY DEF SpScan
<1>2. /\ shared \in SpRecords /\ b \in [1..BUFFER_SIZE -> Nat] /\ shared.taken \in Seq(Nat)
      /\ hand[t] \in SpHand /\ i \in 1 .. BUFFER_SIZE + 1 /\ hand[t].calls \in 1 .. SpItems + 1
      /\ SpIs(t, "locked", hand[t], b) /\ BUFFER_SIZE \in Nat
      /\ SpOnce(b, shared.taken, SpStored(at[2], hand[2])) /\ SpStored(at[2], hand[2]) \in Nat
  BY <1>1, SpFacts, SpBounds
<1>3. shared' \in SpRecords /\ shared'.buffer = b /\ shared'.taken = shared.taken /\ shared'.lock = shared.lock
  BY <1>1, <1>2
<1>4. CASE i > BUFFER_SIZE /\ Moves(t, "locked", "unlock") /\ UNCHANGED hand
  <2>1. t # 2
    <3> SUFFICES ASSUME t = 2 PROVE FALSE
      OBVIOUS
    <3>1. i = BUFFER_SIZE + 1 /\ \A k \in 1..BUFFER_SIZE : b[k] # 0
      BY <1>2, <1>4 DEF SpIs
    <3>2. SpStored(at[2], hand[2]) < BUFFER_SIZE
      <4>1. hand[2].calls \in 1 .. SpItems + 1 /\ hand[2].calls # SpItems + 1 /\ at[2] = "locked"
        BY <1>1, <1>2 DEF SpIs
      <4>2. SpStored(at[2], hand[2]) = hand[2].calls - 1
        BY <4>1 DEF SpStored
      <4>3. QED
        BY <4>1, <4>2, SpBounds
    <3>3. \E k \in 1..BUFFER_SIZE : b[k] = 0
      BY <1>2, <3>2, SpRoom
    <3>4. QED
      BY <3>1, <3>3
  <2>2. SpIs(t, "unlock", hand'[t], b)
    BY <1>2, <1>4, <2>1 DEF SpIs, SpPlaces
  <2>3. SpTurns(t, "locked", "unlock") /\ "unlock" \in SpPlaces /\ SpHolding(t)
    BY <1>3, <1>4, SpFacts DEF SpTurns, SpInside, SpPlaces
  <2> HIDE DEF b
  <2>4. shared'.buffer = shared.buffer /\ SpIs(t, "unlock", hand'[t], shared.buffer)
    BY <1>3, <2>2 DEF b
  <2>5. QED
    BY ONLY SpInv, <1>3, <1>4, <2>1, <2>3, <2>4, SpGoes
<1>5. CASE i <= BUFFER_SIZE /\ b[i] \in those /\ Moves(t, "locked", found) /\ UNCHANGED hand
  <2>1. SpHolding(t) /\ hand'[t] = hand[t] /\ hand'[2] = hand[2]
    BY <1>5, SpFacts
  <2>2. SpIs(t, found, hand'[t], b)
    <3>1. hand[t].calls # SpItems + 1
      BY <1>2 DEF SpIs
    <3>2. (t = 2 => b[i] = 0) /\ (t = 3 => b[i] # 0)
      <4>1. b[i] \in those /\ 0 \notin 1..SpItems
        BY <1>5, SpBounds
      <4>2. those = {0} \/ (those = 1..SpItems /\ t = 3)
        OBVIOUS
      <4>3. t = 2 => those = {0}
        BY <4>2
      <4>4. t = 3 => those = 1..SpItems
        OBVIOUS
      <4> HIDE DEF b, i
      <4>5. QED
        BY ONLY <4>1, <4>3, <4>4
    <3>3. QED
      BY <1>5, <2>1, <3>1, <3>2 DEF SpIs, SpPlaces
  <2>3. SpTurns(t, "locked", found) /\ found \in SpPlaces
    BY <1>3 DEF SpTurns, SpInside, SpPlaces
  <2>4. t = 2 => SpStored(found, hand'[2]) = SpStored("locked", hand[2])
    BY <2>1 DEF SpStored
  <2>5. shared'.buffer = shared.buffer /\ SpIs(t, found, hand'[t], shared.buffer)
    BY <1>3, <2>2
  <2>6. QED
    BY <1>3, <1>5, <2>1, <2>3, <2>4, <2>5, SpGoes
<1>6. CASE /\ i <= BUFFER_SIZE /\ b[i] \notin those
           /\ UNCHANGED at /\ Holds(t, [hand[t] EXCEPT !.i = @ + 1])
  <2> DEFINE h == [hand[t] EXCEPT !.i = @ + 1]
  <2>1. h \in SpHand /\ h.i = i + 1 /\ h.calls = hand[t].calls
    <3> DEFINE g == hand[t]
               n == i + 1
    <3>1. n \in 1 .. BUFFER_SIZE + 1
      BY <1>2, <1>6
    <3>2. h = [g EXCEPT !.i = n] /\ g \in SpHand
      BY <1>2
    <3> HIDE DEF g, n, h
    <3>3. h \in SpHand /\ h.i = n /\ h.calls = g.calls
      BY ONLY <3>1, <3>2 DEF SpHand
    <3>4. QED
      BY <3>3 DEF g, n
  <2> HIDE DEF h
  <2>2. SpHolding(t) /\ hand'[t] = h
    BY <1>6, <2>1, SpFacts DEF h
  <2>3. SpIs(t, "locked", hand'[t], b)
    <3>1. ASSUME t = 2, NEW k \in 1 .. h.i - 1 PROVE b[k] # 0
      <4>1. CASE k = i
        BY <1>2, <1>6, <3>1, <4>1
      <4>2. CASE k # i
        <5>1. k \in 1 .. i - 1
          BY <1>2, <2>1, <4>2
        <5>2. QED
          BY <1>2, <3>1, <5>1 DEF SpIs
      <4>3. QED
        BY <4>1, <4>2
    <3>2. h.calls # SpItems + 1
      BY <1>2, <2>1 DEF SpIs
    <3>3. QED
      BY <2>2, <3>1, <3>2 DEF SpIs, SpPlaces
  <2>4. Moves(t, "locked", "locked")
    <3>1. at \in [1..3 -> SpPlaces] /\ t \in 1..3
      BY DEF SpInv, SpTypes, SpWorkers
    <3>2. QED
      BY <1>1, <1>6, <3>1 DEF Moves
  <2>5. SpTurns(t, "locked", "locked") /\ "locked" \in SpPlaces
    BY <1>3 DEF SpTurns, SpPlaces
  <2>6. t = 2 => SpStored("locked", hand'[2]) = SpStored("locked", hand[2])
    BY <2>1, <2>2 DEF SpStored
  <2>7. shared'.buffer = shared.buffer /\ SpIs(t, "locked", hand'[t], shared.buffer)
    BY <1>3, <2>3
  <2>8. QED
    BY <1>3, <2>2, <2>4, <2>5, <2>6, <2>7, SpGoes
<1>7. QED
  BY <1>1, <1>4, <1>5, <1>6

LEMMA SpUnlock ==
    ASSUME SpInv, NEW t \in SpWorkers, SpUnlocks(t) PROVE SpInv'
<1> DEFINE to == IF hand[t].calls = SpItems THEN "gone" ELSE "next"
           h  == [i |-> 1, calls |-> hand[t].calls + 1]
<1>1. Moves(t, "unlock", to) /\ Holds(t, h) /\ shared' = [shared EXCEPT !.lock = FALSE]
  BY DEF SpUnlocks
<1>2. /\ shared \in SpRecords /\ hand[t] \in SpHand /\ hand[t].calls \in 1 .. SpItems + 1
      /\ SpIs(t, "unlock", hand[t], shared.buffer)
  BY <1>1, SpFacts
<1>3. hand[t].calls # SpItems + 1
  BY <1>2 DEF SpIs
<1>4. h \in SpHand /\ h.i = 1 /\ h.calls = hand[t].calls + 1
  BY <1>2, <1>3, SpBounds DEF SpHand
<1> HIDE DEF h
<1>5. SpHolding(t) /\ hand'[t] = h
  BY <1>1, <1>4, SpFacts
<1>6. /\ shared' \in SpRecords /\ ~shared'.lock /\ shared'.buffer = shared.buffer
      /\ shared'.taken = shared.taken
  BY <1>1, <1>2 DEF SpRecords
<1>7. SpIs(t, to, hand'[t], shared.buffer)
  BY <1>2, <1>4, <1>5, SpBounds DEF SpIs, SpPlaces
<1>8. SpTurns(t, "unlock", to) /\ to \in SpPlaces
  BY <1>6 DEF SpTurns, SpInside, SpPlaces
<1>9. t = 2 => SpStored(to, hand'[2]) = SpStored("unlock", hand[2])
  BY <1>2, <1>4, <1>5 DEF SpStored
<1> HIDE DEF to
<1>10. QED
  BY <1>1, <1>5, <1>6, <1>7, <1>8, <1>9, SpGoes

LEMMA SpStoring ==
    ASSUME SpInv, Moves(2, "store", "unlock"),
           Sets([shared EXCEPT !.buffer[hand[2].i] = hand[2].calls])
    PROVE SpInv'
<1> DEFINE b == shared.buffer
           i == hand[2].i
           m == hand[2].calls - 1
           c == [b EXCEPT ![i] = m + 1]
<1>1. 2 \in SpWorkers
  BY DEF SpWorkers
<1>2. /\ shared \in SpRecords /\ b \in [1..BUFFER_SIZE -> Nat] /\ shared.taken \in Seq(Nat)
      /\ i \in 1 .. BUFFER_SIZE + 1 /\ hand[2].calls \in 1 .. SpItems + 1
      /\ SpIs(2, "store", hand[2], b) /\ at'[2] = "unlock"
      /\ SpOnce(b, shared.taken, SpStored("store", hand[2]))
      /\ SpHolding(2) /\ hand'[2] = hand[2]
  BY <1>1, SpFacts DEF Sets
<1>3. i \in 1..BUFFER_SIZE /\ b[i] = 0 /\ m \in Nat /\ SpStored("store", hand[2]) = m
      /\ hand[2].calls = m + 1
  <2>1. i <= BUFFER_SIZE /\ b[i] = 0 /\ BUFFER_SIZE \in Nat
    BY <1>2, SpBounds DEF SpIs
  <2>2. SpStored("store", hand[2]) = m
    BY DEF SpStored
  <2>3. m \in Nat /\ hand[2].calls = m + 1
    BY <1>2, SpBounds
  <2>4. QED
    BY <1>2, <2>1, <2>2, <2>3
<1>4. shared' = [shared EXCEPT !.buffer = c]
  BY <1>2, <1>3 DEF Sets, SpRecords
<1> HIDE DEF m
<1>5. c \in [1..BUFFER_SIZE -> Nat] /\ SpOnce(c, shared.taken, m + 1)
  BY <1>2, <1>3, SpStores
<1> HIDE DEF c, b, i
<1>6. /\ shared' \in SpRecords /\ shared'.lock = shared.lock /\ shared'.buffer = c
      /\ shared'.taken = shared.taken
  BY <1>2, <1>4, <1>5 DEF SpRecords
<1>7. SpStored(at'[2], hand'[2]) = m + 1
  BY <1>2, <1>3 DEF SpStored
<1>8. SpIs(2, "unlock", hand'[2], c)
  BY <1>2 DEF SpIs, SpPlaces
<1>9. SpTurns(2, "store", "unlock") /\ "unlock" \in SpPlaces /\ "store" \in SpInside
  BY <1>6 DEF SpTurns, SpInside, SpPlaces
<1>10. SpOnce(shared'.buffer, shared'.taken, SpStored(at'[2], hand'[2])) /\ SpIs(2, "unlock", hand'[2], shared'.buffer)
  BY <1>5, <1>6, <1>7, <1>8
<1>11. QED
  BY <1>1, <1>2, <1>6, <1>9, <1>10, SpMoved

LEMMA SpTaking ==
    ASSUME SpInv, Moves(3, "exchange", "unlock"),
           Sets([shared EXCEPT !.buffer[hand[3].i] = 0,
                               !.taken = Append(@, shared.buffer[hand[3].i])])
    PROVE SpInv'
<1> DEFINE b == shared.buffer
           i == hand[3].i
           m == SpStored(at[2], hand[2])
           c == [b EXCEPT ![i] = 0]
           r == Append(shared.taken, b[i])
<1>1. 3 \in SpWorkers
  BY DEF SpWorkers
<1>2. /\ shared \in SpRecords /\ b \in [1..BUFFER_SIZE -> Nat] /\ shared.taken \in Seq(Nat)
      /\ i \in 1 .. BUFFER_SIZE + 1 /\ SpIs(3, "exchange", hand[3], b)
      /\ SpOnce(b, shared.taken, m) /\ m \in Nat
      /\ SpHolding(3) /\ hand'[3] = hand[3] /\ hand'[2] = hand[2] /\ at'[2] = at[2]
  BY <1>1, SpFacts DEF Sets
<1>3. i \in 1..BUFFER_SIZE /\ b[i] # 0
  BY <1>2, SpBounds DEF SpIs
<1>4. shared' = [shared EXCEPT !.buffer = c, !.taken = r]
  BY <1>2, <1>3 DEF Sets, SpRecords
<1> HIDE DEF m
<1>5. c \in [1..BUFFER_SIZE -> Nat] /\ r \in Seq(Nat) /\ SpOnce(c, r, m)
  BY <1>2, <1>3, SpTakes
<1> HIDE DEF c, b, i, r
<1>6. /\ shared' \in SpRecords /\ shared'.lock = shared.lock /\ shared'.buffer = c
      /\ shared'.taken = r
  BY <1>2, <1>4, <1>5 DEF SpRecords
<1>7. SpStored(at'[2], hand'[2]) = m
  BY <1>2 DEF m
<1>8. SpIs(3, "unlock", hand'[3], c)
  BY <1>2 DEF SpIs, SpPlaces
<1>9. SpTurns(3, "exchange", "unlock") /\ "unlock" \in SpPlaces /\ "exchange" \in SpInside
  BY <1>6 DEF SpTurns, SpInside, SpPlaces
<1>10. SpOnce(shared'.buffer, shared'.taken, SpStored(at'[2], hand'[2])) /\ SpIs(3, "unlock", hand'[3], shared'.buffer)
  BY <1>5, <1>6, <1>7, <1>8
<1>11. QED
  BY <1>1, <1>2, <1>6, <1>9, <1>10, SpMoved

LEMMA SpStep == ASSUME SpInv, NEW t \in SpWorkers, SpRun(t) PROVE SpInv'
<1>1. t # ThMain
  BY DEF SpWorkers, ThMain
<1>2. CASE t = 2 /\ produce(t)
  BY <1>2, SpLock, SpScans, SpStoring, SpUnlock DEF produce
<1>3. CASE t = 3 /\ consume(t)
  BY <1>3, SpLock, SpScans, SpTaking, SpUnlock DEF consume
<1>4. QED
  BY <1>1, <1>2, <1>3 DEF SpRun

LEMMA SpJoins == ASSUME SpInv, SpRun(1) PROVE SpInv'
<1>1. Moves(1, "join", "gone") /\ shared' = shared /\ hand' = hand
  BY DEF SpRun, ThMain, Nothing
<1>2. at \in [1..3 -> SpPlaces]
  BY DEF SpInv, SpTypes
<1>3. at' \in [1..3 -> SpPlaces] /\ at'[1] = "gone" /\ at'[2] = at[2] /\ at'[3] = at[3]
  BY <1>1, <1>2 DEF Moves, SpPlaces
<1>4. QED
  BY <1>1, <1>3 DEF SpInv, SpTypes, SpLocked, SpWorkers

LEMMA SpRight == SpInv => NothingIsDropped
<1> SUFFICES ASSUME SpInv PROVE NothingIsDropped
  OBVIOUS
<1> DEFINE b == shared.buffer
           q == shared.taken
           m == SpStored(at[2], hand[2])
           slots == {k \in 1..BUFFER_SIZE : b[k] # 0}
           kept == {b[k] : k \in slots}
<1>1. 2 \in SpWorkers
  BY DEF SpWorkers
<1>2. b \in [1..BUFFER_SIZE -> Nat] /\ q \in Seq(Nat) /\ SpOnce(b, q, m) /\ m \in Nat
  BY <1>1, SpFacts
<1>3. m = hand[2].calls - (IF at[2] = "unlock" THEN 0 ELSE 1)
  BY DEF SpStored
<1>4. shared.lock <=> \E t \in {2, 3} : at[t] \notin {"next", "gone"}
  <2>1. \A t \in SpWorkers : at[t] \in SpPlaces \ {"join"}
    BY DEF SpInv, SpIs
  <2>2. SpPlaces \ {"join"} = SpInside \cup {"next", "gone"} /\ SpInside \cap {"next", "gone"} = {}
    BY DEF SpPlaces, SpInside
  <2>3. QED
    BY <2>1, <2>2 DEF SpInv, SpLocked, SpWorkers
<1> HIDE DEF b, q, m
<1>5. kept \cup ToSet(q) = 1..m
  <2>1. ASSUME NEW v \in kept \cup ToSet(q) PROVE v \in 1..m
    <3>1. v \in Nat \ {0} /\ SpHeld(b, q, v)
      <4>1. CASE v \in kept
        BY <1>2, <4>1 DEF SpHeld
      <4>2. CASE v \in ToSet(q)
        <5>1. PICK j \in DOMAIN q : q[j] = v
          BY <4>2 DEF ToSet
        <5>2. v \in Nat /\ v # 0
          BY <1>2, <5>1 DEF SpOnce
        <5>3. QED
          BY <5>1, <5>2 DEF SpHeld
      <4>3. QED
        BY <4>1, <4>2
    <3>2. QED
      BY <1>2, <3>1 DEF SpOnce
  <2>2. ASSUME NEW v \in 1..m PROVE v \in kept \cup ToSet(q)
    <3>1. v \in Nat \ {0} /\ SpHeld(b, q, v)
      BY <1>2 DEF SpOnce
    <3>2. QED
      BY <3>1 DEF SpHeld, ToSet
  <2>3. QED
    BY <2>1, <2>2
<1>6. kept \cap ToSet(q) = {}
  BY <1>2 DEF SpOnce, ToSet
<1>7. IsInjective(q) /\ \A j, k \in slots : b[j] = b[k] => j = k
  BY <1>2 DEF SpOnce, IsInjective
<1>8. QED
  BY <1>3, <1>4, <1>5, <1>6, <1>7 DEF NothingIsDropped, b, q, m

-----------------------------------------------------------------------------
\* logger.cpp: what waits in the stream is of the line whose thread has the
\* mutex; the file has the lines g whole, and every other line that passed is
\* still on its way.
LgOthers == {2, 3}
LgPlaces == {"construct", "configure", "configured", "logging", "unborn", "log", "print", "lock",
             "open?", "first", "second", "flush", "unlock", "gone"}
LgInside == {"open?", "first", "second", "flush", "unlock"}
LgOnWay  == {"print", "lock", "open?", "first", "second", "flush"}
LgBefore == {"construct", "configure", "configured"}

LgLine == LgOthers \X Nat
LgPart == LgOthers \X Nat \X {"first", "second"}

LgHand    == [n : Nat]
LgRecords == [mutex : {Free, 2, 3}, is_open : BOOLEAN, failed : BOOLEAN, to : {"./log", "./log.txt"},
              m_log_level : LgLevels, m_stream : Seq(LgPart), file : Seq(LgPart),
              passed : SUBSET LgLine, printed : SUBSET LgLine, complained : BOOLEAN]
LgTypes   == at \in [1..3 -> LgPlaces] /\ hand \in [1..3 -> LgHand] /\ shared \in LgRecords

LgPhase ==
    /\ at[1] \in LgBefore \cup {"logging", "gone"}
    /\ at[1] \in LgBefore => \A t \in LgOthers : at[t] = "unborn"
    /\ at[1] = "logging" => \A t \in LgOthers : at[t] \notin LgBefore \cup {"logging", "unborn"}
    /\ at[1] = "gone" => \A t \in LgOthers : at[t] = "gone"
    /\ at[1] \in LgBefore => shared.passed = {} /\ shared.file = <<>>
    /\ at[1] = "construct" => ~shared.complained

LgLocked == \A t \in LgOthers : at[t] \in LgInside <=> shared.mutex = t

\* What the line in hand has put into the stream.
LgWaits(place, t, n, failed) ==
    IF failed \/ place \in {"open?", "first", "unlock"} THEN <<>>
    ELSE IF place = "second" THEN << <<t, n, "first">> >>
    ELSE << <<t, n, "first">>, <<t, n, "second">> >>
LgStream == /\ shared.mutex = Free => shared.m_stream = <<>>
            /\ \A t \in LgOthers : at[t] \in LgInside =>
                  shared.m_stream = LgWaits(at[t], t, hand[t].n, shared.failed)

LgKnown == \A t \in LgOthers :
    /\ at[t] \in LgOnWay => <<t, hand[t].n>> \in shared.passed
    /\ at[t] \in {"first", "second", "flush"} => shared.is_open

\* The lines g, each in its two halves; those of a thread in its order.
LgWhole(f, g) ==
    /\ Len(f) = 2 * Len(g)
    /\ \A k \in 1 .. Len(g) : /\ f[2 * k - 1] = <<g[k][1], g[k][2], "first">>
                              /\ f[2 * k] = <<g[k][1], g[k][2], "second">>
LgOrder(g) == \A j, k \in 1 .. Len(g) : j < k /\ g[j][1] = g[k][1] => g[j][2] < g[k][2]

\* The number of the next line of t that the file may get.
LgNumber(place, n) == IF place = "unlock" THEN n + 1 ELSE n
LgBelow(g, t, m)   == \A k \in 1 .. Len(g) : g[k][1] = t => g[k][2] < m
LgComplete(g, passed, onWay) == \A l \in passed : l \in onWay \/ \E k \in 1 .. Len(g) : g[k] = l
LgOnTheWay == {<<t, hand[t].n>> : t \in {u \in LgOthers : at[u] \in LgOnWay}}

LgHasLines(g) ==
    /\ LgWhole(shared.file, g) /\ LgOrder(g)
    /\ \A t \in LgOthers : LgBelow(g, t, LgNumber(at[t], hand[t].n))
    /\ \A k \in 1 .. Len(g) : g[k] \in shared.passed
    /\ at[1] # "gone" => IF shared.failed \/ ~shared.is_open THEN g = <<>>
                         ELSE LgComplete(g, shared.passed, LgOnTheWay)
LgFile == \E g \in Seq(LgLine) : LgHasLines(g)

LgInv == /\ LgTypes /\ LgPhase /\ LgLocked /\ LgStream /\ LgKnown /\ LgFile
         /\ shared.printed \subseteq shared.passed
         /\ shared.complained => shared.failed /\ ~shared.is_open

LEMMA LgConcat ==
    ASSUME NEW P, NEW f \in Seq(P), NEW p \in Seq(P)
    PROVE  LET q == f \o p IN
           /\ q \in Seq(P) /\ Len(q) = Len(f) + Len(p) /\ Len(f) \in Nat
           /\ \A k \in 1 .. Len(f) : q[k] = f[k]
           /\ \A k \in 1 .. Len(p) : q[k + Len(f)] = p[k]
  OBVIOUS

LEMMA LgConcatNone ==
    ASSUME NEW P, NEW f \in Seq(P)
    PROVE  f \o <<>> = f
<1> DEFINE p == <<>>
           q == f \o p
<1>1. p \in Seq(P) /\ Len(p) = 0
  OBVIOUS
<1> HIDE DEF p
<1>2. /\ q \in Seq(P) /\ Len(q) = Len(f) + Len(p) /\ Len(f) \in Nat
      /\ \A k \in 1 .. Len(f) : q[k] = f[k]
  BY ONLY <1>1, f \in Seq(P), LgConcat
<1> HIDE DEF q
<1>3. Len(q) = Len(f)
  BY ONLY <1>1, <1>2
<1>4. q = f
  BY ONLY <1>2, <1>3, f \in Seq(P)
<1>5. QED
  BY <1>4 DEF p, q

\* A line's two halves after those that the file has.
LgParts(t, n) == << <<t, n, "first">>, <<t, n, "second">> >>
LgAppended(e, h, g, t, n) ==
    /\ e \in Seq(LgPart) /\ h \in Seq(LgLine) /\ LgWhole(e, h) /\ LgOrder(h)
    /\ LgBelow(h, t, n + 1) /\ \A u \in LgOthers, m \in Nat : u # t /\ LgBelow(g, u, m) => LgBelow(h, u, m)
    /\ \A k \in 1 .. Len(h) : (k \in 1 .. Len(g) /\ h[k] = g[k]) \/ h[k] = <<t, n>>
    /\ \A k \in 1 .. Len(g) : k \in 1 .. Len(h) /\ h[k] = g[k]
    /\ Len(h) \in 1 .. Len(h) /\ h[Len(h)] = <<t, n>>

LEMMA LgAppends ==
    ASSUME NEW f \in Seq(LgPart), NEW g \in Seq(LgLine), LgWhole(f, g), LgOrder(g),
           NEW t \in LgOthers, NEW n \in Nat, LgBelow(g, t, n),
           NEW e, e = f \o LgParts(t, n),
           NEW h, h = Append(g, <<t, n>>)
    PROVE  LgAppended(e, h, g, t, n)
<1> DEFINE p == LgParts(t, n)
           l == <<t, n>>
           m == Len(g)
<1>1. /\ l \in LgLine /\ l[1] = t /\ l[2] = n
      /\ <<t, n, "first">> \in LgPart /\ <<t, n, "second">> \in LgPart
  BY DEF LgLine, LgPart
<1>0. n \in Nat
  OBVIOUS
<1>2. p \in Seq(LgPart) /\ Len(p) = 2 /\ p[1] = <<t, n, "first">> /\ p[2] = <<t, n, "second">>
  BY <1>1 DEF LgParts
<1>3. m \in Nat /\ Len(f) = 2 * m
  BY DEF LgWhole
<1> HIDE DEF p, l
<1>4. /\ e \in Seq(LgPart) /\ Len(e) = 2 * m + 2
      /\ \A k \in 1 .. 2 * m : e[k] = f[k]
      /\ e[2 * m + 1] = <<t, n, "first">> /\ e[2 * m + 2] = <<t, n, "second">>
  <2> DEFINE q == f \o p
             lf == Len(f)
  <2>1. e = q
    BY DEF p
  <2>a. /\ q \in Seq(LgPart) /\ Len(q) = lf + Len(p) /\ lf \in Nat
        /\ \A k \in 1 .. lf : q[k] = f[k]
        /\ \A k \in 1 .. Len(p) : q[k + lf] = p[k]
    <3>1. p \in Seq(LgPart) /\ f \in Seq(LgPart)
      BY ONLY <1>2, f \in Seq(LgPart)
    <3>2. QED
      BY ONLY <3>1, LgConcat
  <2>2. /\ q \in Seq(LgPart) /\ Len(q) = lf + 2 /\ lf \in Nat
        /\ \A k \in 1 .. lf : q[k] = f[k]
        /\ q[lf + 1] = p[1] /\ q[lf + 2] = p[2]
    <3> HIDE DEF q, lf
    <3>1. 1 \in 1 .. Len(p) /\ 2 \in 1 .. Len(p) /\ 1 + lf = lf + 1 /\ 2 + lf = lf + 2
      BY ONLY <1>2, <2>a
    <3>2. q[1 + lf] = p[1] /\ q[2 + lf] = p[2]
      BY ONLY <2>a, <3>1
    <3>3. Len(p) = 2
      BY ONLY <1>2
    <3>4. Len(q) = lf + 2
      BY ONLY <2>a, <3>3
    <3>5. q[lf + 1] = p[1] /\ q[lf + 2] = p[2]
      BY ONLY <3>1, <3>2
    <3>6. QED
      BY ONLY <2>a, <3>4, <3>5
  <2>3. lf = 2 * m
    BY <1>3
  <2> HIDE DEF q, lf, m
  <2>4. Len(q) = 2 * m + 2 /\ \A k \in 1 .. 2 * m : q[k] = f[k]
    BY <2>2, <2>3
  <2>5. q[2 * m + 1] = p[1] /\ q[2 * m + 2] = p[2]
    BY <2>2, <2>3
  <2>6. e \in Seq(LgPart) /\ Len(e) = 2 * m + 2
    BY ONLY <2>1, <2>2, <2>4
  <2>7. \A k \in 1 .. 2 * m : e[k] = f[k]
    BY ONLY <2>1, <2>4
  <2>8. e[2 * m + 1] = <<t, n, "first">> /\ e[2 * m + 2] = <<t, n, "second">>
    BY ONLY <1>2, <2>1, <2>5
  <2>9. QED
    BY ONLY <2>6, <2>7, <2>8
<1>5. /\ h \in Seq(LgLine) /\ Len(h) = m + 1 /\ h[m + 1] = l /\ \A k \in 1..m : h[k] = g[k]
  <2> DEFINE q == Append(g, l)
  <2>1. h = q
    BY DEF l
  <2>2. /\ q \in Seq(LgLine) /\ Len(q) = Len(g) + 1 /\ q[Len(g) + 1] = l
        /\ \A k \in 1 .. Len(g) : q[k] = g[k]
    BY <1>1
  <2> HIDE DEF q
  <2>3. QED
    BY <2>1, <2>2
<1> HIDE DEF m
<1>6. \A k \in 1 .. m + 1 : (k \in 1..m /\ h[k] = g[k]) \/ (k = m + 1 /\ h[k] = l)
  BY <1>3, <1>5
<1>7. LgWhole(e, h)
  <2>1. Len(e) = 2 * Len(h)
    BY ONLY <1>3, <1>4, <1>5
  <2>2. ASSUME NEW k \in 1 .. Len(h)
        PROVE  /\ e[2 * k - 1] = <<h[k][1], h[k][2], "first">>
               /\ e[2 * k] = <<h[k][1], h[k][2], "second">>
    <3>1. CASE k \in 1..m
      <4>1. 2 * k - 1 \in 1 .. 2 * m /\ 2 * k \in 1 .. 2 * m
        BY <1>3, <3>1
      <4>2. /\ f[2 * k - 1] = <<g[k][1], g[k][2], "first">>
            /\ f[2 * k] = <<g[k][1], g[k][2], "second">>
        BY <3>1 DEF LgWhole, m
      <4>3. h[k] = g[k] /\ e[2 * k - 1] = f[2 * k - 1] /\ e[2 * k] = f[2 * k]
        BY <1>4, <1>5, <3>1, <4>1
      <4>4. QED
        BY <4>2, <4>3
    <3>2. CASE k = m + 1
      <4>1. 2 * k - 1 = 2 * m + 1 /\ 2 * k = 2 * m + 2
        BY <1>3, <3>2
      <4>2. h[k][1] = t /\ h[k][2] = n
        BY <1>1, <1>5, <3>2
      <4>3. QED
        BY <1>4, <4>1, <4>2
    <3>3. QED
      BY <1>5, <1>6, <3>1, <3>2
  <2>3. QED
    BY <2>1, <2>2 DEF LgWhole
<1>8. LgOrder(h)
  <2> SUFFICES ASSUME NEW j \in 1 .. m + 1, NEW k \in 1 .. m + 1, j < k, h[j][1] = h[k][1]
               PROVE h[j][2] < h[k][2]
    BY <1>5 DEF LgOrder
  <2>1. j \in 1..m /\ h[j] = g[j]
    <3>1. j \in 1..m
      BY <1>3
    <3>2. QED
      BY <3>1, <1>5
  <2>2. CASE k \in 1..m
    BY <1>5, <2>1, <2>2 DEF LgOrder, m
  <2>3. CASE k = m + 1
    <3>1. h[k][1] = t /\ h[k][2] = n
      BY <1>1, <1>5, <2>3
    <3>2. g[j][2] < n
      BY <2>1, <3>1 DEF LgBelow, m
    <3>3. QED
      BY <2>1, <3>1, <3>2
  <2>4. QED
    BY <1>6, <2>2, <2>3
<1>9. LgBelow(h, t, n + 1)
  <2> SUFFICES ASSUME NEW k \in 1 .. m + 1, h[k][1] = t PROVE h[k][2] < n + 1
    BY <1>5 DEF LgBelow
  <2>1. CASE k \in 1..m /\ h[k] = g[k]
    <3>1. g[k][2] < n /\ g[k] \in LgLine
      BY <2>1 DEF LgBelow, m
    <3>2. g[k][2] \in Nat
      BY <3>1 DEF LgLine
    <3>3. h[k][2] = g[k][2]
      BY <2>1
    <3>4. QED
      BY ONLY <1>0, <3>1, <3>2, <3>3
  <2>2. CASE k = m + 1 /\ h[k] = l
    <3>1. h[k][2] = n
      BY <1>1, <2>2
    <3>2. QED
      BY ONLY <1>0, <3>1
  <2>3. QED
    BY <1>6, <2>1, <2>2
<1>10. ASSUME NEW u \in LgOthers, NEW i \in Nat, u # t, LgBelow(g, u, i) PROVE LgBelow(h, u, i)
  <2> SUFFICES ASSUME NEW k \in 1 .. m + 1, h[k][1] = u PROVE h[k][2] < i
    BY <1>5 DEF LgBelow
  <2>1. k \in 1..m /\ h[k] = g[k]
    BY <1>1, <1>6, <1>10
  <2>2. QED
    BY <1>10, <2>1 DEF LgBelow, m
<1>11. Len(h) \in 1 .. Len(h) /\ h[Len(h)] = l
  BY <1>3, <1>5
<1>12. \A k \in 1 .. m : k \in 1 .. Len(h) /\ h[k] = g[k]
  BY <1>3, <1>5
<1>13. QED
  BY <1>4, <1>5, <1>6, <1>7, <1>8, <1>9, <1>10, <1>11, <1>12 DEF l, m, LgAppended

LEMMA LgBegins == ASSUME ThInit, game = "logger" PROVE LgInv
<1>1. /\ shared = [mutex |-> Free, is_open |-> FALSE, failed |-> FALSE, to |-> "./log",
                   m_log_level |-> 0, m_stream |-> <<>>, file |-> <<>>,
                   passed |-> {}, printed |-> {}, complained |-> FALSE]
      /\ at = <<"construct", "unborn", "unborn">> /\ hand = [t \in 1..3 |-> [n |-> 1]]
  BY DEF ThInit, LgInit
<1>2. /\ shared.mutex = Free /\ shared.m_stream = <<>> /\ shared.file = <<>> /\ shared.passed = {}
      /\ shared.printed = {} /\ shared.complained = FALSE /\ shared.is_open = FALSE
  BY <1>1
<1>3. shared \in LgRecords
  BY <1>1 DEF LgRecords, LgLevels, Free
<1>4. at \in [1..3 -> LgPlaces] /\ at[1] = "construct" /\ at[2] = "unborn" /\ at[3] = "unborn"
  BY <1>1 DEF LgPlaces
<1>5. hand \in [1..3 -> LgHand]
  BY <1>1 DEF LgHand
<1>6. LgPhase /\ LgLocked /\ LgStream /\ LgKnown
  BY <1>2, <1>4 DEF LgPhase, LgLocked, LgStream, LgKnown, LgBefore, LgInside, LgOnWay, LgOthers, Free
<1>7. LgFile
  <2> DEFINE g == <<>>
  <2>1. g \in Seq(LgLine) /\ Len(g) = 0
    OBVIOUS
  <2>2. LgHasLines(g)
    BY <1>2, <2>1 DEF LgHasLines, LgWhole, LgOrder, LgBelow
  <2>3. QED
    BY <2>1, <2>2 DEF LgFile
<1>8. QED
  BY <1>2, <1>3, <1>4, <1>5, <1>6, <1>7 DEF LgInv, LgTypes

\* What is so of every thread that logs.
LgThread == LgPlaces \ (LgBefore \cup {"logging", "unborn"})
LEMMA LgFacts ==
    ASSUME LgInv, NEW t \in LgOthers
    PROVE  /\ at \in [1..3 -> LgPlaces] /\ hand \in [1..3 -> LgHand] /\ shared \in LgRecords
           /\ hand[t].n \in Nat /\ t \in 1..3 /\ t # 1 /\ t # Free
           /\ shared.mutex \in {Free, 2, 3} /\ shared.m_stream \in Seq(LgPart) /\ shared.file \in Seq(LgPart)
           /\ shared.passed \in SUBSET LgLine /\ shared.printed \subseteq shared.passed
           /\ shared.is_open \in BOOLEAN /\ shared.failed \in BOOLEAN
<1>1. /\ at \in [1..3 -> LgPlaces] /\ hand \in [1..3 -> LgHand] /\ shared \in LgRecords
      /\ t \in 1..3 /\ t # 1 /\ t # Free /\ shared.printed \subseteq shared.passed
  BY DEF LgInv, LgTypes, LgOthers, Free
<1>2. hand[t].n \in Nat
  BY <1>1 DEF LgHand
<1>3. /\ shared.mutex \in {Free, 2, 3} /\ shared.m_stream \in Seq(LgPart) /\ shared.file \in Seq(LgPart)
      /\ shared.passed \in SUBSET LgLine /\ shared.is_open \in BOOLEAN /\ shared.failed \in BOOLEAN
  BY <1>1 DEF LgRecords
<1>4. QED
  BY <1>1, <1>2, <1>3

\* What a step of t does with the mutex, to what it holds, and to the stream.
LgTurns(t, from, to) ==
    \/ shared'.mutex = shared.mutex /\ (from \in LgInside <=> to \in LgInside)
    \/ shared.mutex = Free /\ shared'.mutex = t /\ to \in LgInside
    \/ from \in LgInside /\ shared'.mutex = Free /\ to \notin LgInside
LgHolding(t, m) == /\ hand' \in [1..3 -> LgHand] /\ hand'[t].n = m
                   /\ \A u \in 1..3 \ {t} : hand'[u] = hand[u]
LgFlows(t, from, to, m) ==
    /\ shared'.mutex = Free => shared'.m_stream = <<>>
    /\ to \in LgInside => shared'.m_stream = LgWaits(to, t, m, shared.failed)
    /\ from \notin LgInside /\ to \notin LgInside => shared'.m_stream = shared.m_stream
LgSame == shared'.is_open = shared.is_open /\ shared'.failed = shared.failed

LEMMA LgMoved ==
    ASSUME LgInv, NEW t \in LgOthers, NEW from \in LgThread \ {"gone"}, NEW to \in LgThread, NEW m \in Nat,
           Moves(t, from, to), LgHolding(t, m), LgTurns(t, from, to), LgFlows(t, from, to, m), LgSame,
           shared' \in LgRecords, shared'.complained = shared.complained,
           shared.passed \subseteq shared'.passed, shared'.printed \subseteq shared'.passed,
           to \in LgOnWay => <<t, m>> \in shared'.passed,
           to \in {"first", "second", "flush"} => shared.is_open,
           LgFile'
    PROVE  LgInv'
<1>1. /\ at \in [1..3 -> LgPlaces] /\ hand \in [1..3 -> LgHand] /\ shared \in LgRecords
      /\ t \in 1..3 /\ t # 1 /\ t # Free
  BY LgFacts
<1>2. /\ at' \in [1..3 -> LgPlaces] /\ at[t] = from /\ at'[t] = to
      /\ \A u \in 1..3 \ {t} : at'[u] = at[u]
  BY <1>1 DEF Moves, LgThread
<1>3. hand' \in [1..3 -> LgHand] /\ hand'[t].n = m /\ \A u \in 1..3 \ {t} : hand'[u] = hand[u]
  BY DEF LgHolding
<1>4. at[1] = "logging" /\ at'[1] = "logging"
  <2>1. from # "unborn" /\ from # "gone"
    BY DEF LgThread
  <2>2. at[1] = "logging"
    BY <1>2, <2>1 DEF LgInv, LgPhase
  <2>3. QED
    BY <1>1, <1>2, <2>2
<1>5. LgPhase'
  <2>1. \A u \in LgOthers : at'[u] \notin LgBefore \cup {"logging", "unborn"}
    BY <1>1, <1>2, <1>4 DEF LgInv, LgPhase, LgThread, LgOthers
  <2>2. QED
    BY <1>4, <2>1 DEF LgPhase, LgBefore
<1>6. LgLocked'
  <2> SUFFICES ASSUME NEW u \in LgOthers PROVE at'[u] \in LgInside <=> shared'.mutex = u
    BY DEF LgLocked
  <2>1. \A v \in LgOthers : at[v] \in LgInside <=> shared.mutex = v
    BY DEF LgInv, LgLocked
  <2>2. u # Free /\ u \in 1..3
    BY DEF LgOthers, Free
  <2>3. CASE u = t
    BY <1>1, <1>2, <2>1, <2>3 DEF LgTurns
  <2>4. CASE u # t
    <3>1. at'[u] = at[u] /\ (at[u] \in LgInside <=> shared.mutex = u)
      BY <1>2, <2>1, <2>2, <2>4
    <3>2. from \in LgInside <=> shared.mutex = t
      BY <1>2, <2>1
    <3>3. QED
      BY <1>1, <2>2, <2>4, <3>1, <3>2 DEF LgTurns
  <2>5. QED
    BY <2>3, <2>4
<1>7. LgStream'
  <2>1. shared'.mutex = Free => shared'.m_stream = <<>>
    BY DEF LgFlows
  <2>2. ASSUME NEW u \in LgOthers, at'[u] \in LgInside
        PROVE shared'.m_stream = LgWaits(at'[u], u, hand'[u].n, shared'.failed)
    <3>1. CASE u = t
      BY <1>2, <1>3, <2>2, <3>1 DEF LgFlows, LgSame
    <3>2. CASE u # t
      <4>1. u \in 1..3 /\ at'[u] = at[u] /\ hand'[u] = hand[u]
        BY <1>2, <1>3, <3>2 DEF LgOthers
      <4>2. shared.mutex = u /\ shared'.mutex = u
        BY <1>6, <2>2, <4>1 DEF LgInv, LgLocked
      <4>3. from \notin LgInside /\ to \notin LgInside
        BY <1>2, <1>6, <3>2, <4>2 DEF LgInv, LgLocked
      <4>4. shared'.m_stream = shared.m_stream
        BY <4>3 DEF LgFlows
      <4>5. QED
        BY <2>2, <4>1, <4>4 DEF LgInv, LgStream, LgSame
    <3>3. QED
      BY <3>1, <3>2
  <2>3. QED
    BY <2>1, <2>2 DEF LgStream
<1>8. LgKnown'
  <2> SUFFICES ASSUME NEW u \in LgOthers
               PROVE  /\ at'[u] \in LgOnWay => <<u, hand'[u].n>> \in shared'.passed
                      /\ at'[u] \in {"first", "second", "flush"} => shared'.is_open
    BY DEF LgKnown
  <2>1. CASE u = t
    BY <1>2, <1>3, <2>1 DEF LgSame
  <2>2. CASE u # t
    <3>1. u \in 1..3 /\ at'[u] = at[u] /\ hand'[u] = hand[u]
      BY <1>2, <1>3, <2>2 DEF LgOthers
    <3>2. QED
      BY <3>1 DEF LgInv, LgKnown, LgSame
  <2>3. QED
    BY <2>1, <2>2
<1>9. shared'.complained => shared'.failed /\ ~shared'.is_open
  BY DEF LgInv, LgSame
<1>10. QED
  BY <1>2, <1>3, <1>5, <1>6, <1>7, <1>8, <1>9 DEF LgInv, LgTypes

\* A step that leaves the file alone leaves it the lines that it has.
LEMMA LgFileStays ==
    ASSUME LgInv, NEW t \in LgOthers, NEW from \in LgThread \ {"gone"}, NEW to \in LgThread, NEW m \in Nat,
           Moves(t, from, to), LgHolding(t, m), LgSame, shared'.file = shared.file,
           shared.passed \subseteq shared'.passed,
           \A l \in shared'.passed : l \in shared.passed \/ (l = <<t, m>> /\ to \in LgOnWay),
           LgNumber(from, hand[t].n) <= LgNumber(to, m),
           from \in LgOnWay /\ shared.is_open => to \in LgOnWay /\ m = hand[t].n
    PROVE  LgFile'
<1>1. /\ at \in [1..3 -> LgPlaces] /\ hand[t].n \in Nat /\ t \in 1..3 /\ t # 1
  BY LgFacts
<1>2. /\ at[t] = from /\ at'[t] = to /\ \A u \in 1..3 \ {t} : at'[u] = at[u]
      /\ hand'[t].n = m /\ \A u \in 1..3 \ {t} : hand'[u] = hand[u]
  BY <1>1 DEF Moves, LgHolding
<1>3. PICK g \in Seq(LgLine) : LgHasLines(g)
  BY DEF LgInv, LgFile
<1>4. \A u \in LgOthers : LgBelow(g, u, LgNumber(at'[u], hand'[u].n))
  <2> SUFFICES ASSUME NEW u \in LgOthers, NEW k \in 1 .. Len(g), g[k][1] = u
               PROVE  g[k][2] < LgNumber(at'[u], hand'[u].n)
    BY DEF LgBelow
  <2>1. g[k][2] < LgNumber(at[u], hand[u].n)
    BY <1>3 DEF LgHasLines, LgBelow
  <2>2. CASE u = t
    <3>1. g[k][2] < LgNumber(from, hand[t].n) /\ LgNumber(from, hand[t].n) <= LgNumber(to, m)
      BY <1>2, <2>1, <2>2
    <3>2. g[k] \in LgLine
      BY <1>3
    <3>3. g[k][2] \in Nat
      BY <3>2 DEF LgLine
    <3>4. LgNumber(from, hand[t].n) \in Nat /\ LgNumber(to, m) \in Nat
      BY <1>1 DEF LgNumber
    <3>5. g[k][2] < LgNumber(to, m)
      BY ONLY <3>1, <3>3, <3>4
    <3>6. QED
      BY <1>2, <2>2, <3>5
  <2>3. CASE u # t
    <3>1. at'[u] = at[u] /\ hand'[u] = hand[u]
      BY <1>2, <2>3 DEF LgOthers
    <3>2. QED
      BY <2>1, <3>1
  <2>4. QED
    BY <2>2, <2>3
<1>5. ASSUME at'[1] # "gone"
      PROVE  IF shared'.failed \/ ~shared'.is_open THEN g = <<>> ELSE LgComplete(g, shared'.passed, LgOnTheWay')
  <2>1. at[1] # "gone"
    BY <1>1, <1>2, <1>5
  <2>2. IF shared.failed \/ ~shared.is_open THEN g = <<>> ELSE LgComplete(g, shared.passed, LgOnTheWay)
    BY <1>3, <2>1 DEF LgHasLines
  <2>3. CASE shared.failed \/ ~shared.is_open
    BY <2>2, <2>3 DEF LgSame
  <2>4. CASE ~shared.failed /\ shared.is_open
    <3>1. LgComplete(g, shared.passed, LgOnTheWay)
      BY <2>2, <2>4
    <3>2. ASSUME NEW l \in LgOnTheWay PROVE l \in LgOnTheWay'
      <4>1. PICK u \in LgOthers : at[u] \in LgOnWay /\ l = <<u, hand[u].n>>
        BY <3>2 DEF LgOnTheWay
      <4>2. at'[u] \in LgOnWay /\ l = <<u, hand'[u].n>>
        <5>1. CASE u = t
          BY <1>2, <2>4, <4>1, <5>1
        <5>2. CASE u # t
          <6>1. at'[u] = at[u] /\ hand'[u] = hand[u]
            BY <1>2, <5>2 DEF LgOthers
          <6>2. QED
            BY <4>1, <6>1
        <5>3. QED
          BY <5>1, <5>2
      <4>3. QED
        BY <4>2 DEF LgOnTheWay
    <3>3. to \in LgOnWay => <<t, m>> \in LgOnTheWay'
      BY <1>2 DEF LgOnTheWay
    <3>4. LgComplete(g, shared'.passed, LgOnTheWay')
      BY <3>1, <3>2, <3>3 DEF LgComplete
    <3>5. QED
      BY <2>4, <3>4 DEF LgSame
  <2>5. QED
    BY <2>3, <2>4
<1>6. \A k \in 1 .. Len(g) : g[k] \in shared'.passed
  BY <1>3 DEF LgHasLines
<1>7. LgWhole(shared'.file, g) /\ LgOrder(g)
  BY <1>3 DEF LgHasLines
<1>8. LgHasLines(g)'
  BY <1>4, <1>5, <1>6, <1>7 DEF LgHasLines
<1>9. QED
  BY <1>8 DEF LgFile

\* The flush adds the line in hand, or nothing to a stream that failed.
LEMMA LgFileGrows ==
    ASSUME LgInv, NEW t \in LgOthers, Moves(t, "flush", "unlock"), UNCHANGED hand, LgSame,
           shared'.file = shared.file \o shared.m_stream, shared'.passed = shared.passed
    PROVE  LgFile'
<1> DEFINE n == hand[t].n
           f == shared.file
<1>1. /\ at \in [1..3 -> LgPlaces] /\ n \in Nat /\ t \in 1..3 /\ t # 1 /\ f \in Seq(LgPart)
  BY LgFacts
<1>2. /\ at[t] = "flush" /\ at'[t] = "unlock" /\ \A u \in 1..3 \ {t} : at'[u] = at[u]
      /\ at'[1] = at[1] /\ hand' = hand
  BY <1>1 DEF Moves
<1>3. PICK g \in Seq(LgLine) : LgHasLines(g)
  BY DEF LgInv, LgFile
<1>4. /\ shared.m_stream = LgWaits("flush", t, n, shared.failed) /\ shared.is_open
      /\ <<t, n>> \in shared.passed /\ at[1] = "logging"
  <2>1. "flush" \in LgInside /\ "flush" \in LgOnWay
    BY DEF LgInside, LgOnWay
  <2>2. at[1] = "logging"
    BY <1>2 DEF LgInv, LgPhase
  <2>3. QED
    BY <1>2, <2>1, <2>2 DEF LgInv, LgStream, LgKnown
<1>5. /\ LgWhole(f, g) /\ LgOrder(g) /\ \A k \in 1 .. Len(g) : g[k] \in shared.passed
      /\ \A u \in LgOthers : LgBelow(g, u, LgNumber(at[u], hand[u].n))
      /\ IF shared.failed THEN g = <<>> ELSE LgComplete(g, shared.passed, LgOnTheWay)
  BY <1>3, <1>4 DEF LgHasLines
<1>6. LgNumber(at[t], n) = n /\ LgNumber(at'[t], hand'[t].n) = n + 1
  BY <1>2 DEF LgNumber
<1>7. CASE shared.failed
  <2>1. g = <<>> /\ shared.m_stream = <<>>
    BY <1>4, <1>5, <1>7 DEF LgWaits
  <2>2. shared'.file = f
    <3> DEFINE S == LgPart
    <3>1. f \in Seq(S) /\ shared'.file = f \o <<>>
      BY <1>1, <2>1
    <3>2. f \o <<>> = f
      BY <3>1, LgConcatNone
    <3>3. QED
      BY <3>1, <3>2
  <2>3. Len(g) = 0
    BY <2>1
  <2>4. \A u \in LgOthers : LgBelow(g, u, LgNumber(at'[u], hand'[u].n))
    BY <2>3 DEF LgBelow
  <2>5. shared'.failed
    BY <1>7 DEF LgSame
  <2>6. LgHasLines(g)'
    BY <1>5, <2>1, <2>2, <2>3, <2>4, <2>5 DEF LgHasLines
  <2>7. QED
    BY <2>6 DEF LgFile
<1>8. CASE ~shared.failed
  <2> DEFINE e == f \o LgParts(t, n)
  <2>0. PICK h : h = Append(g, <<t, n>>)
    OBVIOUS
  <2>1. LgBelow(g, t, n) /\ n \in Nat /\ f \in Seq(LgPart) /\ LgWhole(f, g) /\ LgOrder(g)
    BY <1>1, <1>5, <1>6
  <2>2. shared'.file = e
    BY <1>4, <1>8 DEF LgWaits, LgParts
  <2>3. e = f \o LgParts(t, n) /\ h = Append(g, <<t, n>>)
    BY <2>0
  <2> HIDE DEF e, n, f
  <2>4a. LgAppended(e, h, g, t, n)
    BY ONLY <2>1, <2>3, g \in Seq(LgLine), t \in LgOthers, LgAppends
  <2>4. /\ e \in Seq(LgPart) /\ h \in Seq(LgLine) /\ LgWhole(e, h) /\ LgOrder(h)
        /\ LgBelow(h, t, n + 1) /\ \A u \in LgOthers, m \in Nat : u # t /\ LgBelow(g, u, m) => LgBelow(h, u, m)
        /\ \A k \in 1 .. Len(h) : (k \in 1 .. Len(g) /\ h[k] = g[k]) \/ h[k] = <<t, n>>
        /\ \A k \in 1 .. Len(g) : k \in 1 .. Len(h) /\ h[k] = g[k]
        /\ Len(h) \in 1 .. Len(h) /\ h[Len(h)] = <<t, n>>
    BY <2>4a DEF LgAppended
  <2>5. ASSUME NEW u \in LgOthers PROVE LgBelow(h, u, LgNumber(at'[u], hand'[u].n))
    <3>1. CASE u = t
      BY <1>6, <2>4, <3>1 DEF n
    <3>2. CASE u # t
      <4>1. at'[u] = at[u] /\ hand'[u] = hand[u] /\ hand[u].n \in Nat
        BY <1>2, <3>2, LgFacts DEF LgOthers
      <4>2. LgNumber(at[u], hand[u].n) \in Nat
        BY <4>1 DEF LgNumber
      <4>3. QED
        BY <1>5, <2>4, <3>2, <4>1, <4>2
    <3>3. QED
      BY <3>1, <3>2
  <2>6. \A k \in 1 .. Len(h) : h[k] \in shared'.passed
    BY <1>4, <1>5, <2>4 DEF n
  <2>7. LgComplete(h, shared'.passed, LgOnTheWay')
    <3> SUFFICES ASSUME NEW l \in shared.passed
                 PROVE  l \in LgOnTheWay' \/ \E k \in 1 .. Len(h) : h[k] = l
      BY DEF LgComplete
    <3>1. CASE \E k \in 1 .. Len(g) : g[k] = l
      BY <2>4, <3>1
    <3>2. CASE l \in LgOnTheWay
      <4>1. PICK u \in LgOthers : at[u] \in LgOnWay /\ l = <<u, hand[u].n>>
        BY <3>2 DEF LgOnTheWay
      <4>2. CASE u = t
        BY <2>4, <4>1, <4>2 DEF n
      <4>3. CASE u # t
        <5>1. at'[u] = at[u] /\ hand'[u] = hand[u]
          BY <1>2, <4>3 DEF LgOthers
        <5>2. QED
          BY <4>1, <5>1 DEF LgOnTheWay
      <4>4. QED
        BY <4>2, <4>3
    <3>3. QED
      BY <1>5, <1>8, <3>1, <3>2 DEF LgComplete
  <2>8. ~shared'.failed /\ shared'.is_open
    BY <1>4, <1>8 DEF LgSame
  <2>9. LgHasLines(h)'
    <3>1. LgWhole(shared'.file, h) /\ LgOrder(h)
      BY <2>2, <2>4
    <3>2. QED
      BY <2>5, <2>6, <2>7, <2>8, <3>1 DEF LgHasLines
  <2>10. QED
    BY <2>4, <2>9 DEF LgFile
<1>9. QED
  BY <1>7, <1>8

LEMMA LgHands ==
    ASSUME LgInv, NEW t \in LgOthers
    PROVE  /\ UNCHANGED hand => LgHolding(t, hand[t].n)
           /\ LgGoesOn(t) => LgHolding(t, hand[t].n + 1)
<1>1. hand \in [1..3 -> LgHand] /\ hand[t].n \in Nat /\ t \in 1..3
  BY LgFacts
<1>2. [n |-> hand[t].n + 1] \in LgHand
  BY <1>1 DEF LgHand
<1>3. LgGoesOn(t) => LgHolding(t, hand[t].n + 1)
  <2> DEFINE h == [n |-> hand[t].n + 1]
  <2>1. h \in LgHand /\ h.n = hand[t].n + 1
    BY <1>2
  <2>2. LgGoesOn(t) => hand' = [hand EXCEPT ![t] = h]
    BY DEF LgGoesOn, Holds
  <2> HIDE DEF h
  <2>3. QED
    BY <1>1, <2>1, <2>2 DEF LgHolding
<1>4. QED
  BY <1>1, <1>3 DEF LgHolding

\* A step that leaves file, stream's state and what passed alone.
LgKeeps == /\ LgSame /\ shared'.file = shared.file /\ shared'.passed = shared.passed
           /\ shared'.complained = shared.complained
LEMMA LgGoes ==
    ASSUME LgInv, NEW t \in LgOthers, NEW from \in LgThread \ {"gone"}, NEW to \in LgThread, NEW m \in Nat,
           Moves(t, from, to), LgHolding(t, m), LgTurns(t, from, to), LgFlows(t, from, to, m), LgKeeps,
           shared' \in LgRecords, shared'.printed \subseteq shared.passed,
           to \in LgOnWay => from \in LgOnWay /\ m = hand[t].n,
           from \in LgOnWay /\ shared.is_open => to \in LgOnWay /\ m = hand[t].n,
           to \in {"first", "second", "flush"} => shared.is_open,
           LgNumber(from, hand[t].n) <= LgNumber(to, m)
    PROVE  LgInv'
<1>1. /\ LgSame /\ shared'.file = shared.file /\ shared'.passed = shared.passed
      /\ shared'.complained = shared.complained
  BY DEF LgKeeps
<1>2. at[t] = from
  BY DEF Moves
<1>3. to \in LgOnWay => <<t, m>> \in shared'.passed
  BY <1>1, <1>2 DEF LgInv, LgKnown
<1>4. shared.passed \subseteq shared'.passed /\ \A l \in shared'.passed : l \in shared.passed \/ (l = <<t, m>> /\ to \in LgOnWay)
  BY <1>1
<1>5. LgFile'
  BY <1>1, <1>4, LgFileStays
<1>6. shared'.printed \subseteq shared'.passed
  BY <1>1
<1>7. QED
  BY <1>1, <1>3, <1>4, <1>5, <1>6, LgMoved

LEMMA LgPasses ==
    ASSUME LgInv, NEW t \in LgOthers, NEW to \in {"print", "lock"}, Moves(t, "log", to), UNCHANGED hand,
           shared' = [shared EXCEPT !.passed = @ \cup {<<t, hand[t].n>>}]
    PROVE  LgInv'
<1> DEFINE n == hand[t].n
           passed == shared.passed \cup {<<t, n>>}
<1>1. /\ shared \in LgRecords /\ n \in Nat /\ shared.passed \in SUBSET LgLine
      /\ shared.printed \subseteq shared.passed
  BY LgFacts
<1>2. passed \in SUBSET LgLine
  BY <1>1 DEF LgLine
<1>3. shared' = [shared EXCEPT !.passed = passed]
  OBVIOUS
<1>4. LgHolding(t, n)
  BY LgHands
<1> HIDE DEF passed, n
<1>5. /\ shared' \in LgRecords /\ shared'.passed = passed /\ shared'.printed = shared.printed
      /\ shared'.mutex = shared.mutex /\ shared'.m_stream = shared.m_stream /\ shared'.file = shared.file
      /\ LgSame /\ shared'.complained = shared.complained
  BY <1>1, <1>2, <1>3 DEF LgRecords, LgSame
<1>6. /\ "log" \in LgThread \ {"gone"} /\ to \in LgThread /\ to \in LgOnWay
      /\ "log" \notin LgInside /\ to \notin LgInside /\ "log" \notin LgOnWay
  BY DEF LgThread, LgPlaces, LgBefore, LgOnWay, LgInside
<1>7. LgTurns(t, "log", to) /\ LgFlows(t, "log", to, n)
  BY <1>5, <1>6 DEF LgTurns, LgFlows, LgInv, LgStream
<1>8. /\ shared.passed \subseteq shared'.passed /\ shared'.printed \subseteq shared'.passed
      /\ \A l \in shared'.passed : l \in shared.passed \/ (l = <<t, n>> /\ to \in LgOnWay)
      /\ <<t, n>> \in shared'.passed
  BY <1>1, <1>5, <1>6 DEF passed
<1>9. LgNumber("log", n) <= LgNumber(to, n)
  BY <1>1 DEF LgNumber
<1>10. LgFile'
  <2>1. LgNumber("log", hand[t].n) <= LgNumber(to, n)
    BY <1>9 DEF n
  <2>2. QED
    BY <1>1, <1>4, <1>5, <1>6, <1>8, <2>1, LgFileStays
<1>11. to \notin {"first", "second", "flush"}
  OBVIOUS
<1>12. QED
  BY <1>1, <1>4, <1>5, <1>6, <1>7, <1>8, <1>10, <1>11, LgMoved

\* A line whose level is too high.
LEMMA LgSkips ==
    ASSUME LgInv, NEW t \in LgOthers, Moves(t, "log", LgNext(t)), LgGoesOn(t), UNCHANGED shared
    PROVE  LgInv'
<1> DEFINE m == hand[t].n + 1
           to == LgNext(t)
<1>1. shared \in LgRecords /\ hand[t].n \in Nat /\ m \in Nat /\ shared.printed \subseteq shared.passed
  BY LgFacts
<1>2. to \in {"log", "gone"}
  BY DEF LgNext
<1>3. LgHolding(t, m) /\ Moves(t, "log", to)
  BY LgHands
<1>4. LgNumber("log", hand[t].n) <= LgNumber(to, m)
  BY <1>1, <1>2 DEF LgNumber
<1> HIDE DEF m, to
<1>5. LgKeeps /\ shared' \in LgRecords /\ shared'.printed \subseteq shared.passed
  BY <1>1 DEF LgKeeps, LgSame
<1>6. /\ "log" \in LgThread \ {"gone"} /\ to \in LgThread /\ to \notin LgOnWay /\ "log" \notin LgOnWay
      /\ "log" \notin LgInside /\ to \notin LgInside /\ to \notin {"first", "second", "flush"}
  BY <1>2 DEF LgThread, LgPlaces, LgBefore, LgOnWay, LgInside
<1>7. LgTurns(t, "log", to) /\ LgFlows(t, "log", to, m)
  BY <1>6 DEF LgTurns, LgFlows, LgInv, LgStream
<1>8. QED
  BY <1>1, <1>3, <1>4, <1>5, <1>6, <1>7, LgGoes

LEMMA LgPrints ==
    ASSUME LgInv, NEW t \in LgOthers, Moves(t, "print", "lock"),
           Sets([shared EXCEPT !.printed = @ \cup {<<t, hand[t].n>>}])
    PROVE  LgInv'
<1> DEFINE n == hand[t].n
           printed == shared.printed \cup {<<t, n>>}
<1>1. /\ shared \in LgRecords /\ n \in Nat /\ shared.passed \in SUBSET LgLine
      /\ shared.printed \subseteq shared.passed
  BY LgFacts
<1>2. "print" \in LgOnWay /\ "lock" \in LgOnWay
  BY DEF LgOnWay
<1>3. <<t, n>> \in shared.passed
  <2>1. at[t] = "print"
    BY DEF Moves
  <2>2. QED
    BY <1>2, <2>1 DEF LgInv, LgKnown
<1>4. printed \subseteq shared.passed /\ printed \in SUBSET LgLine
  BY <1>1, <1>3
<1>5. shared' = [shared EXCEPT !.printed = printed] /\ LgHolding(t, n)
  BY LgHands DEF Sets
<1>6. LgNumber("print", hand[t].n) <= LgNumber("lock", n)
  BY <1>1 DEF LgNumber
<1> HIDE DEF printed
<1>7. /\ shared' \in LgRecords /\ shared'.printed = printed
      /\ shared'.mutex = shared.mutex /\ shared'.m_stream = shared.m_stream /\ LgKeeps
  BY <1>1, <1>4, <1>5 DEF LgRecords, LgKeeps, LgSame
<1>8. /\ "print" \in LgThread \ {"gone"} /\ "lock" \in LgThread
      /\ "print" \notin LgInside /\ "lock" \notin LgInside /\ "lock" \notin {"first", "second", "flush"}
  BY DEF LgThread, LgPlaces, LgBefore, LgInside
<1>9. LgTurns(t, "print", "lock") /\ LgFlows(t, "print", "lock", n)
  BY <1>7, <1>8 DEF LgTurns, LgFlows, LgInv, LgStream
<1>10. shared'.printed \subseteq shared.passed /\ n = hand[t].n
  BY <1>4, <1>7
<1> HIDE DEF n
<1>11. QED
  BY <1>1, <1>2, <1>5, <1>6, <1>7, <1>8, <1>9, <1>10, LgGoes

\* The steps under the mutex: t's line goes into the stream in two parts.
LEMMA LgLocks ==
    ASSUME LgInv, NEW t \in LgOthers, TakesMutex(t, "lock", "open?")
    PROVE  LgInv'
<1> DEFINE n == hand[t].n
<1>1. /\ shared \in LgRecords /\ n \in Nat /\ shared.printed \subseteq shared.passed /\ t # Free
  BY LgFacts
<1>2. /\ Moves(t, "lock", "open?") /\ shared.mutex = Free /\ shared' = [shared EXCEPT !.mutex = t]
      /\ LgHolding(t, n)
  BY LgHands DEF TakesMutex, Sets
<1>3. LgNumber("lock", hand[t].n) <= LgNumber("open?", n)
  BY <1>1 DEF LgNumber
<1>4. /\ shared' \in LgRecords /\ shared'.mutex = t /\ shared'.printed = shared.printed
      /\ shared'.m_stream = shared.m_stream /\ LgKeeps
  BY <1>1, <1>2 DEF LgRecords, LgKeeps, LgSame, LgOthers
<1>5. /\ "lock" \in LgThread \ {"gone"} /\ "open?" \in LgThread /\ "lock" \in LgOnWay /\ "open?" \in LgOnWay
      /\ "lock" \notin LgInside /\ "open?" \in LgInside /\ "open?" \notin {"first", "second", "flush"}
  BY DEF LgThread, LgPlaces, LgBefore, LgInside, LgOnWay
<1>6. LgTurns(t, "lock", "open?")
  BY <1>2, <1>4, <1>5 DEF LgTurns
<1>7. LgFlows(t, "lock", "open?", n)
  BY <1>1, <1>2, <1>4, <1>5 DEF LgFlows, LgInv, LgStream, LgWaits
<1>8. shared'.printed \subseteq shared.passed /\ n = hand[t].n
  BY <1>1, <1>4
<1> HIDE DEF n
<1>9. QED
  BY <1>1, <1>2, <1>3, <1>4, <1>5, <1>6, <1>7, <1>8, LgGoes

LEMMA LgAsks ==
    ASSUME LgInv, NEW t \in LgOthers,
           Moves(t, "open?", IF shared.is_open THEN "first" ELSE "unlock"), Nothing
    PROVE  LgInv'
<1> DEFINE n == hand[t].n
           to == IF shared.is_open THEN "first" ELSE "unlock"
<1>1. /\ shared \in LgRecords /\ n \in Nat /\ shared.printed \subseteq shared.passed /\ t # Free
      /\ shared.is_open \in BOOLEAN
  BY LgFacts
<1>2. Moves(t, "open?", to) /\ shared' = shared /\ LgHolding(t, n) /\ at[t] = "open?"
  BY LgHands DEF Nothing, Moves
<1>3. /\ to \in {"first", "unlock"} /\ (to = "first" <=> shared.is_open)
  BY <1>1
<1> HIDE DEF to
<1>4. LgNumber("open?", hand[t].n) <= LgNumber(to, n)
  BY <1>1, <1>3 DEF LgNumber
<1>5. /\ "open?" \in LgThread \ {"gone"} /\ to \in LgThread /\ "open?" \in LgOnWay
      /\ (to \in LgOnWay <=> shared.is_open) /\ "open?" \in LgInside /\ to \in LgInside
      /\ to \in {"first", "second", "flush"} => shared.is_open
  BY <1>3 DEF LgThread, LgPlaces, LgBefore, LgInside, LgOnWay
<1>6. shared.m_stream = <<>> /\ shared.mutex = t
  BY <1>2, <1>5 DEF LgInv, LgStream, LgWaits, LgLocked
<1>7. LgTurns(t, "open?", to) /\ LgFlows(t, "open?", to, n)
  BY <1>1, <1>2, <1>3, <1>5, <1>6 DEF LgTurns, LgFlows, LgWaits
<1>8. shared' \in LgRecords /\ LgKeeps /\ shared'.printed \subseteq shared.passed /\ n = hand[t].n
  BY <1>1, <1>2 DEF LgKeeps, LgSame
<1> HIDE DEF n
<1>9. QED
  BY <1>1, <1>2, <1>4, <1>5, <1>7, <1>8, LgGoes

LEMMA LgPuts ==
    ASSUME LgInv, NEW t \in LgOthers, NEW from, NEW to, NEW half,
           \/ from = "first" /\ to = "second" /\ half = "first"
           \/ from = "second" /\ to = "flush" /\ half = "second",
           Moves(t, from, to), Sets(Puts(t, half))
    PROVE  LgInv'
<1> DEFINE n == hand[t].n
           stream == LgWaits(to, t, n, shared.failed)
           part == <<t, n, half>>
<1>1. /\ shared \in LgRecords /\ n \in Nat /\ shared.printed \subseteq shared.passed /\ t # Free
      /\ shared.failed \in BOOLEAN
  BY LgFacts
<1>2. Moves(t, from, to) /\ LgHolding(t, n) /\ at[t] = from
  BY LgHands DEF Sets, Moves
<1>3. /\ from \in LgThread \ {"gone"} /\ to \in LgThread /\ from \in LgOnWay /\ to \in LgOnWay
      /\ from \in LgInside /\ to \in LgInside
  BY DEF LgThread, LgPlaces, LgBefore, LgInside, LgOnWay
<1>4. shared.mutex = t /\ shared.m_stream = LgWaits(from, t, n, shared.failed) /\ shared.is_open
  BY <1>2, <1>3 DEF LgInv, LgLocked, LgStream, LgKnown
<1>5. stream = IF shared.failed THEN shared.m_stream ELSE Append(shared.m_stream, part)
  <2>1. CASE shared.failed
    BY <1>4, <2>1 DEF LgWaits
  <2>2. CASE ~shared.failed /\ from = "first"
    <3>1. to = "second" /\ half = "first" /\ shared.m_stream = <<>>
      BY <1>4, <2>2 DEF LgWaits
    <3>2. stream = << <<t, n, "first">> >>
      BY <2>2, <3>1 DEF LgWaits
    <3>3. QED
      BY <2>2, <3>1, <3>2
  <2>3. CASE ~shared.failed /\ from = "second"
    <3>1. to = "flush" /\ half = "second" /\ shared.m_stream = << <<t, n, "first">> >>
      BY <1>4, <2>3 DEF LgWaits
    <3>2. stream = << <<t, n, "first">>, <<t, n, "second">> >>
      BY <2>3, <3>1 DEF LgWaits
    <3>3. QED
      BY <2>3, <3>1, <3>2
  <2>4. QED
    BY <2>1, <2>2, <2>3
<1>6. stream \in Seq(LgPart)
  <2>1. <<t, n, "first">> \in LgPart /\ <<t, n, "second">> \in LgPart
    BY <1>1 DEF LgPart
  <2>2. QED
    BY <2>1 DEF LgWaits
<1>7. shared' = [shared EXCEPT !.m_stream = stream]
  BY <1>5 DEF Sets, Puts
<1> HIDE DEF stream
<1>8. /\ shared' \in LgRecords /\ shared'.m_stream = stream /\ shared'.printed = shared.printed
      /\ shared'.mutex = shared.mutex /\ LgKeeps
  BY <1>1, <1>6, <1>7 DEF LgRecords, LgKeeps, LgSame
<1>9. LgTurns(t, from, to) /\ LgFlows(t, from, to, n)
  BY <1>1, <1>3, <1>4, <1>8 DEF LgTurns, LgFlows, stream
<1>10. LgNumber(from, hand[t].n) <= LgNumber(to, n)
  BY <1>1 DEF LgNumber
<1>11. shared'.printed \subseteq shared.passed /\ n = hand[t].n
  BY <1>1, <1>8
<1> HIDE DEF n
<1>12. QED
  BY <1>1, <1>2, <1>3, <1>4, <1>8, <1>9, <1>10, <1>11, LgGoes

LEMMA LgFlushes ==
    ASSUME LgInv, NEW t \in LgOthers, Moves(t, "flush", "unlock"),
           Sets([shared EXCEPT !.file = @ \o shared.m_stream, !.m_stream = <<>>])
    PROVE  LgInv'
<1> DEFINE n == hand[t].n
           file == shared.file \o shared.m_stream
<1>1. /\ shared \in LgRecords /\ n \in Nat /\ shared.printed \subseteq shared.passed /\ t # Free
      /\ shared.file \in Seq(LgPart) /\ shared.m_stream \in Seq(LgPart)
  BY LgFacts
<1>2. LgHolding(t, n) /\ at[t] = "flush" /\ UNCHANGED hand
  BY LgHands DEF Sets, Moves
<1>3. file \in Seq(LgPart)
  BY <1>1
<1>4. shared' = [shared EXCEPT !.file = file, !.m_stream = <<>>]
  BY DEF Sets
<1> HIDE DEF file
<1>5. /\ shared' \in LgRecords /\ shared'.m_stream = <<>> /\ shared'.file = file
      /\ shared'.printed = shared.printed /\ shared'.passed = shared.passed
      /\ shared'.mutex = shared.mutex /\ LgSame /\ shared'.complained = shared.complained
  <2> DEFINE empty == <<>>
  <2>1. empty \in Seq(LgPart)
    OBVIOUS
  <2>2. shared' = [shared EXCEPT !.file = file, !.m_stream = empty] /\ shared \in LgRecords
    BY <1>1, <1>4
  <2> HIDE DEF empty
  <2>3. shared' \in LgRecords
    BY ONLY <1>3, <2>1, <2>2 DEF LgRecords
  <2>4. /\ shared'.m_stream = empty /\ shared'.file = file
        /\ shared'.printed = shared.printed /\ shared'.passed = shared.passed
        /\ shared'.mutex = shared.mutex /\ shared'.is_open = shared.is_open
        /\ shared'.failed = shared.failed /\ shared'.complained = shared.complained
    BY ONLY <2>2 DEF LgRecords
  <2>5. QED
    BY <2>3, <2>4 DEF empty, LgSame
<1>6. /\ "flush" \in LgThread \ {"gone"} /\ "unlock" \in LgThread /\ "unlock" \notin LgOnWay
      /\ "flush" \in LgInside /\ "unlock" \in LgInside /\ "unlock" \notin {"first", "second", "flush"}
  BY DEF LgThread, LgPlaces, LgBefore, LgInside, LgOnWay
<1>7. shared.mutex = t
  BY <1>2, <1>6 DEF LgInv, LgLocked
<1>8. LgTurns(t, "flush", "unlock") /\ LgFlows(t, "flush", "unlock", n)
  BY <1>1, <1>5, <1>6, <1>7 DEF LgTurns, LgFlows, LgWaits
<1>9. LgFile'
  BY <1>2, <1>5, LgFileGrows DEF file
<1>10. shared.passed \subseteq shared'.passed /\ shared'.printed \subseteq shared'.passed
  BY <1>1, <1>5
<1>11. QED
  BY <1>1, <1>2, <1>5, <1>6, <1>8, <1>9, <1>10, LgMoved

LEMMA LgUnlocks ==
    ASSUME LgInv, NEW t \in LgOthers, Moves(t, "unlock", LgNext(t)), LgGoesOn(t),
           shared' = [shared EXCEPT !.mutex = Free]
    PROVE  LgInv'
<1> DEFINE m == hand[t].n + 1
           to == LgNext(t)
<1>1. shared \in LgRecords /\ hand[t].n \in Nat /\ m \in Nat /\ shared.printed \subseteq shared.passed
  BY LgFacts
<1>2. to \in {"log", "gone"}
  BY DEF LgNext
<1>3. LgHolding(t, m) /\ Moves(t, "unlock", to) /\ at[t] = "unlock"
  BY LgHands DEF Moves
<1>4. LgNumber("unlock", hand[t].n) <= LgNumber(to, m)
  BY <1>1, <1>2 DEF LgNumber
<1> HIDE DEF m, to
<1>5. /\ shared' \in LgRecords /\ shared'.mutex = Free /\ shared'.printed = shared.printed
      /\ shared'.m_stream = shared.m_stream /\ LgKeeps
  BY <1>1 DEF LgRecords, LgKeeps, LgSame, Free
<1>6. /\ "unlock" \in LgThread \ {"gone"} /\ to \in LgThread /\ to \notin LgOnWay /\ "unlock" \notin LgOnWay
      /\ "unlock" \in LgInside /\ to \notin LgInside /\ to \notin {"first", "second", "flush"}
  BY <1>2 DEF LgThread, LgPlaces, LgBefore, LgOnWay, LgInside
<1>7. shared.m_stream = <<>>
  BY <1>3, <1>6 DEF LgInv, LgStream, LgWaits
<1>8. LgTurns(t, "unlock", to) /\ LgFlows(t, "unlock", to, m)
  BY <1>5, <1>6, <1>7 DEF LgTurns, LgFlows
<1>9. shared'.printed \subseteq shared.passed
  BY <1>1, <1>5
<1>10. QED
  BY <1>1, <1>3, <1>4, <1>5, <1>6, <1>8, <1>9, LgGoes

LEMMA LgStep == ASSUME LgInv, NEW t \in LgOthers, Logging(t) PROVE LgInv'
<1>1. t # ThMain
  BY DEF LgOthers, ThMain
<1>2. Log(t)
  BY <1>1 DEF Logging
<1>3. CASE LogWrites(t)
  BY <1>3, LgLocks, LgAsks, LgPuts, LgFlushes, LgUnlocks DEF LogWrites
<1>4. CASE \E level \in LgLevels, print_outstream \in BOOLEAN :
              /\ level <= shared.m_log_level /\ UNCHANGED hand
              /\ Moves(t, "log", IF print_outstream THEN "print" ELSE "lock")
              /\ shared' = [shared EXCEPT !.passed = @ \cup {<<t, hand[t].n>>}]
  <2>1. PICK print_outstream \in BOOLEAN :
              /\ UNCHANGED hand
              /\ Moves(t, "log", IF print_outstream THEN "print" ELSE "lock")
              /\ shared' = [shared EXCEPT !.passed = @ \cup {<<t, hand[t].n>>}]
    BY <1>4
  <2> DEFINE to == IF print_outstream THEN "print" ELSE "lock"
  <2>2. to \in {"print", "lock"} /\ Moves(t, "log", to)
    BY <2>1
  <2> HIDE DEF to
  <2>3. QED
    BY <2>1, <2>2, LgPasses
<1>5. CASE /\ \E level \in LgLevels : level > shared.m_log_level
           /\ Moves(t, "log", LgNext(t)) /\ LgGoesOn(t) /\ UNCHANGED shared
  BY <1>5, LgSkips
<1>6. CASE Moves(t, "print", "lock") /\ Sets([shared EXCEPT !.printed = @ \cup {<<t, hand[t].n>>}])
  BY <1>6, LgPrints
<1>7. QED
  BY <1>2, <1>3, <1>4, <1>5, <1>6 DEF Log

-----------------------------------------------------------------------------
\* main: no thread logs yet while the stream is opened.
LEMMA LgConfigures ==
    ASSUME LgInv, NEW from, NEW to \in LgBefore \ {"construct"}, from \in LgBefore, Moves(1, from, to),
           UNCHANGED hand, shared' \in LgRecords,
           shared'.mutex = shared.mutex, shared'.m_stream = shared.m_stream, shared'.file = shared.file,
           shared'.passed = shared.passed, shared'.printed = shared.printed,
           shared'.complained => shared'.failed /\ ~shared'.is_open
    PROVE  LgInv'
<1>1. at \in [1..3 -> LgPlaces] /\ hand \in [1..3 -> LgHand] /\ shared.printed \subseteq shared.passed
  BY DEF LgInv, LgTypes
<1>2. /\ at' \in [1..3 -> LgPlaces] /\ at[1] = from /\ at'[1] = to /\ at'[2] = at[2] /\ at'[3] = at[3]
  BY <1>1 DEF Moves, LgPlaces, LgBefore
<1>3. /\ shared.passed = {} /\ shared.file = <<>> /\ \A t \in LgOthers : at[t] = "unborn" /\ at'[t] = "unborn"
      /\ to # "gone" /\ to # "logging" /\ to # "construct"
  BY <1>2 DEF LgInv, LgPhase, LgOthers, LgBefore
<1>4. LgPhase'
  BY <1>2, <1>3 DEF LgPhase
<1>5. "unborn" \notin LgInside /\ "unborn" \notin LgOnWay /\ "unborn" \notin {"first", "second", "flush"}
  BY DEF LgInside, LgOnWay
<1>6. LgLocked' /\ LgStream' /\ LgKnown'
  BY <1>3, <1>5 DEF LgInv, LgLocked, LgStream, LgKnown
<1>7. LgFile'
  <2> DEFINE g == <<>>
  <2>1. g \in Seq(LgLine) /\ Len(g) = 0
    OBVIOUS
  <2>2. LgWhole(shared'.file, g) /\ LgOrder(g)
    BY <1>3, <2>1 DEF LgWhole, LgOrder
  <2>3. LgComplete(g, shared'.passed, LgOnTheWay')
    BY <1>3 DEF LgComplete
  <2>4. LgHasLines(g)'
    BY <2>1, <2>2, <2>3 DEF LgHasLines, LgBelow
  <2>5. QED
    BY <2>1, <2>4 DEF LgFile
<1>8. QED
  BY <1>1, <1>2, <1>4, <1>6, <1>7 DEF LgInv, LgTypes

LEMMA LgOpens ==
    ASSUME LgInv, NEW path \in {"./log", "./log.txt"}, NEW s \in Opens(path)
    PROVE  /\ s \in LgRecords /\ s.mutex = shared.mutex /\ s.m_stream = shared.m_stream
           /\ s.file = shared.file /\ s.passed = shared.passed /\ s.printed = shared.printed
           /\ s.complained = shared.complained
           /\ ~s.is_open => s.failed
<1>1. shared \in LgRecords /\ shared.is_open \in BOOLEAN
  BY DEF LgInv, LgTypes, LgRecords
<1>2. CASE s = [shared EXCEPT !.failed = TRUE]
  BY <1>1, <1>2 DEF LgRecords
<1>3. CASE s = [shared EXCEPT !.is_open = TRUE, !.failed = FALSE, !.to = path]
  BY <1>1, <1>3 DEF LgRecords
<1>4. QED
  BY <1>2, <1>3 DEF Opens

LEMMA LgMainConfigures == ASSUME LgInv, Logger \/ SetFilePath PROVE LgInv'
<1>1. "construct" \in LgBefore /\ "configure" \in LgBefore \ {"construct"} /\ "configured" \in LgBefore \ {"construct"}
  BY DEF LgBefore
<1>2. CASE Logger
  <2>1. PICK s \in Opens("./log") : shared' = [s EXCEPT !.m_log_level = 0]
    BY <1>2 DEF Logger
  <2>2. /\ s \in LgRecords /\ s.mutex = shared.mutex /\ s.m_stream = shared.m_stream
        /\ s.file = shared.file /\ s.passed = shared.passed /\ s.printed = shared.printed
        /\ s.complained = shared.complained
    BY LgOpens
  <2>3. 0 \in LgLevels
    BY DEF LgLevels
  <2>4. /\ shared' \in LgRecords /\ shared'.mutex = shared.mutex /\ shared'.m_stream = shared.m_stream
        /\ shared'.file = shared.file /\ shared'.passed = shared.passed /\ shared'.printed = shared.printed
        /\ shared'.complained = shared.complained
    BY <2>1, <2>2, <2>3 DEF LgRecords
  <2>5. Moves(1, "construct", "configure") /\ UNCHANGED hand /\ at[1] = "construct"
    BY <1>2 DEF Logger, ThMain, Moves
  <2>6. ~shared.complained
    BY <2>5 DEF LgInv, LgPhase
  <2>7. QED
    BY <1>1, <2>4, <2>5, <2>6, LgConfigures
<1>3. CASE SetFilePath
  <2>1. PICK s \in Opens("./log.txt") : shared' = [s EXCEPT !.complained = ~s.is_open]
    BY <1>3 DEF SetFilePath
  <2>2. /\ s \in LgRecords /\ s.mutex = shared.mutex /\ s.m_stream = shared.m_stream
        /\ s.file = shared.file /\ s.passed = shared.passed /\ s.printed = shared.printed
        /\ ~s.is_open => s.failed
    BY LgOpens
  <2>3. (~s.is_open) \in BOOLEAN
    OBVIOUS
  <2>4. /\ shared' \in LgRecords /\ shared'.mutex = shared.mutex /\ shared'.m_stream = shared.m_stream
        /\ shared'.file = shared.file /\ shared'.passed = shared.passed /\ shared'.printed = shared.printed
        /\ shared'.complained = ~s.is_open /\ shared'.failed = s.failed /\ shared'.is_open = s.is_open
    BY <2>1, <2>2, <2>3 DEF LgRecords
  <2>5. Moves(1, "configure", "configured") /\ UNCHANGED hand
    BY <1>3 DEF SetFilePath, ThMain
  <2>6. shared'.complained => shared'.failed /\ ~shared'.is_open
    BY <2>2, <2>4
  <2>7. QED
    BY <1>1, <2>4, <2>5, <2>6, LgConfigures
<1>4. QED
  BY <1>2, <1>3

LEMMA LgLevelSet == ASSUME LgInv, SetLogLevel PROVE LgInv'
<1>1. PICK level \in LgLevels : shared' = [shared EXCEPT !.m_log_level = level] /\ UNCHANGED <<at, hand>>
  BY DEF SetLogLevel
<1>2. shared \in LgRecords
  BY DEF LgInv, LgTypes
<1>3. /\ shared' \in LgRecords /\ shared'.mutex = shared.mutex /\ shared'.m_stream = shared.m_stream
      /\ shared'.file = shared.file /\ shared'.passed = shared.passed /\ shared'.printed = shared.printed
      /\ shared'.complained = shared.complained /\ shared'.failed = shared.failed
      /\ shared'.is_open = shared.is_open
  BY <1>1, <1>2 DEF LgRecords
<1>4. LgPhase' /\ LgLocked' /\ LgStream' /\ LgKnown'
  BY <1>1, <1>3 DEF LgInv, LgPhase, LgLocked, LgStream, LgKnown
<1>5. LgFile'
  <2>1. PICK g \in Seq(LgLine) : LgHasLines(g)
    BY DEF LgInv, LgFile
  <2>2. LgOnTheWay' = LgOnTheWay
    BY <1>1 DEF LgOnTheWay
  <2>3. LgHasLines(g)'
    BY <1>1, <1>3, <2>1, <2>2 DEF LgHasLines
  <2>4. QED
    BY <2>3 DEF LgFile
<1>6. QED
  BY <1>1, <1>3, <1>4, <1>5 DEF LgInv, LgTypes

\* The threads are started, and are joined.
LEMMA LgMainRuns == ASSUME LgInv, LgStarts PROVE LgInv'
<1>1. /\ at' = <<"logging", "log", "log">> /\ hand' = hand /\ shared' = shared /\ at[1] \in LgBefore
  BY DEF LgStarts, Nothing, ThMain, LgBefore
<1>2. at' \in [1..3 -> LgPlaces] /\ at'[1] = "logging" /\ at'[2] = "log" /\ at'[3] = "log"
  BY <1>1 DEF LgPlaces
<1>3. /\ shared.passed = {} /\ shared.file = <<>> /\ \A t \in LgOthers : at[t] = "unborn" /\ at'[t] = "log"
  BY <1>1, <1>2 DEF LgInv, LgPhase, LgOthers
<1>4. LgPhase'
  BY <1>2, <1>3 DEF LgPhase, LgBefore
<1>5. /\ "unborn" \notin LgInside /\ "log" \notin LgInside /\ "log" \notin LgOnWay
      /\ "log" \notin {"first", "second", "flush"}
  BY DEF LgInside, LgOnWay
<1>6. LgLocked' /\ LgStream' /\ LgKnown'
  BY <1>1, <1>3, <1>5 DEF LgInv, LgLocked, LgStream, LgKnown
<1>7. LgFile'
  <2> DEFINE g == <<>>
  <2>1. g \in Seq(LgLine) /\ Len(g) = 0
    OBVIOUS
  <2>2. LgWhole(shared'.file, g) /\ LgOrder(g)
    BY <1>1, <1>3, <2>1 DEF LgWhole, LgOrder
  <2>3. LgComplete(g, shared'.passed, LgOnTheWay')
    BY <1>1, <1>3 DEF LgComplete
  <2>4. LgHasLines(g)'
    BY <2>1, <2>2, <2>3 DEF LgHasLines, LgBelow
  <2>5. QED
    BY <2>1, <2>4 DEF LgFile
<1>8. QED
  BY <1>1, <1>2, <1>4, <1>6, <1>7 DEF LgInv, LgTypes

LEMMA LgMainEnds == ASSUME LgInv, DestroyLogger PROVE LgInv'
<1>1. /\ Moves(1, "logging", "gone") /\ hand' = hand /\ shared' = [shared EXCEPT !.is_open = FALSE] /\ Joined
  BY DEF DestroyLogger, ThMain, Sets
<1>2. at \in [1..3 -> LgPlaces] /\ shared \in LgRecords
  BY DEF LgInv, LgTypes
<1>3. \A t \in LgOthers : at[t] = "gone"
  BY <1>1, <1>2 DEF Joined, ThOthers, ThMain, LgOthers
<1>4. /\ at' \in [1..3 -> LgPlaces] /\ at'[1] = "gone" /\ \A t \in LgOthers : at'[t] = at[t]
  BY <1>1, <1>2 DEF Moves, LgPlaces, LgOthers
<1>5. /\ shared' \in LgRecords /\ shared'.mutex = shared.mutex /\ shared'.m_stream = shared.m_stream
      /\ shared'.file = shared.file /\ shared'.passed = shared.passed /\ shared'.printed = shared.printed
      /\ shared'.complained = shared.complained /\ shared'.failed = shared.failed /\ ~shared'.is_open
  BY <1>1, <1>2 DEF LgRecords
<1>6. LgPhase'
  BY <1>3, <1>4 DEF LgPhase, LgBefore
<1>7. "gone" \notin LgInside /\ "gone" \notin LgOnWay /\ "gone" \notin {"first", "second", "flush"}
  BY DEF LgInside, LgOnWay
<1>8. LgLocked' /\ LgStream' /\ LgKnown'
  BY <1>3, <1>4, <1>5, <1>7 DEF LgInv, LgLocked, LgStream, LgKnown
<1>9. LgFile'
  <2>1. PICK g \in Seq(LgLine) : LgHasLines(g)
    BY DEF LgInv, LgFile
  <2>2. LgHasLines(g)'
    BY <1>1, <1>4, <1>5, <2>1 DEF LgHasLines
  <2>3. QED
    BY <2>2 DEF LgFile
<1>10. QED
  BY <1>1, <1>4, <1>5, <1>6, <1>8, <1>9 DEF LgInv, LgTypes

LEMMA LgMain == ASSUME LgInv, Logging(1) PROVE LgInv'
  BY LgMainConfigures, LgMainRuns, LgMainEnds DEF Logging, ThMain

LEMMA LgUnchanged == ASSUME LgInv, UNCHANGED <<shared, at, hand>> PROVE LgInv'
<1>1. LgPhase' /\ LgLocked' /\ LgStream' /\ LgKnown'
  BY DEF LgInv, LgPhase, LgLocked, LgStream, LgKnown
<1>2. LgFile'
  <2>1. PICK g \in Seq(LgLine) : LgHasLines(g)
    BY DEF LgInv, LgFile
  <2>2. LgHasLines(g)'
    BY <2>1 DEF LgHasLines, LgOnTheWay
  <2>3. QED
    BY <2>2 DEF LgFile
<1>3. QED
  BY <1>1, <1>2 DEF LgInv, LgTypes

LEMMA LgRight == LgInv => LoggerKeepsLines
<1> SUFFICES ASSUME LgInv PROVE LoggerKeepsLines
  OBVIOUS
<1> DEFINE f == shared.file
           n == Len(f) \div 2
<1>1. PICK g \in Seq(LgLine) : LgHasLines(g)
  BY DEF LgInv, LgFile
<1>2. /\ Len(f) = 2 * Len(g) /\ Len(g) \in Nat /\ LgOrder(g)
      /\ \A k \in 1 .. Len(g) : /\ f[2 * k - 1] = <<g[k][1], g[k][2], "first">>
                                /\ f[2 * k] = <<g[k][1], g[k][2], "second">>
      /\ \A k \in 1 .. Len(g) : g[k] \in shared.passed
  <2>1. LgWhole(f, g) /\ LgOrder(g) /\ \A k \in 1 .. Len(g) : g[k] \in shared.passed
    BY <1>1 DEF LgHasLines
  <2>2. Len(g) \in Nat
    BY ONLY g \in Seq(LgLine)
  <2> HIDE DEF f, n
  <2> QED
    BY ONLY <2>1, <2>2 DEF LgWhole
<1>3. Len(f) % 2 = 0 /\ n = Len(g)
  <2> DEFINE m == Len(g)
  <2>1. m \in Nat /\ Len(f) = 2 * m
    BY <1>2
  <2> HIDE DEF m
  <2>2. \A j \in Nat : (2 * j) % 2 = 0 /\ (2 * j) \div 2 = j
    OBVIOUS
  <2>3. QED
    BY <2>1, <2>2 DEF m
<1> HIDE DEF n, f
<1>4. \A k \in 1..n : /\ f[2 * k - 1] = <<g[k][1], g[k][2], "first">>
                      /\ f[2 * k] = <<g[k][1], g[k][2], "second">>
  BY ONLY <1>2, <1>3
<1>5. \A k \in 1..n : f[2 * k - 1][3] = "first" /\ f[2 * k] = [f[2 * k - 1] EXCEPT ![3] = "second"]
  <2> SUFFICES ASSUME NEW k \in 1..n
               PROVE  f[2 * k - 1][3] = "first" /\ f[2 * k] = [f[2 * k - 1] EXCEPT ![3] = "second"]
    OBVIOUS
  <2> DEFINE x == f[2 * k - 1]
             y == f[2 * k]
             a == g[k][1]
             b == g[k][2]
  <2>1. x = <<a, b, "first">> /\ y = <<a, b, "second">>
    BY <1>4
  <2> HIDE DEF x, y, a, b
  <2>2. x[3] = "first" /\ y = [x EXCEPT ![3] = "second"]
    BY ONLY <2>1
  <2>3. QED
    BY <2>2 DEF x, y
<1>6. \A k \in 1..n : f[2 * k][1] = g[k][1] /\ f[2 * k][2] = g[k][2]
  <2>1. \A a, b : <<a, b, "second">>[1] = a /\ <<a, b, "second">>[2] = b
    OBVIOUS
  <2>2. QED
    BY ONLY <1>4, <2>1
<1>7. \A j, k \in 1..n : j < k /\ f[2 * j][1] = f[2 * k][1] => f[2 * j][2] < f[2 * k][2]
  BY <1>2, <1>3, <1>6 DEF LgOrder
<1>8. shared.mutex = Free => shared.m_stream = <<>>
  BY DEF LgInv, LgStream
<1>9. /\ shared.printed \subseteq shared.passed
      /\ shared.complained => shared.failed /\ ~shared.is_open
  BY DEF LgInv
<1>10. ASSUME at[ThMain] = "logging", Joined
       PROVE {<<f[2 * k][1], f[2 * k][2]>> : k \in 1..n}
             = IF shared.failed \/ ~shared.is_open THEN {} ELSE shared.passed
  <2>1. at \in [1..3 -> LgPlaces]
    BY DEF LgInv, LgTypes
  <2>2. \A t \in LgOthers : at[t] = "gone"
    BY <1>10, <2>1 DEF Joined, ThOthers, ThMain, LgOthers
  <2>3. LgOnTheWay = {}
    BY <2>2 DEF LgOnTheWay, LgOnWay
  <2>4. IF shared.failed \/ ~shared.is_open THEN g = <<>> ELSE LgComplete(g, shared.passed, LgOnTheWay)
    BY <1>1, <1>10 DEF LgHasLines, ThMain
  <2>5. \A k \in 1..n : <<f[2 * k][1], f[2 * k][2]>> = g[k]
    <3>1. \A k \in 1..n : g[k] \in LgLine
      BY <1>3
    <3>2. \A l \in LgLine : l = <<l[1], l[2]>>
      BY DEF LgLine
    <3>3. \A k \in 1..n : g[k] = <<g[k][1], g[k][2]>>
      BY ONLY <3>1, <3>2
    <3>4. QED
      BY ONLY <1>6, <3>3
  <2>6. CASE shared.failed \/ ~shared.is_open
    <3>1. n = 0
      BY <1>3, <2>4, <2>6
    <3>2. QED
      BY <2>6, <3>1
  <2>7. CASE ~(shared.failed \/ ~shared.is_open)
    <3>1. \A l \in shared.passed : \E k \in 1..n : g[k] = l
      BY <1>3, <2>3, <2>4, <2>7 DEF LgComplete
    <3>2. \A k \in 1..n : g[k] \in shared.passed
      BY <1>2, <1>3
    <3> DEFINE line(k) == <<f[2 * k][1], f[2 * k][2]>>
               passed == shared.passed
    <3>3. (\A k \in 1..n : line(k) \in passed) /\ \A l \in passed : \E k \in 1..n : line(k) = l
      BY <2>5, <3>1, <3>2
    <3> HIDE DEF line, passed
    <3>4. {line(k) : k \in 1..n} = passed
      BY ONLY <3>3
    <3>5. QED
      BY <2>7, <3>4 DEF line, passed
  <2>8. QED
    BY <2>6, <2>7
<1>11. QED
  BY <1>3, <1>5, <1>7, <1>8, <1>9, <1>10 DEF LoggerKeepsLines, n, f

-----------------------------------------------------------------------------
\* replies: which bytes of reply n are in the stream s, and where.
RpPlaces    == {"idle", "header", "data"}
RpFields    == {"taken", "stream", "cut", "beside"}
RpByte      == (1 .. Len(RpAsked)) \X (1 .. RpHeader + RpData)
RpHands     == [of : 0 .. Len(RpAsked), sent : 0 .. RpHeader + RpData]
RpLength(n) == RpHeader + (IF RpAsked[n] = "READ" THEN RpData ELSE 0)

RpOrdered(s, n)   == \A i, j \in DOMAIN s : s[i][1] = n /\ s[j][1] = n /\ i < j => s[i][2] < s[j][2]
RpWithin(s, n, k) == \A i \in DOMAIN s : s[i][1] = n => s[i][2] <= k
RpHas(s, n, k)    == \A b \in 1..k : \E i \in DOMAIN s : s[i][1] = n /\ s[i][2] = b
RpInPiece(s, n)   == \A i, j \in DOMAIN s : s[i][1] = n /\ s[j][1] = n => \A k \in i..j : s[k][1] = n
RpAtEnd(s, n)     == \A i \in DOMAIN s : s[i][1] = n => \A k \in i .. Len(s) : s[k][1] = n

\* At most k bytes of reply n were sent, none of them missing unless it was cut.
RpSoFar(s, n, k, cut) == RpWithin(s, n, k) /\ (n \notin cut => RpHas(s, n, k))

RpTypes == /\ DOMAIN shared = RpFields /\ at \in [RpWorkers -> RpPlaces]
           /\ hand \in [RpWorkers -> RpHands] /\ shared.taken \in 0 .. Len(RpAsked)
           /\ shared.stream \in Seq(RpByte)

RpPhase == \A t \in RpWorkers :
              /\ at[t] = "idle" <=> hand[t].of = 0
              /\ at[t] = "idle" => hand[t] = RpIdle
              /\ hand[t].of <= shared.taken
              /\ at[t] = "header" => hand[t].sent = 0
              /\ at[t] = "data" => /\ RpAsked[hand[t].of] = "READ"
                                   /\ hand[t].sent \in RpHeader .. RpHeader + RpData - 1

RpApart == \A t, u \in RpWorkers :
              t # u /\ hand[t].of # 0 /\ hand[u].of # 0 =>
                 hand[t].of # hand[u].of /\ hand[t].of \in shared.beside

RpKnown == \A i \in DOMAIN shared.stream : shared.stream[i][1] <= shared.taken

RpReplies == \A n \in 1 .. shared.taken :
                /\ RpOrdered(shared.stream, n)
                /\ n \notin shared.beside => RpInPiece(shared.stream, n)
                /\ (\A t \in RpWorkers : hand[t].of # n) =>
                      RpSoFar(shared.stream, n, RpLength(n), shared.cut)

RpAtWork == \A t \in RpWorkers :
               hand[t].of # 0 => /\ RpSoFar(shared.stream, hand[t].of, hand[t].sent, shared.cut)
                                 /\ hand[t].of \notin shared.beside =>
                                       RpAtEnd(shared.stream, hand[t].of)

RpInv == RpTypes /\ RpPhase /\ RpApart /\ RpKnown /\ RpReplies /\ RpAtWork

-----------------------------------------------------------------------------
\* nbd: what is read, f[n] bytes before request n, of which d are done.
NbdSocket == Seq(Nat \X {"header", "data"})
NbdAsked  == Seq([type : NbdKinds, inside : BOOLEAN])
NbdHeads  == [of : Nat, part : {"header"}, sent : BOOLEAN]
NbdDatas  == [of : Nat, part : {"data"}, block : Nat, sent : BOOLEAN]
NbdReplies == Seq(NbdHeads \cup NbdDatas)

NbdLength(asked, n) == NbdHeader + (IF asked[n].type = "WRITE" THEN 1 ELSE 0)

NbdMessages(q, asked, d, f) ==
    /\ f[d + 1] = 0 /\ f[Len(asked) + 1] = Len(q)
    /\ \A n \in d + 1 .. Len(asked) : f[n + 1] = f[n] + NbdLength(asked, n) /\ q[f[n] + 1][1] = n
    /\ \A m, n \in d + 1 .. Len(asked) + 1 : m <= n => f[m] <= f[n]

NbdWrites(asked, d) == {Unwritten} \cup {k \in 1..d : asked[k].type = "WRITE"}
NbdStored(block, asked, d) == /\ block \in NbdWrites(asked, d)
                              /\ \A k \in NbdWrites(asked, d) : k <= block

NbdHeadsOf(ans) == {k \in DOMAIN ans : ans[k].part = "header"}

NbdAnswered(ans, asked, d) ==
    /\ \A j, k \in NbdHeadsOf(ans) : j < k => ans[j].of < ans[k].of
    /\ \A k \in NbdHeadsOf(ans) : ans[k].of \in 1..d
    /\ \A n \in 1..d : \E j \in NbdHeadsOf(ans) : ans[j].of = n
    /\ \A k \in DOMAIN ans \ NbdHeadsOf(ans) :
          /\ ans[k].of \in 1..d /\ NbdStored(ans[k].block, asked, ans[k].of - 1)
          /\ k - 1 \in NbdHeadsOf(ans) /\ ans[k - 1].of = ans[k].of

NbdSettingUp == {"open", "pair", "size", "mask", "thread"}
NbdResting   == NbdSettingUp \cup {"loop", "wait", "next", "disconnect", "join"}
NbdReading   == {"header", "data?", "data", "access", "reply", "more"}
NbdOver      == {"destroy", "last join", "close", "end"}

\* Where main is: got has so many bytes of request d + 1.
NbdPlaced(p, got, asked, ans, block, d, f) ==
    /\ p \in NbdResting => got = <<>>
    /\ p = "header" => Len(got) < NbdHeader
    /\ p \in {"data?", "data", "access", "reply", "more"} => d < Len(asked)
    /\ p \in {"data?", "data"} => Len(got) = NbdHeader
    /\ p = "data" => asked[d + 1].type = "WRITE"
    /\ p \in {"access", "reply", "more"} => Len(got) = f[d + 2]
    /\ NbdStored(block, asked, IF p \in {"reply", "more"} THEN d + 1 ELSE d)
    /\ NbdAnswered(ans, asked, IF p = "more" THEN d + 1 ELSE d)
    /\ p = "more" => /\ Len(ans) \in NbdHeadsOf(ans) /\ ans[Len(ans)].of = d + 1

NbdFlow(p, got, to, asked, ans, block) ==
    \/ /\ p \in NbdResting \cup NbdReading
       /\ \E d \in 0 .. Len(asked), f \in [Nat -> Nat] :
             /\ NbdMessages(got \o to, asked, d, f)
             /\ NbdPlaced(p, got, asked, ans, block, d, f)
    \/ /\ p \in NbdOver
       /\ \E d \in 0 .. Len(asked) : NbdAnswered(ans, asked, d)

NbdFields == {"asked", "to_app", "answers", "block", "fds", "m_nbd_fd_disconnect", "size",
              "blocked", "doing", "line", "raised", "ended"}

NbdTypes == /\ DOMAIN shared = NbdFields /\ shared.asked \in NbdAsked
            /\ shared.to_app \in NbdSocket /\ shared.answers \in NbdReplies
            /\ shared.block \in Nat /\ shared.fds \subseteq {"device", "app", "nbd", "epoll"}
            /\ DOMAIN at = 1..2 /\ DOMAIN hand = 1..2
            /\ at[2] \in {"start", "do it", "doing", "clear", "end"}
            /\ DOMAIN hand[1] = {"got", "evlist"} /\ hand[1].got \in NbdSocket

\* The listener, the descriptors and the ends of the program.
NbdEnding == /\ shared.ended = "killed" => ~shared.blocked
             /\ shared.ended = "returned" => at[1] = "end"
             /\ shared.doing <=> at[2] = "doing"
             /\ at[1] \in {"close", "end"} => at[2] = "end"
             /\ "epoll" \in shared.fds <=> at[1] \notin NbdSettingUp
             /\ at[1] \in {"last join", "close"} => "app" \notin shared.fds
             /\ at[1] = "end" => shared.fds = {"epoll"}

NbdInv == /\ NbdTypes /\ NbdEnding
          /\ NbdFlow(at[1], hand[1].got, shared.to_app, shared.asked, shared.answers, shared.block)

\* r is the stream s with bytes b + 1 .. b + k of reply n behind it.
RpExtends(r, s, n, b, k) ==
    /\ r \in Seq(RpByte) /\ s \in Seq(RpByte) /\ Len(r) = Len(s) + k
    /\ \A i \in 1 .. Len(s) : r[i] = s[i]
    /\ \A i \in Len(s) + 1 .. Len(s) + k : r[i][1] = n /\ r[i][2] = b + (i - Len(s))

LEMMA RpExtended ==
    ASSUME NEW s \in Seq(RpByte), NEW n \in 1 .. Len(RpAsked), NEW b \in Nat, NEW k \in Nat,
           b + k <= RpHeader + RpData
    PROVE  RpExtends(s \o [i \in 1..k |-> <<n, b + i>>], s, n, b, k)
<1> DEFINE p == [i \in 1..k |-> <<n, b + i>>]
           r == s \o p
<1>1. RpHeader + RpData \in Nat
  BY DeviceAssumption
<1>2. /\ p = [i \in 1..k |-> p[i]]
      /\ \A i \in 1..k : p[i] = <<n, b + i>> /\ p[i][1] = n /\ p[i][2] = b + i
  OBVIOUS
<1>3. \A i \in 1..k : b + i \in 1 .. RpHeader + RpData
  BY <1>1
<1>4. p \in Seq(RpByte) /\ Len(p) = k
  <2>1. \A i \in 1..k : <<n, b + i>> \in RpByte
    BY <1>3 DEF RpByte
  <2>2. p \in [1..k -> RpByte]
    BY ONLY <2>1
  <2> HIDE DEF p
  <2> QED
    BY ONLY <2>2, k \in Nat
<1> HIDE DEF p
<1>5. /\ r \in Seq(RpByte) /\ Len(r) = Len(s) + k /\ Len(s) \in Nat
      /\ \A i \in 1 .. Len(s) : r[i] = s[i]
      /\ \A i \in 1..k : r[i + Len(s)] = p[i]
  <2>1. p \in Seq(RpByte)
    BY <1>4
  <2>2. /\ r \in Seq(RpByte) /\ Len(r) = Len(s) + Len(p) /\ Len(s) \in Nat
        /\ \A i \in 1 .. Len(s) : r[i] = s[i]
        /\ \A i \in 1 .. Len(p) : r[i + Len(s)] = p[i]
    BY ONLY <2>1, s \in Seq(RpByte), LgConcat
  <2> HIDE DEF r
  <2> QED
    BY <2>2, <1>4
<1> HIDE DEF r
<1>6. ASSUME NEW i \in Len(s) + 1 .. Len(s) + k PROVE r[i][1] = n /\ r[i][2] = b + (i - Len(s))
  <2>1. i - Len(s) \in 1..k /\ (i - Len(s)) + Len(s) = i
    BY <1>5
  <2>2. r[i] = p[i - Len(s)]
    BY <2>1, <1>5
  <2> QED
    BY <2>1, <2>2, <1>2
<1> QED
  BY <1>5, <1>6 DEF RpExtends, r, p

LEMMA RpOthersStay ==
    ASSUME NEW r, NEW s, NEW n, NEW b \in Nat, NEW k \in Nat, RpExtends(r, s, n, b, k),
           NEW m, m # n, NEW cut, NEW more, m \in more <=> m \in cut
    PROVE  /\ RpOrdered(s, m) => RpOrdered(r, m)
           /\ RpInPiece(s, m) => RpInPiece(r, m)
           /\ \A l \in Nat : RpSoFar(s, m, l, cut) => RpSoFar(r, m, l, more)
<1>1. /\ Len(r) = Len(s) + k /\ Len(s) \in Nat /\ DOMAIN r = 1 .. Len(r) /\ DOMAIN s = 1 .. Len(s)
      /\ \A i \in DOMAIN s : i \in DOMAIN r /\ r[i] = s[i]
  BY DEF RpExtends
<1>2. \A i \in DOMAIN r : r[i][1] = m => i \in DOMAIN s /\ s[i][1] = m
  BY <1>1 DEF RpExtends
<1>3. RpOrdered(s, m) => RpOrdered(r, m)
  BY <1>1, <1>2 DEF RpOrdered
<1>4. RpInPiece(s, m) => RpInPiece(r, m)
  BY <1>1, <1>2 DEF RpInPiece
<1>5. ASSUME NEW l \in Nat, RpSoFar(s, m, l, cut) PROVE RpSoFar(r, m, l, more)
  <2>1. RpWithin(r, m, l)
    BY <1>1, <1>2, <1>5 DEF RpSoFar, RpWithin
  <2>2. m \notin more => RpHas(r, m, l)
    BY <1>1, <1>2, <1>5 DEF RpSoFar, RpHas
  <2> QED
    BY <2>1, <2>2 DEF RpSoFar
<1> QED
  BY <1>3, <1>4, <1>5

LEMMA RpOwnGoesOn ==
    ASSUME NEW r, NEW s, NEW n, NEW b \in Nat, NEW k \in Nat, RpExtends(r, s, n, b, k)
    PROVE  /\ RpOrdered(s, n) /\ RpWithin(s, n, b) => RpOrdered(r, n) /\ RpWithin(r, n, b + k)
           /\ RpHas(s, n, b) => RpHas(r, n, b + k)
           /\ RpAtEnd(s, n) => RpAtEnd(r, n)
           /\ RpAtEnd(r, n) => RpInPiece(r, n)
<1>1. /\ Len(r) = Len(s) + k /\ Len(s) \in Nat /\ DOMAIN r = 1 .. Len(r) /\ DOMAIN s = 1 .. Len(s)
      /\ \A i \in 1 .. Len(s) : i \in DOMAIN r /\ r[i] = s[i]
      /\ \A i \in Len(s) + 1 .. Len(r) : r[i][1] = n /\ r[i][2] = b + (i - Len(s))
      /\ \A i \in DOMAIN r : i \in 1 .. Len(s) \/ i \in Len(s) + 1 .. Len(r)
  BY DEF RpExtends
<1>2. ASSUME RpOrdered(s, n), RpWithin(s, n, b) PROVE RpOrdered(r, n) /\ RpWithin(r, n, b + k)
  <2>0. \A i \in DOMAIN s : s[i][2] \in Nat
    <3>1. \A i \in DOMAIN s : s[i] \in RpByte
      BY <1>1 DEF RpExtends
    <3>2. \A e \in RpByte : e[2] \in Nat
      BY DeviceAssumption DEF RpByte
    <3> QED
      BY <3>1, <3>2
  <2>1. \A i \in DOMAIN s : s[i][1] = n => s[i][2] <= b
    BY <1>2 DEF RpWithin
  <2>2. RpOrdered(r, n)
    <3> SUFFICES ASSUME NEW i \in DOMAIN r, NEW j \in DOMAIN r, r[i][1] = n, r[j][1] = n, i < j
                 PROVE  r[i][2] < r[j][2]
      BY DEF RpOrdered
    <3>1. CASE i \in 1 .. Len(s) /\ j \in 1 .. Len(s)
      BY <1>1, <1>2, <3>1 DEF RpOrdered
    <3>2. CASE i \in 1 .. Len(s) /\ j \in Len(s) + 1 .. Len(r)
      <4>1. r[i][2] <= b /\ r[i][2] \in Nat
        BY <1>1, <2>0, <2>1, <3>2
      <4>2. r[j][2] = b + (j - Len(s)) /\ j - Len(s) >= 1 /\ j - Len(s) \in Nat
        BY <1>1, <3>2
      <4> QED
        BY <4>1, <4>2
    <3>3. CASE i \in Len(s) + 1 .. Len(r)
      <4>1. j \in Len(s) + 1 .. Len(r)
        BY <1>1, <3>3
      <4> QED
        BY <1>1, <3>3, <4>1
    <3> QED
      BY <1>1, <3>1, <3>2, <3>3
  <2>3. RpWithin(r, n, b + k)
    <3> SUFFICES ASSUME NEW i \in DOMAIN r, r[i][1] = n PROVE r[i][2] <= b + k
      BY DEF RpWithin
    <3>1. CASE i \in 1 .. Len(s)
      BY <1>1, <2>0, <2>1, <3>1
    <3>2. CASE i \in Len(s) + 1 .. Len(r)
      BY <1>1, <3>2
    <3> QED
      BY <1>1, <3>1, <3>2
  <2> QED
    BY <2>2, <2>3
<1>3. ASSUME RpHas(s, n, b) PROVE RpHas(r, n, b + k)
  <2> SUFFICES ASSUME NEW c \in 1 .. b + k PROVE \E i \in DOMAIN r : r[i][1] = n /\ r[i][2] = c
    BY DEF RpHas
  <2>1. CASE c \in 1..b
    BY <1>1, <1>3, <2>1 DEF RpHas
  <2>2. CASE c \in b + 1 .. b + k
    <3> DEFINE i == Len(s) + (c - b)
    <3>1. /\ i \in Len(s) + 1 .. Len(r) /\ i \in DOMAIN r /\ b + (i - Len(s)) = c
      BY <1>1, <2>2
    <3> HIDE DEF i
    <3> QED
      BY <1>1, <3>1
  <2> QED
    BY <2>1, <2>2
<1>4. ASSUME RpAtEnd(s, n) PROVE RpAtEnd(r, n)
  <2> SUFFICES ASSUME NEW i \in DOMAIN r, r[i][1] = n, NEW j \in i .. Len(r) PROVE r[j][1] = n
    BY DEF RpAtEnd
  <2>1. CASE j \in Len(s) + 1 .. Len(r)
    BY <1>1, <2>1
  <2>2. CASE j \in 1 .. Len(s)
    BY <1>1, <1>4, <2>2 DEF RpAtEnd
  <2> QED
    BY <1>1, <2>1, <2>2
<1>5. ASSUME RpAtEnd(r, n) PROVE RpInPiece(r, n)
  BY <1>1, <1>5 DEF RpAtEnd, RpInPiece
<1> QED
  BY <1>2, <1>3, <1>4, <1>5

LEMMA RpBegins == RpInit => RpInv
  BY DeviceAssumption DEF RpInit, RpInv, RpTypes, RpFields, RpPlaces, RpHands, RpPhase, RpApart, RpKnown,
     RpReplies, RpAtWork, RpIdle

\* What a worker sends keeps the replies, if its own is what it has to be by then.
LEMMA RpSends ==
    ASSUME RpInv, NEW t \in RpWorkers, NEW n, n = hand[t].of, n # 0, NEW k \in Nat,
           NEW h \in RpHands, NEW p \in RpPlaces,
           DOMAIN shared' = RpFields, shared'.taken = shared.taken,
           shared'.beside = shared.beside,
           RpExtends(shared'.stream, shared.stream, n, hand[t].sent, k),
           \A m : m # n => (m \in shared'.cut <=> m \in shared.cut),
           at' = [at EXCEPT ![t] = p], hand' = [hand EXCEPT ![t] = h],
           \/ /\ p = "data" /\ h.of = n /\ RpAsked[n] = "READ"
              /\ h.sent \in RpHeader .. RpHeader + RpData - 1
              /\ RpSoFar(shared'.stream, n, h.sent, shared'.cut)
           \/ /\ p = "idle" /\ h = RpIdle
              /\ RpSoFar(shared'.stream, n, RpLength(n), shared'.cut)
    PROVE  RpInv'
<1> DEFINE s == shared.stream
           r == shared'.stream
           b == hand[t].sent
<1>1. RpHeader + RpData \in Nat /\ RpHeader \in Nat \ {0} /\ RpData \in Nat \ {0}
  BY DeviceAssumption
<1>2. /\ b \in Nat /\ n \in 1 .. shared.taken /\ n \in Nat /\ shared.taken \in 0 .. Len(RpAsked)
      /\ Len(RpAsked) \in Nat /\ RpExtends(r, s, n, b, k) /\ k \in Nat
  BY <1>1, DeviceAssumption DEF RpInv, RpTypes, RpPhase, RpHands
<1>3. /\ at'[t] = p /\ hand'[t] = h
      /\ \A u \in RpWorkers : u # t => at'[u] = at[u] /\ hand'[u] = hand[u]
  BY DEF RpInv, RpTypes
<1>4. h.of = n \/ h.of = 0
  BY DEF RpIdle
<1>5. RpTypes'
  <2>1. at' \in [RpWorkers -> RpPlaces] /\ hand' \in [RpWorkers -> RpHands]
    BY DEF RpInv, RpTypes
  <2>2. r \in Seq(RpByte)
    BY DEF RpExtends
  <2> QED
    BY <2>1, <2>2, <1>2 DEF RpTypes
<1>6. RpPhase'
  <2> SUFFICES ASSUME NEW u \in RpWorkers PROVE RpPhase!(u)'
    BY DEF RpPhase
  <2>1. CASE u = t
    BY <1>2, <1>3, <2>1 DEF RpPhase, RpIdle
  <2>2. CASE u # t
    BY <1>3, <2>2 DEF RpInv, RpPhase
  <2> QED
    BY <2>1, <2>2
<1>7. RpApart'
  BY <1>3, <1>4 DEF RpInv, RpApart
<1>8. RpKnown'
  <2>1. /\ Len(r) = Len(s) + k /\ Len(s) \in Nat /\ DOMAIN r = 1 .. Len(r) /\ DOMAIN s = 1 .. Len(s)
        /\ \A i \in 1 .. Len(s) : r[i] = s[i]
        /\ \A i \in Len(s) + 1 .. Len(s) + k : r[i][1] = n
    BY <1>2 DEF RpExtends
  <2>2. \A i \in DOMAIN s : s[i][1] <= shared.taken
    BY DEF RpInv, RpKnown
  <2>3. \A i \in DOMAIN r : i \in 1 .. Len(s) \/ i \in Len(s) + 1 .. Len(s) + k
    BY <2>1, <1>2
  <2> HIDE DEF r, s
  <2>4. \A i \in DOMAIN r : r[i][1] <= shared.taken
    BY <2>1, <2>2, <2>3, <1>2
  <2> QED
    BY <2>4 DEF RpKnown, r
<1>9. /\ RpOrdered(s, n) /\ RpWithin(s, n, b)
      /\ n \notin shared.beside => RpAtEnd(s, n)
  BY <1>2 DEF RpInv, RpReplies, RpAtWork, RpSoFar
<1>10. /\ RpOrdered(r, n)
       /\ n \notin shared.beside => RpAtEnd(r, n) /\ RpInPiece(r, n)
  <2> HIDE DEF r, s, b
  <2> QED
    BY <1>2, <1>9, RpOwnGoesOn
<1>11. ASSUME NEW m, m # n
       PROVE  /\ RpOrdered(s, m) => RpOrdered(r, m)
              /\ RpInPiece(s, m) => RpInPiece(r, m)
              /\ \A l \in Nat : RpSoFar(s, m, l, shared.cut) => RpSoFar(r, m, l, shared'.cut)
  <2>1. m \in shared'.cut <=> m \in shared.cut
    BY <1>11
  <2> HIDE DEF r, s, b
  <2> QED
    BY <1>2, <1>11, <2>1, RpOthersStay
<1>12. RpReplies'
  <2> SUFFICES ASSUME NEW m \in 1 .. shared.taken
               PROVE  /\ RpOrdered(r, m)
                      /\ m \notin shared.beside => RpInPiece(r, m)
                      /\ (\A u \in RpWorkers : hand'[u].of # m) => RpSoFar(r, m, RpLength(m), shared'.cut)
    BY DEF RpReplies
  <2>1. CASE m = n
    BY <1>3, <1>10, <2>1
  <2>2. CASE m # n
    <3>1. RpLength(m) \in Nat
      BY <1>1 DEF RpLength
    <3>2. /\ RpOrdered(s, m)
          /\ m \notin shared.beside => RpInPiece(s, m)
          /\ (\A u \in RpWorkers : hand[u].of # m) => RpSoFar(s, m, RpLength(m), shared.cut)
      BY DEF RpInv, RpReplies
    <3>3. (\A u \in RpWorkers : hand'[u].of # m) => \A u \in RpWorkers : hand[u].of # m
      BY <1>3, <2>2
    <3> QED
      BY <1>11, <2>2, <3>1, <3>2, <3>3
  <2> QED
    BY <2>1, <2>2
<1>13. RpAtWork'
  <2> SUFFICES ASSUME NEW u \in RpWorkers, hand'[u].of # 0
               PROVE  /\ RpSoFar(r, hand'[u].of, hand'[u].sent, shared'.cut)
                      /\ hand'[u].of \notin shared.beside => RpAtEnd(r, hand'[u].of)
    BY DEF RpAtWork
  <2>1. CASE u = t
    BY <1>3, <1>10, <2>1 DEF RpIdle
  <2>2. CASE u # t
    <3>0. hand'[u] = hand[u] /\ hand[u].of # 0
      BY <1>3, <2>2
    <3>1. hand'[u] = hand[u] /\ hand[u].of # n /\ hand[u].of \in shared.beside /\ hand[u].sent \in Nat
      <4>1. hand[u].of # n /\ hand[u].of \in shared.beside
        BY <3>0, <2>2 DEF RpInv, RpApart
      <4>2. hand[u].sent \in Nat
        <5>1. hand[u] \in RpHands
          BY DEF RpInv, RpTypes
        <5> QED
          BY <1>1, <5>1 DEF RpHands
      <4> QED
        BY <3>0, <4>1, <4>2
    <3>2. RpSoFar(s, hand[u].of, hand[u].sent, shared.cut)
      BY <3>1 DEF RpInv, RpAtWork
    <3> QED
      BY <3>1, <3>2, <1>11
  <2> QED
    BY <2>1, <2>2
<1> QED
  BY <1>5, <1>6, <1>7, <1>8, <1>12, <1>13 DEF RpInv

LEMMA RpKeepsTake ==
    ASSUME RpInv, NEW t \in RpWorkers, RpTake(t), UNCHANGED game
    PROVE  RpInv'
<1> DEFINE n == shared.taken + 1
           s == shared.stream
           others == {hand[u].of : u \in RpWorkers \ {t}} \ {0}
           more == IF others = {} THEN {} ELSE others \cup {n}
<1>1. /\ n \in 1 .. Len(RpAsked) /\ shared.taken \in 0 .. Len(RpAsked) /\ Len(RpAsked) \in Nat
      /\ at[t] = "idle" /\ hand[t] = RpIdle
      /\ at' = [at EXCEPT ![t] = "header"] /\ hand' = [hand EXCEPT ![t] = [of |-> n, sent |-> 0]]
  <2>1. n \in DOMAIN RpAsked /\ DOMAIN RpAsked = 1 .. Len(RpAsked) /\ Len(RpAsked) \in Nat
    BY DeviceAssumption DEF RpTake
  <2> QED
    BY <2>1 DEF RpTake, Moves, Holds, RpInv, RpTypes, RpPhase
<1>2. /\ DOMAIN shared' = RpFields /\ shared'.taken = n /\ shared'.stream = s /\ shared'.cut = shared.cut
      /\ shared'.beside = shared.beside \cup more
  <2>1. shared' = [shared EXCEPT !.taken = n, !.beside = @ \cup more]
    BY DEF RpTake
  <2> HIDE DEF more
  <2> QED
    BY <2>1 DEF RpInv, RpTypes, RpFields
<1>3. /\ at'[t] = "header" /\ hand'[t] = [of |-> n, sent |-> 0]
      /\ \A u \in RpWorkers : u # t => at'[u] = at[u] /\ hand'[u] = hand[u]
  BY <1>1 DEF RpInv, RpTypes
<1>4. \A u \in RpWorkers : u # t /\ hand[u].of # 0 => hand[u].of \in more /\ n \in more /\ hand[u].of # n
  <2> TAKE u \in RpWorkers
  <2> HAVE u # t /\ hand[u].of # 0
  <2>1. hand[u].of \in others
    OBVIOUS
  <2>2. hand[u].of <= shared.taken /\ hand[u].of \in Nat
    <3>1. hand[u] \in RpHands
      BY DEF RpInv, RpTypes
    <3>2. hand[u].of \in Nat
      BY <1>1, <3>1 DEF RpHands
    <3> QED
      BY <3>2 DEF RpInv, RpPhase
  <2>3. hand[u].of # n
    BY <1>1, <2>2
  <2> HIDE DEF others
  <2>4. hand[u].of \in more /\ n \in more
    BY <2>1
  <2> QED
    BY <2>3, <2>4
<1> HIDE DEF more
<1>5. RpTypes'
  <2>1. at' \in [RpWorkers -> RpPlaces]
    BY <1>1 DEF RpInv, RpTypes, RpPlaces
  <2>2. [of |-> n, sent |-> 0] \in RpHands
    BY <1>1, DeviceAssumption DEF RpHands
  <2>3. hand' \in [RpWorkers -> RpHands]
    BY <1>1, <2>2 DEF RpInv, RpTypes
  <2> QED
    BY <1>1, <1>2, <2>1, <2>3 DEF RpInv, RpTypes
<1>6. RpPhase'
  <2> SUFFICES ASSUME NEW u \in RpWorkers PROVE RpPhase!(u)'
    BY DEF RpPhase
  <2>1. CASE u = t
    BY <1>1, <1>2, <1>3, <2>1 DEF RpPhase, RpIdle
  <2>2. CASE u # t
    <3>1. hand[u].of <= shared.taken => hand[u].of <= n
      BY <1>1 DEF RpInv, RpTypes, RpHands
    <3> QED
      BY <1>2, <1>3, <2>2, <3>1 DEF RpInv, RpPhase
  <2> QED
    BY <2>1, <2>2
<1>7. RpApart'
  <2> SUFFICES ASSUME NEW u \in RpWorkers, NEW v \in RpWorkers, u # v, hand'[u].of # 0, hand'[v].of # 0
               PROVE  hand'[u].of # hand'[v].of /\ hand'[u].of \in shared'.beside
    BY DEF RpApart
  <2>1. CASE u = t
    BY <1>2, <1>3, <1>4, <2>1
  <2>2. CASE v = t
    BY <1>2, <1>3, <1>4, <2>2
  <2>3. CASE u # t /\ v # t
    BY <1>2, <1>3, <2>3 DEF RpInv, RpApart
  <2> QED
    BY <2>1, <2>2, <2>3
<1>8. \A i \in DOMAIN s : s[i][1] <= shared.taken /\ s[i][1] \in Nat
  <2>1. \A i \in DOMAIN s : s[i] \in RpByte
    BY DEF RpInv, RpTypes
  <2>2. \A e \in RpByte : e[1] \in Nat
    BY <1>1 DEF RpByte
  <2> QED
    BY <2>1, <2>2 DEF RpInv, RpKnown
<1>9. RpKnown'
  BY <1>1, <1>2, <1>8 DEF RpKnown
<1>10. \A i \in DOMAIN s : s[i][1] # n
  BY <1>1, <1>8
<1>11. RpReplies'
  <2> SUFFICES ASSUME NEW m \in 1 .. n
               PROVE  /\ RpOrdered(s, m)
                      /\ m \notin shared'.beside => RpInPiece(s, m)
                      /\ (\A u \in RpWorkers : hand'[u].of # m) => RpSoFar(s, m, RpLength(m), shared.cut)
    BY <1>2 DEF RpReplies
  <2>1. CASE m = n
    BY <1>3, <1>10, <2>1 DEF RpOrdered, RpInPiece
  <2>2. CASE m \in 1 .. shared.taken
    <3>1. /\ RpOrdered(s, m)
          /\ m \notin shared.beside => RpInPiece(s, m)
          /\ (\A u \in RpWorkers : hand[u].of # m) => RpSoFar(s, m, RpLength(m), shared.cut)
      BY <2>2 DEF RpInv, RpReplies
    <3>2. hand[t].of # m
      BY <1>1, <2>2 DEF RpIdle
    <3>3. (\A u \in RpWorkers : hand'[u].of # m) => \A u \in RpWorkers : hand[u].of # m
      BY <1>3, <3>2
    <3> QED
      BY <1>2, <3>1, <3>3
  <2> QED
    BY <1>1, <2>1, <2>2
<1>12. RpAtWork'
  <2> SUFFICES ASSUME NEW u \in RpWorkers, hand'[u].of # 0
               PROVE  /\ RpSoFar(s, hand'[u].of, hand'[u].sent, shared.cut)
                      /\ hand'[u].of \notin shared'.beside => RpAtEnd(s, hand'[u].of)
    BY <1>2 DEF RpAtWork
  <2>1. CASE u = t
    <3>1. hand'[u].of = n /\ hand'[u].sent = 0
      BY <1>3, <2>1
    <3>2. RpSoFar(s, n, 0, shared.cut) /\ RpAtEnd(s, n)
      BY <1>10 DEF RpSoFar, RpWithin, RpHas, RpAtEnd
    <3> QED
      BY <3>1, <3>2
  <2>2. CASE u # t
    BY <1>2, <1>3, <2>2 DEF RpInv, RpAtWork
  <2> QED
    BY <2>1, <2>2
<1> QED
  BY <1>5, <1>6, <1>7, <1>9, <1>11, <1>12 DEF RpInv

\* What both kinds of write send.
LEMMA RpWrites ==
    ASSUME RpInv, NEW t \in RpWorkers, at[t] # "idle", NEW k \in Nat,
           hand[t].sent + k <= RpHeader + RpData
    PROVE  LET n == hand[t].of
               b == hand[t].sent
               r == shared.stream \o RpBytes(t, k) IN
           /\ n \in 1 .. Len(RpAsked) /\ n # 0 /\ b \in Nat
           /\ RpExtends(r, shared.stream, n, b, k)
           /\ RpWithin(r, n, b + k)
           /\ n \notin shared.cut => RpHas(r, n, b + k)
<1> DEFINE n == hand[t].of
           b == hand[t].sent
           s == shared.stream
           r == s \o RpBytes(t, k)
<1>1. n \in 1 .. Len(RpAsked) /\ n # 0 /\ b \in Nat /\ n \in 1 .. shared.taken /\ s \in Seq(RpByte)
  BY DeviceAssumption DEF RpInv, RpTypes, RpPhase, RpHands
<1>2. RpOrdered(s, n) /\ RpSoFar(s, n, b, shared.cut)
  BY <1>1 DEF RpInv, RpReplies, RpAtWork
<1>3. r = s \o [i \in 1..k |-> <<n, b + i>>]
  BY DEF RpBytes
<1>4. b + k <= RpHeader + RpData
  OBVIOUS
<1> HIDE DEF n, b, s
<1>5. RpExtends(r, s, n, b, k)
  BY <1>1, <1>3, <1>4, RpExtended
<1> HIDE DEF r
<1>6. k \in Nat
  OBVIOUS
<1>7. RpWithin(r, n, b + k) /\ (n \notin shared.cut => RpHas(r, n, b + k))
  BY <1>1, <1>2, <1>5, <1>6, RpOwnGoesOn DEF RpSoFar
<1> QED
  BY <1>1, <1>5, <1>7 DEF n, b, s, r

LEMMA RpKeepsHeader ==
    ASSUME RpInv, NEW t \in RpWorkers, RpHeaderStep(t)
    PROVE  RpInv'
<1> DEFINE n == hand[t].of
           r == shared'.stream
           reads == RpAsked[n] = "READ"
           h == IF reads THEN [hand[t] EXCEPT !.sent = RpHeader] ELSE RpIdle
           p == IF reads THEN "data" ELSE "idle"
<1>1. RpHeader \in Nat \ {0} /\ RpData \in Nat \ {0} /\ Len(RpAsked) \in Nat
  BY DeviceAssumption
<1>2. /\ at[t] = "header" /\ at' = [at EXCEPT ![t] = p] /\ hand' = [hand EXCEPT ![t] = h]
  BY DEF RpHeaderStep, Moves, Holds
<1>3. PICK k \in 0..RpHeader :
         shared' = [shared EXCEPT !.stream = @ \o RpBytes(t, k),
                                  !.cut = IF k < RpHeader THEN @ \cup {n} ELSE @]
  BY DEF RpHeaderStep
<1>4. /\ DOMAIN shared' = RpFields /\ shared'.taken = shared.taken /\ shared'.beside = shared.beside
      /\ r = shared.stream \o RpBytes(t, k)
      /\ shared'.cut = IF k < RpHeader THEN shared.cut \cup {n} ELSE shared.cut
  BY <1>3 DEF RpInv, RpTypes, RpFields
<1>5. hand[t].sent = 0 /\ k \in Nat /\ 0 + k = k /\ hand[t].sent + k <= RpHeader + RpData
      /\ k <= RpHeader /\ at[t] # "idle"
  BY <1>1, <1>2, <1>3 DEF RpInv, RpPhase
<1>6. /\ n \in 1 .. Len(RpAsked) /\ n # 0
      /\ RpExtends(r, shared.stream, n, hand[t].sent, k)
      /\ RpWithin(r, n, k)
      /\ n \notin shared.cut => RpHas(r, n, k)
  <2>1. /\ n \in 1 .. Len(RpAsked) /\ n # 0
        /\ RpExtends(r, shared.stream, n, hand[t].sent, k)
        /\ RpWithin(r, n, hand[t].sent + k)
        /\ n \notin shared.cut => RpHas(r, n, hand[t].sent + k)
    BY <1>4, <1>5, RpWrites
  <2> QED
    BY <2>1, <1>5
<1>7. RpSoFar(r, n, RpHeader, shared'.cut)
  <2>1. RpWithin(r, n, RpHeader)
    <3>1. \A i \in DOMAIN r : r[i][2] \in Nat
      <4>1. \A i \in DOMAIN r : r[i] \in RpByte
        BY <1>6 DEF RpExtends
      <4>2. \A e \in RpByte : e[2] \in Nat
        BY DeviceAssumption DEF RpByte
      <4> QED
        BY <4>1, <4>2
    <3> QED
      BY <1>1, <1>5, <1>6, <3>1 DEF RpWithin
  <2>2. n \notin shared'.cut => RpHas(r, n, RpHeader)
    BY <1>1, <1>3, <1>4, <1>6
  <2> QED
    BY <2>1, <2>2 DEF RpSoFar
<1>8. \A m : m # n => (m \in shared'.cut <=> m \in shared.cut)
  BY <1>4
<1>9. hand[t] \in RpHands /\ 0 \in 0 .. Len(RpAsked) /\ RpHeader \in 0 .. RpHeader + RpData
  BY <1>1 DEF RpInv, RpTypes
<1>10. CASE reads
  <2>1. h \in RpHands /\ h.of = n /\ h.sent = RpHeader
    BY <1>9, <1>10 DEF RpHands
  <2>2. p = "data" /\ p \in RpPlaces
    BY <1>10 DEF RpPlaces
  <2>3. h.sent \in RpHeader .. RpHeader + RpData - 1
    BY <1>1, <2>1
  <2>4. RpSoFar(r, n, h.sent, shared'.cut)
    BY <1>7, <2>1
  <2> HIDE DEF h, p, r
  <2> QED
    BY <1>2, <1>4, <1>5, <1>6, <1>8, <1>10, <2>1, <2>2, <2>3, <2>4, RpSends DEF r
<1>11. CASE ~reads
  <2>1. h = RpIdle /\ h \in RpHands
    BY <1>1, <1>9, <1>11 DEF RpHands, RpIdle
  <2>2. p = "idle" /\ p \in RpPlaces
    BY <1>11 DEF RpPlaces
  <2>3. RpSoFar(r, n, RpLength(n), shared'.cut)
    BY <1>1, <1>7, <1>11 DEF RpLength
  <2> HIDE DEF h, p, r
  <2> QED
    BY <1>2, <1>4, <1>5, <1>6, <1>8, <2>1, <2>2, <2>3, RpSends DEF r
<1> QED
  BY <1>10, <1>11

\* A write that takes k bytes.
LEMMA RpKeepsSent ==
    ASSUME RpInv, NEW t \in RpWorkers, NEW k \in 1 .. RpHeader + RpData - hand[t].sent,
           LET all == hand[t].sent + k = RpHeader + RpData
           IN  /\ Moves(t, "data", IF all THEN "idle" ELSE "data")
               /\ Holds(t, IF all THEN RpIdle ELSE [hand[t] EXCEPT !.sent = @ + k])
               /\ shared' = [shared EXCEPT !.stream = @ \o RpBytes(t, k)]
    PROVE  RpInv'
<1> DEFINE n == hand[t].of
           r == shared'.stream
<1>1. RpHeader \in Nat \ {0} /\ RpData \in Nat \ {0} /\ Len(RpAsked) \in Nat
  BY DeviceAssumption
<1>2. LET all == hand[t].sent + k = RpHeader + RpData
      IN  /\ Moves(t, "data", IF all THEN "idle" ELSE "data")
          /\ Holds(t, IF all THEN RpIdle ELSE [hand[t] EXCEPT !.sent = @ + k])
          /\ shared' = [shared EXCEPT !.stream = @ \o RpBytes(t, k)]
  OBVIOUS
<1> DEFINE all == hand[t].sent + k = RpHeader + RpData
           h == IF all THEN RpIdle ELSE [hand[t] EXCEPT !.sent = @ + k]
           p == IF all THEN "idle" ELSE "data"
<1>3. at[t] = "data" /\ at' = [at EXCEPT ![t] = p] /\ hand' = [hand EXCEPT ![t] = h]
  BY <1>2 DEF Moves, Holds
<1>4. /\ DOMAIN shared' = RpFields /\ shared'.taken = shared.taken /\ shared'.beside = shared.beside
      /\ r = shared.stream \o RpBytes(t, k) /\ shared'.cut = shared.cut
  BY <1>2 DEF RpInv, RpTypes, RpFields
<1>5. /\ hand[t].sent \in RpHeader .. RpHeader + RpData - 1 /\ RpAsked[n] = "READ"
      /\ hand[t] \in RpHands /\ at[t] # "idle"
  BY <1>3 DEF RpInv, RpPhase, RpTypes
<1>6. /\ k \in Nat \ {0} /\ hand[t].sent + k <= RpHeader + RpData /\ hand[t].sent \in Nat
      /\ hand[t].sent + k \in RpHeader .. RpHeader + RpData
  <2> DEFINE c == hand[t].sent
  <2>1. c \in RpHeader .. RpHeader + RpData - 1 /\ k \in 1 .. RpHeader + RpData - c
    BY <1>5
  <2> HIDE DEF c
  <2>2. /\ k \in Nat \ {0} /\ c + k <= RpHeader + RpData /\ c \in Nat
        /\ c + k \in RpHeader .. RpHeader + RpData
    BY <1>1, <2>1
  <2> QED
    BY <2>2 DEF c
<1>7. /\ n \in 1 .. Len(RpAsked) /\ n # 0
      /\ RpExtends(r, shared.stream, n, hand[t].sent, k)
      /\ RpWithin(r, n, hand[t].sent + k)
      /\ n \notin shared.cut => RpHas(r, n, hand[t].sent + k)
  BY <1>4, <1>5, <1>6, RpWrites
<1>8. RpSoFar(r, n, hand[t].sent + k, shared'.cut)
  BY <1>4, <1>7 DEF RpSoFar
<1>9. \A m : m # n => (m \in shared'.cut <=> m \in shared.cut)
  BY <1>4
<1>10. CASE ~all
  <2>0. h = [hand[t] EXCEPT !.sent = @ + k]
    BY <1>10
  <2>1. h.of = n /\ h.sent = hand[t].sent + k /\ h \in RpHands
    <3>1. hand[t].sent + k \in 0 .. RpHeader + RpData
      BY <1>1, <1>6
    <3> HIDE DEF h, all
    <3> QED
      BY <1>5, <2>0, <3>1 DEF RpHands
  <2>2. p = "data" /\ p \in RpPlaces
    BY <1>10 DEF RpPlaces
  <2>3. h.sent \in RpHeader .. RpHeader + RpData - 1
    <3>1. hand[t].sent + k # RpHeader + RpData
      BY <1>10
    <3>2. \A c \in RpHeader .. RpHeader + RpData : c # RpHeader + RpData => c \in RpHeader .. RpHeader + RpData - 1
      BY ONLY <1>1
    <3> HIDE DEF h, all
    <3> QED
      BY <1>6, <2>1, <3>1, <3>2
  <2>4. RpSoFar(r, n, h.sent, shared'.cut)
    BY <1>8, <2>1
  <2> HIDE DEF h, p, r
  <2> QED
    BY <1>3, <1>4, <1>5, <1>6, <1>7, <1>9, <2>1, <2>2, <2>3, <2>4, RpSends DEF r
<1>11. CASE all
  <2>1. h = RpIdle /\ h \in RpHands
    BY <1>1, <1>11 DEF RpHands, RpIdle
  <2>2. p = "idle" /\ p \in RpPlaces
    BY <1>11 DEF RpPlaces
  <2>3. RpSoFar(r, n, RpLength(n), shared'.cut)
    BY <1>5, <1>8, <1>11 DEF RpLength
  <2> HIDE DEF h, p, r
  <2> QED
    BY <1>3, <1>4, <1>5, <1>6, <1>7, <1>9, <2>1, <2>2, <2>3, RpSends DEF r
<1> QED
  BY <1>10, <1>11

\* A write that fails: the reply is cut.
LEMMA RpKeepsFailed ==
    ASSUME RpInv, NEW t \in RpWorkers, Moves(t, "data", "idle"), Holds(t, RpIdle),
           shared' = [shared EXCEPT !.cut = @ \cup {hand[t].of}]
    PROVE  RpInv'
<1> DEFINE n == hand[t].of
           r == shared'.stream
<1>1. RpHeader \in Nat \ {0} /\ RpData \in Nat \ {0} /\ Len(RpAsked) \in Nat
  BY DeviceAssumption
<1>2. at[t] = "data" /\ at' = [at EXCEPT ![t] = "idle"] /\ hand' = [hand EXCEPT ![t] = RpIdle]
  BY DEF Moves, Holds
<1>3. /\ DOMAIN shared' = RpFields /\ shared'.taken = shared.taken /\ shared'.beside = shared.beside
      /\ r = shared.stream /\ shared'.cut = shared.cut \cup {n}
  BY DEF RpInv, RpTypes, RpFields
<1>4. /\ hand[t].sent \in RpHeader .. RpHeader + RpData - 1 /\ RpAsked[n] = "READ"
      /\ at[t] # "idle" /\ hand[t].sent + 0 <= RpHeader + RpData /\ hand[t].sent + 0 = hand[t].sent
  BY <1>1, <1>2 DEF RpInv, RpPhase
<1>5. shared.stream \o RpBytes(t, 0) = r
  <2>1. shared.stream \in Seq(RpByte) /\ RpBytes(t, 0) = <<>>
    BY DEF RpInv, RpTypes, RpBytes
  <2>2. shared.stream \o <<>> = shared.stream
    BY <2>1
  <2> QED
    BY <1>3, <2>1, <2>2
<1>6. /\ n # 0 /\ RpExtends(r, shared.stream, n, hand[t].sent, 0)
      /\ RpWithin(r, n, hand[t].sent + 0)
  BY <1>4, <1>5, RpWrites
<1>7. RpSoFar(r, n, RpLength(n), shared'.cut)
  <2>1. RpLength(n) = RpHeader + RpData /\ hand[t].sent <= RpLength(n) /\ hand[t].sent \in Int
    BY <1>1, <1>4 DEF RpLength
  <2>2. \A i \in DOMAIN r : r[i][2] \in Nat
    <3>1. \A i \in DOMAIN r : r[i] \in RpByte
      BY <1>6 DEF RpExtends
    <3>2. \A e \in RpByte : e[2] \in Nat
      BY DeviceAssumption DEF RpByte
    <3> QED
      BY <3>1, <3>2
  <2>3. RpWithin(r, n, RpLength(n))
    BY <1>1, <1>4, <1>6, <2>1, <2>2 DEF RpWithin
  <2> QED
    BY <1>3, <2>3 DEF RpSoFar
<1>8. \A m : m # n => (m \in shared'.cut <=> m \in shared.cut)
  BY <1>3
<1>9. RpIdle \in RpHands /\ "idle" \in RpPlaces
  BY <1>1 DEF RpHands, RpIdle, RpPlaces
<1> HIDE DEF r
<1> QED
  BY <1>2, <1>3, <1>6, <1>7, <1>8, <1>9, RpSends DEF r

LEMMA RpKeepsData ==
    ASSUME RpInv, NEW t \in RpWorkers, WriteAll(t)
    PROVE  RpInv'
  BY RpKeepsSent, RpKeepsFailed DEF WriteAll

LEMMA RpKeeps == ASSUME RpInv, NEW t \in RpWorkers, RpStep(t), UNCHANGED game PROVE RpInv'
  BY RpKeepsTake, RpKeepsHeader, RpKeepsData DEF RpStep

LEMMA RpUnchanged == ASSUME RpInv, UNCHANGED exVars PROVE RpInv'
  BY DEF exVars, RpInv, RpTypes, RpPhase, RpApart, RpKnown, RpReplies, RpAtWork

LEMMA RpRight == RpInv => RepliesAreWhole
<1> SUFFICES ASSUME RpInv, NEW n \in 1 .. shared.taken
             PROVE  LET places == {i \in DOMAIN shared.stream : shared.stream[i][1] = n}
                        bytes  == {shared.stream[i][2] : i \in places}
                        length == RpHeader + (IF RpAsked[n] = "READ" THEN RpData ELSE 0)
                    IN  /\ \A i, j \in places : i < j => shared.stream[i][2] < shared.stream[j][2]
                        /\ n \notin shared.cut => \A b \in bytes : 1..b \subseteq bytes
                        /\ n \notin shared.cut /\ (\A t \in RpWorkers : hand[t].of # n) => bytes = 1..length
                        /\ n \notin shared.beside => \A i, j \in places : i..j \subseteq places
  BY DEF RepliesAreWhole
<1> DEFINE s == shared.stream
           places == {i \in DOMAIN s : s[i][1] = n}
           bytes  == {s[i][2] : i \in places}
<1>1. /\ \A i \in DOMAIN s : s[i][2] \in Nat \ {0}
      /\ \A i \in DOMAIN s : i \in Nat
      /\ \A i, j \in DOMAIN s : i..j \subseteq DOMAIN s
  <2>1. s \in Seq(RpByte)
    BY DEF RpInv, RpTypes
  <2>2. \A e \in RpByte : e[2] \in Nat \ {0}
    BY DeviceAssumption DEF RpByte
  <2> HIDE DEF s
  <2>3. DOMAIN s = 1 .. Len(s) /\ Len(s) \in Nat /\ \A i \in DOMAIN s : s[i] \in RpByte
    BY <2>1
  <2> QED
    BY <2>2, <2>3
<1>2. /\ RpOrdered(s, n)
      /\ n \notin shared.beside => RpInPiece(s, n)
      /\ (\A t \in RpWorkers : hand[t].of # n) => RpSoFar(s, n, RpLength(n), shared.cut)
  BY DEF RpInv, RpReplies
<1>3. \E l \in Nat : RpSoFar(s, n, l, shared.cut)
  <2>1. CASE \A t \in RpWorkers : hand[t].of # n
    <3>1. RpLength(n) \in Nat
      BY DeviceAssumption DEF RpLength
    <3> QED
      BY <1>2, <2>1, <3>1
  <2>2. CASE \E t \in RpWorkers : hand[t].of = n
    <3>1. PICK t \in RpWorkers : hand[t].of = n
      BY <2>2
    <3>2. hand[t].sent \in Nat /\ hand[t].of # 0
      BY <3>1, DeviceAssumption DEF RpInv, RpTypes, RpHands
    <3> QED
      BY <3>1, <3>2 DEF RpInv, RpAtWork
  <2> QED
    BY <2>1, <2>2
<1> HIDE DEF s
<1>4. \A i, j \in places : i < j => s[i][2] < s[j][2]
  BY <1>2 DEF RpOrdered
<1>5. \A l \in Nat : n \notin shared.cut /\ RpSoFar(s, n, l, shared.cut) => bytes = 1..l
  <2> TAKE l \in Nat
  <2> HAVE n \notin shared.cut /\ RpSoFar(s, n, l, shared.cut)
  <2>1. RpWithin(s, n, l) /\ RpHas(s, n, l)
    BY DEF RpSoFar
  <2>2. bytes \subseteq 1..l
    BY <1>1, <2>1 DEF RpWithin
  <2>3. 1..l \subseteq bytes
    BY <2>1 DEF RpHas
  <2> QED
    BY <2>2, <2>3
<1>6. n \notin shared.cut => \A b \in bytes : 1..b \subseteq bytes
  <2> HIDE DEF bytes
  <2> QED
    BY <1>3, <1>5
<1>7. n \notin shared.cut /\ (\A t \in RpWorkers : hand[t].of # n) => bytes = 1 .. RpLength(n)
  <2>1. RpLength(n) \in Nat
    BY DeviceAssumption DEF RpLength
  <2> HIDE DEF bytes
  <2> QED
    BY <1>2, <1>5, <2>1
<1>8. n \notin shared.beside => \A i, j \in places : i..j \subseteq places
  BY <1>1, <1>2 DEF RpInPiece
<1> QED
  BY <1>4, <1>6, <1>7, <1>8 DEF RpLength, s

LEMMA NbdMinOfTwo ==
    ASSUME NEW a \in Int, NEW b \in Int
    PROVE  Min({a, b}) \in Int /\ Min({a, b}) <= a /\ Min({a, b}) <= b
<1> DEFINE S == {a, b}
           m == IF a <= b THEN a ELSE b
<1>1. m \in S /\ \A y \in S : m <= y
  OBVIOUS
<1>2. \E x \in S : \A y \in S : x <= y
  BY <1>1
<1> HIDE DEF m
<1>3. Min(S) \in S /\ \A y \in S : Min(S) <= y
  <2> HIDE DEF S
  <2> QED
    BY <1>2 DEF Min
<1> QED
  BY <1>3

\* A part of what is under way, read behind what was read.
NbdSplits(P, g, t, n, h, u) ==
    /\ h \in Seq(P) /\ u \in Seq(P) /\ Len(h) = Len(g) + n /\ h \o u = g \o t

LEMMA NbdSplit ==
    ASSUME NEW P, NEW g \in Seq(P), NEW t \in Seq(P), NEW n \in 1 .. Len(t)
    PROVE  NbdSplits(P, g, t, n, g \o SubSeq(t, 1, n), SubSeq(t, n + 1, Len(t)))
<1> DEFINE a == SubSeq(t, 1, n)
           u == SubSeq(t, n + 1, Len(t))
           h == g \o a
<1>1. /\ a \in Seq(P) /\ Len(a) = n /\ \A i \in 1..n : a[i] = t[i]
      /\ u \in Seq(P) /\ Len(u) = Len(t) - n /\ \A i \in 1 .. Len(t) - n : u[i] = t[n + i]
      /\ Len(t) \in Nat /\ n \in Nat
  OBVIOUS
<1> HIDE DEF a, u
<1>2. a \in Seq(P) /\ u \in Seq(P)
  BY <1>1
<1>3. /\ h \in Seq(P) /\ Len(h) = Len(g) + Len(a) /\ Len(g) \in Nat
      /\ \A k \in 1 .. Len(g) : h[k] = g[k]
      /\ \A k \in 1 .. Len(a) : h[k + Len(g)] = a[k]
  BY ONLY <1>2, g \in Seq(P), LgConcat
<1> HIDE DEF h
<1> DEFINE l == h \o u
           r == g \o t
<1>4. /\ l \in Seq(P) /\ Len(l) = Len(h) + Len(u)
      /\ \A k \in 1 .. Len(h) : l[k] = h[k]
      /\ \A k \in 1 .. Len(u) : l[k + Len(h)] = u[k]
  <2>1. h \in Seq(P)
    BY <1>3
  <2> QED
    BY ONLY <2>1, <1>2, LgConcat
<1>5. /\ r \in Seq(P) /\ Len(r) = Len(g) + Len(t)
      /\ \A k \in 1 .. Len(g) : r[k] = g[k]
      /\ \A k \in 1 .. Len(t) : r[k + Len(g)] = t[k]
  BY ONLY g \in Seq(P), t \in Seq(P), LgConcat
<1> HIDE DEF l, r
<1>6. Len(l) = Len(r) /\ Len(h) = Len(g) + n /\ Len(l) \in Nat
  BY <1>1, <1>3, <1>4, <1>5
<1>7. ASSUME NEW k \in 1 .. Len(l) PROVE l[k] = r[k]
  <2>1. CASE k \in 1 .. Len(g)
    BY <1>1, <1>3, <1>4, <1>5, <2>1
  <2>2. CASE k \in Len(g) + 1 .. Len(h)
    <3>1. k - Len(g) \in 1..n /\ (k - Len(g)) + Len(g) = k /\ k - Len(g) \in 1 .. Len(t) /\ k \in 1 .. Len(h)
      BY <1>1, <1>3, <1>6, <2>2
    <3>2. l[k] = h[k]
      BY <1>4, <3>1
    <3>3. h[k] = a[k - Len(g)]
      BY <1>1, <1>3, <3>1
    <3>4. a[k - Len(g)] = t[k - Len(g)]
      BY <1>1, <3>1
    <3>5. r[k] = t[k - Len(g)]
      BY <1>5, <3>1
    <3> QED
      BY <3>2, <3>3, <3>4, <3>5
  <2>3. CASE k \in Len(h) + 1 .. Len(l)
    <3>1. /\ k - Len(h) \in 1 .. Len(u) /\ (k - Len(h)) + Len(h) = k
          /\ n + (k - Len(h)) \in 1 .. Len(t) /\ (n + (k - Len(h))) + Len(g) = k
      BY <1>1, <1>3, <1>4, <1>6, <2>3
    <3>2. l[k] = u[k - Len(h)] /\ u[k - Len(h)] = t[n + (k - Len(h))]
      BY <1>1, <1>4, <3>1
    <3>3. r[k] = t[n + (k - Len(h))]
      BY <1>5, <3>1
    <3> QED
      BY <3>2, <3>3
  <2> QED
    BY <1>3, <1>6, <2>1, <2>2, <2>3
<1>8. l = r
  BY ONLY <1>4, <1>5, <1>6, <1>7
<1> QED
  BY <1>1, <1>3, <1>6, <1>8 DEF l, r, h, a, u, NbdSplits

LEMMA NbdStoredStays ==
    ASSUME NEW asked, NEW more, NEW d, \A k \in 1..d : more[k].type = asked[k].type, NEW b
    PROVE  NbdStored(b, asked, d) <=> NbdStored(b, more, d)
<1>1. NbdWrites(asked, d) = NbdWrites(more, d)
  BY DEF NbdWrites
<1> QED
  BY <1>1 DEF NbdStored

LEMMA NbdAnsweredStays ==
    ASSUME NEW asked, NEW more, NEW d \in Nat, \A k \in 1..d : more[k].type = asked[k].type, NEW ans,
           NbdAnswered(ans, asked, d)
    PROVE  NbdAnswered(ans, more, d)
<1>1. ASSUME NEW k \in DOMAIN ans \ NbdHeadsOf(ans)
      PROVE  NbdStored(ans[k].block, more, ans[k].of - 1)
  <2>1. ans[k].of \in 1..d /\ NbdStored(ans[k].block, asked, ans[k].of - 1)
    BY DEF NbdAnswered
  <2>2. \A j \in 1 .. ans[k].of - 1 : more[j].type = asked[j].type
    BY <2>1
  <2> QED
    BY <2>1, <2>2, NbdStoredStays
<1> QED
  BY <1>1 DEF NbdAnswered

-----------------------------------------------------------------------------
\* How the parts of NbdFlow go on, step by step of main.
NbdTyped(got, to, asked, ans, block) == /\ got \in NbdSocket /\ to \in NbdSocket /\ asked \in NbdAsked
                                        /\ ans \in NbdReplies /\ block \in Nat

\* Places between which nothing of the flow changes.
NbdQuiet == (NbdResting \X NbdResting) \cup {<<"next", "header">>}
            \cup ((NbdResting \cup {"access"} \cup NbdOver) \X NbdOver)

LEMMA NbdFlowQuiet ==
    ASSUME NEW p, NEW r, <<p, r>> \in NbdQuiet,
           NEW got, NEW to, NEW asked, NEW ans, NEW block, NbdTyped(got, to, asked, ans, block),
           NbdFlow(p, got, to, asked, ans, block)
    PROVE  NbdFlow(r, got, to, asked, ans, block)
<1>1. CASE p \in NbdResting /\ r \in NbdResting
  <2>1. p \notin NbdReading \cup NbdOver /\ r \notin NbdReading \cup NbdOver
    BY <1>1 DEF NbdReading, NbdOver, NbdResting, NbdSettingUp
  <2>2. PICK d \in 0 .. Len(asked), f \in [Nat -> Nat] :
           NbdMessages(got \o to, asked, d, f) /\ NbdPlaced(p, got, asked, ans, block, d, f)
    BY <2>1 DEF NbdFlow
  <2>3. NbdPlaced(r, got, asked, ans, block, d, f)
    BY <1>1, <2>1, <2>2 DEF NbdPlaced, NbdReading
  <2> QED
    BY <1>1, <2>2, <2>3 DEF NbdFlow
<1>2. CASE p = "next" /\ r = "header"
  <2>1. PICK d \in 0 .. Len(asked), f \in [Nat -> Nat] :
           NbdMessages(got \o to, asked, d, f) /\ NbdPlaced(p, got, asked, ans, block, d, f)
    BY <1>2 DEF NbdFlow, NbdOver
  <2>2. got = <<>> /\ Len(got) = 0
    BY <1>2, <2>1 DEF NbdPlaced, NbdResting
  <2>3. NbdPlaced(r, got, asked, ans, block, d, f)
    BY <1>2, <2>1, <2>2, DeviceAssumption DEF NbdPlaced, NbdResting, NbdSettingUp
  <2> QED
    BY <1>2, <2>1, <2>3 DEF NbdFlow, NbdReading
<1>3. CASE p \in NbdResting \cup {"access"} /\ r \in NbdOver
  <2>1. p \notin NbdOver /\ p # "more"
    BY <1>3 DEF NbdOver, NbdResting, NbdSettingUp
  <2>2. PICK d \in 0 .. Len(asked), f \in [Nat -> Nat] : NbdPlaced(p, got, asked, ans, block, d, f)
    BY <2>1 DEF NbdFlow
  <2>3. NbdAnswered(ans, asked, d)
    BY <2>1, <2>2 DEF NbdPlaced
  <2> QED
    BY <1>3, <2>3 DEF NbdFlow
<1>4. CASE p \in NbdOver /\ r \in NbdOver
  BY <1>4 DEF NbdFlow, NbdOver, NbdResting, NbdReading, NbdSettingUp
<1> QED
  BY <1>1, <1>2, <1>3, <1>4 DEF NbdQuiet

\* What is read first has the number of the request that is next.
LEMMA NbdFirst ==
    ASSUME NEW got \in NbdSocket, NEW to \in NbdSocket, NEW asked \in NbdAsked,
           NEW d \in 0 .. Len(asked), NEW f, NbdMessages(got \o to, asked, d, f),
           d < Len(asked), Len(got) > 0
    PROVE  got[1][1] = d + 1
<1> DEFINE q == got \o to
<1>1. \A k \in 1 .. Len(got) : q[k] = got[k]
  BY LgConcat DEF NbdSocket
<1>2. 1 \in 1 .. Len(got) /\ d + 1 \in d + 1 .. Len(asked)
  BY DEF NbdSocket, NbdAsked
<1> HIDE DEF q
<1>3. NbdMessages(q, asked, d, f)
  BY DEF q
<1>4. q[f[d + 1] + 1][1] = d + 1 /\ f[d + 1] = 0
  BY <1>2, <1>3 DEF NbdMessages
<1> QED
  BY <1>1, <1>2, <1>4

\* A read within the message that is next.
LEMMA NbdFlowReads ==
    ASSUME NEW p \in {"header", "data"}, NEW count, NEW r,
           p = "header" => count = NbdHeader /\ r = "data?",
           p = "data" => count = NbdHeader + 1 /\ r = "access",
           NEW got, NEW to, NEW asked, NEW ans, NEW block, NbdTyped(got, to, asked, ans, block),
           NEW n \in 1 .. Min({count - Len(got), Len(to)}),
           NbdFlow(p, got, to, asked, ans, block)
    PROVE  LET g == got \o SubSeq(to, 1, n)
               u == SubSeq(to, n + 1, Len(to)) IN
           /\ NbdTyped(g, u, asked, ans, block)
           /\ NbdFlow(IF Len(got) + n = count THEN r ELSE p, g, u, asked, ans, block)
<1> DEFINE g == got \o SubSeq(to, 1, n)
           u == SubSeq(to, n + 1, Len(to))
           s == IF Len(got) + n = count THEN r ELSE p
<1>1. NbdHeader \in Nat \ {0} /\ count \in Nat /\ Len(got) \in Nat /\ Len(to) \in Nat /\ Len(asked) \in Nat
  BY DeviceAssumption DEF NbdTyped, NbdSocket, NbdAsked
<1>2. n \in Nat \ {0} /\ n <= Len(to) /\ Len(got) + n <= count
  <2>1. count - Len(got) \in Int /\ Len(to) \in Int
    BY <1>1
  <2> DEFINE m == Min({count - Len(got), Len(to)})
  <2>2. m \in Int /\ m <= count - Len(got) /\ m <= Len(to)
    BY <2>1, NbdMinOfTwo
  <2>3. n \in 1 .. m
    OBVIOUS
  <2> HIDE DEF m
  <2> QED
    BY <1>1, <2>2, <2>3
<1>3. /\ g \in NbdSocket /\ u \in NbdSocket /\ Len(g) = Len(got) + n /\ g \o u = got \o to
  <2> DEFINE P == Nat \X {"header", "data"}
  <2>1. got \in Seq(P) /\ to \in Seq(P) /\ n \in 1 .. Len(to)
    BY <1>1, <1>2 DEF NbdTyped, NbdSocket
  <2> HIDE DEF P
  <2>2. NbdSplits(P, got, to, n, g, u)
    BY ONLY <2>1, NbdSplit
  <2> HIDE DEF g, u
  <2> QED
    BY <2>2 DEF P, NbdSocket, NbdSplits
<1>4. NbdTyped(g, u, asked, ans, block)
  BY <1>3 DEF NbdTyped
<1>5. PICK d \in 0 .. Len(asked), f \in [Nat -> Nat] :
         NbdMessages(got \o to, asked, d, f) /\ NbdPlaced(p, got, asked, ans, block, d, f)
  BY DEF NbdFlow, NbdOver
<1> DEFINE q == got \o to
<1>6. Len(q) = Len(got) + Len(to)
  BY <1>1 DEF NbdTyped, NbdSocket
<1> HIDE DEF q, g, u
<1>7. NbdMessages(q, asked, d, f)
  BY <1>5 DEF q
<1>8. d < Len(asked)
  <2>1. f[Len(asked) + 1] > 0 /\ f[d + 1] = 0
    BY <1>1, <1>2, <1>6, <1>7 DEF NbdMessages
  <2>2. ASSUME d = Len(asked) PROVE FALSE
    <3>1. d + 1 = Len(asked) + 1
      BY <2>2
    <3>2. f[d + 1] > 0 /\ f[d + 1] = 0
      BY <2>1, <3>1
    <3> QED
      BY <3>2
  <2> QED
    BY <1>1, <2>2
<1>9. f[d + 2] = NbdLength(asked, d + 1)
  <2>1. d + 1 \in d + 1 .. Len(asked) /\ (d + 1) + 1 = d + 2
    BY <1>1, <1>8
  <2>2. f[d + 2] = f[d + 1] + NbdLength(asked, d + 1) /\ f[d + 1] = 0
    BY <1>7, <2>1 DEF NbdMessages
  <2>3. NbdLength(asked, d + 1) \in Nat
    BY <1>1 DEF NbdLength
  <2> QED
    BY <2>2, <2>3
<1>10. /\ NbdStored(block, asked, d) /\ NbdAnswered(ans, asked, d)
       /\ p = "header" => Len(got) < NbdHeader
       /\ p = "data" => Len(got) = NbdHeader /\ asked[d + 1].type = "WRITE"
  BY <1>5 DEF NbdPlaced
<1>11. NbdPlaced(s, g, asked, ans, block, d, f)
  <2>1. CASE p = "header" /\ Len(got) + n = count
    BY <1>3, <1>8, <1>10, <2>1 DEF NbdPlaced, NbdResting, NbdSettingUp
  <2>2. CASE p = "header" /\ Len(got) + n # count
    <3>1. Len(g) < NbdHeader
      <4>1. count = NbdHeader /\ Len(got) + n # count
        BY <2>2
      <4>2. Len(g) = Len(got) + n
        BY <1>3
      <4>3. \A x, y, z, h \in Int : x = y + z /\ y + z <= h /\ y + z # h => x < h
        OBVIOUS
      <4>4. Len(got) \in Int /\ n \in Int /\ NbdHeader \in Int /\ Len(got) + n \in Int
        BY <1>1, <1>2
      <4> HIDE DEF s
      <4> QED
        BY <1>2, <4>1, <4>2, <4>3, <4>4
    <3> QED
      BY <1>3, <1>10, <2>2, <3>1 DEF NbdPlaced, NbdResting, NbdSettingUp
  <2>3. CASE p = "data"
    <3>1. Len(got) + n = count /\ count = NbdHeader + 1 /\ s = "access"
      <4>1. count = NbdHeader + 1 /\ r = "access" /\ Len(got) = NbdHeader
        BY <1>10, <2>3
      <4>2. Len(got) + n = count
        BY <1>1, <1>2, <4>1
      <4> QED
        BY <4>1, <4>2
    <3>2. f[d + 2] = NbdHeader + 1
      BY <1>1, <1>9, <1>10, <2>3 DEF NbdLength
    <3> QED
      BY <1>3, <1>8, <1>10, <2>3, <3>1, <3>2 DEF NbdPlaced, NbdResting, NbdSettingUp
  <2> QED
    BY <2>1, <2>2, <2>3
<1>12. s \in NbdReading
  BY DEF NbdReading
<1> HIDE DEF s
<1>13. NbdFlow(s, g, u, asked, ans, block)
  BY <1>3, <1>7, <1>11, <1>12 DEF NbdFlow, q
<1> QED
  BY <1>4, <1>13 DEF s, g, u

\* The header is there.
LEMMA NbdFlowDecides ==
    ASSUME NEW got, NEW to, NEW asked, NEW ans, NEW block, NbdTyped(got, to, asked, ans, block),
           NbdFlow("data?", got, to, asked, ans, block)
    PROVE  NbdFlow(IF asked[got[1][1]].type = "WRITE" THEN "data" ELSE "access", got, to, asked, ans, block)
<1> DEFINE s == IF asked[got[1][1]].type = "WRITE" THEN "data" ELSE "access"
<1>1. NbdHeader \in Nat \ {0} /\ Len(asked) \in Nat
  BY DeviceAssumption DEF NbdTyped, NbdAsked
<1>2. PICK d \in 0 .. Len(asked), f \in [Nat -> Nat] :
         NbdMessages(got \o to, asked, d, f) /\ NbdPlaced("data?", got, asked, ans, block, d, f)
  BY DEF NbdFlow, NbdOver
<1>3. /\ d < Len(asked) /\ Len(got) = NbdHeader /\ NbdStored(block, asked, d)
      /\ NbdAnswered(ans, asked, d)
  BY <1>2 DEF NbdPlaced
<1>4. got[1][1] = d + 1
  <2>1. Len(got) > 0
    BY <1>1, <1>3
  <2> QED
    BY <1>2, <1>3, <2>1, NbdFirst DEF NbdTyped
<1>5. f[d + 2] = NbdLength(asked, d + 1)
  <2>1. d + 1 \in d + 1 .. Len(asked) /\ (d + 1) + 1 = d + 2
    BY <1>1, <1>3
  <2> HIDE DEF s
  <2>2. f[d + 2] = f[d + 1] + NbdLength(asked, d + 1) /\ f[d + 1] = 0
    BY <1>2, <2>1 DEF NbdMessages
  <2>3. NbdLength(asked, d + 1) \in Nat
    BY <1>1 DEF NbdLength
  <2> QED
    BY <2>2, <2>3
<1>6. NbdPlaced(s, got, asked, ans, block, d, f) /\ s \in NbdReading
  <2>1. CASE asked[d + 1].type = "WRITE"
    <3>1. s = "data"
      BY <1>4, <2>1
    <3> QED
      BY <1>3, <2>1, <3>1 DEF NbdPlaced, NbdResting, NbdSettingUp, NbdReading
  <2>2. CASE asked[d + 1].type # "WRITE"
    <3>1. s = "access"
      BY <1>4, <2>2
    <3>2. f[d + 2] = NbdHeader
      BY <1>1, <1>5, <2>2 DEF NbdLength
    <3> QED
      BY <1>3, <3>1, <3>2 DEF NbdPlaced, NbdResting, NbdSettingUp, NbdReading
  <2> QED
    BY <2>1, <2>2
<1> HIDE DEF s
<1>7. NbdFlow(s, got, to, asked, ans, block)
  BY <1>2, <1>6 DEF NbdFlow
<1> QED
  BY <1>7 DEF s

\* What main is at, in the places from the access on.
LEMMA NbdAtRequest ==
    ASSUME NEW got, NEW to, NEW asked, NEW ans, NEW block, NbdTyped(got, to, asked, ans, block),
           NEW p \in {"access", "reply", "more"}, NbdFlow(p, got, to, asked, ans, block)
    PROVE  \E d \in 0 .. Len(asked), f \in [Nat -> Nat] :
              /\ NbdMessages(got \o to, asked, d, f) /\ NbdPlaced(p, got, asked, ans, block, d, f)
              /\ d < Len(asked) /\ Len(got) = f[d + 2] /\ got[1][1] = d + 1
              /\ Len(asked) \in Nat /\ asked[d + 1].type \in NbdKinds
<1>1. NbdHeader \in Nat \ {0} /\ Len(asked) \in Nat
  BY DeviceAssumption DEF NbdTyped, NbdAsked
<1>2. PICK d \in 0 .. Len(asked), f \in [Nat -> Nat] :
         NbdMessages(got \o to, asked, d, f) /\ NbdPlaced(p, got, asked, ans, block, d, f)
  BY DEF NbdFlow, NbdOver
<1>3. d < Len(asked) /\ Len(got) = f[d + 2]
  BY <1>2 DEF NbdPlaced
<1>4. f[d + 2] > 0
  <2>1. d + 1 \in d + 1 .. Len(asked) /\ (d + 1) + 1 = d + 2
    BY <1>1, <1>3
  <2>2. f[d + 2] = f[d + 1] + NbdLength(asked, d + 1) /\ f[d + 1] = 0
    BY <1>2, <2>1 DEF NbdMessages
  <2>3. NbdLength(asked, d + 1) \in Nat /\ NbdLength(asked, d + 1) > 0
    BY <1>1 DEF NbdLength
  <2> QED
    BY <2>2, <2>3
<1>5. got[1][1] = d + 1
  <2>1. Len(got) > 0
    BY <1>3, <1>4
  <2> QED
    BY <1>2, <1>3, <2>1, NbdFirst DEF NbdTyped
<1>6. asked[d + 1].type \in NbdKinds
  <2>1. d + 1 \in 1 .. Len(asked)
    BY <1>1, <1>3
  <2> DEFINE R == [type : NbdKinds, inside : BOOLEAN]
  <2>2. asked \in Seq(R)
    BY DEF NbdTyped, NbdAsked
  <2>3. \A e \in R : e.type \in NbdKinds
    OBVIOUS
  <2> HIDE DEF R
  <2>4. asked[d + 1] \in R
    BY <2>1, <2>2
  <2> QED
    BY <2>3, <2>4
<1> QED
  BY <1>1, <1>2, <1>3, <1>5, <1>6

\* The access: what is in the block is of the last WRITE, this one included.
LEMMA NbdFlowAccesses ==
    ASSUME NEW got, NEW to, NEW asked, NEW ans, NEW block, NbdTyped(got, to, asked, ans, block),
           NbdFlow("access", got, to, asked, ans, block)
    PROVE  LET n == got[1][1]
               after == IF asked[n].type = "WRITE" THEN n ELSE block IN
           NbdFlow("reply", got, to, asked, ans, after) /\ after \in Nat
<1>1. PICK d \in 0 .. Len(asked), f \in [Nat -> Nat] :
         /\ NbdMessages(got \o to, asked, d, f) /\ NbdPlaced("access", got, asked, ans, block, d, f)
         /\ d < Len(asked) /\ Len(got) = f[d + 2] /\ got[1][1] = d + 1 /\ Len(asked) \in Nat
  BY NbdAtRequest
<1> DEFINE after == IF asked[d + 1].type = "WRITE" THEN d + 1 ELSE block
<1>2. NbdStored(block, asked, d) /\ NbdAnswered(ans, asked, d) /\ block \in Nat /\ d \in Nat
  BY <1>1 DEF NbdPlaced, NbdTyped
<1>3. NbdStored(after, asked, d + 1)
  <2>1. \A k \in 1 .. d + 1 : k \in 1..d \/ k = d + 1
    BY <1>2
  <2>2. 1..d \subseteq 1 .. d + 1 /\ d + 1 \in 1 .. d + 1
    BY <1>2
  <2>3. CASE asked[d + 1].type = "WRITE"
    <3>1. NbdWrites(asked, d + 1) = NbdWrites(asked, d) \cup {d + 1}
      <4> DEFINE W(m) == {k \in 1..m : asked[k].type = "WRITE"}
      <4>1. W(d + 1) = W(d) \cup {d + 1}
        BY <2>1, <2>2, <2>3
      <4>2. NbdWrites(asked, d + 1) = {Unwritten} \cup W(d + 1) /\ NbdWrites(asked, d) = {Unwritten} \cup W(d)
        BY DEF NbdWrites
      <4> HIDE DEF W
      <4> QED
        BY <4>1, <4>2
    <3>2. \A k \in NbdWrites(asked, d) : k <= d + 1
      <4>1. \A k \in NbdWrites(asked, d) : k = 0 \/ k \in 1..d
        BY Zenon DEF NbdWrites, Unwritten
      <4>2. d \in Nat
        BY <1>2
      <4>3. \A k \in {0} \cup 1..d : k <= d + 1
        BY ONLY <4>2
      <4> QED
        BY ONLY <4>1, <4>3
    <3>3. after = d + 1 /\ d + 1 <= d + 1
      BY <1>2, <2>3
    <3> QED
      BY <3>1, <3>2, <3>3 DEF NbdStored
  <2>4. CASE asked[d + 1].type # "WRITE"
    <3>1. NbdWrites(asked, d + 1) = NbdWrites(asked, d)
      BY <2>1, <2>2, <2>4 DEF NbdWrites
    <3>2. after = block
      BY <2>4
    <3> QED
      BY <1>2, <3>1, <3>2 DEF NbdStored
  <2> QED
    BY <2>3, <2>4
<1>4. after \in Nat
  BY <1>2
<1> HIDE DEF after
<1>5. NbdPlaced("reply", got, asked, ans, after, d, f)
  BY <1>1, <1>2, <1>3 DEF NbdPlaced, NbdResting, NbdSettingUp
<1>6. NbdFlow("reply", got, to, asked, ans, after)
  BY <1>1, <1>5 DEF NbdFlow, NbdReading
<1> QED
  BY <1>1, <1>4, <1>6 DEF after

\* One more answer.
LEMMA NbdAppended ==
    ASSUME NEW ans \in NbdReplies, NEW e \in NbdHeads \cup NbdDatas
    PROVE  LET new == Append(ans, e) IN
           /\ new \in NbdReplies /\ Len(new) = Len(ans) + 1 /\ Len(ans) \in Nat
           /\ DOMAIN ans = 1 .. Len(ans) /\ DOMAIN new = 1 .. Len(ans) + 1
           /\ \A k \in 1 .. Len(ans) : new[k] = ans[k]
           /\ new[Len(ans) + 1] = e
  BY DEF NbdReplies

LEMMA NbdAnswersHead ==
    ASSUME NEW sent \in BOOLEAN, NEW ans \in NbdReplies, NEW asked, NEW d \in Nat, NbdAnswered(ans, asked, d)
    PROVE  LET new == Append(ans, [of |-> d + 1, part |-> "header", sent |-> sent]) IN
           /\ new \in NbdReplies /\ NbdAnswered(new, asked, d + 1)
           /\ Len(new) \in NbdHeadsOf(new) /\ new[Len(new)].of = d + 1
<1> DEFINE e == [of |-> d + 1, part |-> "header", sent |-> sent]
           new == Append(ans, e)
           l == Len(ans) + 1
<1>1. e \in NbdHeads \cup NbdDatas /\ e.of = d + 1 /\ e.part = "header"
  BY DEF NbdHeads
<1> HIDE DEF e
<1>2. /\ new \in NbdReplies /\ Len(new) = l /\ Len(ans) \in Nat
      /\ DOMAIN ans = 1 .. Len(ans) /\ DOMAIN new = 1 .. l
      /\ \A k \in 1 .. Len(ans) : new[k] = ans[k]
      /\ new[l] = e
  BY <1>1, NbdAppended
<1> HIDE DEF new
<1>3. \A k \in DOMAIN new : k \in DOMAIN ans \/ k = l
  BY <1>2
<1>4. l \in DOMAIN new /\ l \notin DOMAIN ans /\ DOMAIN ans \subseteq DOMAIN new
  BY <1>2
<1>5. NbdHeadsOf(new) = NbdHeadsOf(ans) \cup {l}
  BY <1>1, <1>2, <1>3, <1>4 DEF NbdHeadsOf
<1>6. \A k \in NbdHeadsOf(ans) : k \in 1 .. Len(ans) /\ new[k] = ans[k] /\ ans[k].of \in 1..d /\ k < l
  BY <1>2 DEF NbdHeadsOf, NbdAnswered
<1>7. \A j, k \in NbdHeadsOf(new) : j < k => new[j].of < new[k].of
  <2> SUFFICES ASSUME NEW j \in NbdHeadsOf(new), NEW k \in NbdHeadsOf(new), j < k
               PROVE  new[j].of < new[k].of
    OBVIOUS
  <2>1. CASE j \in NbdHeadsOf(ans) /\ k \in NbdHeadsOf(ans)
    BY <1>6, <2>1 DEF NbdAnswered
  <2>2. CASE j \in NbdHeadsOf(ans) /\ k = l
    <3>1. new[j].of \in 1..d
      BY <1>6, <2>2
    <3>2. new[k].of = d + 1
      BY <1>1, <1>2, <2>2
    <3> QED
      BY <3>1, <3>2
  <2>3. j # l
    BY <1>2, <1>5, <1>6
  <2> QED
    BY <1>5, <2>1, <2>2, <2>3
<1>8. \A k \in NbdHeadsOf(new) : new[k].of \in 1 .. d + 1
  BY <1>1, <1>2, <1>5, <1>6
<1>9. \A n \in 1 .. d + 1 : \E j \in NbdHeadsOf(new) : new[j].of = n
  <2> TAKE n \in 1 .. d + 1
  <2>1. CASE n = d + 1
    BY <1>1, <1>2, <1>5, <2>1
  <2>2. CASE n \in 1..d
    BY <1>5, <1>6, <2>2 DEF NbdAnswered
  <2> QED
    BY <2>1, <2>2
<1>10. \A k \in DOMAIN new \ NbdHeadsOf(new) :
          /\ new[k].of \in 1 .. d + 1 /\ NbdStored(new[k].block, asked, new[k].of - 1)
          /\ k - 1 \in NbdHeadsOf(new) /\ new[k - 1].of = new[k].of
  <2> TAKE k \in DOMAIN new \ NbdHeadsOf(new)
  <2>1. k \in DOMAIN ans \ NbdHeadsOf(ans) /\ k \in 1 .. Len(ans) /\ new[k] = ans[k]
    BY <1>2, <1>3, <1>5
  <2>2. /\ ans[k].of \in 1..d /\ NbdStored(ans[k].block, asked, ans[k].of - 1)
        /\ k - 1 \in NbdHeadsOf(ans) /\ ans[k - 1].of = ans[k].of
    BY <2>1 DEF NbdAnswered
  <2> QED
    BY <1>5, <1>6, <2>1, <2>2
<1>11. NbdAnswered(new, asked, d + 1)
  BY <1>7, <1>8, <1>9, <1>10 DEF NbdAnswered
<1> QED
  BY <1>1, <1>2, <1>5, <1>11 DEF new, e

LEMMA NbdAnswersData ==
    ASSUME NEW sent \in BOOLEAN, NEW ans \in NbdReplies, NEW asked, NEW d \in Nat, NEW n \in 1..d, NbdAnswered(ans, asked, d),
           Len(ans) \in NbdHeadsOf(ans), ans[Len(ans)].of = n,
           NEW b \in Nat, NbdStored(b, asked, n - 1)
    PROVE  LET new == Append(ans, [of |-> n, part |-> "data", block |-> b, sent |-> sent]) IN
           new \in NbdReplies /\ NbdAnswered(new, asked, d)
<1> DEFINE e == [of |-> n, part |-> "data", block |-> b, sent |-> sent]
           new == Append(ans, e)
           l == Len(ans) + 1
<1>1. e \in NbdHeads \cup NbdDatas /\ e.of = n /\ e.part = "data" /\ e.block = b
  BY DEF NbdDatas
<1> HIDE DEF e
<1>2. /\ new \in NbdReplies /\ Len(new) = l /\ Len(ans) \in Nat
      /\ DOMAIN ans = 1 .. Len(ans) /\ DOMAIN new = 1 .. l
      /\ \A k \in 1 .. Len(ans) : new[k] = ans[k]
      /\ new[l] = e
  BY <1>1, NbdAppended
<1> HIDE DEF new
<1>3. \A k \in DOMAIN new : k \in DOMAIN ans \/ k = l
  BY <1>2
<1>4. l \in DOMAIN new /\ l \notin DOMAIN ans /\ DOMAIN ans \subseteq DOMAIN new /\ l - 1 = Len(ans)
  BY <1>2
<1>5. NbdHeadsOf(new) = NbdHeadsOf(ans)
  BY <1>1, <1>2, <1>3, <1>4 DEF NbdHeadsOf
<1>6. \A k \in NbdHeadsOf(ans) : k \in 1 .. Len(ans) /\ new[k] = ans[k] /\ ans[k].of \in 1..d
  BY <1>2 DEF NbdHeadsOf, NbdAnswered
<1>7. /\ \A j, k \in NbdHeadsOf(new) : j < k => new[j].of < new[k].of
      /\ \A k \in NbdHeadsOf(new) : new[k].of \in 1..d
      /\ \A m \in 1..d : \E j \in NbdHeadsOf(new) : new[j].of = m
  BY <1>5, <1>6 DEF NbdAnswered
<1>8. \A k \in DOMAIN new \ NbdHeadsOf(new) :
          /\ new[k].of \in 1..d /\ NbdStored(new[k].block, asked, new[k].of - 1)
          /\ k - 1 \in NbdHeadsOf(new) /\ new[k - 1].of = new[k].of
  <2> TAKE k \in DOMAIN new \ NbdHeadsOf(new)
  <2>1. CASE k = l
    BY <1>1, <1>2, <1>4, <1>5, <1>6, <2>1
  <2>2. CASE k \in DOMAIN ans
    <3>1. k \in DOMAIN ans \ NbdHeadsOf(ans) /\ k \in 1 .. Len(ans) /\ new[k] = ans[k]
      BY <1>2, <1>5, <2>2
    <3>2. /\ ans[k].of \in 1..d /\ NbdStored(ans[k].block, asked, ans[k].of - 1)
          /\ k - 1 \in NbdHeadsOf(ans) /\ ans[k - 1].of = ans[k].of
      BY <3>1 DEF NbdAnswered
    <3> QED
      BY <1>5, <1>6, <3>1, <3>2
  <2> QED
    BY <1>3, <2>1, <2>2
<1>9. NbdAnswered(new, asked, d)
  BY <1>7, <1>8 DEF NbdAnswered
<1> QED
  BY <1>2, <1>9 DEF new, e

LEMMA NbdFlowReplies ==
    ASSUME NEW sent \in BOOLEAN, NEW got, NEW to, NEW asked, NEW ans, NEW block, NbdTyped(got, to, asked, ans, block),
           NbdFlow("reply", got, to, asked, ans, block)
    PROVE  LET new == Append(ans, [of |-> got[1][1], part |-> "header", sent |-> sent]) IN
           new \in NbdReplies /\ NbdFlow("more", got, to, asked, new, block)
<1>1. PICK d \in 0 .. Len(asked), f \in [Nat -> Nat] :
         /\ NbdMessages(got \o to, asked, d, f) /\ NbdPlaced("reply", got, asked, ans, block, d, f)
         /\ d < Len(asked) /\ Len(got) = f[d + 2] /\ got[1][1] = d + 1 /\ Len(asked) \in Nat
  BY NbdAtRequest
<1> DEFINE new == Append(ans, [of |-> d + 1, part |-> "header", sent |-> sent])
<1>2. NbdStored(block, asked, d + 1) /\ NbdAnswered(ans, asked, d) /\ ans \in NbdReplies /\ d \in Nat
  BY <1>1 DEF NbdPlaced, NbdTyped
<1>3. /\ new \in NbdReplies /\ NbdAnswered(new, asked, d + 1)
      /\ Len(new) \in NbdHeadsOf(new) /\ new[Len(new)].of = d + 1
  BY <1>2, NbdAnswersHead
<1> HIDE DEF new
<1>4. NbdPlaced("more", got, asked, new, block, d, f)
  BY <1>1, <1>2, <1>3 DEF NbdPlaced, NbdResting, NbdSettingUp
<1>5. NbdFlow("more", got, to, asked, new, block)
  BY <1>1, <1>4 DEF NbdFlow, NbdReading
<1> QED
  BY <1>1, <1>3, <1>5 DEF new

\* The request is done: what is under way begins with the next one.
LEMMA NbdMessagesShift ==
    ASSUME NEW asked, NEW N \in Nat, Len(asked) = N, NEW d \in Nat, d + 1 <= N, NEW f \in [Nat -> Nat],
           NEW c \in Nat, f[d + 2] = c, NEW q, NEW to, NEW L \in Nat, Len(q) = c + L, Len(to) = L,
           \A k \in 1..L : q[k + c] = to[k], NbdMessages(q, asked, d, f)
    PROVE  \E g \in [Nat -> Nat] : NbdMessages(to, asked, d + 1, g)
<1> DEFINE g == [n \in Nat |-> IF n \in d + 2 .. N + 1 THEN f[n] - c ELSE 0]
<1>1. /\ f[N + 1] = c + L
      /\ \A n \in d + 1 .. N : f[n + 1] = f[n] + NbdLength(asked, n) /\ q[f[n] + 1][1] = n
      /\ \A m, n \in d + 1 .. N + 1 : m <= n => f[m] <= f[n]
  BY DEF NbdMessages
<1>2. \A n \in d + 2 .. N + 1 : n \in Nat /\ f[n] \in Nat /\ f[n] - c \in Nat
  <2> TAKE n \in d + 2 .. N + 1
  <2>1. d + 2 \in d + 1 .. N + 1 /\ n \in d + 1 .. N + 1 /\ d + 2 <= n /\ n \in Nat
    BY ONLY N \in Nat, d \in Nat, d + 1 <= N, n \in d + 2 .. N + 1
  <2>2. f[d + 2] <= f[n] /\ f[n] \in Nat
    BY <1>1, <2>1
  <2>3. \A x \in Nat : c <= x => x - c \in Nat
    OBVIOUS
  <2> QED
    BY <2>1, <2>2, <2>3
<1>3. g \in [Nat -> Nat] /\ \A n \in d + 2 .. N + 1 : g[n] = f[n] - c
  BY <1>2
<1> HIDE DEF g
<1>4. g[d + 2] = 0 /\ g[N + 1] = L
  <2>1. d + 2 \in d + 2 .. N + 1 /\ N + 1 \in d + 2 .. N + 1
    BY ONLY N \in Nat, d \in Nat, d + 1 <= N
  <2>2. g[d + 2] = f[d + 2] - c /\ g[N + 1] = f[N + 1] - c
    BY <1>3, <2>1
  <2> QED
    BY <1>1, <2>2
<1>5. ASSUME NEW n \in d + 2 .. N
      PROVE  g[n + 1] = g[n] + NbdLength(asked, n) /\ to[g[n] + 1][1] = n
  <2>1. /\ n \in d + 2 .. N + 1 /\ n + 1 \in d + 2 .. N + 1 /\ n \in d + 1 .. N
        /\ n + 1 \in d + 1 .. N + 1 /\ N + 1 \in d + 1 .. N + 1 /\ n + 1 <= N + 1
    BY ONLY N \in Nat, d \in Nat, d + 1 <= N, n \in d + 2 .. N
  <2>2. g[n] = f[n] - c /\ g[n + 1] = f[n + 1] - c /\ f[n] \in Nat /\ f[n + 1] \in Nat /\ f[n] - c \in Nat
    BY <1>2, <1>3, <2>1
  <2>3. f[n + 1] = f[n] + NbdLength(asked, n) /\ q[f[n] + 1][1] = n
    BY <1>1, <2>1
  <2>4. NbdLength(asked, n) \in Nat \ {0}
    BY DeviceAssumption DEF NbdLength
  <2>5. f[n + 1] <= c + L
    <3>1. f[n + 1] <= f[N + 1]
      BY <1>1, <2>1
    <3> QED
      BY <1>1, <3>1
  <2>6. \A x, y, z, w \in Nat : y = x + z /\ z # 0 /\ y <= w + L /\ x - w \in Nat =>
           (y - w = (x - w) + z) /\ (x - w) + 1 \in 1..L /\ ((x - w) + 1) + w = x + 1
    OBVIOUS
  <2>7. /\ g[n + 1] = g[n] + NbdLength(asked, n)
        /\ g[n] + 1 \in 1..L /\ (g[n] + 1) + c = f[n] + 1
    <3> DEFINE x == f[n]
               y == f[n + 1]
               z == NbdLength(asked, n)
    <3>1. x \in Nat /\ y \in Nat /\ z \in Nat /\ y = x + z /\ z # 0 /\ y <= c + L /\ x - c \in Nat
      BY <2>2, <2>3, <2>4, <2>5
    <3>2. g[n] = x - c /\ g[n + 1] = y - c
      BY <2>2
    <3> HIDE DEF x, y, z
    <3>3. (y - c = (x - c) + z) /\ (x - c) + 1 \in 1..L /\ ((x - c) + 1) + c = x + 1
      BY <2>6, <3>1
    <3> QED
      BY <3>2, <3>3 DEF x, y, z
  <2>8. q[(g[n] + 1) + c] = to[g[n] + 1]
    BY <2>7
  <2> QED
    BY <2>3, <2>7, <2>8
<1>6. ASSUME NEW m \in d + 2 .. N + 1, NEW n \in d + 2 .. N + 1, m <= n PROVE g[m] <= g[n]
  <2>1. m \in d + 1 .. N + 1 /\ n \in d + 1 .. N + 1
    BY ONLY N \in Nat, d \in Nat, m \in d + 2 .. N + 1, n \in d + 2 .. N + 1
  <2>2. f[m] <= f[n] /\ f[m] \in Nat /\ f[n] \in Nat /\ g[m] = f[m] - c /\ g[n] = f[n] - c
    BY <1>1, <1>2, <1>3, <1>6, <2>1
  <2>3. \A x, y \in Nat : x <= y => x - c <= y - c
    OBVIOUS
  <2> QED
    BY <2>2, <2>3
<1>7. NbdMessages(to, asked, d + 1, g)
  <2>1. (d + 1) + 1 = d + 2
    OBVIOUS
  <2> QED
    BY <1>4, <1>5, <1>6, <2>1 DEF NbdMessages
<1> QED
  BY <1>3, <1>7

LEMMA NbdMessagesGoOn ==
    ASSUME NEW got \in NbdSocket, NEW to \in NbdSocket, NEW asked \in NbdAsked,
           NEW d \in 0 .. Len(asked), d < Len(asked), NEW f \in [Nat -> Nat],
           NbdMessages(got \o to, asked, d, f), Len(got) = f[d + 2]
    PROVE  \E g \in [Nat -> Nat] : NbdMessages(<<>> \o to, asked, d + 1, g)
<1> DEFINE q == got \o to
           N == Len(asked)
           c == Len(got)
           L == Len(to)
<1>1. N \in Nat /\ d \in Nat /\ c \in Nat /\ L \in Nat /\ d + 1 <= N
  <2>1. N \in Nat /\ c \in Nat /\ L \in Nat
    <3> DEFINE P == Nat \X {"header", "data"}
               R == [type : NbdKinds, inside : BOOLEAN]
    <3>1. got \in Seq(P) /\ to \in Seq(P) /\ asked \in Seq(R)
      BY DEF NbdSocket, NbdAsked
    <3> HIDE DEF P, R, q
    <3>2. \A A : got \in Seq(A) => Len(got) \in Nat
      OBVIOUS
    <3>3. \A A : to \in Seq(A) => Len(to) \in Nat
      OBVIOUS
    <3>4. \A A : asked \in Seq(A) => Len(asked) \in Nat
      OBVIOUS
    <3> QED
      BY ONLY <3>1, <3>2, <3>3, <3>4
  <2>2. d \in 0..N /\ d < N
    OBVIOUS
  <2> HIDE DEF N, c, L
  <2> QED
    BY ONLY <2>1, <2>2
<1>2. Len(q) = c + L /\ \A k \in 1..L : q[k + c] = to[k]
  <2> DEFINE P == Nat \X {"header", "data"}
  <2>1. got \in Seq(P) /\ to \in Seq(P)
    BY DEF NbdSocket
  <2> HIDE DEF P
  <2> QED
    BY ONLY <2>1, LgConcat
<1>3. <<>> \o to = to
  BY DEF NbdSocket
<1>4. NbdMessages(q, asked, d, f) /\ f[d + 2] = c /\ Len(asked) = N /\ Len(to) = L
  OBVIOUS
<1> HIDE DEF q, N, c, L
<1>5. \E g \in [Nat -> Nat] : NbdMessages(to, asked, d + 1, g)
  BY ONLY <1>1, <1>2, <1>4, f \in [Nat -> Nat], NbdMessagesShift
<1> QED
  BY <1>3, <1>5

LEMMA NbdFlowEnds ==
    ASSUME NEW sent \in BOOLEAN, NEW got, NEW to, NEW asked, NEW ans, NEW block, NbdTyped(got, to, asked, ans, block),
           NbdFlow("more", got, to, asked, ans, block)
    PROVE  LET n == got[1][1]
               new == IF asked[n].type # "READ" THEN ans
                      ELSE Append(ans, [of |-> n, part |-> "data", block |-> block, sent |-> sent]) IN
           new \in NbdReplies /\ NbdFlow("next", <<>>, to, asked, new, block)
<1>1. PICK d \in 0 .. Len(asked), f \in [Nat -> Nat] :
         /\ NbdMessages(got \o to, asked, d, f) /\ NbdPlaced("more", got, asked, ans, block, d, f)
         /\ d < Len(asked) /\ Len(got) = f[d + 2] /\ got[1][1] = d + 1 /\ Len(asked) \in Nat
  BY NbdAtRequest
<1> DEFINE n == d + 1
           new == IF asked[n].type # "READ" THEN ans
                  ELSE Append(ans, [of |-> n, part |-> "data", block |-> block, sent |-> sent])
<1>2. /\ NbdStored(block, asked, n) /\ NbdAnswered(ans, asked, n) /\ ans \in NbdReplies /\ n \in Nat
      /\ Len(ans) \in NbdHeadsOf(ans) /\ ans[Len(ans)].of = n /\ block \in Nat
      /\ n \in 1..n /\ d \in Nat /\ n - 1 = d /\ n \in 0 .. Len(asked)
  <2>1. n \in Nat /\ n \in 1..n /\ d \in Nat /\ n - 1 = d /\ n \in 0 .. Len(asked)
    BY ONLY <1>1
  <2>2. ans \in NbdReplies /\ block \in Nat
    BY ONLY NbdTyped(got, to, asked, ans, block) DEF NbdTyped
  <2>3. NbdPlaced("more", got, asked, ans, block, d, f)
    BY <1>1
  <2>4. /\ NbdStored(block, asked, n) /\ NbdAnswered(ans, asked, n)
        /\ Len(ans) \in NbdHeadsOf(ans) /\ ans[Len(ans)].of = n
    BY ONLY <2>3 DEF NbdPlaced
  <2> QED
    BY <2>1, <2>2, <2>4
<1>3. new \in NbdReplies /\ NbdAnswered(new, asked, n)
  <2>1. CASE asked[n].type = "READ"
    <3>1. NbdWrites(asked, n) = NbdWrites(asked, d)
      <4>1. \A k \in 1..n : k \in 1..d \/ k = n
        BY <1>2
      <4>2. 1..d \subseteq 1..n
        BY <1>2
      <4> HIDE DEF n, new
      <4> QED
        BY <2>1, <4>1, <4>2 DEF NbdWrites
    <3>2. NbdStored(block, asked, n - 1)
      BY <1>2, <3>1 DEF NbdStored
    <3>3. new = Append(ans, [of |-> n, part |-> "data", block |-> block, sent |-> sent])
      BY <2>1
    <3> HIDE DEF n, new
    <3> QED
      BY <1>2, <3>2, <3>3, NbdAnswersData
  <2>2. CASE asked[n].type # "READ"
    BY <1>2, <2>2
  <2> QED
    BY <2>1, <2>2
<1> HIDE DEF new
<1>4. PICK g \in [Nat -> Nat] : NbdMessages(<<>> \o to, asked, n, g)
  BY <1>1, NbdMessagesGoOn DEF NbdTyped
<1>5. NbdPlaced("next", <<>>, asked, new, block, n, g)
  BY <1>2, <1>3 DEF NbdPlaced, NbdResting, NbdSettingUp
<1>6. NbdFlow("next", <<>>, to, asked, new, block)
  <2> HIDE DEF n
  <2> QED
    BY <1>2, <1>4, <1>5 DEF NbdFlow, NbdResting
<1> QED
  BY <1>1, <1>3, <1>6 DEF new

-----------------------------------------------------------------------------
\* The kernel sends one more: its message is behind all the others.
NbdSent(N) == [i \in 1..NbdHeader |-> <<N + 1, "header">>]
NbdSentData(N, write) == IF write THEN <<<<N + 1, "data">>>> ELSE <<>>

NbdLengthens(q, r, N, l) == /\ Len(r) = Len(q) + l /\ Len(q) \in Nat
                            /\ \A k \in 1 .. Len(q) : r[k] = q[k]
                            /\ r[Len(q) + 1][1] = N + 1

LEMMA NbdSending ==
    ASSUME NEW got \in NbdSocket, NEW to \in NbdSocket, NEW N \in Nat, NEW write \in BOOLEAN
    PROVE  LET on == to \o NbdSent(N) \o NbdSentData(N, write) IN
           /\ on \in NbdSocket
           /\ NbdLengthens(got \o to, got \o on, N, NbdHeader + (IF write THEN 1 ELSE 0))
<1> DEFINE P == Nat \X {"header", "data"}
           hs == NbdSent(N)
           ds == NbdSentData(N, write)
           q == got \o to
           a == to \o hs
           on == a \o ds
           r == got \o on
           w == IF write THEN 1 ELSE 0
<1>1. hs \in Seq(P) /\ Len(hs) = NbdHeader /\ \A k \in 1..NbdHeader : hs[k] = <<N + 1, "header">>
  <2>1. <<N + 1, "header">> \in P
    OBVIOUS
  <2> HIDE DEF P
  <2>2. hs \in [1..NbdHeader -> P] /\ \A k \in 1..NbdHeader : hs[k] = <<N + 1, "header">>
    BY <2>1 DEF NbdSent
  <2>3. NbdHeader \in Nat
    BY DeviceAssumption
  <2> HIDE DEF hs
  <2>4. hs \in Seq(P) /\ Len(hs) = NbdHeader
    BY ONLY <2>2, <2>3
  <2> QED
    BY <2>2, <2>4
<1>2. ds \in Seq(P) /\ Len(ds) = w
  <2>1. <<N + 1, "data">> \in P
    OBVIOUS
  <2> HIDE DEF P
  <2>2. CASE write
    <3>1. ds = <<<<N + 1, "data">>>> /\ w = 1
      BY <2>2 DEF NbdSentData
    <3> HIDE DEF ds, w
    <3> QED
      BY <2>1, <3>1
  <2>3. CASE ~write
    <3>1. ds = <<>> /\ w = 0
      BY <2>3 DEF NbdSentData
    <3> HIDE DEF ds, w
    <3> QED
      BY <3>1
  <2> QED
    BY <2>2, <2>3
<1>3. got \in Seq(P) /\ to \in Seq(P)
  BY DEF NbdSocket
<1>4. NbdHeader \in Nat \ {0} /\ w \in Nat
  BY DeviceAssumption
<1> HIDE DEF P, hs, ds, w
<1>5. /\ a \in Seq(P) /\ Len(a) = Len(to) + Len(hs) /\ Len(to) \in Nat
      /\ \A k \in 1 .. Len(to) : a[k] = to[k]
      /\ \A k \in 1 .. Len(hs) : a[k + Len(to)] = hs[k]
  <2>1. hs \in Seq(P)
    BY <1>1
  <2> QED
    BY ONLY <1>3, <2>1, LgConcat
<1> HIDE DEF a
<1>6. on \in Seq(P) /\ Len(on) = Len(a) + Len(ds) /\ \A k \in 1 .. Len(a) : on[k] = a[k]
  <2>1. a \in Seq(P) /\ ds \in Seq(P)
    BY <1>2, <1>5
  <2> QED
    BY ONLY <2>1, LgConcat
<1> HIDE DEF on
<1>7. /\ q \in Seq(P) /\ Len(q) = Len(got) + Len(to) /\ Len(got) \in Nat
      /\ \A k \in 1 .. Len(got) : q[k] = got[k]
      /\ \A k \in 1 .. Len(to) : q[k + Len(got)] = to[k]
  BY ONLY <1>3, LgConcat
<1>8. /\ r \in Seq(P) /\ Len(r) = Len(got) + Len(on)
      /\ \A k \in 1 .. Len(got) : r[k] = got[k]
      /\ \A k \in 1 .. Len(on) : r[k + Len(got)] = on[k]
  <2>1. on \in Seq(P)
    BY <1>6
  <2> QED
    BY ONLY <1>3, <2>1, LgConcat
<1> HIDE DEF q, r
<1> DEFINE G == Len(got)
           T == Len(to)
<1>9. /\ Len(hs) = NbdHeader /\ Len(a) = T + NbdHeader /\ Len(on) = (T + NbdHeader) + w
      /\ Len(q) = G + T /\ Len(r) = G + ((T + NbdHeader) + w) /\ G \in Nat /\ T \in Nat
  BY <1>1, <1>2, <1>5, <1>6, <1>7, <1>8
<1>10. /\ \A k \in 1..G : q[k] = got[k] /\ r[k] = got[k]
       /\ \A k \in 1..T : q[k + G] = to[k] /\ a[k] = to[k]
       /\ \A k \in 1 .. T + NbdHeader : on[k] = a[k]
       /\ \A k \in 1 .. (T + NbdHeader) + w : r[k + G] = on[k]
       /\ \A k \in 1..NbdHeader : a[k + T] = <<N + 1, "header">>
  BY <1>1, <1>5, <1>6, <1>7, <1>8, <1>9
<1> HIDE DEF G, T
<1>11. ASSUME NEW k \in 1 .. Len(q) PROVE r[k] = q[k]
  <2>1. k \in 1 .. G + T
    BY <1>9
  <2>2. CASE k \in 1..G
    BY <1>10, <2>2
  <2>3. CASE k \in G + 1 .. G + T
    <3> DEFINE j == k - G
    <3>1. j \in 1..T /\ j + G = k /\ j \in 1 .. (T + NbdHeader) + w /\ j \in 1 .. T + NbdHeader
      BY ONLY <1>4, <1>9, <2>3
    <3> HIDE DEF j
    <3>2. r[j + G] = on[j] /\ on[j] = a[j] /\ a[j] = to[j] /\ q[j + G] = to[j]
      BY ONLY <1>10, <3>1
    <3> QED
      BY <3>1, <3>2
  <2>4. k \in 1..G \/ k \in G + 1 .. G + T
    BY ONLY <1>9, <2>1
  <2> QED
    BY <2>2, <2>3, <2>4
<1>12. r[Len(q) + 1][1] = N + 1
  <2> DEFINE j == 1 + T
  <2>1. /\ j \in 1 .. (T + NbdHeader) + w /\ j \in 1 .. T + NbdHeader /\ 1 \in 1..NbdHeader
        /\ j + G = (G + T) + 1
    BY ONLY <1>4, <1>9
  <2> HIDE DEF j
  <2>2. r[j + G] = on[j] /\ on[j] = a[j]
    BY ONLY <1>10, <2>1
  <2>3. a[j] = <<N + 1, "header">>
    BY <1>10, <2>1 DEF j
  <2>4. j + G = Len(q) + 1
    BY <1>9, <2>1
  <2>5. r[Len(q) + 1] = <<N + 1, "header">>
    BY ONLY <2>2, <2>3, <2>4
  <2> QED
    BY <2>5
<1>13. Len(r) = Len(q) + (NbdHeader + w) /\ Len(q) \in Nat
  <2>1. \A x, y, h, v \in Nat : x + ((y + h) + v) = (x + y) + (h + v) /\ x + y \in Nat
    OBVIOUS
  <2> QED
    BY <1>4, <1>9, <2>1
<1>14. NbdLengthens(q, r, N, NbdHeader + w)
  BY <1>11, <1>12, <1>13 DEF NbdLengthens
<1> QED
  BY <1>6, <1>14 DEF NbdSocket, P, q, r, on, a, hs, ds, w

NbdMore(r, more, d, N, f) ==
    \E g \in [Nat -> Nat] : NbdMessages(r, more, d, g) /\ \A n \in 0 .. N + 1 : g[n] = f[n]

LEMMA NbdMessagesMore ==
    ASSUME NEW asked, NEW more, NEW N \in Nat, Len(asked) = N, Len(more) = N + 1,
           \A k \in 1..N : more[k] = asked[k], NEW d \in 0..N, NEW f \in [Nat -> Nat],
           NEW q, NEW r, NEW l, l = NbdLength(more, N + 1), NbdLengthens(q, r, N, l),
           NbdMessages(q, asked, d, f)
    PROVE  NbdMore(r, more, d, N, f)
<1> DEFINE Q == Len(q)
           g == [f EXCEPT ![N + 2] = Q + l]
<1>1. \A n \in Nat : NbdLength(asked, n) \in Nat \ {0} /\ NbdLength(more, n) \in Nat \ {0}
  BY DeviceAssumption DEF NbdLength
<1>2. /\ l \in Nat \ {0} /\ Q \in Nat /\ Len(r) = Q + l
      /\ (\A k \in 1..Q : r[k] = q[k]) /\ r[Q + 1][1] = N + 1
  BY <1>1 DEF NbdLengthens
<1> HIDE DEF Q
<1>3. g \in [Nat -> Nat] /\ g[N + 2] = Q + l /\ \A n \in 0 .. N + 1 : g[n] = f[n]
  <2>1. N + 2 \in Nat /\ Q + l \in Nat /\ \A n \in 0 .. N + 1 : n \in Nat /\ n # N + 2
    <3>1. Q \in Nat /\ l \in Nat
      BY <1>2
    <3> QED
      BY ONLY <3>1, N \in Nat
  <2> QED
    BY ONLY <2>1, f \in [Nat -> Nat]
<1> HIDE DEF g
<1>4. /\ f[d + 1] = 0 /\ f[N + 1] = Q
      /\ \A n \in d + 1 .. N : f[n + 1] = f[n] + NbdLength(asked, n) /\ q[f[n] + 1][1] = n
      /\ \A m, n \in d + 1 .. N + 1 : m <= n => f[m] <= f[n]
  BY DEF NbdMessages, Q
<1>5. g[d + 1] = 0 /\ g[N + 1] = Q /\ (N + 1) + 1 = N + 2 /\ g[(N + 1) + 1] = Len(r)
  <2>1. d + 1 \in 0 .. N + 1 /\ N + 1 \in 0 .. N + 1 /\ (N + 1) + 1 = N + 2
    OBVIOUS
  <2> QED
    BY <1>2, <1>3, <1>4, <2>1
<1>6. ASSUME NEW n \in d + 1 .. N
      PROVE  g[n + 1] = g[n] + NbdLength(more, n) /\ r[g[n] + 1][1] = n
  <2>1. /\ n \in 0 .. N + 1 /\ n + 1 \in 0 .. N + 1 /\ n \in 1..N /\ n + 1 \in d + 1 .. N + 1
        /\ N + 1 \in d + 1 .. N + 1 /\ n + 1 <= N + 1 /\ n \in Nat
    OBVIOUS
  <2>2. NbdLength(more, n) = NbdLength(asked, n)
    BY <2>1 DEF NbdLength
  <2>3. f[n + 1] <= f[N + 1]
    BY <1>4, <2>1
  <2>4. /\ f[n + 1] <= Q /\ f[n + 1] = f[n] + NbdLength(asked, n) /\ f[n] \in Nat
        /\ NbdLength(asked, n) \in Nat \ {0}
    BY <1>1, <1>4, <2>1, <2>3
  <2>5. \A x, z, y \in Nat : z # 0 /\ x + z <= y => x + 1 \in 1..y
    OBVIOUS
  <2>6. f[n] + 1 \in 1..Q
    BY <1>2, <2>4, <2>5
  <2>7. r[f[n] + 1] = q[f[n] + 1]
    BY <1>2, <2>6
  <2>8. g[n] = f[n] /\ g[n + 1] = f[n + 1]
    BY <1>3, <2>1
  <2> QED
    BY <1>4, <2>2, <2>7, <2>8
<1>7. g[(N + 1) + 1] = g[N + 1] + NbdLength(more, N + 1) /\ r[g[N + 1] + 1][1] = N + 1
  BY <1>2, <1>5
<1>8. \A m, n \in d + 1 .. (N + 1) + 1 : m <= n => g[m] <= g[n]
  <2> SUFFICES ASSUME NEW m \in d + 1 .. (N + 1) + 1, NEW n \in d + 1 .. (N + 1) + 1, m <= n
               PROVE  g[m] <= g[n]
    OBVIOUS
  <2>1. CASE n \in d + 1 .. N + 1
    <3>1. m \in d + 1 .. N + 1 /\ m \in 0 .. N + 1 /\ n \in 0 .. N + 1
      BY ONLY <2>1, m <= n, N \in Nat, d \in 0..N, m \in d + 1 .. (N + 1) + 1
    <3> QED
      BY <1>3, <1>4, <2>1, <3>1
  <2>2. CASE n = N + 2 /\ m \in d + 1 .. N + 1
    <3>1. m \in 0 .. N + 1 /\ N + 1 \in d + 1 .. N + 1 /\ m <= N + 1 /\ m \in Nat
      BY ONLY <2>2, N \in Nat, d \in 0..N
    <3>2. g[m] = f[m] /\ f[m] <= f[N + 1] /\ f[m] \in Nat
      BY <1>3, <1>4, <2>2, <3>1
    <3>3. \A x, y, z \in Nat : x <= y => x <= y + z
      OBVIOUS
    <3>4. f[m] \in Nat /\ Q \in Nat /\ l \in Nat /\ f[m] <= Q
      BY <1>2, <1>4, <3>2
    <3>5. f[m] <= Q + l
      BY ONLY <3>3, <3>4
    <3> QED
      BY <1>3, <2>2, <3>2, <3>5
  <2>3. CASE n = N + 2 /\ m = N + 2
    <3>1. g[m] = g[n] /\ g[n] \in Nat
      BY <1>3, <2>3
    <3> QED
      BY ONLY <3>1
  <2> QED
    BY <2>1, <2>2, <2>3
<1>9. \A n \in d + 1 .. N + 1 : g[n + 1] = g[n] + NbdLength(more, n) /\ r[g[n] + 1][1] = n
  <2>1. \A n \in d + 1 .. N + 1 : n \in d + 1 .. N \/ n = N + 1
    OBVIOUS
  <2> QED
    BY <1>6, <1>7, <2>1
<1>10. NbdMessages(r, more, d, g)
  BY <1>5, <1>8, <1>9 DEF NbdMessages
<1> QED
  BY <1>3, <1>10 DEF NbdMore

LEMMA NbdPlacedMore ==
    ASSUME NEW asked, NEW more, NEW N \in Nat, Len(asked) = N, Len(more) = N + 1,
           \A k \in 1..N : more[k] = asked[k], NEW d \in 0..N, NEW f, NEW g, \A n \in 0 .. N + 1 : g[n] = f[n],
           NEW p, NEW got, NEW ans, NEW block, NbdPlaced(p, got, asked, ans, block, d, f)
    PROVE  NbdPlaced(p, got, more, ans, block, d, g)
<1>1. \A m \in 0..N : \A k \in 1..m : more[k].type = asked[k].type
  OBVIOUS
<1>2. \A m \in 0..N : NbdStored(block, asked, m) => NbdStored(block, more, m)
  BY <1>1, NbdStoredStays
<1>3. ASSUME NEW m \in 0..N PROVE NbdAnswered(ans, asked, m) => NbdAnswered(ans, more, m)
  <2>1. m \in Nat /\ \A k \in 1..m : more[k].type = asked[k].type
    BY <1>1
  <2> QED
    BY <2>1, NbdAnsweredStays
<1>4. d < N => d + 1 \in 0..N /\ d < N + 1 /\ more[d + 1].type = asked[d + 1].type /\ g[d + 2] = f[d + 2]
  <2>1. d < N => d + 1 \in 1..N /\ d + 1 \in 0..N /\ d < N + 1 /\ d + 2 \in 0 .. N + 1
    OBVIOUS
  <2> QED
    BY <2>1
<1>5. p \in {"data?", "data", "access", "reply", "more"} => d < N
  BY DEF NbdPlaced
<1>6. /\ p \in NbdResting => got = <<>>
      /\ p = "header" => Len(got) < NbdHeader
      /\ p \in {"data?", "data"} => Len(got) = NbdHeader
      /\ p = "data" => asked[d + 1].type = "WRITE"
      /\ p \in {"access", "reply", "more"} => Len(got) = f[d + 2]
      /\ NbdStored(block, asked, IF p \in {"reply", "more"} THEN d + 1 ELSE d)
      /\ NbdAnswered(ans, asked, IF p = "more" THEN d + 1 ELSE d)
      /\ p = "more" => /\ Len(ans) \in NbdHeadsOf(ans) /\ ans[Len(ans)].of = d + 1
  BY DEF NbdPlaced
<1>7. NbdStored(block, more, IF p \in {"reply", "more"} THEN d + 1 ELSE d)
  BY <1>2, <1>4, <1>5, <1>6
<1>8. NbdAnswered(ans, more, IF p = "more" THEN d + 1 ELSE d)
  BY <1>3, <1>4, <1>5, <1>6
<1> QED
  BY <1>4, <1>5, <1>6, <1>7, <1>8 DEF NbdPlaced

LEMMA NbdFlowAsks ==
    ASSUME NEW p, NEW got, NEW to, NEW asked, NEW ans, NEW block, NbdTyped(got, to, asked, ans, block),
           NEW e \in [type : NbdKinds, inside : BOOLEAN], NbdFlow(p, got, to, asked, ans, block)
    PROVE  LET more == Append(asked, e)
               on == to \o NbdSent(Len(asked)) \o NbdSentData(Len(asked), e.type = "WRITE") IN
           /\ NbdTyped(got, on, more, ans, block)
           /\ NbdFlow(p, got, on, more, ans, block)
<1> DEFINE N == Len(asked)
           more == Append(asked, e)
           write == e.type = "WRITE"
           on == to \o NbdSent(N) \o NbdSentData(N, write)
           q == got \o to
           r == got \o on
           l == NbdHeader + (IF write THEN 1 ELSE 0)
<1>1. /\ more \in NbdAsked /\ Len(more) = N + 1 /\ N \in Nat /\ more[N + 1] = e
      /\ \A k \in 1..N : more[k] = asked[k]
  BY DEF NbdTyped, NbdAsked
<1> HIDE DEF more
<1>2. N \in Nat /\ Len(asked) = N /\ l = NbdLength(more, N + 1) /\ write \in BOOLEAN
      /\ got \in NbdSocket /\ to \in NbdSocket
  BY <1>1 DEF NbdLength, NbdTyped
<1> HIDE DEF N
<1>3. on \in NbdSocket /\ NbdLengthens(q, r, N, l)
  BY <1>2, NbdSending
<1> HIDE DEF on, l, write
<1>4. NbdTyped(got, on, more, ans, block)
  BY <1>1, <1>3 DEF NbdTyped
<1>5. CASE p \in NbdResting \cup NbdReading
  <2>1. p \notin NbdOver
    BY <1>5 DEF NbdResting, NbdReading, NbdOver, NbdSettingUp
  <2>2. PICK d \in 0..N, f \in [Nat -> Nat] :
           NbdMessages(q, asked, d, f) /\ NbdPlaced(p, got, asked, ans, block, d, f)
    BY <1>2, <2>1 DEF NbdFlow
  <2> HIDE DEF q, r
  <2>3. PICK g \in [Nat -> Nat] : NbdMessages(r, more, d, g) /\ \A n \in 0 .. N + 1 : g[n] = f[n]
    <3>1. l = NbdLength(more, N + 1) /\ Len(more) = N + 1 /\ \A k \in 1..N : more[k] = asked[k]
      BY <1>1, <1>2
    <3>2. N \in Nat /\ Len(asked) = N /\ NbdLengthens(q, r, N, l) /\ NbdMessages(q, asked, d, f)
      BY <1>2, <1>3, <2>2
    <3>3. NbdMore(r, more, d, N, f)
      BY ONLY <3>1, <3>2, d \in 0..N, f \in [Nat -> Nat], NbdMessagesMore
    <3> QED
      BY <3>3 DEF NbdMore
  <2>4. NbdPlaced(p, got, more, ans, block, d, g)
    BY <1>1, <1>2, <2>2, <2>3, NbdPlacedMore
  <2>5. d \in 0 .. Len(more)
    BY <1>1
  <2> QED
    BY <1>4, <1>5, <2>3, <2>4, <2>5 DEF NbdFlow, r, on, more, N, write
<1>6. CASE p \in NbdOver
  <2>1. p \notin NbdResting \cup NbdReading
    BY <1>6 DEF NbdResting, NbdReading, NbdOver, NbdSettingUp
  <2>2. PICK d \in 0..N : NbdAnswered(ans, asked, d)
    BY <1>2, <2>1 DEF NbdFlow
  <2>3. d \in Nat /\ d \in 0 .. Len(more) /\ \A k \in 1..d : more[k].type = asked[k].type
    BY <1>1
  <2>4. NbdAnswered(ans, more, d)
    BY <2>2, <2>3, NbdAnsweredStays
  <2> QED
    BY <1>4, <1>6, <2>3, <2>4 DEF NbdFlow, on, more, N, write
<1> QED
  BY <1>5, <1>6 DEF NbdFlow

-----------------------------------------------------------------------------
\* nbd: its steps.
NbdDescriptors == {"device", "app", "nbd", "epoll"}

\* What no step of main changes of the records.
NbdShaped == /\ DOMAIN shared' = NbdFields /\ shared'.doing = shared.doing
             /\ DOMAIN hand' = 1..2 /\ DOMAIN hand'[1] = {"got", "evlist"}

NbdStill == /\ shared'.asked = shared.asked /\ shared'.to_app = shared.to_app
            /\ shared'.answers = shared.answers /\ shared'.block = shared.block
            /\ hand'[1].got = hand[1].got

NbdLasting == /\ shared'.fds = shared.fds /\ shared'.ended = shared.ended

LEMMA NbdInTypes ==
    ASSUME NbdInv
    PROVE  /\ NbdTyped(hand[1].got, shared.to_app, shared.asked, shared.answers, shared.block)
           /\ NbdTypes
  BY DEF NbdInv, NbdTypes, NbdTyped

\* A step of main, of which the flow and the ending go on.
LEMMA NbdTurns ==
    ASSUME NbdInv, NbdRunning, NbdShaped, NEW from, NEW to, Moves(1, from, to),
           NbdTyped(hand'[1].got, shared'.to_app, shared'.asked, shared'.answers, shared'.block),
           NbdFlow(to, hand'[1].got, shared'.to_app, shared'.asked, shared'.answers, shared'.block),
           shared'.fds \subseteq NbdDescriptors,
           "epoll" \in shared'.fds <=> to \notin NbdSettingUp,
           to \in {"close", "end"} => at[2] = "end",
           to \in {"last join", "close"} => "app" \notin shared'.fds,
           to = "end" => shared'.fds = {"epoll"},
           shared'.ended # "no" => to = "end" /\ shared'.ended = "returned"
    PROVE  NbdInv'
<1>1. DOMAIN at' = 1..2 /\ at'[1] = to /\ at'[2] = at[2]
  <2>1. DOMAIN at = 1..2 /\ at' = [at EXCEPT ![1] = to]
    BY NbdInTypes DEF NbdTypes, Moves
  <2> QED
    BY ONLY <2>1
<1>2. NbdTypes'
  BY <1>1 DEF NbdInv, NbdTypes, NbdTyped, NbdShaped, NbdDescriptors
<1>3. NbdEnding'
  BY <1>1 DEF NbdInv, NbdEnding, NbdShaped
<1>4. NbdFlow(at[1], hand[1].got, shared.to_app, shared.asked, shared.answers, shared.block)'
  BY <1>1
<1> QED
  BY <1>2, <1>3, <1>4 DEF NbdInv

\* One of which the flow stays what it is.
LEMMA NbdQuietTurns ==
    ASSUME NbdInv, NbdRunning, NbdShaped, NbdStill, NEW from, NEW to, Moves(1, from, to),
           <<from, to>> \in NbdQuiet,
           shared'.fds \subseteq NbdDescriptors,
           "epoll" \in shared'.fds <=> to \notin NbdSettingUp,
           to \in {"close", "end"} => at[2] = "end",
           to \in {"last join", "close"} => "app" \notin shared'.fds,
           to = "end" => shared'.fds = {"epoll"},
           shared'.ended # "no" => to = "end" /\ shared'.ended = "returned"
    PROVE  NbdInv'
<1>1. NbdTyped(hand[1].got, shared.to_app, shared.asked, shared.answers, shared.block)
  BY NbdInTypes
<1>2. NbdTyped(hand'[1].got, shared'.to_app, shared'.asked, shared'.answers, shared'.block)
  BY <1>1 DEF NbdStill
<1>3. NbdFlow(from, hand[1].got, shared.to_app, shared.asked, shared.answers, shared.block)
  BY DEF NbdInv, Moves
<1>4. NbdFlow(to, hand[1].got, shared.to_app, shared.asked, shared.answers, shared.block)
  BY <1>1, <1>3, NbdFlowQuiet
<1>5. NbdFlow(to, hand'[1].got, shared'.to_app, shared'.asked, shared'.answers, shared'.block)
  BY <1>4 DEF NbdStill
<1> QED
  BY <1>2, <1>5, NbdTurns

\* One between places where neither the descriptors nor the end are at stake.
LEMMA NbdFlowTurns ==
    ASSUME NbdInv, NbdRunning, NbdShaped, NbdLasting, NEW from \in NbdReading, NEW to \in NbdReading \cup {"next"},
           Moves(1, from, to),
           NbdTyped(hand'[1].got, shared'.to_app, shared'.asked, shared'.answers, shared'.block),
           NbdFlow(to, hand'[1].got, shared'.to_app, shared'.asked, shared'.answers, shared'.block)
    PROVE  NbdInv'
<1>1. /\ to \notin NbdSettingUp /\ to \notin {"close", "end"} /\ to \notin {"last join", "close"} /\ to # "end"
      /\ from \notin NbdSettingUp
  BY DEF NbdReading, NbdSettingUp
<1>2. shared'.fds \subseteq NbdDescriptors /\ "epoll" \in shared'.fds
  BY <1>1 DEF NbdInv, NbdTypes, NbdEnding, NbdLasting, NbdDescriptors, Moves
<1>3. shared'.ended = "no"
  BY DEF NbdRunning, NbdLasting
<1> QED
  BY <1>1, <1>2, <1>3, NbdTurns

LEMMA NbdBegins == NbdInit => NbdInv
<1> SUFFICES ASSUME NbdInit PROVE NbdInv
  OBVIOUS
<1>1. /\ DOMAIN shared = NbdFields /\ shared.asked = <<>> /\ shared.to_app = <<>> /\ shared.answers = <<>>
      /\ shared.block = 0 /\ shared.fds = {} /\ ~shared.blocked /\ ~shared.doing /\ shared.ended = "no"
      /\ shared.doing \in BOOLEAN
  BY DEF NbdInit, NbdShared, NbdFields, Unwritten
<1>2. /\ DOMAIN at = 1..2 /\ at[1] = "open" /\ at[2] = "start" /\ DOMAIN hand = 1..2
      /\ DOMAIN hand[1] = {"got", "evlist"} /\ hand[1].got = <<>>
  BY DEF NbdInit
<1>3. NbdTypes
  BY <1>1, <1>2 DEF NbdTypes, NbdAsked, NbdSocket, NbdReplies
<1>4. NbdEnding
  BY <1>1, <1>2 DEF NbdEnding, NbdSettingUp
<1>5. NbdFlow("open", <<>>, <<>>, <<>>, <<>>, 0)
  <2> DEFINE f == [n \in Nat |-> 0]
  <2>1. f \in [Nat -> Nat] /\ f[0 + 1] = 0 /\ f[1] = 0 /\ \A n \in Nat : f[n] = 0
    OBVIOUS
  <2> HIDE DEF f
  <2>2. Len(<<>>) = 0 /\ <<>> \o <<>> = <<>> /\ 1..0 = {} /\ 0 \in 0..0 /\ 0 + 1 = 1 /\ DOMAIN <<>> = {}
    OBVIOUS
  <2>3. NbdMessages(<<>>, <<>>, 0, f)
    <3>1. \A n \in 0 + 1 .. Len(<<>>) : FALSE
      BY <2>2
    <3>2. \A n \in 0 + 1 .. Len(<<>>) + 1 : n \in Nat
      BY <2>2
    <3>3. f[Len(<<>>) + 1] = Len(<<>>)
      BY <2>1, <2>2
    <3>4. \A m, n \in 0 + 1 .. Len(<<>>) + 1 : m <= n => f[m] <= f[n]
      BY <2>1, <3>2
    <3> QED
      BY <2>1, <3>1, <3>3, <3>4 DEF NbdMessages
  <2>4. NbdStored(0, <<>>, 0)
    <3>1. NbdWrites(<<>>, 0) = {0}
      BY <2>2 DEF NbdWrites, Unwritten
    <3> QED
      BY <3>1 DEF NbdStored
  <2>5. NbdAnswered(<<>>, <<>>, 0)
    BY <2>2 DEF NbdAnswered, NbdHeadsOf
  <2>6. NbdPlaced("open", <<>>, <<>>, <<>>, 0, 0, f)
    BY <2>4, <2>5 DEF NbdPlaced
  <2>7. "open" \in NbdResting
    BY DEF NbdResting, NbdSettingUp
  <2> QED
    BY <2>1, <2>2, <2>3, <2>6, <2>7 DEF NbdFlow
<1> QED
  BY <1>1, <1>2, <1>3, <1>4, <1>5 DEF NbdInv

\* The setting up of the device.
LEMMA NbdKeepsSetup ==
    ASSUME NbdInv, NbdRunning, FD \/ Setup
    PROVE  NbdInv'
<1>1. NbdTypes /\ NbdEnding /\ shared.ended = "no"
  BY DEF NbdInv, NbdRunning
<1> USE DEF Sets, NbdMain
<1>2. ASSUME NEW from, NEW to, Moves(1, from, to), UNCHANGED hand,
             from \in NbdSettingUp, to \in NbdSettingUp \cup {"loop"}, NbdShaped,
             shared'.asked = shared.asked, shared'.to_app = shared.to_app,
             shared'.answers = shared.answers, shared'.block = shared.block,
             shared'.ended = "no", shared'.fds \subseteq NbdDescriptors,
             "epoll" \in shared'.fds <=> to \notin NbdSettingUp
      PROVE  NbdInv'
  <2>1. NbdStill
    BY <1>2 DEF NbdStill
  <2>2. <<from, to>> \in NbdQuiet
    BY <1>2 DEF NbdQuiet, NbdResting
  <2>3. to \notin {"close", "end"} /\ to \notin {"last join", "close"} /\ to # "end"
    BY <1>2 DEF NbdSettingUp
  <2> QED
    BY <1>2, <2>1, <2>2, <2>3, NbdQuietTurns
<1>3. /\ DOMAIN hand = 1..2 /\ DOMAIN hand[1] = {"got", "evlist"} /\ DOMAIN shared = NbdFields
      /\ shared.fds \subseteq NbdDescriptors
      /\ at[1] \in NbdSettingUp => "epoll" \notin shared.fds
  BY <1>1 DEF NbdTypes, NbdEnding, NbdDescriptors
<1>4. CASE FD
  <2>1. /\ Moves(1, "open", "pair") /\ UNCHANGED hand /\ at[1] = "open"
        /\ \E there \in BOOLEAN :
              shared' = [shared EXCEPT !.fds = IF there THEN @ \cup {"device"} ELSE @]
    BY <1>4 DEF FD, Moves
  <2>2. /\ NbdShaped /\ shared'.asked = shared.asked /\ shared'.to_app = shared.to_app
        /\ shared'.answers = shared.answers /\ shared'.block = shared.block
        /\ shared'.ended = "no" /\ shared'.fds \subseteq shared.fds \cup {"device"}
    BY <1>1, <1>3, <2>1 DEF NbdShaped, NbdFields
  <2> QED
    BY <1>2, <1>3, <2>1, <2>2 DEF NbdSettingUp, NbdDescriptors
<1>5. CASE Moves(1, "pair", "size")
           /\ Sets([shared EXCEPT !.fds = @ \cup {"app", "nbd"},
                                  !.m_nbd_fd_disconnect = "device" \in shared.fds])
  <2>1. /\ NbdShaped /\ shared'.asked = shared.asked /\ shared'.to_app = shared.to_app
        /\ shared'.answers = shared.answers /\ shared'.block = shared.block
        /\ shared'.ended = "no" /\ shared'.fds = shared.fds \cup {"app", "nbd"}
    BY <1>1, <1>3, <1>5 DEF NbdShaped, NbdFields
  <2>2. at[1] = "pair" /\ UNCHANGED hand
    BY <1>5 DEF Moves
  <2> QED
    BY <1>2, <1>3, <1>5, <2>1, <2>2 DEF NbdSettingUp, NbdDescriptors
<1>6. CASE /\ Moves(1, "size", "mask")
           /\ \E done \in Ioctl : Sets([shared EXCEPT !.size = done])
  <2>1. /\ NbdShaped /\ shared'.asked = shared.asked /\ shared'.to_app = shared.to_app
        /\ shared'.answers = shared.answers /\ shared'.block = shared.block
        /\ shared'.ended = "no" /\ shared'.fds = shared.fds
    BY <1>1, <1>3, <1>6 DEF NbdShaped, NbdFields
  <2>2. at[1] = "size" /\ UNCHANGED hand
    BY <1>6 DEF Moves
  <2> QED
    BY <1>2, <1>3, <1>6, <2>1, <2>2 DEF NbdSettingUp, NbdDescriptors
<1>7. CASE Moves(1, "mask", "thread") /\ Sets([shared EXCEPT !.blocked = TRUE])
  <2>1. /\ NbdShaped /\ shared'.asked = shared.asked /\ shared'.to_app = shared.to_app
        /\ shared'.answers = shared.answers /\ shared'.block = shared.block
        /\ shared'.ended = "no" /\ shared'.fds = shared.fds
    BY <1>1, <1>3, <1>7 DEF NbdShaped, NbdFields
  <2>2. at[1] = "mask" /\ UNCHANGED hand
    BY <1>7 DEF Moves
  <2> QED
    BY <1>2, <1>3, <1>7, <2>1, <2>2 DEF NbdSettingUp, NbdDescriptors
<1>8. CASE Moves(1, "thread", "loop") /\ Sets([shared EXCEPT !.fds = @ \cup {"epoll"}])
  <2>1. /\ NbdShaped /\ shared'.asked = shared.asked /\ shared'.to_app = shared.to_app
        /\ shared'.answers = shared.answers /\ shared'.block = shared.block
        /\ shared'.ended = "no" /\ shared'.fds = shared.fds \cup {"epoll"}
    BY <1>1, <1>3, <1>8 DEF NbdShaped, NbdFields
  <2>2. UNCHANGED hand
    BY <1>8
  <2> QED
    BY <1>2, <1>3, <1>8, <2>1, <2>2 DEF NbdSettingUp, NbdDescriptors
<1> QED
  BY <1>4, <1>5, <1>6, <1>7, <1>8 DEF Setup

\* main between the requests.
LEMMA NbdKeepsLoop ==
    ASSUME NbdInv, NbdRunning, NbdLoop
    PROVE  NbdInv'
<1>1. NbdTypes /\ NbdEnding /\ shared.ended = "no"
  BY DEF NbdInv, NbdRunning
<1> USE DEF Sets, NbdMain, Nothing
<1>2. /\ DOMAIN hand = 1..2 /\ DOMAIN hand[1] = {"got", "evlist"} /\ DOMAIN shared = NbdFields
      /\ shared.fds \subseteq NbdDescriptors
      /\ at[1] \notin NbdSettingUp => "epoll" \in shared.fds
  BY <1>1 DEF NbdTypes, NbdEnding, NbdDescriptors
<1>3. ASSUME NEW from, NEW to, Moves(1, from, to), <<from, to>> \in NbdQuiet, from \notin NbdSettingUp,
             to \in {"loop", "wait", "next", "disconnect", "join", "header", "destroy", "last join"},
             NbdShaped, NbdStill, shared'.ended = "no",
             shared'.fds = shared.fds \/ shared'.fds = shared.fds \ {"app"},
             to = "last join" => "app" \notin shared'.fds
      PROVE  NbdInv'
  <2>1. to \notin NbdSettingUp /\ to \notin {"close", "end"} /\ to # "end"
    BY <1>3 DEF NbdSettingUp
  <2>2. at[1] = from
    BY <1>3 DEF Moves
  <2>3. shared'.fds \subseteq NbdDescriptors /\ "epoll" \in shared'.fds
    BY <1>2, <1>3, <2>2
  <2>4. to \in {"last join", "close"} => "app" \notin shared'.fds
    BY <1>3, <2>1
  <2> QED
    BY <1>3, <2>1, <2>3, <2>4, NbdQuietTurns
<1>4. CASE /\ Moves(1, "loop", IF shared.m_nbd_fd_disconnect THEN "wait" ELSE "destroy") /\ Nothing
  <2> DEFINE to == IF shared.m_nbd_fd_disconnect THEN "wait" ELSE "destroy"
  <2>1. /\ NbdShaped /\ NbdStill /\ shared'.ended = "no" /\ shared'.fds = shared.fds
    BY <1>1, <1>2, <1>4 DEF NbdShaped, NbdStill
  <2>2. to \in {"wait", "destroy"} /\ Moves(1, "loop", to)
    BY <1>4
  <2> HIDE DEF to
  <2>3. <<"loop", to>> \in NbdQuiet /\ "loop" \notin NbdSettingUp
    BY <2>2 DEF NbdQuiet, NbdResting, NbdSettingUp, NbdOver
  <2> QED
    BY <1>3, <2>1, <2>2, <2>3
<1>5. CASE /\ Moves(1, "wait", "next") /\ UNCHANGED shared
           /\ Holds(1, [hand[1] EXCEPT !.evlist = NbdReady])
  <2>1. /\ NbdShaped /\ NbdStill /\ shared'.ended = "no" /\ shared'.fds = shared.fds
    BY <1>1, <1>2, <1>5 DEF NbdShaped, NbdStill, Holds
  <2>2. <<"wait", "next">> \in NbdQuiet /\ "wait" \notin NbdSettingUp
    BY DEF NbdQuiet, NbdResting, NbdSettingUp
  <2> QED
    BY <1>3, <1>5, <2>1, <2>2
<1>6. CASE Moves(1, "next", "loop") /\ Nothing
  <2>1. /\ NbdShaped /\ NbdStill /\ shared'.ended = "no" /\ shared'.fds = shared.fds
    BY <1>1, <1>2, <1>6 DEF NbdShaped, NbdStill
  <2>2. <<"next", "loop">> \in NbdQuiet /\ "next" \notin NbdSettingUp
    BY DEF NbdQuiet, NbdResting, NbdSettingUp
  <2> QED
    BY <1>3, <1>6, <2>1, <2>2
<1>7. CASE /\ Moves(1, "next", IF shared.line = "q" THEN "disconnect" ELSE "next")
           /\ Holds(1, [hand[1] EXCEPT !.evlist = @ \ {"stdin"}])
           /\ shared' = [shared EXCEPT !.line = "none"]
  <2> DEFINE to == IF shared.line = "q" THEN "disconnect" ELSE "next"
  <2>1. /\ NbdShaped /\ NbdStill /\ shared'.ended = "no" /\ shared'.fds = shared.fds
    BY <1>1, <1>2, <1>7 DEF NbdShaped, NbdStill, Holds, NbdFields
  <2>2. to \in {"disconnect", "next"} /\ Moves(1, "next", to)
    BY <1>7
  <2> HIDE DEF to
  <2>3. <<"next", to>> \in NbdQuiet /\ "next" \notin NbdSettingUp
    BY <2>2 DEF NbdQuiet, NbdResting, NbdSettingUp
  <2> QED
    BY <1>3, <2>1, <2>2, <2>3
<1>8. CASE /\ Moves(1, "next", "header") /\ UNCHANGED shared
           /\ Holds(1, [hand[1] EXCEPT !.evlist = @ \ {"app"}])
  <2>1. /\ NbdShaped /\ NbdStill /\ shared'.ended = "no" /\ shared'.fds = shared.fds
    BY <1>1, <1>2, <1>8 DEF NbdShaped, NbdStill, Holds
  <2>2. <<"next", "header">> \in NbdQuiet /\ "next" \notin NbdSettingUp
    BY DEF NbdQuiet, NbdResting, NbdSettingUp
  <2> QED
    BY <1>3, <1>8, <2>1, <2>2
<1>9. ASSUME NEW from \in {"disconnect", "destroy"}, NEW next \in {"join", "last join"},
             from = "destroy" => next = "last join", Moves(1, from, next), UNCHANGED hand,
             shared' = [shared EXCEPT !.m_nbd_fd_disconnect = FALSE, !.fds = @ \ {"app"}]
      PROVE  NbdInv'
  <2>1. /\ NbdShaped /\ NbdStill /\ shared'.ended = "no" /\ shared'.fds = shared.fds \ {"app"}
    BY <1>1, <1>2, <1>9 DEF NbdShaped, NbdStill, NbdFields
  <2>2. <<from, next>> \in NbdQuiet /\ from \notin NbdSettingUp
    BY <1>9 DEF NbdQuiet, NbdResting, NbdSettingUp, NbdOver
  <2>3. next \in {"join", "last join"}
    BY <1>9
  <2> QED
    BY <1>3, <1>9, <2>1, <2>2, <2>3
<1>10. CASE Disconnect("disconnect", "join", "loop")
  <2>1. CASE at[NbdListener] = "end" /\ Moves(1, "join", "loop") /\ Nothing
    <3>1. /\ NbdShaped /\ NbdStill /\ shared'.ended = "no" /\ shared'.fds = shared.fds
      BY <1>1, <1>2, <2>1 DEF NbdShaped, NbdStill
    <3>2. <<"join", "loop">> \in NbdQuiet /\ "join" \notin NbdSettingUp
      BY DEF NbdQuiet, NbdResting, NbdSettingUp
    <3> QED
      BY <1>3, <2>1, <3>1, <3>2
  <2>2. CASE /\ Moves(1, "disconnect", "join")
             /\ Sets([shared EXCEPT !.m_nbd_fd_disconnect = FALSE, !.fds = @ \ {"app"}])
    BY <1>9, <2>2
  <2> QED
    BY <1>10, <2>1, <2>2 DEF Disconnect
<1>11. CASE Disconnect("destroy", "last join", "close")
  <2>1. CASE at[NbdListener] = "end" /\ Moves(1, "last join", "close") /\ Nothing
    <3>1. /\ NbdShaped /\ NbdStill /\ shared'.ended = "no" /\ shared'.fds = shared.fds
      BY <1>1, <1>2, <2>1 DEF NbdShaped, NbdStill
    <3>2. <<"last join", "close">> \in NbdQuiet /\ "close" \notin NbdSettingUp /\ "close" # "end"
      BY DEF NbdQuiet, NbdOver, NbdSettingUp
    <3>3. at[2] = "end" /\ at[1] = "last join"
      BY <2>1 DEF NbdListener, Moves
    <3>4. "app" \notin shared'.fds /\ "epoll" \in shared'.fds /\ shared'.fds \subseteq NbdDescriptors
      <4>1. "last join" \notin NbdSettingUp
        BY DEF NbdSettingUp
      <4> QED
        BY <1>1, <1>2, <3>1, <3>3, <4>1 DEF NbdEnding
    <3> QED
      BY <2>1, <3>1, <3>2, <3>3, <3>4, NbdQuietTurns
  <2>2. CASE /\ Moves(1, "destroy", "last join")
             /\ Sets([shared EXCEPT !.m_nbd_fd_disconnect = FALSE, !.fds = @ \ {"app"}])
    BY <1>9, <2>2
  <2> QED
    BY <1>11, <2>1, <2>2 DEF Disconnect
<1>12. CASE /\ Moves(1, "close", "end")
            /\ Sets([shared EXCEPT !.fds = @ \ {"app", "nbd", "device"}, !.ended = "returned"])
  <2>1. /\ NbdShaped /\ NbdStill /\ shared'.ended = "returned"
        /\ shared'.fds = shared.fds \ {"app", "nbd", "device"}
    BY <1>1, <1>2, <1>12 DEF NbdShaped, NbdStill, NbdFields
  <2>2. <<"close", "end">> \in NbdQuiet /\ "close" \notin NbdSettingUp /\ "end" \notin NbdSettingUp
    BY DEF NbdQuiet, NbdOver, NbdSettingUp
  <2>3. at[1] = "close"
    BY <1>12 DEF Moves
  <2>4. at[2] = "end" /\ shared'.fds = {"epoll"} /\ shared'.fds \subseteq NbdDescriptors
    BY <1>1, <1>2, <2>1, <2>2, <2>3 DEF NbdEnding, NbdDescriptors
  <2> QED
    BY <1>12, <2>1, <2>2, <2>4, NbdQuietTurns
<1> QED
  BY <1>4, <1>5, <1>6, <1>7, <1>8, <1>10, <1>11, <1>12 DEF NbdLoop

\* Reading, the access and the reply.
LEMMA NbdKeepsReading ==
    ASSUME NbdInv, NbdRunning, ReceiveRequest
    PROVE  NbdInv'
<1> DEFINE got == hand[1].got
           to == shared.to_app
           asked == shared.asked
           ans == shared.answers
           block == shared.block
<1>1. /\ DOMAIN hand = 1..2 /\ DOMAIN hand[1] = {"got", "evlist"} /\ DOMAIN shared = NbdFields
  BY DEF NbdInv, NbdTypes
<1>2. NbdTyped(got, to, asked, ans, block)
  BY NbdInTypes
<1> USE DEF NbdMain
<1>3. ASSUME NEW p, NEW count, NEW r,
             <<p, count, r>> \in {<<"header", NbdHeader, "data?">>, <<"data", NbdHeader + 1, "access">>},
             ReadAll(count, p, r)
      PROVE  NbdInv'
  <2>1. PICK n \in 1 .. Min({count - Len(got), Len(to)}) :
           /\ Moves(1, p, IF Len(got) + n = count THEN r ELSE p)
           /\ Holds(1, [hand[1] EXCEPT !.got = @ \o SubSeq(to, 1, n)])
           /\ shared' = [shared EXCEPT !.to_app = SubSeq(@, n + 1, Len(@))]
    BY <1>3 DEF ReadAll
  <2> DEFINE s == IF Len(got) + n = count THEN r ELSE p
             g == got \o SubSeq(to, 1, n)
             u == SubSeq(to, n + 1, Len(to))
  <2>2. /\ shared'.asked = asked /\ shared'.to_app = u /\ shared'.answers = ans /\ shared'.block = block
        /\ NbdLasting /\ DOMAIN shared' = NbdFields /\ shared'.doing = shared.doing
    BY <1>1, <2>1 DEF NbdFields, NbdLasting
  <2>3. hand'[1].got = g /\ DOMAIN hand' = 1..2 /\ DOMAIN hand'[1] = {"got", "evlist"}
    BY <1>1, <2>1 DEF Holds
  <2>4. NbdFlow(p, got, to, asked, ans, block)
    BY <2>1 DEF NbdInv, Moves
  <2>5. /\ p \in {"header", "data"}
        /\ p = "header" => count = NbdHeader /\ r = "data?"
        /\ p = "data" => count = NbdHeader + 1 /\ r = "access"
    BY <1>3
  <2>6. s \in NbdReading /\ p \in NbdReading
    BY <2>5 DEF NbdReading
  <2> HIDE DEF got, to, asked, ans, block
  <2>7. NbdTyped(g, u, asked, ans, block) /\ NbdFlow(s, g, u, asked, ans, block)
    BY <1>2, <2>4, <2>5, NbdFlowReads
  <2>8. Moves(1, p, s)
    BY <2>1
  <2> HIDE DEF s, g, u
  <2>9. NbdShaped
    BY <2>2, <2>3 DEF NbdShaped
  <2>10. /\ NbdTyped(hand'[1].got, shared'.to_app, shared'.asked, shared'.answers, shared'.block)
         /\ NbdFlow(s, hand'[1].got, shared'.to_app, shared'.asked, shared'.answers, shared'.block)
    BY <2>2, <2>3, <2>7
  <2> QED
    BY <2>2, <2>6, <2>8, <2>9, <2>10, NbdFlowTurns
<1>4. CASE Moves(1, "data?", IF NbdType = "WRITE" THEN "data" ELSE "access") /\ Nothing
  <2> DEFINE s == IF asked[got[1][1]].type = "WRITE" THEN "data" ELSE "access"
  <2>1. Moves(1, "data?", s) /\ UNCHANGED <<shared, hand>>
    BY <1>4 DEF NbdType, NbdNumber, Nothing
  <2>2. NbdFlow("data?", got, to, asked, ans, block)
    BY <2>1 DEF NbdInv, Moves
  <2>3. s \in NbdReading /\ "data?" \in NbdReading
    BY DEF NbdReading
  <2>4. NbdFlow(s, got, to, asked, ans, block)
    <3> HIDE DEF got, to, asked, ans, block
    <3> QED
      BY <1>2, <2>2, NbdFlowDecides
  <2>5. NbdShaped /\ NbdLasting
    BY <1>1, <2>1 DEF NbdShaped, NbdLasting
  <2> HIDE DEF s
  <2>6. /\ NbdTyped(hand'[1].got, shared'.to_app, shared'.asked, shared'.answers, shared'.block)
        /\ NbdFlow(s, hand'[1].got, shared'.to_app, shared'.asked, shared'.answers, shared'.block)
    BY <1>2, <2>1, <2>4
  <2> QED
    BY <2>1, <2>3, <2>5, <2>6, NbdFlowTurns
<1> QED
  BY <1>3, <1>4 DEF ReceiveRequest

LEMMA NbdKeepsReply ==
    ASSUME NbdInv, NbdRunning, NbdAccess \/ SendReply
    PROVE  NbdInv'
<1> DEFINE got == hand[1].got
           to == shared.to_app
           asked == shared.asked
           ans == shared.answers
           block == shared.block
           n == got[1][1]
<1>1. /\ DOMAIN hand = 1..2 /\ DOMAIN hand[1] = {"got", "evlist"} /\ DOMAIN shared = NbdFields
  BY DEF NbdInv, NbdTypes
<1>2. NbdTyped(got, to, asked, ans, block)
  BY NbdInTypes
<1>3. NbdNumber = n /\ NbdType = asked[n].type
  BY DEF NbdType, NbdNumber, NbdMain
<1> USE DEF NbdMain
<1>4. CASE /\ Moves(1, "access", "reply")
           /\ Sets([shared EXCEPT !.block = IF NbdType = "WRITE" THEN NbdNumber ELSE @])
  <2> DEFINE after == IF asked[n].type = "WRITE" THEN n ELSE block
  <2>1. /\ shared'.asked = asked /\ shared'.to_app = to /\ shared'.answers = ans /\ shared'.block = after
        /\ NbdLasting /\ NbdShaped /\ hand' = hand
    BY <1>1, <1>3, <1>4 DEF NbdFields, NbdLasting, NbdShaped, Sets
  <2>2. NbdFlow("access", got, to, asked, ans, block)
    BY <1>4 DEF NbdInv, Moves
  <2>3. NbdFlow("reply", got, to, asked, ans, after) /\ after \in Nat
    <3> HIDE DEF got, to, asked, ans, block
    <3> QED
      BY <1>2, <2>2, NbdFlowAccesses
  <2> HIDE DEF after
  <2>4. /\ NbdTyped(hand'[1].got, shared'.to_app, shared'.asked, shared'.answers, shared'.block)
        /\ NbdFlow("reply", hand'[1].got, shared'.to_app, shared'.asked, shared'.answers, shared'.block)
    BY <1>2, <2>1, <2>3 DEF NbdTyped
  <2>5. "access" \in NbdReading /\ "reply" \in NbdReading
    BY DEF NbdReading
  <2> QED
    BY <1>4, <2>1, <2>4, <2>5, NbdFlowTurns
<1>5. CASE Moves(1, "access", "destroy") /\ Nothing
  <2>1. NbdShaped /\ NbdStill /\ shared'.ended = "no" /\ shared'.fds = shared.fds
    BY <1>1, <1>5 DEF NbdShaped, NbdStill, Nothing, NbdRunning
  <2>2. /\ <<"access", "destroy">> \in NbdQuiet /\ "access" \notin NbdSettingUp /\ "destroy" \notin NbdSettingUp
        /\ "destroy" \notin {"close", "end"} /\ "destroy" \notin {"last join", "close"} /\ "destroy" # "end"
    BY DEF NbdQuiet, NbdSettingUp, NbdOver
  <2>3. shared.fds \subseteq NbdDescriptors /\ "epoll" \in shared.fds
    BY <1>5, <2>2 DEF NbdInv, NbdTypes, NbdEnding, Moves, NbdDescriptors
  <2> QED
    BY <1>5, <2>1, <2>2, <2>3, NbdQuietTurns
<1>6. ASSUME NEW sent \in BOOLEAN,
             Moves(1, "reply", "more"), UNCHANGED hand,
              shared' = [shared EXCEPT !.answers = Append(@, [of |-> NbdNumber, part |-> "header",
                                                              sent |-> sent])]
      PROVE  NbdInv'
  <2> DEFINE new == Append(ans, [of |-> n, part |-> "header", sent |-> sent])
  <2>1. /\ shared'.asked = asked /\ shared'.to_app = to /\ shared'.answers = new /\ shared'.block = block
        /\ NbdLasting /\ NbdShaped /\ hand' = hand
    BY <1>1, <1>3, <1>6 DEF NbdFields, NbdLasting, NbdShaped
  <2>2. NbdFlow("reply", got, to, asked, ans, block)
    BY <1>6 DEF NbdInv, Moves
  <2>3. new \in NbdReplies /\ NbdFlow("more", got, to, asked, new, block)
    <3> HIDE DEF got, to, asked, ans, block
    <3> QED
      BY <1>2, <2>2, NbdFlowReplies
  <2> HIDE DEF new
  <2>4. /\ NbdTyped(hand'[1].got, shared'.to_app, shared'.asked, shared'.answers, shared'.block)
        /\ NbdFlow("more", hand'[1].got, shared'.to_app, shared'.asked, shared'.answers, shared'.block)
    BY <1>2, <2>1, <2>3 DEF NbdTyped
  <2>5. "reply" \in NbdReading /\ "more" \in NbdReading
    BY DEF NbdReading
  <2> QED
    BY <1>6, <2>1, <2>4, <2>5, NbdFlowTurns
<1>7. ASSUME NEW sent \in BOOLEAN,
             Moves(1, "more", "next"), Holds(1, [hand[1] EXCEPT !.got = <<>>]),
              shared' = IF NbdType # "READ" THEN shared
                        ELSE [shared EXCEPT !.answers = Append(@, [of |-> NbdNumber, part |-> "data",
                                                                   block |-> shared.block,
                                                                   sent |-> sent])]
      PROVE  NbdInv'
  <2> DEFINE new == IF asked[n].type # "READ" THEN ans
                    ELSE Append(ans, [of |-> n, part |-> "data", block |-> block, sent |-> sent])
  <2>1. /\ shared'.asked = asked /\ shared'.to_app = to /\ shared'.answers = new /\ shared'.block = block
        /\ NbdLasting /\ DOMAIN shared' = NbdFields /\ shared'.doing = shared.doing
    <3>1. CASE asked[n].type # "READ"
      <4>1. shared' = shared /\ new = ans
        BY <1>3, <1>7, <3>1
      <4> QED
        BY <1>1, <4>1 DEF NbdLasting
    <3>2. CASE asked[n].type = "READ"
      <4>1. shared' = [shared EXCEPT !.answers = Append(@, [of |-> n, part |-> "data", block |-> block, sent |-> sent])]
        BY <1>3, <1>7, <3>2
      <4>2. new = Append(ans, [of |-> n, part |-> "data", block |-> block, sent |-> sent])
        BY <3>2
      <4> HIDE DEF new
      <4> QED
        BY <1>1, <4>1, <4>2 DEF NbdFields, NbdLasting
    <3> QED
      BY <3>1, <3>2
  <2>2. hand'[1].got = <<>> /\ DOMAIN hand' = 1..2 /\ DOMAIN hand'[1] = {"got", "evlist"}
    BY <1>1, <1>7 DEF Holds
  <2>3. NbdFlow("more", got, to, asked, ans, block)
    BY <1>7 DEF NbdInv, Moves
  <2>4. new \in NbdReplies /\ NbdFlow("next", <<>>, to, asked, new, block)
    <3> HIDE DEF got, to, asked, ans, block
    <3> QED
      BY <1>2, <2>3, NbdFlowEnds
  <2> HIDE DEF new
  <2>5. <<>> \in NbdSocket
    BY DEF NbdSocket
  <2>6. /\ NbdTyped(hand'[1].got, shared'.to_app, shared'.asked, shared'.answers, shared'.block)
        /\ NbdFlow("next", hand'[1].got, shared'.to_app, shared'.asked, shared'.answers, shared'.block)
    BY <1>2, <2>1, <2>2, <2>4, <2>5 DEF NbdTyped
  <2>7. "more" \in NbdReading /\ NbdShaped
    BY <2>1, <2>2 DEF NbdReading, NbdShaped
  <2> QED
    BY <1>7, <2>1, <2>6, <2>7, NbdFlowTurns
<1> QED
  BY <1>4, <1>5, <1>6, <1>7 DEF NbdAccess, SendReply
=============================================================================

-------------------------- MODULE ExercisesProofs ---------------------------
(***************************************************************************)
(* Proofs about Exercises, in which each behaviour is one program: what is *)
(* kept by the steps of a program holds of it beside all the others.       *)
(***************************************************************************)
EXTENDS Exercises, RendezvousProofs, ProgramsProofs

\* A behaviour stays with its program, and begins as that program does.
LEMMA OneProgram ==
    ASSUME [ExercisesNext]_allVars
    PROVE /\ UNCHANGED game
          /\ game \in {"pnp", "singleton"} => PgNext \/ UNCHANGED exVars
          /\ game = "storage" => RamNext \/ UNCHANGED exVars
          /\ game \in ExGames =>
                (\E t \in DOMAIN at : ExStep(t)) \/ UNCHANGED exVars
          /\ game \in PrGames =>
                (\E t \in DOMAIN at : PrStep(t)) \/ UNCHANGED exVars
<1> USE DEF ExGames, PrGames, NtGames, ThGames, exVars
<1>1. CASE UNCHANGED allVars
  BY <1>1 DEF allVars
<1>2. CASE game = "exercise6" /\ Next /\ UNCHANGED exVars
  BY <1>2
<1>3. CASE PgNext
  BY <1>3 DEF PgNext
<1>4. CASE RamNext
  BY <1>4 DEF RamNext
<1>5. CASE \/ game = "tcp_udp" /\ SelTypes /\ UNCHANGED game
           \/ game = "nbd" /\ NbdOutside /\ UNCHANGED game
           \/ ThMay /\ UNCHANGED game
  BY <1>5 DEF ThMay
<1>6. CASE \E t \in DOMAIN at : ThreadStep(t)
  BY <1>6 DEF ThreadStep
<1>7. QED
  BY <1>1, <1>2, <1>3, <1>4, <1>5, <1>6 DEF ExercisesNext

LEMMA OneBeginning ==
    ASSUME ExercisesInit
    PROVE /\ game \in {"pnp", "singleton"} => PgInit
          /\ game = "storage" => RamInit
          /\ game \in ExGames => ExInit
          /\ game \in PrGames => PrInit
  BY DEF ExercisesInit, ExInit, PrInit, PgInit, RamInit, NtInit, NbdInit, RpInit, ThInit,
         ExGames, PrGames, NtGames, ThGames

-----------------------------------------------------------------------------
\* producers_consumers.c, exercise 6, goes as in Rendezvous whatever the other
\* programs do, which do not step when it runs.
THEOREM Exercise6AsAlone == ExercisesSpec => Spec
<1>1. ExercisesInit => Init
  BY DEF ExercisesInit
<1>2. [ExercisesNext]_allVars => [Next]_vars
  BY DEF ExercisesNext, allVars
<1>3. QED
  BY <1>1, <1>2, PTL DEF ExercisesSpec, Spec

\* Each consumer reads each message once, and none is overwritten before all
\* have read it, in the processes of this run too.
THEOREM Exercise6IsSafe ==
    ExercisesSpec => [](TypeOK /\ ReadsEachMessageOnce /\ NoOverwrite)
  BY Exercise6AsAlone, Typing, EachMessageOnce, WritesBetweenRounds, PTL

-----------------------------------------------------------------------------
\* PluginsAreSafe (pnp.cpp, singleton.hpp), for any number of files and any
\* threads: unless the two threads meet in the vectors, files are loaded in
\* order, none is heard of in vain and none stays open; and one singleton is
\* made, whole for whoever has its address.
THEOREM PluginsAreAlwaysSafe == ExercisesSpec => []PluginsAreSafe
<1>1. ExercisesInit => PluginsInv
  BY OneBeginning, PluginsBegin DEF PluginsInv
<1>2. ASSUME PluginsInv, [ExercisesNext]_allVars PROVE PluginsInv'
  <2>1. UNCHANGED game
    BY <1>2, OneProgram
  <2>2. CASE game \in {"pnp", "singleton"}
    BY <1>2, <2>2, OneProgram, PluginsStep, PluginsStutter
  <2>3. CASE game \notin {"pnp", "singleton"}
    BY <2>1, <2>3 DEF PluginsInv
  <2>4. QED
    BY <2>2, <2>3
<1>3. QED
  BY <1>1, <1>2, PluginsInvIsSafe, PTL DEF ExercisesSpec

-----------------------------------------------------------------------------
\* storage: types, who writes what, and what a read has.
RamBytes  == 0 .. RamSize - 1
RamValues == RamWorkers \cup {Absent}
RamAccesses == [type : {"none", "READ", "WRITE"}, offset : Nat, len : Nat,
                m_data : Seq(RamValues), met : BOOLEAN]
RamRecords == [m_storage : [RamBytes -> RamValues], disk : [RamBytes -> RamValues],
               mixed : SUBSET Int, ended : {"no", "thrown", "astray"}]

RamTypes == /\ at \in [RamWorkers -> {"pop", "copy", "reply"}]
            /\ hand \in [RamWorkers -> RamAccesses]
            /\ shared \in RamRecords

RamAsked == \A w \in RamWorkers :
    /\ at[w] # "pop" => InRange(hand[w]) /\ hand[w].type # "none"
    /\ at[w] = "copy" => Len(hand[w].m_data) < hand[w].len
    /\ at[w] = "reply" => Len(hand[w].m_data) = hand[w].len
    /\ at[w] # "pop" => hand[w].offset + Len(hand[w].m_data) <= RamSize
                        \/ Len(hand[w].m_data) = 0

Writes(w, b) == at[w] # "pop" /\ hand[w].type = "WRITE" /\ b \in Bytes(hand[w])
Ahead(w, b) == at[w] = "copy" /\ Writes(w, b)
               /\ hand[w].offset + Len(hand[w].m_data) <= b

\* Who writes an unmixed byte is the one whose byte the disk has there.
OneWriter == \A b \in RamBytes \ shared.mixed, w \in RamWorkers :
    Writes(w, b) => shared.disk[b] = w

\* An unmixed byte is as on the disk, or will be.
Settled == \A b \in RamBytes \ shared.mixed :
    shared.m_storage[b] = shared.disk[b] \/ \E w \in RamWorkers : Ahead(w, b)

\* What a read that was not met has copied is as on the disk, and stays so.
ReadsTrue == \A w \in RamWorkers :
    at[w] # "pop" /\ hand[w].type = "READ" /\ ~hand[w].met =>
       /\ \A v \in RamWorkers, b \in Bytes(hand[w]) : ~Writes(v, b)
       /\ \A k \in 1 .. Len(hand[w].m_data) :
             \/ hand[w].offset + k - 1 \in shared.mixed
             \/ hand[w].m_data[k] = shared.disk[hand[w].offset + k - 1]

Strays == shared.ended = "astray" =>
    \E w \in RamWorkers : at[w] = "copy" /\ hand[w].offset + hand[w].len >= RamWord

RamInv == RamTypes /\ RamAsked /\ OneWriter /\ Settled /\ ReadsTrue /\ Strays

LEMMA SmallModulo == \A n, w \in Nat : n < w => n % w = n
  OBVIOUS

LEMMA RamBegins == RamInit => RamInv
<1> SUFFICES ASSUME RamInit PROVE RamInv
  OBVIOUS
<1> USE DEF RamInit
<1>1. NoAccess \in RamAccesses
  BY DEF NoAccess, RamAccesses
<1>2. RamTypes
  <2>1. shared \in RamRecords
    BY DEF RamRecords, RamBytes, RamValues
  <2>2. QED
    BY <1>1, <2>1 DEF RamTypes
<1>3. \A b \in RamBytes : shared.m_storage[b] = shared.disk[b]
  BY DEF RamBytes
<1>4. \A w \in RamWorkers : at[w] = "pop"
  OBVIOUS
<1>5. QED
  BY <1>2, <1>3, <1>4
     DEF RamInv, RamAsked, OneWriter, Writes, Settled, ReadsTrue, Strays

\* The records of the accesses.
LEMMA RamMet ==
    ASSUME NEW h \in RamAccesses, NEW m \in BOOLEAN, NEW g, g = [h EXCEPT !.met = m]
    PROVE /\ g \in RamAccesses /\ g.type = h.type /\ g.offset = h.offset
          /\ g.len = h.len /\ g.m_data = h.m_data /\ g.met = m
  BY DEF RamAccesses

LEMMA RamCopied ==
    ASSUME NEW h \in RamAccesses, NEW d \in Seq(RamValues),
           NEW g, g = [h EXCEPT !.m_data = d]
    PROVE /\ g \in RamAccesses /\ g.type = h.type /\ g.offset = h.offset
          /\ g.len = h.len /\ g.m_data = d /\ g.met = h.met
  BY DEF RamAccesses

Asking(ty, o, l) == [NoAccess EXCEPT !.type = ty, !.offset = o, !.len = l]

LEMMA RamAsks ==
    ASSUME NEW ty \in {"READ", "WRITE"}, NEW o \in RamOffsets, NEW l \in RamLengths
    PROVE /\ Asking(ty, o, l) \in RamAccesses /\ Asking(ty, o, l).type = ty
          /\ Asking(ty, o, l).offset = o /\ Asking(ty, o, l).len = l
          /\ Asking(ty, o, l).m_data = <<>> /\ ~Asking(ty, o, l).met
          /\ o \in Nat /\ l \in Nat /\ 0 < l
<1> DEFINE h == Asking(ty, o, l)
<1>1. o \in Nat /\ l \in Nat /\ 0 < l
  BY StorageAssumption
<1>0. h = [NoAccess EXCEPT !.type = ty, !.offset = o, !.len = l]
  BY DEF Asking
<1> HIDE DEF h
<1>2. h = [type |-> ty, offset |-> o, len |-> l, m_data |-> <<>>, met |-> FALSE]
  BY <1>0 DEF NoAccess
<1>3. h.type = ty
  BY <1>2
<1>4. h.offset = o
  BY <1>2
<1>5. h.len = l
  BY <1>2
<1>6. h.m_data = <<>>
  BY <1>2
<1>7. ~h.met
  BY <1>2
<1>8. <<>> \in Seq(RamValues)
  OBVIOUS
<1>9. h \in RamAccesses
  BY <1>1, <1>2, <1>8 DEF RamAccesses
<1>10. QED
  BY <1>1, <1>3, <1>4, <1>5, <1>6, <1>7, <1>9 DEF h

\* The storage as it is left by Access and by CopyByte.
LEMMA RamSharedDisk ==
    ASSUME shared \in RamRecords, NEW d \in [RamBytes -> RamValues], NEW m \in SUBSET Int,
           shared' = [shared EXCEPT !.disk = d, !.mixed = m]
    PROVE /\ shared' \in RamRecords /\ shared'.m_storage = shared.m_storage
          /\ shared'.disk = d /\ shared'.mixed = m /\ shared'.ended = shared.ended
  BY DEF RamRecords

LEMMA RamSharedEnded ==
    ASSUME shared \in RamRecords, NEW e \in {"no", "thrown", "astray"},
           shared' = [shared EXCEPT !.ended = e]
    PROVE /\ shared' \in RamRecords /\ shared'.m_storage = shared.m_storage
          /\ shared'.disk = shared.disk /\ shared'.mixed = shared.mixed
          /\ shared'.ended = e
  BY DEF RamRecords

LEMMA RamSharedByte ==
    ASSUME shared \in RamRecords, NEW b \in RamBytes, NEW v \in RamValues,
           shared' = [shared EXCEPT !.m_storage[b] = v]
    PROVE /\ shared' \in RamRecords
          /\ shared'.m_storage = [shared.m_storage EXCEPT ![b] = v]
          /\ shared'.disk = shared.disk /\ shared'.mixed = shared.mixed
          /\ shared'.ended = shared.ended
<1>1. [shared.m_storage EXCEPT ![b] = v] \in [RamBytes -> RamValues]
  BY DEF RamRecords
<1>2. QED
  BY <1>1 DEF RamRecords

\* Workers that do nothing keep what holds, when no byte changes.
LEMMA RamEnds ==
    ASSUME RamInv, UNCHANGED <<at, hand>>, NEW e \in {"no", "thrown", "astray"},
           shared' = [shared EXCEPT !.ended = e],
           e = "astray" => \E w \in RamWorkers :
               at[w] = "copy" /\ hand[w].offset + hand[w].len >= RamWord
    PROVE RamInv'
<1>1. /\ shared' \in RamRecords /\ shared'.m_storage = shared.m_storage
      /\ shared'.disk = shared.disk /\ shared'.mixed = shared.mixed
      /\ shared'.ended = e
  BY RamSharedEnded DEF RamInv, RamTypes
<1>2. RamTypes' /\ RamAsked'
  BY <1>1 DEF RamInv, RamTypes, RamAsked, InRange
<1>3. OneWriter' /\ Settled'
  BY <1>1 DEF RamInv, OneWriter, Settled, Writes, Ahead, Bytes
<1>4. ReadsTrue' /\ Strays'
  BY <1>1 DEF RamInv, ReadsTrue, Strays, Writes, Bytes
<1>5. QED
  BY <1>2, <1>3, <1>4 DEF RamInv

\* A worker that is given an access that passes the check.
LEMMA RamAccess ==
    ASSUME RamInv, NEW w \in RamWorkers, at[w] = "pop", shared.ended = "no", Access(w)
    PROVE RamInv'
<1> USE DEF RamInv
<1>1. PICK ty \in {"READ", "WRITE"}, o \in RamOffsets, l \in RamLengths :
         LET h == [NoAccess EXCEPT !.type = ty, !.offset = o, !.len = l]
         IN  IF ~InRange(h)
             THEN /\ shared' = [shared EXCEPT !.ended = "thrown"]
                  /\ UNCHANGED <<at, hand>>
             ELSE /\ Moves(w, "pop", "copy")
                  /\ hand' = [v \in RamWorkers |->
                        IF v = w THEN [h EXCEPT !.met = Meets(w, h, "WRITE")]
                        ELSE [hand[v] EXCEPT !.met = @ \/
                                 (ty = "WRITE" /\ Bytes(hand[v]) \cap Bytes(h) # {})]]
                  /\ shared' = [shared EXCEPT
                        !.disk = [b \in DOMAIN @ |-> IF ty = "WRITE" /\ b \in Bytes(h)
                                                     THEN w ELSE @[b]],
                        !.mixed = IF ty = "READ" THEN @
                                  ELSE IF Meets(w, h, "WRITE") THEN @ \cup Bytes(h)
                                  ELSE @ \ Bytes(h)]
  BY DEF Access
<1> DEFINE h == [NoAccess EXCEPT !.type = ty, !.offset = o, !.len = l]
           met == Meets(w, h, "WRITE")
           crosses(v) == ty = "WRITE" /\ Bytes(hand[v]) \cap Bytes(h) # {}
           disk == [b \in DOMAIN shared.disk |-> IF ty = "WRITE" /\ b \in Bytes(h)
                                                 THEN w ELSE shared.disk[b]]
           mixed == IF ty = "READ" THEN shared.mixed
                    ELSE IF met THEN shared.mixed \cup Bytes(h)
                    ELSE shared.mixed \ Bytes(h)
<1>0. h = Asking(ty, o, l)
  BY DEF Asking
<1> HIDE DEF h
<1>2. /\ h \in RamAccesses /\ h.type = ty /\ h.offset = o /\ h.len = l
      /\ h.m_data = <<>> /\ ~h.met /\ o \in Nat /\ l \in Nat /\ 0 < l
  BY <1>0, RamAsks
<1>3. CASE ~InRange(h)
  <2>1. shared' = [shared EXCEPT !.ended = "thrown"] /\ UNCHANGED <<at, hand>>
    BY <1>1, <1>3 DEF h
  <2>2. QED
    BY <2>1, RamEnds
<1>4. CASE InRange(h)
  <2>1. /\ Moves(w, "pop", "copy")
        /\ hand' = [v \in RamWorkers |->
              IF v = w THEN [h EXCEPT !.met = met]
              ELSE [hand[v] EXCEPT !.met = @ \/ crosses(v)]]
        /\ shared' = [shared EXCEPT !.disk = disk, !.mixed = mixed]
    BY <1>1, <1>4 DEF h, RamTypes, RamRecords
  <2>2. /\ Bytes(h) \in SUBSET Int /\ met \in BOOLEAN
        /\ \A v : crosses(v) \in BOOLEAN
        /\ mixed \in SUBSET Int /\ disk \in [RamBytes -> RamValues]
    <3>1. Bytes(h) \in SUBSET Int
      BY <1>2 DEF Bytes
    <3>2. shared.disk \in [RamBytes -> RamValues] /\ shared.mixed \in SUBSET Int
      BY DEF RamTypes, RamRecords
    <3>3. QED
      BY <3>1, <3>2 DEF Meets, RamValues
  <2> HIDE DEF met, crosses, disk, mixed
  <2>3. /\ shared' \in RamRecords /\ shared'.m_storage = shared.m_storage
        /\ shared'.disk = disk /\ shared'.mixed = mixed /\ shared'.ended = "no"
    BY <2>1, <2>2, RamSharedDisk DEF RamTypes
  <2>4. at' = [at EXCEPT ![w] = "copy"]
    BY <2>1 DEF Moves
  <2>5. /\ hand'[w] \in RamAccesses /\ hand'[w].type = ty /\ hand'[w].offset = o
        /\ hand'[w].len = l /\ hand'[w].m_data = <<>> /\ hand'[w].met = met
    <3>1. hand'[w] = [h EXCEPT !.met = met]
      BY <2>1
    <3>2. met \in BOOLEAN /\ h \in RamAccesses
      BY <1>2, <2>2
    <3>3. QED
      BY <3>1, <3>2, <1>2, RamMet
  <2>6. ASSUME NEW v \in RamWorkers, v # w
        PROVE /\ hand'[v] \in RamAccesses /\ hand'[v].type = hand[v].type
              /\ hand'[v].offset = hand[v].offset /\ hand'[v].len = hand[v].len
              /\ hand'[v].m_data = hand[v].m_data
              /\ hand'[v].met = (hand[v].met \/ crosses(v))
    <3>1. hand'[v] = [hand[v] EXCEPT !.met = hand[v].met \/ crosses(v)]
      BY <2>1, <2>6
    <3>3. hand[v] \in RamAccesses /\ (hand[v].met \/ crosses(v)) \in BOOLEAN
      BY <2>2 DEF RamTypes
    <3> DEFINE m == hand[v].met \/ crosses(v)
    <3>4. m \in BOOLEAN /\ hand'[v] = [hand[v] EXCEPT !.met = m]
      BY <3>1, <3>3
    <3> HIDE DEF m
    <3>5. /\ hand'[v] \in RamAccesses /\ hand'[v].type = hand[v].type
          /\ hand'[v].offset = hand[v].offset /\ hand'[v].len = hand[v].len
          /\ hand'[v].m_data = hand[v].m_data /\ hand'[v].met = m
      BY <3>3, <3>4, RamMet
    <3>6. QED
      BY <3>5 DEF m
  <2>7. /\ Bytes(hand[w])' = Bytes(h)
        /\ \A v \in RamWorkers \ {w} : Bytes(hand[v])' = Bytes(hand[v])
    BY <1>2, <2>5, <2>6 DEF Bytes
  <2>8. \A v \in RamWorkers \ {w} : at'[v] = at[v]
    BY <2>4 DEF RamTypes
  <2>9. at'[w] = "copy"
    BY <2>4 DEF RamTypes
  <2>10. \A b : Writes(w, b)' <=> ty = "WRITE" /\ b \in Bytes(h)
    BY <2>5, <2>7, <2>9 DEF Writes
  <2>11. \A v \in RamWorkers \ {w} : \A b : Writes(v, b)' <=> Writes(v, b)
    BY <2>6, <2>7, <2>8 DEF Writes
  <2>12. RamTypes'
    <3>1. at' \in [RamWorkers -> {"pop", "copy", "reply"}]
      BY <2>4 DEF RamTypes
    <3>2. \A v \in RamWorkers : hand'[v] \in RamAccesses
      BY <2>5, <2>6
    <3>3. DOMAIN hand' = RamWorkers /\ hand' = [v \in DOMAIN hand' |-> hand'[v]]
      BY <2>1
    <3>4. hand' \in [RamWorkers -> RamAccesses]
      BY <3>2, <3>3
    <3>5. QED
      BY <2>3, <3>1, <3>4 DEF RamTypes
  <2>13. RamAsked'
    <3>1. /\ InRange(hand[w])' <=> InRange(h)
          /\ \A v \in RamWorkers \ {w} : InRange(hand[v])' <=> InRange(hand[v])
      BY <1>2, <2>5, <2>6 DEF InRange
    <3>2. Len(hand'[w].m_data) = 0 /\ 0 < hand'[w].len
      BY <1>2, <2>5
    <3>3. \A v \in RamWorkers \ {w} :
             Len(hand'[v].m_data) = Len(hand[v].m_data) /\ hand'[v].len = hand[v].len
      BY <2>6
    <3>4. QED
      BY <1>4, <2>5, <2>6, <2>8, <2>9, <3>1, <3>2, <3>3 DEF RamAsked
  <2>14. \A b \in RamBytes :
            /\ ty = "WRITE" /\ b \in Bytes(h) => disk[b] = w
            /\ ~(ty = "WRITE" /\ b \in Bytes(h)) =>
                  disk[b] = shared.disk[b] /\ (b \in mixed <=> b \in shared.mixed)
    BY <2>2 DEF disk, mixed, RamTypes, RamRecords
  <2>15. OneWriter'
    <3>1. SUFFICES ASSUME NEW b \in RamBytes, b \notin mixed, NEW v \in RamWorkers,
                          Writes(v, b)'
                   PROVE disk[b] = v
      BY <2>3 DEF OneWriter
    <3>2. CASE v = w
      BY <3>1, <3>2, <2>10, <2>14
    <3>3. CASE v # w /\ ty = "WRITE" /\ b \in Bytes(h)
      <4>1. Writes(v, b)
        BY <3>1, <3>3, <2>11
      <4>2. met
        BY <3>3, <4>1 DEF met, Meets, Writes
      <4>3. QED
        BY <3>1, <3>3, <4>2 DEF mixed
    <3>4. CASE v # w /\ ~(ty = "WRITE" /\ b \in Bytes(h))
      BY <3>1, <3>4, <2>11, <2>14 DEF OneWriter
    <3>5. QED
      BY <3>2, <3>3, <3>4
  <2>16. Settled'
    <3>1. SUFFICES ASSUME NEW b \in RamBytes, b \notin mixed
                   PROVE shared.m_storage[b] = disk[b]
                         \/ \E v \in RamWorkers : Ahead(v, b)'
      BY <2>3 DEF Settled
    <3>2. CASE ty = "WRITE" /\ b \in Bytes(h)
      <4>1. Writes(w, b)' /\ o <= b /\ Len(hand'[w].m_data) = 0
        BY <3>2, <2>5, <2>10, <1>2 DEF Bytes
      <4>2. Ahead(w, b)'
        BY <4>1, <2>5, <2>9, <1>2 DEF Ahead
      <4>3. QED
        BY <4>2
    <3>3. CASE ~(ty = "WRITE" /\ b \in Bytes(h))
      <4>1. shared.m_storage[b] = disk[b] \/ \E v \in RamWorkers : Ahead(v, b)
        BY <3>1, <3>3, <2>14 DEF Settled
      <4>2. ASSUME NEW v \in RamWorkers, Ahead(v, b) PROVE Ahead(v, b)'
        BY <4>2, <2>6, <2>8, <2>11 DEF Ahead
      <4>3. QED
        BY <4>1, <4>2
    <3>4. QED
      BY <3>2, <3>3
  <2>17. ReadsTrue'
    <3>1. SUFFICES ASSUME NEW r \in RamWorkers, at'[r] # "pop", hand'[r].type = "READ",
                          ~hand'[r].met
                   PROVE /\ \A v \in RamWorkers, b \in Bytes(hand[r])' : ~Writes(v, b)'
                         /\ \A k \in 1 .. Len(hand'[r].m_data) :
                               \/ hand'[r].offset + k - 1 \in mixed
                               \/ hand'[r].m_data[k] = disk[hand'[r].offset + k - 1]
      BY <2>3 DEF ReadsTrue
    <3>2. CASE r = w
      <4>1. ty = "READ" /\ ~met /\ Len(hand'[w].m_data) = 0
        BY <3>1, <3>2, <2>5
      <4>2. \A v \in RamWorkers, b \in Bytes(h) : ~Writes(v, b)'
        BY <4>1, <2>10, <2>11 DEF met, Meets, Writes
      <4>3. QED
        BY <3>2, <4>1, <4>2, <2>7
    <3>3. CASE r # w
      <4>1. /\ at[r] # "pop" /\ hand[r].type = "READ" /\ ~hand[r].met /\ ~crosses(r)
            /\ hand'[r].m_data = hand[r].m_data /\ hand'[r].offset = hand[r].offset
            /\ Bytes(hand[r])' = Bytes(hand[r])
        BY <3>1, <3>3, <2>6, <2>7, <2>8
      <4>2. \A v \in RamWorkers, b \in Bytes(hand[r]) : ~Writes(v, b)'
        BY <4>1, <2>10, <2>11 DEF ReadsTrue, crosses
      <4>3. ASSUME NEW k \in 1 .. Len(hand[r].m_data)
            PROVE \/ hand[r].offset + k - 1 \in mixed
                  \/ hand[r].m_data[k] = disk[hand[r].offset + k - 1]
        <5>1. hand[r].offset + k - 1 \in Bytes(hand[r])
          <6>1. at[r] \in {"copy", "reply"} /\ hand[r] \in RamAccesses
            BY <4>1 DEF RamTypes
          <6>0. /\ hand[r].offset \in Nat /\ hand[r].len \in Nat
                /\ Len(hand[r].m_data) \in Nat
            BY <6>1 DEF RamAccesses
          <6>3. Len(hand[r].m_data) <= hand[r].len
            BY <6>0, <6>1 DEF RamAsked
          <6>2. QED
            BY <6>0, <6>3 DEF Bytes
        <5>2. ~(ty = "WRITE" /\ hand[r].offset + k - 1 \in Bytes(h))
          BY <4>1, <5>1 DEF crosses
        <5>3. \/ hand[r].offset + k - 1 \in shared.mixed
              \/ hand[r].m_data[k] = shared.disk[hand[r].offset + k - 1]
          BY <4>1 DEF ReadsTrue
        <5>4. disk[hand[r].offset + k - 1] = shared.disk[hand[r].offset + k - 1]
          <6>1. hand[r] \in RamAccesses
            BY DEF RamTypes
          <6>2. hand[r].offset \in Nat /\ Len(hand[r].m_data) \in Nat
            BY <6>1 DEF RamAccesses
          <6>3. hand[r].offset + Len(hand[r].m_data) <= RamSize
            BY <4>1, <6>2 DEF RamAsked
          <6>4. hand[r].offset + k - 1 \in RamBytes
            BY <6>2, <6>3, StorageAssumption, SMTT(30) DEF RamBytes
          <6>5. QED
            BY <5>2, <6>4, <2>14
        <5>5. QED
          BY <5>2, <5>3, <5>4 DEF mixed
      <4>4. QED
        BY <4>1, <4>2, <4>3
    <3>4. QED
      BY <3>2, <3>3
  <2>18. Strays'
    BY <2>3 DEF Strays
  <2>19. QED
    BY <2>12, <2>13, <2>15, <2>16, <2>17, <2>18
<1>5. QED
  BY <1>3, <1>4

\* The next byte of a copy, from the storage or into it, or past its end.
LEMMA RamCopies ==
    ASSUME RamInv, NEW w \in RamWorkers, at[w] = "copy", shared.ended = "no", CopyByte(w)
    PROVE RamInv'
<1> USE DEF RamInv
<1> DEFINE h == hand[w]
           b == h.offset + Len(h.m_data)
           byte == IF h.type = "READ" THEN shared.m_storage[b] ELSE w
           data == Append(h.m_data, byte)
           next == IF Len(h.m_data) + 1 = h.len THEN "reply" ELSE "copy"
           new == IF h.type = "READ" THEN shared.m_storage[b] ELSE w
<1>1. /\ h \in RamAccesses /\ h.offset \in Nat /\ h.len \in Nat /\ h.type \in {"none", "READ", "WRITE"}
      /\ h.m_data \in Seq(RamValues) /\ Len(h.m_data) \in Nat /\ b \in Nat
  <2>1. h \in RamAccesses
    BY DEF RamTypes
  <2>2. /\ h.offset \in Nat /\ h.len \in Nat /\ h.type \in {"none", "READ", "WRITE"}
        /\ h.m_data \in Seq(RamValues)
    BY <2>1 DEF RamAccesses
  <2>3. QED
    BY <2>1, <2>2
<1>2. InRange(h) /\ Len(h.m_data) < h.len
  BY DEF RamAsked
<1>3. RamSize \in Nat /\ RamWord \in Nat /\ RamSize < RamWord
  BY StorageAssumption
<1>4. CASE b >= RamSize
  <2>1. shared' = [shared EXCEPT !.ended = "astray"] /\ UNCHANGED <<at, hand>>
    BY <1>4 DEF CopyByte
  <2>2. h.offset + h.len >= RamWord
    <3>1. SUFFICES ASSUME h.offset + h.len < RamWord PROVE FALSE
      BY <1>1, <1>3
    <3> DEFINE sum == h.offset + h.len
    <3>5. sum \in Nat /\ sum < RamWord
      BY <1>1, <3>1
    <3>6. sum % RamWord = sum
      <4> HIDE DEF sum
      <4>1. QED
        BY <1>3, <3>5, SmallModulo
    <3>2. (h.offset + h.len) % RamWord = h.offset + h.len
      BY <3>6
    <3>3. h.offset + h.len <= RamSize
      BY <1>2, <3>2 DEF InRange
    <3>4. QED
      BY <1>1, <1>2, <1>3, <1>4, <3>3
  <2> HIDE DEF h, b
  <2>3. hand[w].offset + hand[w].len >= RamWord
    BY <2>2 DEF h
  <2>4. QED
    BY <2>1, <2>3, RamEnds
<1>5. CASE b < RamSize
  <2>1. b \in RamBytes
    BY <1>1, <1>3, <1>5 DEF RamBytes
  <2>2. /\ at' = [at EXCEPT ![w] = next]
        /\ hand' = [hand EXCEPT ![w] = [h EXCEPT !.m_data = data]]
        /\ shared' = [shared EXCEPT !.m_storage[b] = new]
    <3>1. ~(b >= RamSize)
      BY <1>1, <1>3, <1>5
    <3>2. /\ Moves(w, "copy", next) /\ Holds(w, [h EXCEPT !.m_data = data])
          /\ shared' = [shared EXCEPT !.m_storage[b] =
                            IF h.type = "READ" THEN @ ELSE w]
      BY <3>1 DEF CopyByte
    <3>3. QED
      BY <3>2 DEF Moves, Holds
  <2>3. byte \in RamValues /\ new \in RamValues
    BY <2>1 DEF RamTypes, RamRecords, RamValues
  <2>4. /\ data \in Seq(RamValues) /\ Len(data) = Len(h.m_data) + 1
        /\ \A k \in 1 .. Len(h.m_data) : data[k] = h.m_data[k]
        /\ data[Len(h.m_data) + 1] = byte
    <3> HIDE DEF h, byte
    <3>1. QED
      BY <1>1, <2>3
  <2>5. new = byte
    OBVIOUS
  <2>6. next \in {"copy", "reply"}
    OBVIOUS
  <2>7. h.type = "READ" => new = shared.m_storage[b]
    OBVIOUS
  <2>8. h.type # "READ" => new = w
    OBVIOUS
  <2>9. /\ next = "reply" => Len(h.m_data) + 1 = h.len
        /\ next = "copy" => Len(h.m_data) + 1 # h.len
    OBVIOUS
  <2>10. b = h.offset + Len(h.m_data)
    OBVIOUS
  <2>11. h = hand[w]
    OBVIOUS
  <2> HIDE DEF h, b, byte, data, next, new
  <2>12. /\ shared' \in RamRecords
         /\ shared'.m_storage = [shared.m_storage EXCEPT ![b] = new]
         /\ shared'.disk = shared.disk /\ shared'.mixed = shared.mixed
         /\ shared'.ended = "no"
    BY <2>1, <2>2, <2>3, RamSharedByte DEF RamTypes
  <2>13. /\ hand'[w] \in RamAccesses /\ hand'[w].type = h.type
         /\ hand'[w].offset = h.offset /\ hand'[w].len = h.len
         /\ hand'[w].m_data = data /\ hand'[w].met = h.met
    <3>1. hand'[w] = [h EXCEPT !.m_data = data]
      BY <2>2 DEF RamTypes
    <3>2. QED
      BY <1>1, <2>4, <3>1, RamCopied
  <2>14. \A v \in RamWorkers \ {w} : hand'[v] = hand[v] /\ at'[v] = at[v]
    BY <2>2 DEF RamTypes
  <2>15. at'[w] = next
    BY <2>2 DEF RamTypes
  <2>16. \A v \in RamWorkers : Bytes(hand[v])' = Bytes(hand[v])
    BY <2>11, <2>13, <2>14 DEF Bytes
  <2>17. \A v \in RamWorkers : \A c : Writes(v, c)' <=> Writes(v, c)
    <3>1. \A v \in RamWorkers : at'[v] # "pop" <=> at[v] # "pop"
      BY <2>6, <2>14, <2>15
    <3>2. \A v \in RamWorkers : hand'[v].type = hand[v].type
      BY <2>11, <2>13, <2>14
    <3>3. QED
      BY <2>16, <3>1, <3>2 DEF Writes
  <2>18. RamTypes'
    <3>1. at' \in [RamWorkers -> {"pop", "copy", "reply"}]
      BY <2>2, <2>6 DEF RamTypes
    <3>2. hand'[w] = [h EXCEPT !.m_data = data]
      BY <2>2 DEF RamTypes
    <3>3. hand' \in [RamWorkers -> RamAccesses]
      BY <2>2, <2>13, <3>2 DEF RamTypes
    <3>4. QED
      BY <2>12, <3>1, <3>3 DEF RamTypes
  <2>23. h.type # "none"
    BY <2>11 DEF RamAsked
  <2>19. RamAsked'
    <3>1. \A v \in RamWorkers : InRange(hand[v])' <=> InRange(hand[v])
      BY <2>11, <2>13, <2>14 DEF InRange
    <3>2. InRange(hand[w])'
      BY <1>2, <2>11, <3>1
    <3>3. /\ next = "copy" => Len(data) < h.len
          /\ next = "reply" => Len(data) = h.len
      BY <1>1, <1>2, <2>4, <2>9
    <3>4. h.offset + Len(data) <= RamSize
      BY <1>1, <1>3, <1>5, <2>4, <2>10
    <3>5. SUFFICES ASSUME NEW v \in RamWorkers
                   PROVE /\ at'[v] # "pop" => InRange(hand[v])' /\ hand'[v].type # "none"
                         /\ at'[v] = "copy" => Len(hand'[v].m_data) < hand'[v].len
                         /\ at'[v] = "reply" => Len(hand'[v].m_data) = hand'[v].len
                         /\ at'[v] # "pop" =>
                               \/ hand'[v].offset + Len(hand'[v].m_data) <= RamSize
                               \/ Len(hand'[v].m_data) = 0
      BY DEF RamAsked
    <3>6. CASE v = w
      BY <2>13, <2>15, <2>6, <2>23, <3>2, <3>3, <3>4, <3>6
    <3>7. CASE v # w
      BY <2>14, <3>1, <3>7 DEF RamAsked
    <3>8. QED
      BY <3>6, <3>7
  <2>20. OneWriter'
    BY <2>12, <2>17 DEF OneWriter
  <2>21. b \in Bytes(h)
    BY <1>1, <1>2, <2>10 DEF Bytes
  <2>22. b \notin shared.mixed /\ h.type = "WRITE" => shared.disk[b] = w
    BY <2>1, <2>11, <2>21 DEF OneWriter, Writes
  <2>24. Settled'
    <3>1. SUFFICES ASSUME NEW c \in RamBytes, c \notin shared.mixed
                   PROVE shared'.m_storage[c] = shared.disk[c]
                         \/ \E v \in RamWorkers : Ahead(v, c)'
      BY <2>12 DEF Settled
    <3>2. shared.m_storage \in [RamBytes -> RamValues]
      BY DEF RamTypes, RamRecords
    <3>3. CASE c = b /\ h.type = "WRITE"
      BY <2>1, <2>8, <2>12, <2>22, <3>1, <3>2, <3>3
    <3>4. CASE c # b \/ h.type = "READ"
      <4>1. shared'.m_storage[c] = shared.m_storage[c]
        BY <2>1, <2>7, <2>12, <3>2, <3>4
      <4>2. shared.m_storage[c] = shared.disk[c] \/ \E v \in RamWorkers : Ahead(v, c)
        BY <3>1 DEF Settled
      <4>3. ASSUME NEW v \in RamWorkers, v # w, Ahead(v, c) PROVE Ahead(v, c)'
        BY <4>3, <2>14, <2>17 DEF Ahead
      <4>4. ASSUME Ahead(w, c) PROVE Ahead(w, c)'
        <5>1. Writes(w, c) /\ h.offset + Len(h.m_data) <= c /\ h.type = "WRITE"
          BY <4>4, <2>11 DEF Ahead, Writes
        <5>2. c # b /\ c \in Bytes(h)
          BY <3>4, <5>1, <2>11 DEF Writes
        <5>3. c \in Int /\ c <= h.offset + h.len - 1
          BY <5>2, <1>1 DEF Bytes
        <5>4. h.offset + Len(h.m_data) + 1 <= c
          BY <5>1, <5>2, <5>3, <2>10, <1>1
        <5>5. next = "copy"
          BY <5>3, <5>4, <2>6, <2>9, <1>1
        <5>6. h.offset + Len(data) <= c
          BY <5>4, <5>3, <2>4, <1>1
        <5>7. QED
          BY <5>1, <5>5, <5>6, <2>13, <2>15, <2>17 DEF Ahead
      <4>5. QED
        BY <4>1, <4>2, <4>3, <4>4
    <3>5. QED
      BY <1>1, <2>23, <3>3, <3>4
  <2>25. ReadsTrue'
    <3>1. SUFFICES ASSUME NEW r \in RamWorkers, at'[r] # "pop", hand'[r].type = "READ",
                          ~hand'[r].met
                   PROVE /\ \A v \in RamWorkers, c \in Bytes(hand[r])' : ~Writes(v, c)'
                         /\ \A k \in 1 .. Len(hand'[r].m_data) :
                               \/ hand'[r].offset + k - 1 \in shared.mixed
                               \/ hand'[r].m_data[k] = shared.disk[hand'[r].offset + k - 1]
      BY <2>12 DEF ReadsTrue
    <3>2. at[r] # "pop" /\ hand[r].type = "READ" /\ ~hand[r].met
      BY <3>1, <2>11, <2>13, <2>14
    <3>3. \A v \in RamWorkers, c \in Bytes(hand[r])' : ~Writes(v, c)'
      BY <3>2, <2>16, <2>17 DEF ReadsTrue
    <3>4. \A k \in 1 .. Len(hand[r].m_data) :
             \/ hand[r].offset + k - 1 \in shared.mixed
             \/ hand[r].m_data[k] = shared.disk[hand[r].offset + k - 1]
      BY <3>2 DEF ReadsTrue
    <3>5. CASE r # w
      BY <3>3, <3>4, <3>5, <2>14
    <3>6. CASE r = w
      <4>1. \/ b \in shared.mixed
            \/ byte = shared.disk[b]
        <5>1. h.type = "READ" /\ \A v \in RamWorkers : ~Writes(v, b)
          BY <3>2, <3>6, <2>11, <2>21 DEF ReadsTrue
        <5>2. \A v \in RamWorkers : ~Ahead(v, b)
          BY <5>1 DEF Ahead
        <5>3. QED
          BY <5>1, <5>2, <2>1, <2>5, <2>7 DEF Settled
      <4>2. ASSUME NEW k \in 1 .. Len(data)
            PROVE \/ h.offset + k - 1 \in shared.mixed
                  \/ data[k] = shared.disk[h.offset + k - 1]
        <5>1. CASE k \in 1 .. Len(h.m_data)
          BY <5>1, <3>4, <3>6, <2>4, <2>11
        <5>2. CASE k = Len(h.m_data) + 1
          <6>1. h.offset + k - 1 = b
            BY <5>2, <1>1, <2>10
          <6>2. QED
            BY <5>2, <6>1, <4>1, <2>4
        <5>3. QED
          BY <5>1, <5>2, <2>4, <1>1
      <4>3. QED
        BY <3>3, <3>6, <4>2, <2>13
    <3>7. QED
      BY <3>5, <3>6
  <2>26. Strays'
    BY <2>12 DEF Strays
  <2>27. QED
    BY <2>18, <2>19, <2>20, <2>24, <2>25, <2>26
<1>6. QED
  BY <1>1, <1>3, <1>4, <1>5

\* A worker has replied.
LEMMA RamReplies ==
    ASSUME RamInv, NEW w \in RamWorkers, Replied(w)
    PROVE RamInv'
<1> USE DEF RamInv
<1>1. at' = [at EXCEPT ![w] = "pop"] /\ hand' = [hand EXCEPT ![w] = NoAccess]
      /\ shared' = shared
  BY DEF Replied, Moves, Holds
<1>2. NoAccess \in RamAccesses
  BY DEF NoAccess, RamAccesses
<1>3. at'[w] = "pop" /\ \A v \in RamWorkers \ {w} : at'[v] = at[v] /\ hand'[v] = hand[v]
  BY <1>1 DEF RamTypes
<1>4. at[w] = "reply"
  BY DEF Replied, Moves
<1>5. \A v \in RamWorkers : \A b : Writes(v, b)' => v # w /\ Writes(v, b)
  BY <1>3 DEF Writes, Bytes
<1>6. RamTypes'
  BY <1>1, <1>2 DEF RamTypes
<1>7. RamAsked'
  BY <1>3 DEF RamAsked, InRange
<1>8. OneWriter'
  BY <1>1, <1>5 DEF OneWriter
<1>9. Settled'
  <2>1. ASSUME NEW v \in RamWorkers, NEW b, Ahead(v, b) PROVE Ahead(v, b)'
    BY <1>3, <1>4, <2>1 DEF Ahead, Writes, Bytes
  <2>2. QED
    BY <1>1, <2>1 DEF Settled
<1>10. ReadsTrue'
  <2>1. SUFFICES ASSUME NEW r \in RamWorkers, at'[r] # "pop", hand'[r].type = "READ",
                        ~hand'[r].met
                 PROVE /\ \A v \in RamWorkers, b \in Bytes(hand[r])' : ~Writes(v, b)'
                       /\ \A k \in 1 .. Len(hand'[r].m_data) :
                             \/ hand'[r].offset + k - 1 \in shared.mixed
                             \/ hand'[r].m_data[k] = shared.disk[hand'[r].offset + k - 1]
    BY <1>1 DEF ReadsTrue
  <2>2. r # w /\ at[r] # "pop" /\ hand'[r] = hand[r]
    BY <1>3, <2>1
  <2>3. Bytes(hand[r])' = Bytes(hand[r])
    BY <2>2 DEF Bytes
  <2>4. QED
    BY <1>5, <2>1, <2>2, <2>3 DEF ReadsTrue
<1>11. Strays'
  BY <1>1, <1>3, <1>4 DEF Strays
<1>12. QED
  BY <1>6, <1>7, <1>8, <1>9, <1>10, <1>11

LEMMA RamStep == ASSUME RamInv, RamNext PROVE RamInv'
  BY RamAccess, RamCopies, RamReplies DEF RamNext

LEMMA RamStutter == ASSUME RamInv, UNCHANGED exVars PROVE RamInv'
<1> USE DEF RamInv
<1>1. at' = at /\ hand' = hand /\ shared' = shared
  BY DEF exVars
<1>2. RamTypes' /\ RamAsked' /\ Strays'
  BY <1>1 DEF RamTypes, RamAsked, Strays, InRange
<1>3. OneWriter' /\ Settled' /\ ReadsTrue'
  BY <1>1 DEF OneWriter, Settled, ReadsTrue, Ahead, Writes, Bytes
<1>4. QED
  BY <1>2, <1>3

LEMMA RamIsADisk == (game = "storage" => RamInv) => StorageIsADisk
<1> SUFFICES ASSUME RamInv
             PROVE /\ \A w \in RamWorkers :
                         at[w] = "reply" /\ hand[w].type = "READ" /\ ~hand[w].met =>
                            \A k \in 1 .. hand[w].len :
                               LET b == hand[w].offset + k - 1
                               IN  b \in shared.mixed \/ hand[w].m_data[k] = shared.disk[b]
                   /\ shared.ended = "astray" =>
                         \E w \in RamWorkers :
                            at[w] = "copy" /\ hand[w].offset + hand[w].len >= RamWord
  BY DEF StorageIsADisk
<1>1. ASSUME NEW w \in RamWorkers, at[w] = "reply", hand[w].type = "READ", ~hand[w].met,
             NEW k \in 1 .. hand[w].len
      PROVE \/ hand[w].offset + k - 1 \in shared.mixed
            \/ hand[w].m_data[k] = shared.disk[hand[w].offset + k - 1]
  <2>1. Len(hand[w].m_data) = hand[w].len
    BY <1>1 DEF RamInv, RamAsked
  <2>2. QED
    BY <1>1, <2>1 DEF RamInv, ReadsTrue
<1>2. shared.ended = "astray" =>
         \E w \in RamWorkers :
            at[w] = "copy" /\ hand[w].offset + hand[w].len >= RamWord
  BY DEF RamInv, Strays
<1>3. QED
  BY <1>1, <1>2

\* StorageIsADisk (ram_storage.cpp), for a storage of any size, any number of
\* workers and any accesses: a read that no write met replies with the bytes
\* last written, and only an access whose end wraps round size_t strays.
THEOREM StorageIsAlwaysADisk == ExercisesSpec => []StorageIsADisk
<1> DEFINE Inv == game = "storage" => RamInv
<1>1. ExercisesInit => Inv
  BY OneBeginning, RamBegins
<1>2. ASSUME Inv, [ExercisesNext]_allVars PROVE Inv'
  <2>1. UNCHANGED game
    BY <1>2, OneProgram
  <2>2. CASE game = "storage"
    BY <1>2, <2>2, OneProgram, RamStep, RamStutter
  <2>3. CASE game # "storage"
    BY <2>1, <2>3
  <2>4. QED
    BY <2>2, <2>3
<1>3. Inv => StorageIsADisk
  BY RamIsADisk
<1> HIDE DEF Inv
<1>4. QED
  BY <1>1, <1>2, <1>3, PTL DEF ExercisesSpec

-----------------------------------------------------------------------------
\* ping_pong: a turn needs the process's flag, and gives the other a signal.
PpPlaces  == {"loop", "test", "decided", "pause", "set", "kill", "terminate", "gone"}
PpRecords == [g_flag : [1..2 -> 0..1], pending : [1..2 -> BOOLEAN],
              count : Int, ahead : Int, lost : BOOLEAN]
PpTypes   == at \in [1..2 -> PpPlaces] /\ shared \in PpRecords

\* The turns that a process may have before it must be signalled again: one that
\* it is about to signal, one that its flag gives, one of a signal on its way.
Killing(p)  == IF at[p] = "kill" THEN 1 ELSE 0
Flagged(p)  == IF shared.g_flag[p] = p - 1 THEN 1 ELSE 0
Signaled(p) == IF shared.pending[p] THEN 1 ELSE 0
Credit(p)   == Killing(p) + Flagged(p) + Signaled(p)

PpInv == /\ PpTypes
         /\ \A p \in 1..2 : at[p] = "set" => shared.g_flag[p] = p - 1
         /\ shared.ahead + Credit(Parent) <= 1
         /\ Credit(Child) - shared.ahead <= 1

LEMMA PpCredits ==
    ASSUME PpTypes, NEW p \in 1..2
    PROVE /\ Killing(p) \in 0..1 /\ Flagged(p) \in 0..1 /\ Signaled(p) \in 0..1
          /\ Credit(p) \in 0..3 /\ shared.ahead \in Int
  BY DEF Killing, Flagged, Signaled, Credit, PpTypes, PpRecords

LEMMA PpBegins == ASSUME PrInit, game = "ping_pong" PROVE PpInv
<1>1. /\ shared = PpShared
      /\ at = [t \in {1, 2} |-> IF t = 1 THEN "loop" ELSE "test"]
  BY DEF PrInit, PrOf, PrFirst, Parent
<1>2. at \in [1..2 -> PpPlaces] /\ at[1] = "loop" /\ at[2] = "test"
  BY <1>1 DEF PpPlaces
<1>3. shared \in PpRecords
  <2> DEFINE flags == <<0, 1>>
             signals == <<FALSE, FALSE>>
  <2>1. flags \in [1..2 -> 0..1]
    OBVIOUS
  <2>2. signals \in [1..2 -> BOOLEAN]
    <3>1. \A b \in BOOLEAN : <<b, b>> \in [1..2 -> BOOLEAN]
      OBVIOUS
    <3>2. QED
      BY <3>1
  <2>3. shared = [g_flag |-> flags, pending |-> signals, count |-> PpCount, ahead |-> 0,
                  lost |-> FALSE]
    BY <1>1 DEF PpShared
  <2> HIDE DEF flags, signals
  <2>4. QED
    BY <2>1, <2>2, <2>3, ProcessesAssumption DEF PpRecords
<1>4. /\ shared.g_flag[1] = 0 /\ shared.g_flag[2] = 1 /\ shared.ahead = 0
  BY <1>1 DEF PpShared
<1>5. ~shared.pending[1] /\ ~shared.pending[2]
  BY <1>1 DEF PpShared
<1>6. Credit(1) = 1 /\ Credit(2) = 1
  BY <1>2, <1>4, <1>5 DEF Credit, Killing, Flagged, Signaled
<1>7. QED
  BY <1>2, <1>3, <1>4, <1>6 DEF PpInv, PpTypes, Parent, Child

LEMMA PpHandled ==
    ASSUME shared \in PpRecords, NEW p \in 1..2, NEW f \in 0..1, NEW l \in BOOLEAN,
           shared' = [shared EXCEPT !.pending[p] = FALSE, !.g_flag[p] = f, !.lost = l]
    PROVE /\ shared' \in PpRecords /\ shared'.ahead = shared.ahead
          /\ ~shared'.pending[p] /\ shared'.g_flag[p] = f
          /\ \A q \in 1..2 \ {p} : /\ shared'.g_flag[q] = shared.g_flag[q]
                                   /\ shared'.pending[q] = shared.pending[q]
  BY DEF PpRecords

LEMMA PpFlagSet ==
    ASSUME shared \in PpRecords, NEW p \in 1..2, NEW f \in 0..1,
           shared' = [shared EXCEPT !.g_flag[p] = f]
    PROVE /\ shared' \in PpRecords /\ shared'.ahead = shared.ahead
          /\ shared'.pending = shared.pending /\ shared'.g_flag[p] = f
          /\ \A q \in 1..2 \ {p} : shared'.g_flag[q] = shared.g_flag[q]
  BY DEF PpRecords

LEMMA PpCounted ==
    ASSUME shared \in PpRecords, NEW n \in Int, shared' = [shared EXCEPT !.count = n]
    PROVE /\ shared' \in PpRecords /\ shared'.ahead = shared.ahead
          /\ shared'.pending = shared.pending /\ shared'.g_flag = shared.g_flag
  BY DEF PpRecords

LEMMA PpKilled ==
    ASSUME shared \in PpRecords, NEW q \in 1..2, NEW n \in Int,
           shared' = [[shared EXCEPT !.pending[q] = TRUE] EXCEPT !.ahead = n]
    PROVE /\ shared' \in PpRecords /\ shared'.ahead = n /\ shared'.pending[q]
          /\ shared'.g_flag = shared.g_flag
          /\ \A p \in 1..2 \ {q} : shared'.pending[p] = shared.pending[p]
  BY DEF PpRecords

\* A process that goes on, or a flag that is set for a process that is to kill,
\* changes no credit; the rest keeps the sums or lessens them.
LEMMA PpKeeps ==
    ASSUME PpInv, PpTypes', shared'.ahead = shared.ahead,
           \A p \in 1..2 : Credit(p)' <= Credit(p),
           \A p \in 1..2 : at'[p] = "set" => shared'.g_flag[p] = p - 1
    PROVE PpInv'
<1>1. \A p \in 1..2 : Credit(p) \in 0..3
  BY PpCredits DEF PpInv
<1>2. ASSUME NEW p \in 1..2 PROVE Credit(p)' \in 0..3
  BY DEF Credit, Killing, Flagged, Signaled, PpTypes, PpRecords
<1>3. shared.ahead \in Int
  BY DEF PpInv, PpTypes, PpRecords
<1>4. Parent \in 1..2 /\ Child \in 1..2
  BY DEF Parent, Child
<1>5. /\ shared.ahead + Credit(Parent) <= 1 /\ Credit(Child) - shared.ahead <= 1
  BY DEF PpInv
<1>6. shared'.ahead + Credit(Parent)' <= 1 /\ Credit(Child)' - shared'.ahead <= 1
  BY <1>1, <1>2, <1>3, <1>4, <1>5
<1>7. Parent' = Parent /\ Child' = Child
  BY DEF Parent, Child
<1>8. QED
  BY <1>6, <1>7 DEF PpInv

LEMMA PpMoves ==
    ASSUME PpInv, NEW p \in 1..2, NEW from, NEW to \in PpPlaces \ {"kill", "set"},
           Moves(p, from, to), from # "kill", shared' = shared
    PROVE PpInv'
<1>1. at' \in [1..2 -> PpPlaces] /\ at[p] = from /\ at'[p] = to
      /\ \A u \in 1..2 \ {p} : at'[u] = at[u]
  BY OneMoves, ZenonT(30) DEF PpInv, PpTypes
<1>2. PpTypes'
  BY <1>1 DEF PpInv, PpTypes
<1>3. \A q \in 1..2 : Killing(q)' <= Killing(q)
  BY <1>1 DEF Killing
<1>4. \A q \in 1..2 : Flagged(q)' = Flagged(q) /\ Signaled(q)' = Signaled(q)
  BY DEF Flagged, Signaled
<1>5. \A q \in 1..2 : Credit(q)' <= Credit(q)
  <2>1. ASSUME NEW q \in 1..2 PROVE Killing(q)' \in 0..1
    BY DEF Killing
  <2>2. QED
    BY <1>3, <1>4, <2>1, PpCredits DEF Credit, PpInv
<1>6. \A q \in 1..2 : at'[q] = "set" => shared'.g_flag[q] = q - 1
  BY <1>1 DEF PpInv
<1>7. QED
  BY <1>2, <1>5, <1>6, PpKeeps

\* A handler may give a flag that the process had not used: a turn is lost.
LEMMA PpHandles == ASSUME PpInv, NEW p \in 1..2, HandleSignal(p) PROVE PpInv'
<1> DEFINE f == IF p = Child THEN 1 ELSE 0
           l == shared.lost \/ at[p] = "decided"
           to == IF at[p] = "pause" THEN "test" ELSE at[p]
<1>1. /\ shared.pending[p]
      /\ shared' = [shared EXCEPT !.pending[p] = FALSE, !.g_flag[p] = f, !.lost = l]
      /\ at' = [at EXCEPT ![p] = to]
  BY DEF HandleSignal
<1>2. f = p - 1 /\ f \in 0..1 /\ l \in BOOLEAN
  BY DEF Child, PpInv, PpTypes, PpRecords
<1> HIDE DEF f, l
<1>3. /\ shared' \in PpRecords /\ shared'.ahead = shared.ahead
      /\ ~shared'.pending[p] /\ shared'.g_flag[p] = f
      /\ \A q \in 1..2 \ {p} : /\ shared'.g_flag[q] = shared.g_flag[q]
                               /\ shared'.pending[q] = shared.pending[q]
  BY <1>1, <1>2, PpHandled DEF PpInv, PpTypes
<1>4. /\ at' \in [1..2 -> PpPlaces] /\ (at'[p] = "kill" <=> at[p] = "kill")
      /\ (at'[p] = "set" <=> at[p] = "set")
      /\ \A q \in 1..2 \ {p} : at'[q] = at[q]
  BY <1>1 DEF PpInv, PpTypes, PpPlaces
<1>5. PpTypes'
  BY <1>3, <1>4 DEF PpTypes
<1>6. \A q \in 1..2 : Killing(q)' = Killing(q)
  BY <1>4 DEF Killing
<1>7. Flagged(p)' = 1 /\ Signaled(p)' = 0 /\ Signaled(p) = 1
  BY <1>1, <1>2, <1>3 DEF Flagged, Signaled
<1>8. \A q \in 1..2 \ {p} : Flagged(q)' = Flagged(q) /\ Signaled(q)' = Signaled(q)
  BY <1>3 DEF Flagged, Signaled
<1>9. \A q \in 1..2 : Credit(q)' <= Credit(q)
  <2>1. \A q \in 1..2 : Killing(q) \in 0..1 /\ Flagged(q) \in 0..1 /\ Signaled(q) \in 0..1
    BY PpCredits DEF PpInv
  <2>2. QED
    BY <1>6, <1>7, <1>8, <2>1 DEF Credit
<1>10. \A q \in 1..2 : at'[q] = "set" => shared'.g_flag[q] = q - 1
  BY <1>2, <1>3, <1>4 DEF PpInv
<1>11. QED
  BY <1>3, <1>5, <1>9, <1>10, PpKeeps

\* The flag is taken before the other is signalled.
LEMMA PpSets ==
    ASSUME PpInv, NEW p \in 1..2, Moves(p, "set", "kill"),
           Sets([shared EXCEPT !.g_flag[p] = 2 - p])
    PROVE PpInv'
<1>1. at' \in [1..2 -> PpPlaces] /\ at[p] = "set" /\ at'[p] = "kill"
      /\ \A u \in 1..2 \ {p} : at'[u] = at[u]
  <2>1. "kill" \in PpPlaces
    BY DEF PpPlaces
  <2>2. QED
    BY <2>1, OneMoves DEF PpInv, PpTypes
<1>2. 2 - p \in 0..1 /\ 2 - p # p - 1
  OBVIOUS
<1>3. /\ shared' \in PpRecords /\ shared'.ahead = shared.ahead
      /\ shared'.pending = shared.pending /\ shared'.g_flag[p] = 2 - p
      /\ \A q \in 1..2 \ {p} : shared'.g_flag[q] = shared.g_flag[q]
  BY <1>2, PpFlagSet DEF Sets, PpInv, PpTypes
<1>4. Killing(p) = 0 /\ Killing(p)' = 1 /\ Flagged(p) = 1 /\ Flagged(p)' = 0
  BY <1>1, <1>2, <1>3 DEF Killing, Flagged, PpInv
<1>5. \A q \in 1..2 \ {p} : Killing(q)' = Killing(q) /\ Flagged(q)' = Flagged(q)
  BY <1>1, <1>3 DEF Killing, Flagged
<1>6. \A q \in 1..2 : Signaled(q)' = Signaled(q)
  BY <1>3 DEF Signaled
<1>7. \A q \in 1..2 : Credit(q)' <= Credit(q)
  <2>1. \A q \in 1..2 : Killing(q) \in 0..1 /\ Flagged(q) \in 0..1 /\ Signaled(q) \in 0..1
    BY PpCredits DEF PpInv
  <2>2. QED
    BY <1>4, <1>5, <1>6, <2>1 DEF Credit
<1>8. \A q \in 1..2 : at'[q] = "set" => shared'.g_flag[q] = q - 1
  BY <1>1, <1>3 DEF PpInv
<1>9. PpTypes'
  BY <1>1, <1>3 DEF PpTypes
<1>10. QED
  BY <1>3, <1>7, <1>8, <1>9, PpKeeps

\* The signal is the other's credit, and the turn counts.
LEMMA PpKills ==
    ASSUME PpInv, NEW p \in 1..2, NEW to \in {"loop", "test"}, Moves(p, "kill", to),
           Sets([Kill(3 - p) EXCEPT !.ahead = shared.ahead + 3 - 2 * p])
    PROVE PpInv'
<1> DEFINE n == shared.ahead + 3 - 2 * p
<1>1. at' \in [1..2 -> PpPlaces] /\ at[p] = "kill" /\ at'[p] = to
      /\ \A u \in 1..2 \ {p} : at'[u] = at[u]
  <2>1. to \in PpPlaces
    BY DEF PpPlaces
  <2>2. QED
    BY <2>1, OneMoves DEF PpInv, PpTypes
<1>2. shared.ahead \in Int /\ n \in Int /\ 3 - p \in 1..2 /\ 3 - p # p
  BY DEF PpInv, PpTypes, PpRecords
<1>3. shared' = [[shared EXCEPT !.pending[3 - p] = TRUE] EXCEPT !.ahead = n]
  BY DEF Sets, Kill
<1> HIDE DEF n
<1>4. /\ shared' \in PpRecords /\ shared'.ahead = n /\ shared'.pending[3 - p]
      /\ shared'.g_flag = shared.g_flag
      /\ \A q \in 1..2 \ {3 - p} : shared'.pending[q] = shared.pending[q]
  BY <1>2, <1>3, PpKilled DEF PpInv, PpTypes
<1>5. PpTypes'
  BY <1>1, <1>4 DEF PpTypes
<1>6. Killing(p) = 1 /\ Killing(p)' = 0 /\ Signaled(p)' = Signaled(p)
  BY <1>1, <1>2, <1>4 DEF Killing, Signaled
<1>7. Killing(3 - p)' = Killing(3 - p) /\ Signaled(3 - p)' = 1
  BY <1>1, <1>2, <1>4 DEF Killing, Signaled
<1>8. \A q \in 1..2 : Flagged(q)' = Flagged(q)
  BY <1>4 DEF Flagged
<1>9. \A q \in 1..2 : Killing(q) \in 0..1 /\ Flagged(q) \in 0..1 /\ Signaled(q) \in 0..1
  BY PpCredits DEF PpInv
<1>10. Credit(p)' = Credit(p) - 1 /\ Credit(3 - p)' <= Credit(3 - p) + 1
       /\ Credit(3 - p)' \in Int /\ Credit(3 - p) \in Int /\ Credit(p) \in Int
  BY <1>2, <1>6, <1>7, <1>8, <1>9 DEF Credit
<1>11. shared.ahead + Credit(1) <= 1 /\ Credit(2) - shared.ahead <= 1
  BY DEF PpInv, Parent, Child
<1>12. n + Credit(1)' <= 1 /\ Credit(2)' - n <= 1
  <2>1. CASE p = 1
    BY <2>1, <1>2, <1>10, <1>11 DEF n
  <2>2. CASE p = 2
    BY <2>2, <1>2, <1>10, <1>11 DEF n
  <2>3. QED
    BY <2>1, <2>2
<1>13. \A q \in 1..2 : at'[q] = "set" => shared'.g_flag[q] = q - 1
  BY <1>1, <1>4 DEF PpInv
<1>14. QED
  BY <1>4, <1>5, <1>12, <1>13 DEF PpInv, Parent, Child

LEMMA PpTakes ==
    ASSUME PpInv, NEW p \in 1..2, NEW from, from # "kill", Moves(p, from, "set"),
           shared.g_flag[p] = p - 1, shared' = shared
    PROVE PpInv'
<1>1. at' \in [1..2 -> PpPlaces] /\ at[p] = from /\ at'[p] = "set"
      /\ \A u \in 1..2 \ {p} : at'[u] = at[u]
  <2>1. "set" \in PpPlaces
    BY DEF PpPlaces
  <2>2. QED
    BY <2>1, OneMoves, ZenonT(30) DEF PpInv, PpTypes
<1>2. PpTypes'
  BY <1>1 DEF PpInv, PpTypes
<1>3. \A q \in 1..2 : Credit(q)' = Credit(q)
  BY <1>1 DEF Credit, Killing, Flagged, Signaled
<1>4. \A q \in 1..2 : Credit(q)' <= Credit(q)
  BY <1>3, PpCredits DEF PpInv
<1>5. \A q \in 1..2 : at'[q] = "set" => shared'.g_flag[q] = q - 1
  BY <1>1 DEF PpInv
<1>6. QED
  BY <1>2, <1>4, <1>5, PpKeeps

LEMMA PpStep ==
    ASSUME PpInv, game = "ping_pong", NEW p \in DOMAIN at, PrStep(p)
    PROVE PpInv'
<1>1. p \in 1..2 /\ PingPong(p)
  BY DEF PpInv, PpTypes, PrStep
<1>2. CASE HandleSignal(p)
  BY <1>1, <1>2, PpHandles
<1>3. CASE p = Parent /\ ParentStep
  <2> USE <1>3 DEF Parent
  <2>1. CASE \/ Moves(Parent, "loop", IF shared.count # 0 THEN "test" ELSE "terminate") /\ Nothing
             \/ Moves(Parent, "decided", "pause") /\ Nothing
    <3>1. PICK from \in {"loop", "decided"}, to \in {"test", "terminate", "pause"} :
             Moves(p, from, to) /\ shared' = shared
      BY <2>1 DEF Nothing
    <3>2. to \in PpPlaces \ {"kill", "set"} /\ from # "kill"
      BY DEF PpPlaces
    <3>3. QED
      BY <1>1, <3>1, <3>2, PpMoves
  <2>2. CASE /\ at[Parent] = "test" /\ shared.g_flag[Parent] = 1
             /\ Moves(Parent, "test", "decided") /\ Sets([shared EXCEPT !.count = @ - 1])
    <3>1. "decided" \in PpPlaces
      BY DEF PpPlaces
    <3>2. at' \in [1..2 -> PpPlaces] /\ at[p] = "test" /\ at'[p] = "decided"
          /\ \A u \in 1..2 \ {p} : at'[u] = at[u]
      BY <1>1, <2>2, <3>1, OneMoves DEF PpInv, PpTypes
    <3> DEFINE n == shared.count - 1
    <3>3. n \in Int /\ shared' = [shared EXCEPT !.count = n]
      BY <2>2 DEF Sets, PpInv, PpTypes, PpRecords
    <3> HIDE DEF n
    <3>4. /\ shared' \in PpRecords /\ shared'.ahead = shared.ahead
          /\ shared'.pending = shared.pending /\ shared'.g_flag = shared.g_flag
      BY <3>3, PpCounted DEF PpInv, PpTypes
    <3>5. \A q \in 1..2 : Credit(q)' = Credit(q)
      BY <3>2, <3>4 DEF Credit, Killing, Flagged, Signaled
    <3>6. \A q \in 1..2 : at'[q] = "set" => shared'.g_flag[q] = q - 1
      BY <3>2, <3>4 DEF PpInv
    <3>7. \A q \in 1..2 : Credit(q)' <= Credit(q)
      BY <3>5, PpCredits DEF PpInv
    <3>8. PpTypes'
      BY <3>2, <3>4 DEF PpTypes
    <3>9. QED
      BY <3>4, <3>6, <3>7, <3>8, PpKeeps
  <2>3. CASE /\ at[Parent] = "test" /\ shared.g_flag[Parent] # 1
             /\ Moves(Parent, "test", "set") /\ Nothing
    <3>1. shared.g_flag[p] = p - 1
      BY <1>1, <2>3 DEF PpInv, PpTypes, PpRecords
    <3>2. QED
      BY <1>1, <2>3, <3>1, PpTakes DEF Nothing
  <2>4. CASE Moves(Parent, "set", "kill") /\ Sets([shared EXCEPT !.g_flag[Parent] = 1])
    <3>1. 2 - p = 1
      OBVIOUS
    <3>2. Moves(p, "set", "kill") /\ Sets([shared EXCEPT !.g_flag[p] = 2 - p])
      BY <2>4, <3>1
    <3>3. QED
      BY <1>1, <3>2, PpSets
  <2>5. CASE Moves(Parent, "kill", "loop") /\ Sets([Kill(Child) EXCEPT !.ahead = @ + 1])
    <3>1. 3 - p = Child /\ shared.ahead + 3 - 2 * p = shared.ahead + 1
      BY DEF Child, PpInv, PpTypes, PpRecords
    <3>2. Kill(Child).ahead = shared.ahead
      BY DEF Kill, PpInv, PpTypes, PpRecords
    <3>3. Moves(p, "kill", "loop")
          /\ Sets([Kill(3 - p) EXCEPT !.ahead = shared.ahead + 3 - 2 * p])
      BY <2>5, <3>1, <3>2
    <3>4. QED
      BY <1>1, <3>3, PpKills
  <2>6. CASE at[Parent] = "terminate" /\ at' = [q \in {1, 2} |-> "gone"] /\ Nothing
    <3>1. at' \in [1..2 -> PpPlaces] /\ (\A q \in 1..2 : at'[q] = "gone") /\ shared' = shared
      BY <2>6 DEF PpPlaces, Nothing
    <3>2. \A q \in 1..2 : Killing(q)' = 0 /\ Flagged(q)' = Flagged(q)
                          /\ Signaled(q)' = Signaled(q)
      BY <3>1 DEF Killing, Flagged, Signaled
    <3>3. \A q \in 1..2 : Credit(q)' <= Credit(q)
      BY <3>2, PpCredits DEF PpInv, Credit
    <3>4. \A q \in 1..2 : at'[q] = "set" => shared'.g_flag[q] = q - 1
      BY <3>1
    <3>5. PpTypes'
      BY <3>1 DEF PpInv, PpTypes
    <3>6. QED
      BY <3>1, <3>3, <3>4, <3>5, PpKeeps
  <2>7. QED
    BY <2>1, <2>2, <2>3, <2>4, <2>5, <2>6 DEF ParentStep
<1>4. CASE p = Child /\ ChildStep
  <2> USE <1>4 DEF Child
  <2>1. CASE Moves(Child, "test", "decided") /\ Nothing
    <3>1. "decided" \in PpPlaces \ {"kill", "set"}
      BY DEF PpPlaces
    <3>2. QED
      BY <1>1, <2>1, <3>1, PpMoves DEF Nothing
  <2>2. CASE shared.g_flag[Child] # 0 /\ Moves(Child, "test", "set") /\ Nothing
    <3>1. shared.g_flag[p] = p - 1
      BY <1>1, <2>2 DEF PpInv, PpTypes, PpRecords
    <3>2. QED
      BY <1>1, <2>2, <3>1, PpTakes DEF Nothing
  <2>3. CASE Moves(Child, "decided", "pause") /\ Nothing
    <3>1. "pause" \in PpPlaces \ {"kill", "set"}
      BY DEF PpPlaces
    <3>2. QED
      BY <1>1, <2>3, <3>1, PpMoves DEF Nothing
  <2>4. CASE Moves(Child, "set", "kill") /\ Sets([shared EXCEPT !.g_flag[Child] = 0])
    <3>1. 2 - p = 0
      OBVIOUS
    <3>2. Moves(p, "set", "kill") /\ Sets([shared EXCEPT !.g_flag[p] = 2 - p])
      BY <2>4, <3>1
    <3>3. QED
      BY <1>1, <3>2, PpSets
  <2>5. CASE Moves(Child, "kill", "test") /\ Sets([Kill(Parent) EXCEPT !.ahead = @ - 1])
    <3>1. 3 - p = Parent /\ shared.ahead + 3 - 2 * p = shared.ahead - 1
      BY DEF Parent, PpInv, PpTypes, PpRecords
    <3>2. Kill(Parent).ahead = shared.ahead
      BY DEF Kill, PpInv, PpTypes, PpRecords
    <3>3. Moves(p, "kill", "test")
          /\ Sets([Kill(3 - p) EXCEPT !.ahead = shared.ahead + 3 - 2 * p])
      BY <2>5, <3>1, <3>2
    <3>4. QED
      BY <1>1, <3>3, PpKills
  <2>6. QED
    BY <2>1, <2>2, <2>3, <2>4, <2>5 DEF ChildStep
<1>5. QED
  BY <1>1, <1>2, <1>3, <1>4 DEF PingPong

LEMMA PpStutter == ASSUME PpInv, UNCHANGED exVars PROVE PpInv'
  BY DEF exVars, PpInv, PpTypes, Credit, Killing, Flagged, Signaled, Parent, Child

LEMMA PpAlternates == PpInv => TurnsAlternate
<1> SUFFICES ASSUME PpInv PROVE TurnsAlternate
  OBVIOUS
<1>1. Credit(1) \in 0..3 /\ Credit(2) \in 0..3 /\ shared.ahead \in Int
  BY PpCredits DEF PpInv
<1>2. QED
  BY <1>1 DEF PpInv, TurnsAlternate, Parent, Child

\* TurnsAlternate (ping_pong.c): however late the handlers run, and however many
\* signals merge, neither process is ever two turns ahead of the other.
THEOREM PingPongTakesTurns == ExercisesSpec => [](game = "ping_pong" => TurnsAlternate)
<1> DEFINE Inv == game = "ping_pong" => PpInv
<1>1. ExercisesInit => Inv
  BY OneBeginning, PpBegins DEF PrGames
<1>2. ASSUME Inv, [ExercisesNext]_allVars PROVE Inv'
  <2>1. UNCHANGED game
    BY <1>2, OneProgram
  <2>2. CASE game = "ping_pong"
    BY <1>2, <2>2, OneProgram, PpStep, PpStutter DEF PrGames
  <2>3. CASE game # "ping_pong"
    BY <2>1, <2>3
  <2>4. QED
    BY <2>2, <2>3
<1>3. Inv => (game = "ping_pong" => TurnsAlternate)
  BY PpAlternates
<1> HIDE DEF Inv
<1>4. QED
  BY <1>1, <1>2, <1>3, PTL DEF ExercisesSpec

-----------------------------------------------------------------------------
\* The semaphores of exercises 3 and 4, and of the program of IPCpingpong.cpp.
ExNumber  == 0 .. 3
ExRecords == [mutex : 0..5, spinlock : {0}, random_int : {0}, crowd : {FALSE},
              crashed : BOOLEAN, list : {ExList}, sem : [in : Nat, out : Nat],
              queue : Seq(ExNumber), made : ExNumber, taken : Seq(ExNumber)]

LEMMA ExMutexSet ==
    ASSUME shared \in ExRecords, NEW m \in 0..5, shared' = [shared EXCEPT !.mutex = m]
    PROVE /\ shared' \in ExRecords /\ shared'.mutex = m /\ shared'.sem = shared.sem
          /\ shared'.queue = shared.queue /\ shared'.made = shared.made
          /\ shared'.taken = shared.taken /\ shared'.crashed = shared.crashed
  BY DEF ExRecords

LEMMA ExSemOut ==
    ASSUME shared \in ExRecords, NEW n \in Nat, shared' = [shared EXCEPT !.sem["out"] = n]
    PROVE /\ shared' \in ExRecords /\ shared'.sem.out = n /\ shared'.sem.in = shared.sem.in
          /\ shared'.mutex = shared.mutex
          /\ shared'.queue = shared.queue /\ shared'.made = shared.made
          /\ shared'.taken = shared.taken /\ shared'.crashed = shared.crashed
  BY DEF ExRecords

LEMMA ExSemIn ==
    ASSUME shared \in ExRecords, NEW n \in Nat, shared' = [shared EXCEPT !.sem["in"] = n]
    PROVE /\ shared' \in ExRecords /\ shared'.sem.in = n /\ shared'.sem.out = shared.sem.out
          /\ shared'.mutex = shared.mutex
          /\ shared'.queue = shared.queue /\ shared'.made = shared.made
          /\ shared'.taken = shared.taken /\ shared'.crashed = shared.crashed
  BY DEF ExRecords

LEMMA ExPushed ==
    ASSUME shared \in ExRecords, NEW q \in Seq(ExNumber), NEW n \in ExNumber,
           shared' = [shared EXCEPT !.queue = q, !.made = n]
    PROVE /\ shared' \in ExRecords /\ shared'.mutex = shared.mutex /\ shared'.sem = shared.sem
          /\ shared'.queue = q /\ shared'.made = n
          /\ shared'.taken = shared.taken /\ shared'.crashed = shared.crashed
  BY DEF ExRecords

LEMMA ExPopped ==
    ASSUME shared \in ExRecords, NEW q \in Seq(ExNumber), NEW c \in BOOLEAN,
           shared' = [shared EXCEPT !.queue = q, !.crashed = c]
    PROVE /\ shared' \in ExRecords /\ shared'.mutex = shared.mutex /\ shared'.sem = shared.sem
          /\ shared'.queue = q /\ shared'.made = shared.made
          /\ shared'.taken = shared.taken /\ shared'.crashed = c
  BY DEF ExRecords

LEMMA ExQueued ==
    ASSUME shared \in ExRecords, NEW q \in Seq(ExNumber), NEW s \in Seq(ExNumber),
           shared' = [shared EXCEPT !.queue = q, !.taken = s]
    PROVE /\ shared' \in ExRecords /\ shared'.mutex = shared.mutex /\ shared'.sem = shared.sem
          /\ shared'.queue = q /\ shared'.made = shared.made
          /\ shared'.taken = s /\ shared'.crashed = shared.crashed
  BY DEF ExRecords

LEMMA ExBegins ==
    ASSUME ExInit
    PROVE /\ shared \in ExRecords /\ shared.mutex = 0 /\ ~shared.crashed
          /\ shared.sem.in = ExSize /\ shared.sem.out = 0 /\ shared.queue = <<>>
          /\ shared.made = 0 /\ shared.taken = <<>>
<1>1. shared = ExShared
  BY DEF ExInit
<1>2. ExSize \in Nat /\ <<>> \in Seq(ExNumber)
  BY ExchangeAssumption
<1>3. /\ shared.mutex = 0 /\ shared.sem.in = ExSize /\ shared.sem.out = 0
      /\ shared.queue = <<>> /\ shared.made = 0 /\ shared.taken = <<>>
  BY <1>1 DEF ExShared, Free
<1>4. ~shared.crashed
  BY <1>1 DEF ExShared
<1>5. shared \in ExRecords
  BY <1>1, <1>2 DEF ExShared, ExRecords, Free, ExNumber
<1>6. QED
  BY <1>3, <1>4, <1>5

-----------------------------------------------------------------------------
\* exercise 3: what the semaphore counts, and what it lets a consumer find.
Ex3Threads == {1, 3, 4}
Ex3Places  == {"lock", "push", "post", "unlock", "wait", "read", "pop"}
Ex3Types   == /\ at \in [Ex3Threads -> Ex3Places] /\ hand \in [Ex3Threads -> Int]
              /\ shared \in ExRecords

\* The mutex is held in these places.
Critical3(t) == at[t] \in {"push", "post", "unlock", "read", "pop"}

\* A consumer that the semaphore has let in and that has not popped yet.
Let(t)  == If1(at[t] \in {"lock", "read", "pop"})
Posting == If1(at[1] = "post")

Numbered == \A k \in 1 .. Len(shared.queue) :
               shared.queue[k] = (shared.made - Len(shared.queue) + k - 1) % ExNumbers

Ex3Inv == /\ Ex3Types /\ ~shared.crashed
          /\ at[1] \in {"lock", "push", "post", "unlock"}
          /\ \A t \in {3, 4} : at[t] \in {"wait", "lock", "read", "pop", "unlock"}
          /\ \A t \in Ex3Threads : Critical3(t) => shared.mutex = t
          /\ \A t \in {3, 4} : at[t] = "pop" => hand[t] = shared.queue[1]
          /\ shared.sem.out + Let(3) + Let(4) = Len(shared.queue) - Posting
          /\ Numbered

LEMMA Ex3Begins == ASSUME ExInit, game = "exercise3" PROVE Ex3Inv
<1>1. /\ at = [t \in Ex3Threads |-> IF t \in ExMakers THEN "lock" ELSE "wait"]
      /\ hand = [t \in Ex3Threads |-> 0]
  <2>1. ExThreadsOf(game) = Ex3Threads
    BY DEF ExThreadsOf, ExTakers, Ex3Threads
  <2>2. \A t : ExFirst(game, t) = (IF t \in ExMakers THEN "lock" ELSE "wait")
    BY DEF ExFirst
  <2>3. \A t : ExHand(game, t) = 0
    BY DEF ExHand
  <2>4. QED
    BY <2>1, <2>2, <2>3 DEF ExInit
<1>2. at[1] = "lock" /\ at[3] = "wait" /\ at[4] = "wait"
  BY <1>1 DEF Ex3Threads, ExMakers
<1>3. Ex3Types
  BY <1>1, ExBegins DEF Ex3Types, Ex3Threads, Ex3Places
<1>4. Len(shared.queue) = 0
  BY ExBegins
<1>5. QED
  BY <1>2, <1>3, <1>4, ExBegins
     DEF Ex3Inv, Ex3Threads, Critical3, Let, Posting, If1, Numbered

\* The last number fits behind the others.
LEMMA NumbersFit ==
    ASSUME NEW q \in Seq(ExNumber), NEW n \in ExNumber,
           \A k \in 1 .. Len(q) : q[k] = (n - Len(q) + k - 1) % ExNumbers
    PROVE \A k \in 1 .. Len(q) + 1 :
             Append(q, n)[k] = (((n + 1) % ExNumbers) - (Len(q) + 1) + k - 1) % ExNumbers
<1>1. SUFFICES ASSUME NEW k \in 1 .. Len(q) + 1
               PROVE Append(q, n)[k] =
                        (((n + 1) % ExNumbers) - (Len(q) + 1) + k - 1) % ExNumbers
  OBVIOUS
<1>2. n \in 0..3 /\ Len(q) \in Nat /\ ExNumbers = 4
  BY DEF ExNumber, ExNumbers
<1> DEFINE m == (n + 1) % 4
           e == k - Len(q) - 2
<1>3. e \in Int /\ m \in Int /\ (m = n + 1 \/ m = n + 1 - 4)
  <2>1. CASE n = 3
    <3>1. 4 % 4 = 0
      OBVIOUS
    <3>2. QED
      BY <1>2, <2>1, <3>1
  <2>2. CASE n < 3
    <3>1. n + 1 \in Nat /\ n + 1 < 4 /\ 4 \in Nat
      BY <1>2, <2>2
    <3>2. (n + 1) % 4 = n + 1
      BY <3>1, SmallModulo
    <3>3. QED
      BY <1>2, <3>1, <3>2
  <2>3. QED
    BY <1>2, <2>1, <2>2
<1>4. \A x \in Int : (x - 4) % 4 = x % 4
  OBVIOUS
<1>5. (m + e) % 4 = (n + 1 + e) % 4
  <2>1. CASE m = n + 1
    BY <2>1
  <2>2. CASE m = n + 1 - 4
    <3>1. m + e = (n + 1 + e) - 4 /\ n + 1 + e \in Int
      BY <2>2, <1>2, <1>3
    <3> HIDE DEF m, e
    <3>2. QED
      BY <3>1, <1>4
  <2>3. QED
    BY <1>3, <2>1, <2>2
<1>6. /\ n + 1 + e = n - Len(q) + k - 1
      /\ m + e = m - (Len(q) + 1) + k - 1
  BY <1>2, <1>3
<1>7. CASE k = Len(q) + 1
  <2>1. Append(q, n)[k] = n
    BY <1>7
  <2>2. n + 1 + e = n
    BY <1>2, <1>7
  <2>3. n % 4 = n
    <3>1. n \in Nat /\ 4 \in Nat /\ n < 4
      BY <1>2
    <3>2. QED
      BY <3>1, SmallModulo
  <2>4. QED
    BY <1>2, <1>5, <1>6, <2>1, <2>2, <2>3
<1>8. CASE k \in 1 .. Len(q)
  <2>1. Append(q, n)[k] = q[k]
    BY <1>8
  <2>2. QED
    BY <1>2, <1>5, <1>6, <1>8, <2>1
<1>9. QED
  BY <1>2, <1>7, <1>8

\* A thread that only goes on, with the mutex as it needs it.
LEMMA Ex3Goes ==
    ASSUME Ex3Inv, NEW t \in Ex3Threads, NEW from, NEW to \in Ex3Places, Moves(t, from, to),
           NEW m \in 0..5, shared' = [shared EXCEPT !.mutex = m], UNCHANGED hand,
           m = t \/ (Critical3(t) /\ m = 0), m = t \/ to \in {"lock", "wait"},
           Critical3(t) \/ shared.mutex = 0,
           \/ t = 1 /\ from # "post" /\ to \in {"lock", "push", "unlock"}
           \/ t # 1 /\ <<from, to>> \in {<<"lock", "read">>, <<"unlock", "wait">>}
    PROVE Ex3Inv'
<1> USE DEF Ex3Inv, Ex3Types
<1>1. /\ at' \in [Ex3Threads -> Ex3Places] /\ at[t] = from /\ at'[t] = to
      /\ \A u \in Ex3Threads \ {t} : at'[u] = at[u]
  BY OneMoves, ZenonT(30)
<1>2. /\ shared' \in ExRecords /\ shared'.mutex = m /\ shared'.sem = shared.sem
      /\ shared'.queue = shared.queue /\ shared'.made = shared.made
      /\ shared'.crashed = shared.crashed
  BY ExMutexSet
<1>3. Let(3)' = Let(3) /\ Let(4)' = Let(4)
  BY <1>1 DEF Let, If1, Ex3Threads
<1>4. Posting' = Posting
  BY <1>1 DEF Posting, If1, Ex3Threads
<1>5. \A u \in Ex3Threads : Critical3(u)' => m = u
  <2>1. \A u \in Ex3Threads \ {t} : Critical3(u) => FALSE
    BY DEF Critical3, Ex3Threads
  <2>2. \A u \in Ex3Threads \ {t} : Critical3(u)' => Critical3(u)
    BY <1>1 DEF Critical3
  <2>3. QED
    BY <1>1, <2>1, <2>2 DEF Critical3
<1>6. \A u \in {3, 4} : at'[u] = "pop" => hand'[u] = shared'.queue[1]
  BY <1>1, <1>2 DEF Ex3Threads
<1>7. at'[1] \in {"lock", "push", "post", "unlock"}
  BY <1>1 DEF Ex3Threads
<1>8. \A u \in {3, 4} : at'[u] \in {"wait", "lock", "read", "pop", "unlock"}
  BY <1>1 DEF Ex3Threads
<1>9. shared'.sem.out + Let(3)' + Let(4)' = Len(shared'.queue) - Posting'
  BY <1>2, <1>3, <1>4
<1>10. Numbered'
  BY <1>2 DEF Numbered
<1>11. QED
  BY <1>1, <1>2, <1>5, <1>6, <1>7, <1>8, <1>9, <1>10

\* The producer appends a number, and posts it.
LEMMA Ex3Pushes ==
    ASSUME Ex3Inv, Moves(1, "push", "post"),
           Sets([shared EXCEPT !.queue = Append(@, shared.made), !.made = (@ + 1) % ExNumbers])
    PROVE Ex3Inv'
<1> USE DEF Ex3Inv, Ex3Types
<1> DEFINE q == Append(shared.queue, shared.made)
           n == (shared.made + 1) % ExNumbers
<1>1. /\ at' \in [Ex3Threads -> Ex3Places] /\ at[1] = "push" /\ at'[1] = "post"
      /\ \A u \in Ex3Threads \ {1} : at'[u] = at[u]
  <2>1. 1 \in Ex3Threads /\ "post" \in Ex3Places
    BY DEF Ex3Threads, Ex3Places
  <2>2. QED
    BY <2>1, OneMoves, ZenonT(30)
<1>2. shared.queue \in Seq(ExNumber) /\ shared.made \in ExNumber
  BY DEF ExRecords
<1>3. q \in Seq(ExNumber) /\ Len(q) = Len(shared.queue) + 1 /\ n \in ExNumber
      /\ q[1] \in ExNumber /\ (Len(shared.queue) > 0 => q[1] = shared.queue[1])
  BY <1>2 DEF ExNumber, ExNumbers
<1>4. \A k \in 1 .. Len(q) : q[k] = (n - Len(q) + k - 1) % ExNumbers
  <2>1. \A k \in 1 .. Len(shared.queue) :
           shared.queue[k] = (shared.made - Len(shared.queue) + k - 1) % ExNumbers
    BY DEF Numbered
  <2>2. \A k \in 1 .. Len(shared.queue) + 1 :
           Append(shared.queue, shared.made)[k] =
              (((shared.made + 1) % ExNumbers) - (Len(shared.queue) + 1) + k - 1) % ExNumbers
    BY <1>2, <2>1, NumbersFit
  <2>3. QED
    BY <1>3, <2>2
<1> HIDE DEF q, n
<1>5. /\ shared' \in ExRecords /\ shared'.mutex = shared.mutex /\ shared'.sem = shared.sem
      /\ shared'.queue = q /\ shared'.made = n /\ shared'.crashed = shared.crashed
      /\ hand' = hand
  <2>1. shared' = [shared EXCEPT !.queue = q, !.made = n] /\ hand' = hand
    BY DEF Sets, q, n
  <2>2. QED
    BY <1>3, <2>1, ExPushed
<1>6. Let(3)' = Let(3) /\ Let(4)' = Let(4)
  BY <1>1 DEF Let, If1, Ex3Threads
<1>7. Posting' = 1 /\ Posting = 0
  BY <1>1 DEF Posting, If1
<1>8. \A u \in Ex3Threads : Critical3(u)' => Critical3(u)
  BY <1>1 DEF Critical3
<1>9. \A u \in {3, 4} : at'[u] # "pop"
  BY <1>1 DEF Critical3, Ex3Threads
<1>10. shared'.sem.out + Let(3)' + Let(4)' = Len(shared'.queue) - Posting'
  BY <1>2, <1>3, <1>5, <1>6, <1>7
<1>11. Numbered'
  BY <1>4, <1>5 DEF Numbered
<1>12. at'[1] \in {"lock", "push", "post", "unlock"}
  BY <1>1
<1>13. \A u \in {3, 4} : at'[u] \in {"wait", "lock", "read", "pop", "unlock"}
  BY <1>1 DEF Ex3Threads
<1>14. QED
  BY <1>1, <1>5, <1>8, <1>9, <1>10, <1>11, <1>12, <1>13

LEMMA Ex3Posts == ASSUME Ex3Inv, SemPosts(1, "out", "post", "unlock") PROVE Ex3Inv'
<1> USE DEF Ex3Inv, Ex3Types
<1> DEFINE n == shared.sem.out + 1
<1>1. /\ at' \in [Ex3Threads -> Ex3Places] /\ at[1] = "post" /\ at'[1] = "unlock"
      /\ \A u \in Ex3Threads \ {1} : at'[u] = at[u]
  <2>1. 1 \in Ex3Threads /\ "unlock" \in Ex3Places
    BY DEF Ex3Threads, Ex3Places
  <2>2. QED
    BY <2>1, OneMoves, ZenonT(30) DEF SemPosts
<1>2. n \in Nat /\ shared.sem.out \in Nat
  BY DEF ExRecords
<1>3. shared' = [shared EXCEPT !.sem["out"] = n] /\ hand' = hand
  BY DEF SemPosts, Sets
<1> HIDE DEF n
<1>4. /\ shared' \in ExRecords /\ shared'.sem.out = n /\ shared'.mutex = shared.mutex
      /\ shared'.queue = shared.queue /\ shared'.made = shared.made
      /\ shared'.crashed = shared.crashed
  BY <1>2, <1>3, ExSemOut
<1>5. Let(3)' = Let(3) /\ Let(4)' = Let(4)
  BY <1>1 DEF Let, If1, Ex3Threads
<1>6. Let(3) \in 0..1 /\ Let(4) \in 0..1 /\ Len(shared.queue) \in Nat
  BY DEF Let, If1, ExRecords
<1>7. Posting' = 0 /\ Posting = 1
  BY <1>1 DEF Posting, If1
<1>8. \A u \in Ex3Threads : Critical3(u)' => Critical3(u)
  BY <1>1 DEF Critical3
<1>9. \A u \in {3, 4} : at'[u] = at[u]
  BY <1>1 DEF Ex3Threads
<1>10. shared'.sem.out + Let(3)' + Let(4)' = Len(shared'.queue) - Posting'
  <2>1. shared.sem.out + Let(3) + Let(4) = Len(shared.queue) - 1
    BY <1>7
  <2>2. shared.sem.out + 1 + Let(3) + Let(4) = Len(shared.queue) - 0
    <3>1. \A s, a, b, l \in Int : s + a + b = l - 1 => s + 1 + a + b = l - 0
      OBVIOUS
    <3>2. /\ shared.sem.out \in Int /\ Let(3) \in Int /\ Let(4) \in Int
          /\ Len(shared.queue) \in Int
      BY <1>2, <1>6
    <3> HIDE DEF Ex3Inv
    <3>3. QED
      BY <2>1, <3>1, <3>2, SMTT(30)
  <2>3. QED
    BY <1>4, <1>5, <1>7, <2>2 DEF n
<1>11. Numbered'
  BY <1>4 DEF Numbered
<1>12. QED
  BY <1>1, <1>3, <1>4, <1>8, <1>9, <1>10, <1>11

\* A consumer that the semaphore lets in.
LEMMA Ex3Waits ==
    ASSUME Ex3Inv, NEW t \in {3, 4}, SemWaits(t, "out", "wait", "lock") PROVE Ex3Inv'
<1> USE DEF Ex3Inv, Ex3Types
<1> DEFINE n == shared.sem.out - 1
<1>1. /\ at' \in [Ex3Threads -> Ex3Places] /\ at[t] = "wait" /\ at'[t] = "lock"
      /\ \A u \in Ex3Threads \ {t} : at'[u] = at[u]
  <2>1. t \in Ex3Threads /\ "lock" \in Ex3Places
    BY DEF Ex3Threads, Ex3Places
  <2>2. QED
    BY <2>1, OneMoves DEF SemWaits
<1>2. n \in Nat /\ shared.sem.out \in Nat
  BY DEF ExRecords, SemWaits
<1>3. shared' = [shared EXCEPT !.sem["out"] = n] /\ hand' = hand
  BY DEF SemWaits, Sets
<1> HIDE DEF n
<1>4. /\ shared' \in ExRecords /\ shared'.sem.out = n /\ shared'.mutex = shared.mutex
      /\ shared'.queue = shared.queue /\ shared'.made = shared.made
      /\ shared'.crashed = shared.crashed
  BY <1>2, <1>3, ExSemOut
<1>5. Let(t) = 0 /\ Let(t)' = 1 /\ Let(7 - t)' = Let(7 - t)
  BY <1>1 DEF Let, If1, Ex3Threads
<1>6. Let(3) \in 0..1 /\ Let(4) \in 0..1 /\ Len(shared.queue) \in Nat
  BY DEF Let, If1, ExRecords
<1>7. Posting' = Posting /\ Posting \in 0..1
  BY <1>1 DEF Posting, If1, Ex3Threads
<1>8. \A u \in Ex3Threads : Critical3(u)' => Critical3(u)
  BY <1>1 DEF Critical3
<1>9. \A u \in {3, 4} : at'[u] = "pop" => at[u] = "pop"
  BY <1>1 DEF Ex3Threads
<1>10. shared'.sem.out + Let(3)' + Let(4)' = Len(shared'.queue) - Posting'
  BY <1>2, <1>4, <1>5, <1>6, <1>7 DEF n
<1>11. Numbered'
  BY <1>4 DEF Numbered
<1>12. at'[1] \in {"lock", "push", "post", "unlock"}
  BY <1>1 DEF Ex3Threads
<1>13. \A u \in {3, 4} : at'[u] \in {"wait", "lock", "read", "pop", "unlock"}
  BY <1>1 DEF Ex3Threads
<1>14. QED
  BY <1>1, <1>3, <1>4, <1>8, <1>9, <1>10, <1>11, <1>12, <1>13

\* Who was let in finds a number.
LEMMA Ex3NotEmpty ==
    ASSUME Ex3Inv, NEW t \in {3, 4}, at[t] \in {"read", "pop"}
    PROVE /\ shared.queue \in Seq(ExNumber) /\ Len(shared.queue) > 0
          /\ shared.queue # <<>> /\ shared.queue[1] \in ExNumber
<1> USE DEF Ex3Inv, Ex3Types
<1>1. Let(t) = 1 /\ Let(3) \in 0..1 /\ Let(4) \in 0..1 /\ Posting \in 0..1
  BY DEF Let, If1, Posting
<1>2. shared.queue \in Seq(ExNumber) /\ shared.sem.out \in Nat /\ Len(shared.queue) \in Nat
  BY DEF ExRecords
<1>3. Len(shared.queue) > 0
  BY <1>1, <1>2
<1>4. QED
  BY <1>2, <1>3

LEMMA Ex3Reads ==
    ASSUME Ex3Inv, NEW t \in {3, 4}, Moves(t, "read", "pop"), UNCHANGED shared,
           Holds(t, IF shared.queue = <<>> THEN -1 ELSE shared.queue[1])
    PROVE Ex3Inv'
<1>1. at[t] = "read"
  BY DEF Moves
<1>2. shared.queue # <<>> /\ shared.queue[1] \in Int
  BY <1>1, Ex3NotEmpty DEF ExNumber
<1> USE DEF Ex3Inv, Ex3Types
<1>3. /\ at' \in [Ex3Threads -> Ex3Places] /\ at'[t] = "pop"
      /\ \A u \in Ex3Threads \ {t} : at'[u] = at[u]
  <2>1. /\ t \in Ex3Threads /\ "pop" \in Ex3Places
        /\ at \in [Ex3Threads -> Ex3Places]
    BY DEF Ex3Threads, Ex3Places
  <2> HIDE DEF Ex3Inv, Ex3Types
  <2>2. QED
    BY <2>1, OneMoves, SMTT(30)
<1>4. hand' = [hand EXCEPT ![t] = shared.queue[1]]
  BY <1>2 DEF Holds
<1>5. /\ hand' \in [Ex3Threads -> Int] /\ hand'[t] = shared.queue[1]
      /\ \A u \in Ex3Threads \ {t} : hand'[u] = hand[u]
  BY <1>2, <1>4 DEF Ex3Threads
<1>6. Let(3)' = Let(3) /\ Let(4)' = Let(4)
  BY <1>1, <1>3 DEF Let, If1, Ex3Threads
<1>7. Posting' = Posting
  BY <1>3 DEF Posting, If1, Ex3Threads
<1>8. \A u \in Ex3Threads : Critical3(u)' => Critical3(u)
  BY <1>1, <1>3 DEF Critical3
<1>9. \A u \in {3, 4} : at'[u] = "pop" => hand'[u] = shared.queue[1]
  BY <1>3, <1>5 DEF Ex3Threads
<1>10. shared'.sem.out + Let(3)' + Let(4)' = Len(shared'.queue) - Posting'
  BY <1>6, <1>7
<1>11. Numbered'
  BY DEF Numbered
<1>12. at'[1] \in {"lock", "push", "post", "unlock"}
  BY <1>3 DEF Ex3Threads
<1>13. \A u \in {3, 4} : at'[u] \in {"wait", "lock", "read", "pop", "unlock"}
  BY <1>3 DEF Ex3Threads
<1>14. QED
  BY <1>3, <1>5, <1>8, <1>9, <1>10, <1>11, <1>12, <1>13

\* The rest stays in its order.
Rest == Tail(shared.queue)
LeavesRest == shared' = [shared EXCEPT !.queue = Rest, !.crashed = FALSE]

LEMMA Ex3Pops ==
    ASSUME Ex3Inv, NEW t \in {3, 4}, Moves(t, "pop", "unlock"), UNCHANGED hand, LeavesRest
    PROVE Ex3Inv'
<1>1. at[t] = "pop"
  BY DEF Moves
<1>2. /\ shared.queue \in Seq(ExNumber) /\ Len(shared.queue) > 0 /\ shared.queue # <<>>
  BY <1>1, Ex3NotEmpty
<1> USE DEF Ex3Inv, Ex3Types
<1> DEFINE q == Rest
<1>3. /\ at' \in [Ex3Threads -> Ex3Places] /\ at'[t] = "unlock"
      /\ \A u \in Ex3Threads \ {t} : at'[u] = at[u]
  <2>1. /\ t \in Ex3Threads /\ "unlock" \in Ex3Places
        /\ at \in [Ex3Threads -> Ex3Places]
    BY DEF Ex3Threads, Ex3Places
  <2> HIDE DEF Ex3Inv, Ex3Types
  <2>2. QED
    BY <2>1 DEF Moves
<1>4. /\ q \in Seq(ExNumber) /\ Len(q) = Len(shared.queue) - 1
      /\ \A k \in 1 .. Len(q) : q[k] = shared.queue[k + 1]
  BY <1>2 DEF Rest
<1>6. shared' = [shared EXCEPT !.queue = q, !.crashed = FALSE] /\ hand' = hand
  BY DEF LeavesRest
<1>7. shared.made \in Int /\ Len(shared.queue) \in Nat
  BY <1>2 DEF ExRecords, ExNumber
<1> HIDE DEF q
<1>8. /\ shared' \in ExRecords /\ shared'.mutex = shared.mutex /\ shared'.sem = shared.sem
      /\ shared'.queue = q /\ shared'.made = shared.made /\ ~shared'.crashed
  BY <1>4, <1>6, ExPopped
<1>9. Let(t) = 1 /\ Let(t)' = 0 /\ Let(7 - t)' = Let(7 - t)
  BY <1>1, <1>3 DEF Let, If1, Ex3Threads
<1>10. Let(3) \in 0..1 /\ Let(4) \in 0..1 /\ Posting' = Posting /\ Posting \in 0..1
  BY <1>3 DEF Let, Posting, If1, Ex3Threads
<1>11. \A u \in Ex3Threads : Critical3(u)' => Critical3(u)
  BY <1>1, <1>3 DEF Critical3
<1>12. \A u \in {3, 4} : at'[u] # "pop"
  BY <1>1, <1>3 DEF Critical3, Ex3Threads
<1>13. shared'.sem.out + Let(3)' + Let(4)' = Len(shared'.queue) - Posting'
  <2>1. shared.sem.out \in Nat
    BY DEF ExRecords
  <2>2. shared.sem.out + Let(3) + Let(4) = Len(shared.queue) - Posting
    OBVIOUS
  <2>3. Let(3)' + Let(4)' = Let(3) + Let(4) - 1 /\ Let(3)' \in Int /\ Let(4)' \in Int
    <3>1. CASE t = 3
      BY <3>1, <1>9, <1>10
    <3>2. CASE t = 4
      BY <3>2, <1>9, <1>10
    <3>3. QED
      BY <3>1, <3>2
  <2>5. Len(q) \in Int /\ Posting \in Int /\ Let(3) \in Int /\ Let(4) \in Int
    BY <1>4, <1>7, <1>10
  <2> HIDE DEF Ex3Inv, Ex3Types
  <2>6. shared.sem.out + Let(3)' + Let(4)' = Len(q) - Posting
    <3> DEFINE s == shared.sem.out
               a == Let(3)
               b == Let(4)
               c == Let(3)'
               d == Let(4)'
               l == Len(shared.queue)
               m == Len(q)
               n == Posting
    <3>1. /\ s \in Int /\ a \in Int /\ b \in Int /\ c \in Int /\ d \in Int
          /\ l \in Int /\ m \in Int /\ n \in Int
          /\ s + a + b = l - n /\ c + d = a + b - 1 /\ m = l - 1
      BY <1>4, <1>7, <2>1, <2>2, <2>3, <2>5
    <3> HIDE DEF s, a, b, c, d, l, m, n
    <3>2. s + c + d = m - n
      BY <3>1
    <3>3. QED
      BY <3>2 DEF s, c, d, m, n
  <2>7. QED
    BY <1>8, <1>10, <2>6
<1>14. Numbered'
  <2>1. ASSUME NEW k \in 1 .. Len(q)
        PROVE q[k] = (shared.made - Len(q) + k - 1) % ExNumbers
    <3> HIDE DEF Ex3Inv, Ex3Types
    <3>0. Len(q) = Len(shared.queue) - 1 /\ k \in 1 .. Len(shared.queue) - 1
      BY <1>4
    <3>1. k + 1 \in 1 .. Len(shared.queue) /\ q[k] = shared.queue[k + 1]
      BY <1>4, <1>7, <3>0
    <3>2. shared.queue[k + 1] = (shared.made - Len(shared.queue) + (k + 1) - 1) % ExNumbers
      BY <3>1 DEF Ex3Inv, Numbered
    <3>3. shared.made - Len(shared.queue) + (k + 1) - 1 = shared.made - Len(q) + k - 1
      BY <1>4, <1>7
    <3>4. QED
      BY <3>1, <3>2, <3>3
  <2>2. QED
    BY <1>8, <2>1 DEF Numbered
<1>15. at'[1] \in {"lock", "push", "post", "unlock"}
  BY <1>3 DEF Ex3Threads
<1>16. \A u \in {3, 4} : at'[u] \in {"wait", "lock", "read", "pop", "unlock"}
  BY <1>3 DEF Ex3Threads
<1>17. QED
  BY <1>3, <1>6, <1>8, <1>11, <1>12, <1>13, <1>14, <1>15, <1>16

LEMMA Ex3Step ==
    ASSUME Ex3Inv, game = "exercise3", NEW t \in DOMAIN at, ExStep(t)
    PROVE Ex3Inv'
<1>1. t \in Ex3Threads /\ (t = 1 \/ t \in {3, 4}) /\ t \in 0..5
  BY DEF Ex3Inv, Ex3Types, Ex3Threads
<1>2. IF t = 1 THEN Producer3(t) ELSE Consumer3(t)
  BY <1>1 DEF ExStep, ExMakers
<1>3. \A p \in {"lock", "push", "unlock", "read", "wait"} : p \in Ex3Places
  BY DEF Ex3Places
<1>4. CASE t = 1
  <2>1. CASE TakesMutex(t, "lock", "push")
    <3>1. /\ Moves(t, "lock", "push") /\ shared.mutex = 0 /\ UNCHANGED hand
          /\ shared' = [shared EXCEPT !.mutex = t]
      BY <2>1 DEF TakesMutex, Sets, Free
    <3>2. QED
      BY <1>1, <1>3, <1>4, <3>1, Ex3Goes
  <2>2. CASE /\ Moves(t, "push", "post")
             /\ Sets([shared EXCEPT !.queue = Append(@, shared.made),
                                    !.made = (@ + 1) % ExNumbers])
    BY <1>4, <2>2, Ex3Pushes
  <2>3. CASE SemPosts(t, "out", "post", "unlock")
    BY <1>4, <2>3, Ex3Posts
  <2>4. CASE GivesMutex(t, "unlock", "lock")
    <3>1. /\ Moves(t, "unlock", "lock") /\ UNCHANGED hand
          /\ shared' = [shared EXCEPT !.mutex = 0]
      BY <2>4 DEF GivesMutex, Sets, Free
    <3>2. Critical3(t) /\ 0 \in 0..5
      BY <3>1 DEF Moves, Critical3
    <3>3. QED
      BY <1>1, <1>3, <1>4, <3>1, <3>2, Ex3Goes
  <2>5. QED
    BY <1>2, <1>4, <2>1, <2>2, <2>3, <2>4 DEF Producer3
<1>5. CASE t \in {3, 4}
  <2>1. CASE SemWaits(t, "out", "wait", "lock")
    BY <1>5, <2>1, Ex3Waits
  <2>2. CASE TakesMutex(t, "lock", "read")
    <3>1. /\ Moves(t, "lock", "read") /\ shared.mutex = 0 /\ UNCHANGED hand
          /\ shared' = [shared EXCEPT !.mutex = t]
      BY <2>2 DEF TakesMutex, Sets, Free
    <3>2. QED
      BY <1>1, <1>3, <1>5, <3>1, Ex3Goes
  <2>3. CASE /\ Moves(t, "read", "pop") /\ UNCHANGED shared
             /\ Holds(t, IF shared.queue = <<>> THEN -1 ELSE shared.queue[1])
    BY <1>5, <2>3, Ex3Reads
  <2>4. CASE /\ Moves(t, "pop", "unlock")
             /\ Sets([shared EXCEPT !.queue = IF @ = <<>> THEN @ ELSE Tail(@),
                                    !.crashed = @ \/ shared.queue = <<>>])
    <3>1. at[t] = "pop"
      BY <2>4 DEF Moves
    <3>2. shared.queue # <<>> /\ ~shared.crashed
      BY <1>5, <3>1, Ex3NotEmpty DEF Ex3Inv
    <3>3. shared' = [shared EXCEPT !.queue = IF @ = <<>> THEN @ ELSE Tail(@),
                                   !.crashed = @ \/ shared.queue = <<>>]
          /\ UNCHANGED hand /\ Moves(t, "pop", "unlock")
      BY <2>4 DEF Sets
    <3>4. (shared.crashed \/ shared.queue = <<>>) = FALSE
      BY <3>2
    <3>5. shared' = [shared EXCEPT !.queue = Rest, !.crashed = FALSE]
      BY <3>2, <3>3, <3>4 DEF Rest
    <3>6. QED
      BY <1>5, <3>3, <3>5, Ex3Pops DEF LeavesRest
  <2>5. CASE GivesMutex(t, "unlock", "wait")
    <3>1. /\ Moves(t, "unlock", "wait") /\ UNCHANGED hand
          /\ shared' = [shared EXCEPT !.mutex = 0]
      BY <2>5 DEF GivesMutex, Sets, Free
    <3>2. Critical3(t) /\ 0 \in 0..5
      BY <3>1 DEF Moves, Critical3
    <3>3. QED
      BY <1>1, <1>3, <1>5, <3>1, <3>2, Ex3Goes
  <2>6. QED
    BY <1>2, <1>5, <2>1, <2>2, <2>3, <2>4, <2>5 DEF Consumer3
<1>6. QED
  BY <1>1, <1>4, <1>5

LEMMA Ex3Stutter == ASSUME Ex3Inv, UNCHANGED exVars PROVE Ex3Inv'
  BY DEF exVars, Ex3Inv, Ex3Types, Critical3, Let, Posting, Numbered

LEMMA Ex3Arrives == ASSUME Ex3Inv, game = "exercise3" PROVE ExNumbersArrive
<1> DEFINE inside == {t \in ExTakers : at[t] \in {"lock", "read", "pop"}}
<1>1. shared.queue \in Seq(ExNumber) /\ DOMAIN shared.queue = 1 .. Len(shared.queue)
  BY DEF Ex3Inv, Ex3Types, ExRecords
<1>2. Cardinality(inside) = Let(3) + Let(4)
  <2>1. inside \subseteq {3, 4} /\ 3 # 4
    BY DEF ExTakers
  <2>2. Cardinality(inside) = If1(3 \in inside) + If1(4 \in inside)
    BY <2>1, CountTwo
  <2>3. If1(3 \in inside) = Let(3) /\ If1(4 \in inside) = Let(4)
    BY DEF ExTakers, Let, If1
  <2>4. QED
    BY <2>2, <2>3
<1>3. \A k \in DOMAIN shared.queue :
         shared.queue[k] = (shared.made - Len(shared.queue) + k - 1) % ExNumbers
  BY <1>1 DEF Ex3Inv, Numbered
<1>4. \A t \in ExTakers : at[t] = "pop" => hand[t] = shared.queue[1]
  BY DEF Ex3Inv, ExTakers
<1>5. shared.sem.out + Quantify(ExTakers, LAMBDA t : at[t] \in {"lock", "read", "pop"})
      = Len(shared.queue) - (IF at[1] = "post" THEN 1 ELSE 0)
  <2>1. Quantify(ExTakers, LAMBDA t : at[t] \in {"lock", "read", "pop"}) = Let(3) + Let(4)
    BY <1>2 DEF Quantify
  <2>2. shared.sem.out + Let(3) + Let(4) = Len(shared.queue) - Posting
    BY DEF Ex3Inv
  <2>3. shared.sem.out \in Int /\ Let(3) \in Int /\ Let(4) \in Int
    BY DEF Ex3Inv, Ex3Types, ExRecords, Let, If1
  <2>4. \A s, a, b \in Int : s + (a + b) = s + a + b
    OBVIOUS
  <2>5. shared.sem.out + (Let(3) + Let(4)) = Len(shared.queue) - Posting
    BY <2>2, <2>3, <2>4
  <2>6. QED
    BY <2>1, <2>5 DEF Posting, If1
<1>6. ~shared.crashed
  BY DEF Ex3Inv
<1>7. QED
  BY <1>3, <1>4, <1>5, <1>6 DEF ExNumbersArrive

\* ExNumbersArrive of exercise 3 (producers_consumers.c): whoever the semaphore
\* lets in finds a number, and the numbers come in the order they were made.
THEOREM Exercise3Arrives == ExercisesSpec => [](game = "exercise3" => ExNumbersArrive)
<1> DEFINE Inv == game = "exercise3" => Ex3Inv
<1>1. ExercisesInit => Inv
  BY OneBeginning, Ex3Begins DEF ExGames
<1>2. ASSUME Inv, [ExercisesNext]_allVars PROVE Inv'
  <2>1. UNCHANGED game
    BY <1>2, OneProgram
  <2>2. CASE game = "exercise3"
    BY <1>2, <2>2, OneProgram, Ex3Step, Ex3Stutter DEF ExGames
  <2>3. CASE game # "exercise3"
    BY <2>1, <2>3
  <2>4. QED
    BY <2>2, <2>3
<1>3. Inv => (game = "exercise3" => ExNumbersArrive)
  BY Ex3Arrives
<1> HIDE DEF Inv
<1>4. QED
  BY <1>1, <1>2, <1>3, PTL DEF ExercisesSpec

-----------------------------------------------------------------------------
\* exercise 4: the two semaphores count the numbers and the room for them.
Ex4Places == {"wait", "lock", "queue", "post", "unlock", "end", "join"}
Ex4Types  == at \in [1..5 -> Ex4Places] /\ shared \in ExRecords

Claims == {"lock", "queue"}           \* let in by a semaphore, and to use it
Owes   == {"post"}                    \* has used it, and is to post the other
Done   == {"post", "unlock", "end"}   \* has used it

\* How many producers, and how many consumers, are in the places of P.
Makers(P) == If1(at[1] \in P) + If1(at[2] \in P)
Takers(P) == If1(at[3] \in P) + If1(at[4] \in P)

\* A producer's number is in the queue, or was taken from it.
Arrived4(t) == \/ \E k \in 1 .. Len(shared.taken) : shared.taken[k] = t
               \/ \E k \in 1 .. Len(shared.queue) : shared.queue[k] = t

OfMakers == /\ \A k \in 1 .. Len(shared.taken) : shared.taken[k] \in {1, 2}
            /\ \A k \in 1 .. Len(shared.queue) : shared.queue[k] \in {1, 2}
            /\ \A t \in {1, 2} : at[t] \in Done => Arrived4(t)

Ex4Counts == /\ shared.sem.out + Takers(Claims) + Makers(Owes) = Len(shared.queue)
             /\ shared.sem.in + Makers(Claims) + Takers(Owes) + Len(shared.queue) = ExSize
             /\ Len(shared.taken) + Len(shared.queue) = Makers(Done)
             /\ Len(shared.taken) = Takers(Done)

Ex4Inv == /\ Ex4Types /\ ~shared.crashed
          /\ at[5] \in {"join", "end"} /\ \A t \in 1..4 : at[t] # "join"
          /\ at[5] = "end" => \A t \in 1..4 : at[t] = "end"
          /\ \A t \in 1..4 : at[t] \in {"queue", "post", "unlock"} => shared.mutex = t
          /\ Ex4Counts /\ OfMakers

LEMMA InPlaces == ASSUME NEW P PROVE Makers(P) \in 0..2 /\ Takers(P) \in 0..2
  BY DEF Makers, Takers, If1

LEMMA Ex4Moved ==
    ASSUME Ex4Types, NEW t \in 1..4, NEW from, NEW to \in Ex4Places, Moves(t, from, to)
    PROVE /\ at' \in [1..5 -> Ex4Places] /\ at[t] = from /\ at'[t] = to
          /\ \A u \in 1..5 \ {t} : at'[u] = at[u]
          /\ \A P : /\ t \in {1, 2} => /\ Makers(P)' = Makers(P) + If1(to \in P) - If1(from \in P)
                                       /\ Takers(P)' = Takers(P)
                    /\ t \in {3, 4} => /\ Takers(P)' = Takers(P) + If1(to \in P) - If1(from \in P)
                                       /\ Makers(P)' = Makers(P)
<1>1. /\ at' \in [1..5 -> Ex4Places] /\ at[t] = from /\ at'[t] = to
      /\ \A u \in 1..5 \ {t} : at'[u] = at[u]
  BY DEF Moves, Ex4Types
<1>2. ASSUME NEW P PROVE If1(at[t] \in P) = If1(from \in P) /\ If1(at[t] \in P)' = If1(to \in P)
  BY <1>1
<1>3. ASSUME NEW P, NEW u \in 1..5 \ {t} PROVE If1(at[u] \in P)' = If1(at[u] \in P)
  BY <1>1
<1>4. \A b : If1(b) \in 0..1
  BY DEF If1
<1>5. ASSUME NEW P, t \in {1, 2}
      PROVE /\ Makers(P)' = Makers(P) + If1(to \in P) - If1(from \in P)
            /\ Takers(P)' = Takers(P)
  <2>1. CASE t = 1
    BY <2>1, <1>2, <1>3, <1>4 DEF Makers, Takers
  <2>2. CASE t = 2
    BY <2>2, <1>2, <1>3, <1>4 DEF Makers, Takers
  <2>3. QED
    BY <1>5, <2>1, <2>2
<1>6. ASSUME NEW P, t \in {3, 4}
      PROVE /\ Takers(P)' = Takers(P) + If1(to \in P) - If1(from \in P)
            /\ Makers(P)' = Makers(P)
  <2>1. CASE t = 3
    BY <2>1, <1>2, <1>3, <1>4 DEF Makers, Takers
  <2>2. CASE t = 4
    BY <2>2, <1>2, <1>3, <1>4 DEF Makers, Takers
  <2>3. QED
    BY <1>6, <2>1, <2>2
<1>7. QED
  BY <1>1, <1>5, <1>6

LEMMA Ex4Begins == ASSUME ExInit, game = "exercise4" PROVE Ex4Inv
<1>1. at = [t \in 1..5 |-> IF t = 5 THEN "join" ELSE "wait"]
  <2>1. ExThreadsOf(game) = 1..5
    BY DEF ExThreadsOf, ExMakers, ExTakers, ExMain
  <2>2. \A t : ExFirst(game, t) = (IF t = 5 THEN "join" ELSE "wait")
    BY DEF ExFirst, ExMain
  <2>3. QED
    BY <2>1, <2>2 DEF ExInit
<1>2. at \in [1..5 -> Ex4Places] /\ at[5] = "join" /\ \A t \in 1..4 : at[t] = "wait"
  BY <1>1 DEF Ex4Places
<1>3. \A P \in {Claims, Owes, Done} : Makers(P) = 0 /\ Takers(P) = 0
  BY <1>2 DEF Makers, Takers, If1, Claims, Owes, Done
<1>4. Len(shared.queue) = 0 /\ Len(shared.taken) = 0
  BY ExBegins
<1>5. ExSize \in Nat
  BY ExchangeAssumption
<1>6. Ex4Counts
  BY <1>3, <1>4, <1>5, ExBegins DEF Ex4Counts
<1>7. OfMakers
  BY <1>2, <1>4 DEF OfMakers, Done
<1>8. QED
  BY <1>2, <1>6, <1>7, ExBegins DEF Ex4Inv, Ex4Types

\* What the steps with the mutex and the semaphores leave as it is.
LEMMA Ex4Keeps ==
    ASSUME Ex4Inv, NEW t \in 1..4, NEW from, NEW to \in Ex4Places \ {"join"},
           Moves(t, from, to), from # "end", shared' \in ExRecords, ~shared'.crashed,
           \A u \in 1..4 \ {t} : at[u] \in {"queue", "post", "unlock"} => shared'.mutex = u,
           to \in {"queue", "post", "unlock"} => shared'.mutex = t,
           Ex4Counts', OfMakers'
    PROVE Ex4Inv'
<1> USE DEF Ex4Inv
<1>1. /\ at' \in [1..5 -> Ex4Places] /\ at[t] = from /\ at'[t] = to
      /\ \A u \in 1..5 \ {t} : at'[u] = at[u]
  BY Ex4Moved
<1>2. at[5] # "end"
  BY <1>1
<1>3. at'[5] = "join"
  BY <1>1, <1>2
<1>4. \A u \in 1..4 : at'[u] # "join"
  BY <1>1
<1>5. \A u \in 1..4 : at'[u] \in {"queue", "post", "unlock"} => shared'.mutex = u
  BY <1>1
<1>6. QED
  BY <1>1, <1>3, <1>4, <1>5 DEF Ex4Types

\* A semaphore's or the mutex's step: where the numbers are does not change.
LEMMA Ex4SameNumbers ==
    ASSUME Ex4Inv, NEW t \in 1..4, NEW from, NEW to \in Ex4Places, Moves(t, from, to),
           from \in Done <=> to \in Done,
           shared'.queue = shared.queue, shared'.taken = shared.taken
    PROVE OfMakers'
<1>1. /\ at[t] = from /\ at'[t] = to /\ \A u \in 1..5 \ {t} : at'[u] = at[u]
  BY Ex4Moved DEF Ex4Inv
<1>2. \A u \in {1, 2} : at'[u] \in Done => at[u] \in Done
  BY <1>1
<1>3. QED
  BY <1>2 DEF Ex4Inv, OfMakers, Arrived4

LEMMA Ex4Sets ==
    ASSUME Ex4Inv
    PROVE /\ shared.sem.in \in Nat /\ shared.sem.out \in Nat
          /\ shared.queue \in Seq(ExNumber) /\ shared.taken \in Seq(ExNumber)
          /\ Len(shared.queue) \in Nat /\ Len(shared.taken) \in Nat /\ ExSize \in Nat
<1>1. /\ shared.sem \in [in : Nat, out : Nat]
      /\ shared.queue \in Seq(ExNumber) /\ shared.taken \in Seq(ExNumber)
  BY DEF Ex4Inv, Ex4Types, ExRecords
<1>2. ExSize \in Nat
  BY ExchangeAssumption
<1>3. QED
  BY <1>1, <1>2

\* A producer is let in for the room there is, a consumer for a number.
LEMMA Ex4WaitsIn == ASSUME Ex4Inv, NEW t \in {1, 2}, SemWaits(t, "in", "wait", "lock") PROVE Ex4Inv'
<1> DEFINE n == shared.sem.in - 1
<1>1. Moves(t, "wait", "lock") /\ shared' = [shared EXCEPT !.sem["in"] = n]
  BY DEF SemWaits, Sets
<1>2. t \in 1..4 /\ "lock" \in Ex4Places \ {"join"}
  BY DEF Ex4Places
<1>3. n \in Nat
  BY Ex4Sets DEF SemWaits
<1> HIDE DEF n
<1>4. /\ shared' \in ExRecords /\ shared'.sem.in = n /\ shared'.sem.out = shared.sem.out
      /\ shared'.mutex = shared.mutex /\ shared'.queue = shared.queue
      /\ shared'.taken = shared.taken /\ shared'.crashed = shared.crashed
  BY <1>1, <1>3, ExSemIn DEF Ex4Inv, Ex4Types
<1>5. Ex4Counts'
  <2>1. /\ \A P : Makers(P)' = Makers(P) + If1("lock" \in P) - If1("wait" \in P)
        /\ \A P : Takers(P)' = Takers(P)
    BY <1>1, <1>2, Ex4Moved DEF Ex4Inv
  <2>2. /\ Makers(Claims)' = Makers(Claims) + 1 /\ Makers(Owes)' = Makers(Owes)
        /\ Makers(Done)' = Makers(Done)
    BY <2>1, InPlaces DEF If1, Claims, Owes, Done
  <2>3. /\ Takers(Claims)' = Takers(Claims) /\ Takers(Owes)' = Takers(Owes) /\ Takers(Done)' = Takers(Done)
    BY <2>1
  <2>4. Ex4Counts
    BY DEF Ex4Inv
  <2>5. /\ Makers(Claims) \in Int /\ Takers(Claims) \in Int /\ Makers(Owes) \in Int
        /\ Takers(Owes) \in Int
    BY InPlaces
  <2> DEFINE s == shared.sem.in
             a == Makers(Claims)
             b == Takers(Owes)
             l == Len(shared.queue)
  <2>6. s \in Int /\ a \in Int /\ b \in Int /\ l \in Int /\ ExSize \in Int
    BY <2>5, Ex4Sets
  <2>7. s + a + b + l = ExSize
    BY <2>4 DEF Ex4Counts
  <2>8. n = s - 1 /\ Makers(Claims)' = a + 1 /\ Takers(Owes)' = b
    BY <2>2, <2>3 DEF n
  <2> HIDE DEF s, a, b, l
  <2>9. n + (a + 1) + b + l = ExSize
    BY <2>6, <2>7, <2>8
  <2>10. shared'.sem.out + Takers(Claims)' + Makers(Owes)' = Len(shared'.queue)
    BY <1>4, <2>2, <2>3, <2>4 DEF Ex4Counts
  <2>11. shared'.sem.in + Makers(Claims)' + Takers(Owes)' + Len(shared'.queue) = ExSize
    BY <1>4, <2>8, <2>9 DEF l
  <2>12. /\ Len(shared'.taken) + Len(shared'.queue) = Makers(Done)'
        /\ Len(shared'.taken) = Takers(Done)'
    BY <1>4, <2>2, <2>3, <2>4 DEF Ex4Counts
  <2>13. QED
    BY <2>10, <2>11, <2>12 DEF Ex4Counts
<1>6. OfMakers'
  BY <1>1, <1>2, <1>4, Ex4SameNumbers DEF Done
<1>7. at[t] = "wait"
  BY <1>1 DEF Moves
<1>8. QED
  BY <1>1, <1>2, <1>4, <1>5, <1>6, <1>7, Ex4Keeps DEF Ex4Inv

LEMMA Ex4WaitsOut == ASSUME Ex4Inv, NEW t \in {3, 4}, SemWaits(t, "out", "wait", "lock") PROVE Ex4Inv'
<1> DEFINE n == shared.sem.out - 1
<1>1. Moves(t, "wait", "lock") /\ shared' = [shared EXCEPT !.sem["out"] = n]
  BY DEF SemWaits, Sets
<1>2. t \in 1..4 /\ "lock" \in Ex4Places \ {"join"}
  BY DEF Ex4Places
<1>3. n \in Nat
  BY Ex4Sets DEF SemWaits
<1> HIDE DEF n
<1>4. /\ shared' \in ExRecords /\ shared'.sem.out = n /\ shared'.sem.in = shared.sem.in
      /\ shared'.mutex = shared.mutex /\ shared'.queue = shared.queue
      /\ shared'.taken = shared.taken /\ shared'.crashed = shared.crashed
  BY <1>1, <1>3, ExSemOut DEF Ex4Inv, Ex4Types
<1>5. Ex4Counts'
  <2>1. /\ \A P : Takers(P)' = Takers(P) + If1("lock" \in P) - If1("wait" \in P)
        /\ \A P : Makers(P)' = Makers(P)
    BY <1>1, <1>2, Ex4Moved DEF Ex4Inv
  <2>2. /\ Takers(Claims)' = Takers(Claims) + 1 /\ Takers(Owes)' = Takers(Owes)
        /\ Takers(Done)' = Takers(Done)
    BY <2>1, InPlaces DEF If1, Claims, Owes, Done
  <2>3. /\ Makers(Claims)' = Makers(Claims) /\ Makers(Owes)' = Makers(Owes) /\ Makers(Done)' = Makers(Done)
    BY <2>1
  <2>4. Ex4Counts
    BY DEF Ex4Inv
  <2>5. /\ Makers(Claims) \in Int /\ Takers(Claims) \in Int /\ Makers(Owes) \in Int
        /\ Takers(Owes) \in Int
    BY InPlaces
  <2> DEFINE s == shared.sem.out
             a == Takers(Claims)
             b == Makers(Owes)
             l == Len(shared.queue)
  <2>6. s \in Int /\ a \in Int /\ b \in Int /\ l \in Int /\ ExSize \in Int
    BY <2>5, Ex4Sets
  <2>7. s + a + b = l
    BY <2>4 DEF Ex4Counts
  <2>8. n = s - 1 /\ Takers(Claims)' = a + 1 /\ Makers(Owes)' = b
    BY <2>2, <2>3 DEF n
  <2> HIDE DEF s, a, b, l
  <2>9. n + (a + 1) + b = l
    BY <2>6, <2>7, <2>8
  <2>10. shared'.sem.out + Takers(Claims)' + Makers(Owes)' = Len(shared'.queue)
    BY <1>4, <2>8, <2>9 DEF l
  <2>11. shared'.sem.in + Makers(Claims)' + Takers(Owes)' + Len(shared'.queue) = ExSize
    BY <1>4, <2>2, <2>3, <2>4 DEF Ex4Counts
  <2>12. /\ Len(shared'.taken) + Len(shared'.queue) = Makers(Done)'
        /\ Len(shared'.taken) = Takers(Done)'
    BY <1>4, <2>2, <2>3, <2>4 DEF Ex4Counts
  <2>13. QED
    BY <2>10, <2>11, <2>12 DEF Ex4Counts
<1>6. OfMakers'
  BY <1>1, <1>2, <1>4, Ex4SameNumbers DEF Done
<1>7. at[t] = "wait"
  BY <1>1 DEF Moves
<1>8. QED
  BY <1>1, <1>2, <1>4, <1>5, <1>6, <1>7, Ex4Keeps DEF Ex4Inv

\* And each lets in one of the other side.
LEMMA Ex4PostsOut == ASSUME Ex4Inv, NEW t \in {1, 2}, SemPosts(t, "out", "post", "unlock") PROVE Ex4Inv'
<1> DEFINE n == shared.sem.out + 1
<1>1. Moves(t, "post", "unlock") /\ shared' = [shared EXCEPT !.sem["out"] = n]
  BY DEF SemPosts, Sets
<1>2. t \in 1..4 /\ "unlock" \in Ex4Places \ {"join"}
  BY DEF Ex4Places
<1>3. n \in Nat
  BY Ex4Sets DEF SemPosts
<1> HIDE DEF n
<1>4. /\ shared' \in ExRecords /\ shared'.sem.out = n /\ shared'.sem.in = shared.sem.in
      /\ shared'.mutex = shared.mutex /\ shared'.queue = shared.queue
      /\ shared'.taken = shared.taken /\ shared'.crashed = shared.crashed
  BY <1>1, <1>3, ExSemOut DEF Ex4Inv, Ex4Types
<1>5. Ex4Counts'
  <2>1. /\ \A P : Makers(P)' = Makers(P) + If1("unlock" \in P) - If1("post" \in P)
        /\ \A P : Takers(P)' = Takers(P)
    BY <1>1, <1>2, Ex4Moved DEF Ex4Inv
  <2>2. /\ Makers(Claims)' = Makers(Claims) /\ Makers(Owes)' = Makers(Owes) - 1
        /\ Makers(Done)' = Makers(Done)
    BY <2>1, InPlaces DEF If1, Claims, Owes, Done
  <2>3. /\ Takers(Claims)' = Takers(Claims) /\ Takers(Owes)' = Takers(Owes) /\ Takers(Done)' = Takers(Done)
    BY <2>1
  <2>4. Ex4Counts
    BY DEF Ex4Inv
  <2>5. /\ Makers(Claims) \in Int /\ Takers(Claims) \in Int /\ Makers(Owes) \in Int
        /\ Takers(Owes) \in Int
    BY InPlaces
  <2> DEFINE s == shared.sem.out
             a == Takers(Claims)
             b == Makers(Owes)
             l == Len(shared.queue)
  <2>6. s \in Int /\ a \in Int /\ b \in Int /\ l \in Int /\ ExSize \in Int
    BY <2>5, Ex4Sets
  <2>7. s + a + b = l
    BY <2>4 DEF Ex4Counts
  <2>8. n = s + 1 /\ Takers(Claims)' = a /\ Makers(Owes)' = b - 1
    BY <2>2, <2>3 DEF n
  <2> HIDE DEF s, a, b, l
  <2>9. n + a + (b - 1) = l
    BY <2>6, <2>7, <2>8
  <2>10. shared'.sem.out + Takers(Claims)' + Makers(Owes)' = Len(shared'.queue)
    BY <1>4, <2>8, <2>9 DEF l
  <2>11. shared'.sem.in + Makers(Claims)' + Takers(Owes)' + Len(shared'.queue) = ExSize
    BY <1>4, <2>2, <2>3, <2>4 DEF Ex4Counts
  <2>12. /\ Len(shared'.taken) + Len(shared'.queue) = Makers(Done)'
        /\ Len(shared'.taken) = Takers(Done)'
    BY <1>4, <2>2, <2>3, <2>4 DEF Ex4Counts
  <2>13. QED
    BY <2>10, <2>11, <2>12 DEF Ex4Counts
<1>6. OfMakers'
  BY <1>1, <1>2, <1>4, Ex4SameNumbers DEF Done
<1>7. at[t] = "post"
  BY <1>1 DEF Moves
<1>8. QED
  BY <1>1, <1>2, <1>4, <1>5, <1>6, <1>7, Ex4Keeps DEF Ex4Inv

LEMMA Ex4PostsIn == ASSUME Ex4Inv, NEW t \in {3, 4}, SemPosts(t, "in", "post", "unlock") PROVE Ex4Inv'
<1> DEFINE n == shared.sem.in + 1
<1>1. Moves(t, "post", "unlock") /\ shared' = [shared EXCEPT !.sem["in"] = n]
  BY DEF SemPosts, Sets
<1>2. t \in 1..4 /\ "unlock" \in Ex4Places \ {"join"}
  BY DEF Ex4Places
<1>3. n \in Nat
  BY Ex4Sets DEF SemPosts
<1> HIDE DEF n
<1>4. /\ shared' \in ExRecords /\ shared'.sem.in = n /\ shared'.sem.out = shared.sem.out
      /\ shared'.mutex = shared.mutex /\ shared'.queue = shared.queue
      /\ shared'.taken = shared.taken /\ shared'.crashed = shared.crashed
  BY <1>1, <1>3, ExSemIn DEF Ex4Inv, Ex4Types
<1>5. Ex4Counts'
  <2>1. /\ \A P : Takers(P)' = Takers(P) + If1("unlock" \in P) - If1("post" \in P)
        /\ \A P : Makers(P)' = Makers(P)
    BY <1>1, <1>2, Ex4Moved DEF Ex4Inv
  <2>2. /\ Takers(Claims)' = Takers(Claims) /\ Takers(Owes)' = Takers(Owes) - 1
        /\ Takers(Done)' = Takers(Done)
    BY <2>1, InPlaces DEF If1, Claims, Owes, Done
  <2>3. /\ Makers(Claims)' = Makers(Claims) /\ Makers(Owes)' = Makers(Owes) /\ Makers(Done)' = Makers(Done)
    BY <2>1
  <2>4. Ex4Counts
    BY DEF Ex4Inv
  <2>5. /\ Makers(Claims) \in Int /\ Takers(Claims) \in Int /\ Makers(Owes) \in Int
        /\ Takers(Owes) \in Int
    BY InPlaces
  <2> DEFINE s == shared.sem.in
             a == Makers(Claims)
             b == Takers(Owes)
             l == Len(shared.queue)
  <2>6. s \in Int /\ a \in Int /\ b \in Int /\ l \in Int /\ ExSize \in Int
    BY <2>5, Ex4Sets
  <2>7. s + a + b + l = ExSize
    BY <2>4 DEF Ex4Counts
  <2>8. n = s + 1 /\ Makers(Claims)' = a /\ Takers(Owes)' = b - 1
    BY <2>2, <2>3 DEF n
  <2> HIDE DEF s, a, b, l
  <2>9. n + a + (b - 1) + l = ExSize
    BY <2>6, <2>7, <2>8
  <2>10. shared'.sem.out + Takers(Claims)' + Makers(Owes)' = Len(shared'.queue)
    BY <1>4, <2>2, <2>3, <2>4 DEF Ex4Counts
  <2>11. shared'.sem.in + Makers(Claims)' + Takers(Owes)' + Len(shared'.queue) = ExSize
    BY <1>4, <2>8, <2>9 DEF l
  <2>12. /\ Len(shared'.taken) + Len(shared'.queue) = Makers(Done)'
        /\ Len(shared'.taken) = Takers(Done)'
    BY <1>4, <2>2, <2>3, <2>4 DEF Ex4Counts
  <2>13. QED
    BY <2>10, <2>11, <2>12 DEF Ex4Counts
<1>6. OfMakers'
  BY <1>1, <1>2, <1>4, Ex4SameNumbers DEF Done
<1>7. at[t] = "post"
  BY <1>1 DEF Moves
<1>8. QED
  BY <1>1, <1>2, <1>4, <1>5, <1>6, <1>7, Ex4Keeps DEF Ex4Inv

\* The mutex is taken and given; nothing that the semaphores count moves.
LEMMA Ex4Goes ==
    ASSUME Ex4Inv, NEW t \in 1..4, NEW from, NEW to \in Ex4Places \ {"join"},
           Moves(t, from, to), from # "end", NEW m \in 0..5, shared' = [shared EXCEPT !.mutex = m],
           \/ from = "lock" /\ to = "queue" /\ shared.mutex = 0 /\ m = t
           \/ from = "unlock" /\ to = "end" /\ m = 0
    PROVE Ex4Inv'
<1>1. at[t] = from
  BY DEF Moves
<1>2. /\ shared' \in ExRecords /\ shared'.mutex = m /\ shared'.sem = shared.sem
      /\ shared'.queue = shared.queue /\ shared'.taken = shared.taken
      /\ shared'.crashed = shared.crashed
  BY ExMutexSet DEF Ex4Inv, Ex4Types
<1>3. /\ from \in Claims <=> to \in Claims
      /\ from \in Owes <=> to \in Owes
      /\ from \in Done <=> to \in Done
  BY DEF Claims, Owes, Done
<1>4. \A P \in {Claims, Owes, Done} : Makers(P)' = Makers(P) /\ Takers(P)' = Takers(P)
  <2>1. ASSUME NEW P \in {Claims, Owes, Done}
        PROVE Makers(P)' = Makers(P) /\ Takers(P)' = Takers(P)
    <3>1. If1(to \in P) = If1(from \in P) /\ If1(from \in P) \in Int
      BY <1>3 DEF If1
    <3>2. Makers(P) \in Int /\ Takers(P) \in Int
      BY InPlaces
    <3>3. /\ t \in {1, 2} => /\ Makers(P)' = Makers(P) + If1(to \in P) - If1(from \in P)
                             /\ Takers(P)' = Takers(P)
          /\ t \in {3, 4} => /\ Takers(P)' = Takers(P) + If1(to \in P) - If1(from \in P)
                             /\ Makers(P)' = Makers(P)
      BY Ex4Moved DEF Ex4Inv
    <3>4. QED
      BY <3>1, <3>2, <3>3
  <2>2. QED
    BY <2>1
<1>5. Ex4Counts'
  BY <1>2, <1>4 DEF Ex4Inv, Ex4Counts
<1>6. OfMakers'
  BY <1>2, <1>3, Ex4SameNumbers
<1>7. \A u \in 1..4 \ {t} : ~(at[u] \in {"queue", "post", "unlock"})
  BY <1>1 DEF Ex4Inv
<1>8. QED
  BY <1>2, <1>5, <1>6, <1>7, Ex4Keeps DEF Ex4Inv

\* A producer was let in for room: the queue is not full.
LEMMA Ex4Room ==
    ASSUME Ex4Inv, NEW t \in {1, 2}, at[t] = "queue"
    PROVE Len(shared.queue) < ExSize
<1> DEFINE s == shared.sem.in
           a == Makers(Claims)
           b == Takers(Owes)
           l == Len(shared.queue)
<1>1. a > 0
  BY InPlaces DEF Makers, Claims, If1
<1>2. s \in Nat /\ a \in Nat /\ b \in Nat /\ l \in Nat /\ ExSize \in Nat
  BY InPlaces, Ex4Sets
<1>3. s + a + b + l = ExSize
  BY DEF Ex4Inv, Ex4Counts
<1> HIDE DEF s, a, b, l
<1>4. l < ExSize
  BY <1>1, <1>2, <1>3
<1>5. QED
  BY <1>4 DEF l

\* A consumer was let in for a number: the queue is not empty.
LEMMA Ex4Number ==
    ASSUME Ex4Inv, NEW t \in {3, 4}, at[t] = "queue"
    PROVE Len(shared.queue) > 0
<1> DEFINE s == shared.sem.out
           a == Takers(Claims)
           b == Makers(Owes)
           l == Len(shared.queue)
<1>1. a > 0
  BY InPlaces DEF Takers, Claims, If1
<1>2. s \in Nat /\ a \in Nat /\ b \in Nat /\ l \in Nat
  BY InPlaces, Ex4Sets
<1>3. s + a + b = l
  BY DEF Ex4Inv, Ex4Counts
<1> HIDE DEF s, a, b, l
<1>4. l > 0
  BY <1>1, <1>2, <1>3
<1>5. QED
  BY <1>4 DEF l

\* What a step on the queue itself needs to keep the counts.
LEMMA ExQueueSet ==
    ASSUME shared \in ExRecords, NEW q \in Seq(ExNumber), shared' = [shared EXCEPT !.queue = q]
    PROVE /\ shared' \in ExRecords /\ shared'.mutex = shared.mutex /\ shared'.sem = shared.sem
          /\ shared'.queue = q /\ shared'.made = shared.made
          /\ shared'.taken = shared.taken /\ shared'.crashed = shared.crashed
  BY DEF ExRecords

Longer(t) == Append(shared.queue, t)

LEMMA Ex4Enqueues ==
    ASSUME Ex4Inv, NEW t \in {1, 2}, Moves(t, "queue", "post"),
           shared' = [shared EXCEPT !.queue = Longer(t)]
    PROVE Ex4Inv'
<1> DEFINE q == Longer(t)
<1>1. t \in 1..4 /\ "post" \in Ex4Places \ {"join"} /\ at[t] = "queue" /\ t \in ExNumber
  BY DEF Ex4Places, Moves, ExNumber
<1>2. /\ shared.queue \in Seq(ExNumber) /\ Len(shared.queue) \in Nat /\ Len(shared.taken) \in Nat
      /\ shared.taken \in Seq(ExNumber)
  BY Ex4Sets
<1>3. /\ q \in Seq(ExNumber) /\ Len(q) = Len(shared.queue) + 1 /\ q[Len(shared.queue) + 1] = t
      /\ \A k \in 1 .. Len(shared.queue) : q[k] = shared.queue[k]
  BY <1>1, <1>2 DEF Longer
<1> HIDE DEF q
<1>4. /\ shared' \in ExRecords /\ shared'.mutex = shared.mutex /\ shared'.sem = shared.sem
      /\ shared'.queue = q /\ shared'.taken = shared.taken /\ shared'.crashed = shared.crashed
  BY <1>3, ExQueueSet DEF q, Ex4Inv, Ex4Types
<1>5. Ex4Counts'
  <2>1. /\ \A P : Makers(P)' = Makers(P) + If1("post" \in P) - If1("queue" \in P)
        /\ \A P : Takers(P)' = Takers(P)
    BY <1>1, Ex4Moved DEF Ex4Inv
  <2>2. /\ Makers(Claims)' = Makers(Claims) - 1 /\ Makers(Owes)' = Makers(Owes) + 1
        /\ Makers(Done)' = Makers(Done) + 1
    BY <2>1, InPlaces DEF If1, Claims, Owes, Done
  <2> DEFINE s == shared.sem.out
             r == shared.sem.in
             a == Makers(Claims)
             b == Takers(Claims)
             c == Makers(Owes)
             d == Takers(Owes)
             e == Makers(Done)
             f == Takers(Done)
             l == Len(shared.queue)
             k == Len(shared.taken)
  <2>3. /\ s \in Int /\ r \in Int /\ a \in Int /\ b \in Int /\ c \in Int /\ d \in Int
        /\ e \in Int /\ f \in Int /\ l \in Int /\ k \in Int /\ ExSize \in Int
    BY <1>2, InPlaces, Ex4Sets
  <2>4. /\ s + b + c = l /\ r + a + d + l = ExSize /\ k + l = e /\ k = f
    BY DEF Ex4Inv, Ex4Counts
  <2>5. /\ Makers(Claims)' = a - 1 /\ Takers(Claims)' = b /\ Makers(Owes)' = c + 1
        /\ Takers(Owes)' = d /\ Makers(Done)' = e + 1 /\ Takers(Done)' = f
        /\ shared'.sem.out = s /\ shared'.sem.in = r
        /\ Len(shared'.queue) = l + 1 /\ Len(shared'.taken) = k
    BY <1>3, <1>4, <2>1, <2>2
  <2> HIDE DEF s, r, a, b, c, d, e, f, l, k
  <2>6. s + b + (c + 1) = l + 1 /\ r + (a - 1) + d + (l + 1) = ExSize /\ k + (l + 1) = e + 1
    BY <2>3, <2>4
  <2>7. QED
    BY <2>4, <2>5, <2>6 DEF Ex4Counts
<1>6. OfMakers'
  <2>1. \A k \in 1 .. Len(q) : q[k] \in {1, 2}
    <3>1. ASSUME NEW k \in 1 .. Len(q) PROVE k \in 1 .. Len(shared.queue) \/ k = Len(shared.queue) + 1
      BY <1>2, <1>3
    <3>2. QED
      BY <3>1, <1>3 DEF Ex4Inv, OfMakers
  <2>2. \A u \in {1, 2} : Arrived4(u) => Arrived4(u)'
    <3>1. \A k \in 1 .. Len(shared.queue) : k \in 1 .. Len(q)
      BY <1>2, <1>3
    <3>2. QED
      BY <1>3, <1>4, <3>1 DEF Arrived4
  <2>3. Arrived4(t)'
    <3>1. Len(q) \in 1 .. Len(q) /\ q[Len(q)] = t
      BY <1>2, <1>3
    <3>2. QED
      BY <1>4, <3>1 DEF Arrived4
  <2>4. \A u \in {1, 2} \ {t} : at'[u] = at[u]
    BY <1>1, Ex4Moved DEF Ex4Inv
  <2>5. \A u \in {1, 2} : at'[u] \in Done => Arrived4(u)'
    <3>1. ASSUME NEW u \in {1, 2}, u # t, at'[u] \in Done PROVE Arrived4(u)'
      BY <2>2, <2>4, <3>1 DEF Ex4Inv, OfMakers
    <3>2. QED
      BY <2>3, <3>1
  <2>6. \A k \in 1 .. Len(shared'.taken) : shared'.taken[k] \in {1, 2}
    BY <1>4 DEF Ex4Inv, OfMakers
  <2>7. QED
    BY <1>4, <2>1, <2>5, <2>6 DEF OfMakers
<1>7. shared.mutex = t
  BY <1>1 DEF Ex4Inv
<1>8. QED
  <2>1. \A u \in 1..4 \ {t} : at[u] \in {"queue", "post", "unlock"} => shared'.mutex = u
    BY <1>4 DEF Ex4Inv
  <2>2. shared'.mutex = t /\ ~shared'.crashed
    BY <1>4, <1>7 DEF Ex4Inv
  <2>3. QED
    BY <1>1, <1>4, <1>5, <1>6, <2>1, <2>2, Ex4Keeps

Takes == Append(shared.taken, shared.queue[1])
Delivers == shared' = [shared EXCEPT !.queue = Rest, !.taken = Takes]

LEMMA Ex4Dequeues ==
    ASSUME Ex4Inv, NEW t \in {3, 4}, Moves(t, "queue", "post"), Delivers
    PROVE Ex4Inv'
<1> DEFINE q == Rest
           g == Takes
<1>1. t \in 1..4 /\ "post" \in Ex4Places \ {"join"} /\ at[t] = "queue"
  BY DEF Ex4Places, Moves
<1>2. /\ shared.queue \in Seq(ExNumber) /\ Len(shared.queue) \in Nat /\ Len(shared.taken) \in Nat
      /\ shared.taken \in Seq(ExNumber) /\ Len(shared.queue) > 0
  BY <1>1, Ex4Sets, Ex4Number
<1>3. /\ q \in Seq(ExNumber) /\ Len(q) = Len(shared.queue) - 1
      /\ \A k \in 1 .. Len(q) : q[k] = shared.queue[k + 1]
  BY <1>2 DEF Rest
<1>4. /\ g \in Seq(ExNumber) /\ Len(g) = Len(shared.taken) + 1
      /\ g[Len(shared.taken) + 1] = shared.queue[1]
      /\ \A k \in 1 .. Len(shared.taken) : g[k] = shared.taken[k]
  <2>1. shared.queue[1] \in ExNumber
    BY <1>2
  <2>2. QED
    BY <1>2, <2>1 DEF Takes
<1>5. shared' = [shared EXCEPT !.queue = q, !.taken = g]
  BY DEF Delivers
<1> HIDE DEF q, g
<1>6. /\ shared' \in ExRecords /\ shared'.mutex = shared.mutex /\ shared'.sem = shared.sem
      /\ shared'.queue = q /\ shared'.taken = g /\ shared'.crashed = shared.crashed
  BY <1>3, <1>4, <1>5, ExQueued DEF Ex4Inv, Ex4Types
<1>7. Ex4Counts'
  <2>1. /\ \A P : Takers(P)' = Takers(P) + If1("post" \in P) - If1("queue" \in P)
        /\ \A P : Makers(P)' = Makers(P)
    BY <1>1, Ex4Moved DEF Ex4Inv
  <2>2. /\ Takers(Claims)' = Takers(Claims) - 1 /\ Takers(Owes)' = Takers(Owes) + 1
        /\ Takers(Done)' = Takers(Done) + 1
    BY <2>1, InPlaces DEF If1, Claims, Owes, Done
  <2> DEFINE s == shared.sem.out
             r == shared.sem.in
             a == Makers(Claims)
             b == Takers(Claims)
             c == Makers(Owes)
             d == Takers(Owes)
             e == Makers(Done)
             f == Takers(Done)
             l == Len(shared.queue)
             k == Len(shared.taken)
  <2>3. /\ s \in Int /\ r \in Int /\ a \in Int /\ b \in Int /\ c \in Int /\ d \in Int
        /\ e \in Int /\ f \in Int /\ l \in Int /\ k \in Int /\ ExSize \in Int
    BY <1>2, InPlaces, Ex4Sets
  <2>4. /\ s + b + c = l /\ r + a + d + l = ExSize /\ k + l = e /\ k = f
    BY DEF Ex4Inv, Ex4Counts
  <2>5. /\ Makers(Claims)' = a /\ Takers(Claims)' = b - 1 /\ Makers(Owes)' = c
        /\ Takers(Owes)' = d + 1 /\ Makers(Done)' = e /\ Takers(Done)' = f + 1
        /\ shared'.sem.out = s /\ shared'.sem.in = r
        /\ Len(shared'.queue) = l - 1 /\ Len(shared'.taken) = k + 1
    BY <1>3, <1>4, <1>6, <2>1, <2>2
  <2> HIDE DEF s, r, a, b, c, d, e, f, l, k
  <2>6. /\ s + (b - 1) + c = l - 1 /\ r + a + (d + 1) + (l - 1) = ExSize
        /\ (k + 1) + (l - 1) = e /\ k + 1 = f + 1
    BY <2>3, <2>4
  <2>7. QED
    BY <2>5, <2>6 DEF Ex4Counts
<1>8. OfMakers'
  <2>1. \A k \in 1 .. Len(q) : k + 1 \in 1 .. Len(shared.queue)
    BY <1>2, <1>3
  <2>2. \A k \in 1 .. Len(q) : q[k] \in {1, 2}
    BY <1>3, <2>1 DEF Ex4Inv, OfMakers
  <2>3. \A k \in 1 .. Len(g) : g[k] \in {1, 2}
    <3>1. ASSUME NEW k \in 1 .. Len(g) PROVE k \in 1 .. Len(shared.taken) \/ k = Len(shared.taken) + 1
      BY <1>2, <1>4
    <3>2. 1 \in 1 .. Len(shared.queue)
      BY <1>2
    <3>3. QED
      BY <3>1, <3>2, <1>4 DEF Ex4Inv, OfMakers
  <2>4. ASSUME NEW u \in {1, 2}, Arrived4(u) PROVE Arrived4(u)'
    <3>1. CASE \E k \in 1 .. Len(shared.taken) : shared.taken[k] = u
      <4>1. \A k \in 1 .. Len(shared.taken) : k \in 1 .. Len(g)
        BY <1>2, <1>4
      <4>2. QED
        BY <1>4, <1>6, <3>1, <4>1 DEF Arrived4
    <3>2. CASE \E k \in 1 .. Len(shared.queue) : shared.queue[k] = u
      <4>1. PICK k \in 1 .. Len(shared.queue) : shared.queue[k] = u
        BY <3>2
      <4>2. CASE k = 1
        <5>1. Len(g) \in 1 .. Len(g) /\ g[Len(g)] = u
          BY <1>2, <1>4, <4>1, <4>2
        <5>2. QED
          BY <1>6, <5>1 DEF Arrived4
      <4>3. CASE k # 1
        <5>1. k - 1 \in 1 .. Len(q) /\ (k - 1) + 1 = k
          BY <1>2, <1>3, <4>3
        <5>2. q[k - 1] = u
          BY <1>3, <4>1, <5>1
        <5>3. QED
          BY <1>6, <5>1, <5>2 DEF Arrived4
      <4>4. QED
        BY <4>2, <4>3
    <3>3. QED
      BY <2>4, <3>1, <3>2 DEF Arrived4
  <2>5. \A u \in {1, 2} : at'[u] = at[u]
    BY <1>1, Ex4Moved DEF Ex4Inv
  <2>6. \A u \in {1, 2} : at'[u] \in Done => Arrived4(u)'
    BY <2>4, <2>5 DEF Ex4Inv, OfMakers
  <2>7. QED
    BY <1>6, <2>2, <2>3, <2>6 DEF OfMakers
<1>9. shared.mutex = t
  BY <1>1 DEF Ex4Inv
<1>10. QED
  <2>1. \A u \in 1..4 \ {t} : at[u] \in {"queue", "post", "unlock"} => shared'.mutex = u
    BY <1>6 DEF Ex4Inv
  <2>2. shared'.mutex = t /\ ~shared'.crashed
    BY <1>6, <1>9 DEF Ex4Inv
  <2>3. QED
    BY <1>1, <1>6, <1>7, <1>8, <2>1, <2>2, Ex4Keeps


LEMMA Ex4Joins == ASSUME Ex4Inv, Exercise4 PROVE Ex4Inv'
<1>1. at[5] = "join" /\ at' = [at EXCEPT ![5] = "end"] /\ UNCHANGED shared
  BY DEF Exercise4, Moves, ExMain, Nothing
<1>2. \A u \in 1..4 : at[u] = "end"
  BY DEF Exercise4, ExMain, Ex4Inv, Ex4Types
<1>3. /\ at' \in [1..5 -> Ex4Places] /\ at'[5] = "end" /\ \A u \in 1..4 : at'[u] = at[u]
  BY <1>1 DEF Ex4Inv, Ex4Types, Ex4Places
<1>4. \A P : Makers(P)' = Makers(P) /\ Takers(P)' = Takers(P)
  BY <1>3 DEF Makers, Takers
<1>5. Ex4Counts'
  BY <1>1, <1>4 DEF Ex4Inv, Ex4Counts
<1>6. OfMakers'
  BY <1>1, <1>3 DEF Ex4Inv, OfMakers, Arrived4
<1>7. QED
  BY <1>1, <1>2, <1>3, <1>5, <1>6 DEF Ex4Inv, Ex4Types

LEMMA Ex4Step ==
    ASSUME Ex4Inv, game = "exercise4", NEW t \in DOMAIN at, ExStep(t)
    PROVE Ex4Inv'
<1>1. t \in 1..5
  BY DEF Ex4Inv, Ex4Types
<1>2. \/ t \in {1, 2} /\ Producer4(t)
      \/ t \in {3, 4} /\ Consumer4(t)
      \/ t = 5 /\ Exercise4
  <2>1. \/ t \in ExMakers /\ Producer4(t)
        \/ t \in ExTakers /\ Consumer4(t)
        \/ t = ExMain /\ Exercise4
    BY DEF ExStep
  <2>2. QED
    BY <2>1 DEF ExMakers, ExTakers, ExMain
<1>3. \A p \in {"lock", "queue", "post", "unlock", "end"} : p \in Ex4Places \ {"join"}
  BY DEF Ex4Places
<1>4. ASSUME t \in 1..4, TakesMutex(t, "lock", "queue") PROVE Ex4Inv'
  <2>1. /\ Moves(t, "lock", "queue") /\ shared.mutex = 0 /\ t \in 0..5
        /\ shared' = [shared EXCEPT !.mutex = t]
    BY <1>4 DEF TakesMutex, Sets, Free
  <2>2. QED
    BY <1>3, <1>4, <2>1, Ex4Goes
<1>5. ASSUME t \in 1..4, GivesMutex(t, "unlock", "end") PROVE Ex4Inv'
  <2>1. /\ Moves(t, "unlock", "end") /\ 0 \in 0..5
        /\ shared' = [shared EXCEPT !.mutex = 0]
    BY <1>5 DEF GivesMutex, Sets, Free
  <2>2. QED
    BY <1>3, <1>5, <2>1, Ex4Goes
<1>6. ASSUME t \in {1, 2}, Moves(t, "queue", "post"), Sets(FSQenqueue(t)) PROVE Ex4Inv'
  <2>1. at[t] = "queue"
    BY <1>6 DEF Moves
  <2>2. FSQenqueue(t) = [shared EXCEPT !.queue = Longer(t)]
    BY <1>6, <2>1, Ex4Room DEF FSQenqueue, Longer
  <2>3. QED
    BY <1>6, <2>2, Ex4Enqueues DEF Sets
<1>7. ASSUME t \in {3, 4}, Moves(t, "queue", "post"), Sets(FSQdequeue) PROVE Ex4Inv'
  <2>1. at[t] = "queue"
    BY <1>7 DEF Moves
  <2>2. shared.queue # <<>>
    BY <1>7, <2>1, Ex4Number, Ex4Sets
  <2>3. FSQdequeue = [shared EXCEPT !.queue = Rest, !.taken = Takes]
    BY <2>2 DEF FSQdequeue, Rest, Takes
  <2>4. Delivers
    BY <1>7, <2>3 DEF Sets, Delivers
  <2>5. QED
    BY <1>7, <2>4, Ex4Dequeues
<1>8. CASE t \in {1, 2} /\ Producer4(t)
  BY <1>4, <1>5, <1>6, <1>8, Ex4WaitsIn, Ex4PostsOut DEF Producer4
<1>9. CASE t \in {3, 4} /\ Consumer4(t)
  BY <1>4, <1>5, <1>7, <1>9, Ex4WaitsOut, Ex4PostsIn DEF Consumer4
<1>10. CASE t = 5 /\ Exercise4
  BY <1>10, Ex4Joins
<1>11. QED
  BY <1>2, <1>8, <1>9, <1>10

LEMMA Ex4Stutter == ASSUME Ex4Inv, UNCHANGED exVars PROVE Ex4Inv'
<1>1. UNCHANGED <<at, shared>>
  BY DEF exVars
<1>2. \A P : Makers(P)' = Makers(P) /\ Takers(P)' = Takers(P)
  BY <1>1 DEF Makers, Takers
<1>3. Ex4Counts'
  BY <1>1, <1>2 DEF Ex4Inv, Ex4Counts
<1>4. OfMakers'
  BY <1>1 DEF Ex4Inv, OfMakers, Arrived4
<1>5. QED
  BY <1>1, <1>3, <1>4 DEF Ex4Inv, Ex4Types

LEMMA Ex4Arrives == ASSUME Ex4Inv, game = "exercise4" PROVE ExNumbersArrive
<1>1. ~shared.crashed
  BY DEF Ex4Inv
<1>2. ASSUME at[5] = "end" PROVE ToSet(shared.taken) = ExMakers /\ shared.queue = <<>>
  <2>1. \A u \in 1..4 : at[u] \in Done
    BY <1>2 DEF Ex4Inv, Done
  <2>2. Makers(Done) = 2 /\ Takers(Done) = 2
    BY <2>1 DEF Makers, Takers, If1
  <2>3. Len(shared.queue) = 0
    BY <2>2, Ex4Sets DEF Ex4Inv, Ex4Counts
  <2>4. shared.queue = <<>>
    BY <2>3, Ex4Sets
  <2>5. ToSet(shared.taken) \subseteq {1, 2}
    <3>1. DOMAIN shared.taken = 1 .. Len(shared.taken)
      BY Ex4Sets
    <3>2. QED
      BY <3>1 DEF Ex4Inv, OfMakers, ToSet
  <2>6. \A u \in {1, 2} : u \in ToSet(shared.taken)
    <3>1. \A u \in {1, 2} : Arrived4(u)
      BY <2>1 DEF Ex4Inv, OfMakers
    <3>2. \A k : k \notin 1 .. Len(shared.queue)
      BY <2>3
    <3>3. DOMAIN shared.taken = 1 .. Len(shared.taken)
      BY Ex4Sets
    <3>4. QED
      BY <3>1, <3>2, <3>3 DEF Arrived4, ToSet
  <2>7. QED
    BY <2>4, <2>5, <2>6 DEF ExMakers
<1>3. QED
  BY <1>1, <1>2 DEF ExNumbersArrive, ExMain

\* ExNumbersArrive of exercise 4 (producers_consumers.c): the fixed size queue
\* is never overrun and never found empty, and what was made was taken when the
\* threads have been joined.
THEOREM Exercise4Arrives == ExercisesSpec => [](game = "exercise4" => ExNumbersArrive)
<1> DEFINE Inv == game = "exercise4" => Ex4Inv
<1>1. ExercisesInit => Inv
  BY OneBeginning, Ex4Begins DEF ExGames
<1>2. ASSUME Inv, [ExercisesNext]_allVars PROVE Inv'
  <2>1. UNCHANGED game
    BY <1>2, OneProgram
  <2>2. CASE game = "exercise4"
    BY <1>2, <2>2, OneProgram, Ex4Step, Ex4Stutter DEF ExGames
  <2>3. CASE game # "exercise4"
    BY <2>1, <2>3
  <2>4. QED
    BY <2>2, <2>3
<1>3. Inv => (game = "exercise4" => ExNumbersArrive)
  BY Ex4Arrives
<1> HIDE DEF Inv
<1>4. QED
  BY <1>1, <1>2, <1>3, PTL DEF ExercisesSpec

-----------------------------------------------------------------------------
\* Programs over sockets.
LEMMA OneOfNetwork ==
    ASSUME [ExercisesNext]_allVars, game \in NtGames
    PROVE \/ \E t \in DOMAIN at : NtStep(t)
          \/ game = "tcp_udp" /\ SelTypes
          \/ UNCHANGED exVars
<1> USE DEF ExGames, PrGames, NtGames, ThGames, exVars
<1>1. CASE UNCHANGED allVars
  BY <1>1 DEF allVars
<1>2. CASE game = "exercise6" /\ Next /\ UNCHANGED exVars
  BY <1>2
<1>3. CASE PgNext
  BY <1>3 DEF PgNext
<1>4. CASE RamNext
  BY <1>4 DEF RamNext
<1>5. CASE \/ game = "tcp_udp" /\ SelTypes /\ UNCHANGED game
           \/ game = "nbd" /\ NbdOutside /\ UNCHANGED game
           \/ ThMay /\ UNCHANGED game
  BY <1>5 DEF ThMay
<1>6. CASE \E t \in DOMAIN at : ThreadStep(t)
  BY <1>6 DEF ThreadStep
<1>7. QED
  BY <1>1, <1>2, <1>3, <1>4, <1>5, <1>6 DEF ExercisesNext

LEMMA NetworkBegins == ASSUME ExercisesInit, game \in NtGames PROVE NtInit
  BY DEF ExercisesInit, ExInit, PrInit, PgInit, RamInit, NtInit, NbdInit, RpInit, ThInit,
         ExGames, PrGames, NtGames, ThGames

LEMMA NetworkSteps ==
    ASSUME NetworkInv, [ExercisesNext]_allVars, game \in NtGames PROVE NetworkInv'
<1>1. game' = game
  BY OneProgram
<1>2. CASE UNCHANGED exVars
  BY <1>2, NetworkStutters
<1>3. CASE game = "tcp_udp" /\ SelTypes
  BY <1>1, <1>3, SelTyped DEF NetworkInv
<1>4. CASE \E t \in DOMAIN at : NtStep(t)
  <2>1. PICK t \in DOMAIN at : NtStep(t)
    BY <1>4
  <2>2. CASE game = "udp_ping"
    BY <1>1, <2>1, <2>2, UdpStep DEF NetworkInv
  <2>3. CASE game = "tcp_ping"
    BY <1>1, <2>1, <2>3, TcpStep DEF NetworkInv
  <2>4. CASE game = "tcp_servers"
    BY <1>1, <2>1, <2>4, SrvStep DEF NetworkInv
  <2>5. CASE game = "tcp_udp"
    BY <1>1, <2>1, <2>5, SelStep DEF NetworkInv
  <2>6. QED
    BY <2>2, <2>3, <2>4, <2>5 DEF NtGames
<1>5. QED
  BY <1>2, <1>3, <1>4, OneOfNetwork

\* NtAreRight, for every number of rounds and length of a message: client and
\* server of udp_ping and of tcp_ping are in the same round or as far apart as
\* what was lost or came in parts allows; each client of tcp_servers is heard
\* once; the select loop of SERVER_TCP_UDP answers nobody.
THEOREM NetworkIsRight == ExercisesSpec => [](game \in NtGames => NtAreRight)
<1> DEFINE Inv == game \in NtGames => NetworkInv
<1>1. ExercisesInit => Inv
  BY NetworkBegins, UdpBegins, TcpBegins, SrvBegins, SelBegins DEF NetworkInv
<1>2. ASSUME Inv, [ExercisesNext]_allVars PROVE Inv'
  <2>1. game' = game
    BY <1>2, OneProgram
  <2>2. CASE game \in NtGames
    BY <1>2, <2>2, NetworkSteps
  <2>3. CASE game \notin NtGames
    BY <2>1, <2>3
  <2>4. QED
    BY <2>2, <2>3
<1>3. Inv => (game \in NtGames => NtAreRight)
  BY UdpTogether, TcpTogether, SrvIsHeard, SelAnswers DEF NetworkInv, NtAreRight
<1> HIDE DEF Inv
<1>4. QED
  BY <1>1, <1>2, <1>3, PTL DEF ExercisesSpec

-----------------------------------------------------------------------------
\* OnePrints: the semaphore of IPCpingpong.cpp is one only while nobody prints.
THEOREM IpcTakesTurns == ExercisesSpec => [](game = "ipc" => OnePrints)
<1> DEFINE Inv == game = "ipc" => IpcInv
<1>1. ExercisesInit => Inv
  BY OneBeginning, IpcBegins DEF PrGames
<1>2. ASSUME Inv, [ExercisesNext]_allVars PROVE Inv'
  <2>1. game' = game
    BY <1>2, OneProgram
  <2>2. CASE game = "ipc"
    <3>1. IpcInv /\ DOMAIN at = {1, 2}
      BY <1>2, <2>2 DEF IpcInv
    <3>2. CASE \E t \in DOMAIN at : PrStep(t)
      <4>1. PICK t \in {1, 2} : Ipc(t)
        BY <2>2, <3>1, <3>2 DEF PrStep
      <4>2. QED
        BY <3>1, <4>1, IpcStep
    <3>3. CASE UNCHANGED exVars
      BY <3>1, <3>3 DEF exVars, IpcInv
    <3>4. QED
      BY <1>2, <2>2, <3>2, <3>3, OneProgram DEF PrGames
  <2>3. CASE game # "ipc"
    BY <2>1, <2>3
  <2>4. QED
    BY <2>2, <2>3
<1>3. Inv => (game = "ipc" => OnePrints)
  BY IpcCounts
<1> HIDE DEF Inv
<1>4. QED
  BY <1>1, <1>2, <1>3, PTL DEF ExercisesSpec

-----------------------------------------------------------------------------
\* SemaphoreIsSum, for any largest value and any commands of the two processes.
THEOREM SemaphoreSums == ExercisesSpec => [](game = "semaphore" => SemaphoreIsSum)
<1> DEFINE Inv == game = "semaphore" => SumInv
<1>1. ExercisesInit => Inv
  BY OneBeginning, SemBegins DEF PrGames
<1>2. ASSUME Inv, [ExercisesNext]_allVars PROVE Inv'
  <2>1. game' = game
    BY <1>2, OneProgram
  <2>2. CASE game = "semaphore"
    <3>1. SumInv /\ DOMAIN at = {1, 2}
      BY <1>2, <2>2 DEF SumInv, SemTypes
    <3>2. CASE \E t \in DOMAIN at : PrStep(t)
      <4>1. PICK t \in {1, 2} : Semaphore(t)
        BY <2>2, <3>1, <3>2 DEF PrStep
      <4>2. QED
        BY <3>1, <4>1, SemAsks, SemSets, SemUndoes, SemLeaves DEF Semaphore
    <3>3. CASE UNCHANGED exVars
      BY <3>1, <3>3 DEF exVars, SumInv, SemTypes, SemBalanced
    <3>4. QED
      BY <1>2, <2>2, <3>2, <3>3, OneProgram DEF PrGames
  <2>3. CASE game # "semaphore"
    BY <2>1, <2>3
  <2>4. QED
    BY <2>2, <2>3
<1>3. Inv => (game = "semaphore" => SemaphoreIsSum)
  BY DEF SumInv, SemBalanced, SemaphoreIsSum
<1> HIDE DEF Inv
<1>4. QED
  BY <1>1, <1>2, <1>3, PTL DEF ExercisesSpec

-----------------------------------------------------------------------------
\* Programs with threads.
LEMMA OneOfThreads ==
    ASSUME [ExercisesNext]_allVars, game \in {"dictionary", "spinlock", "tasks"}
    PROVE (\E t \in DOMAIN at : ThStep(t)) \/ UNCHANGED exVars
<1> USE DEF ExGames, PrGames, NtGames, ThGames
<1>1. CASE UNCHANGED allVars
  BY <1>1 DEF allVars
<1>2. CASE PgNext \/ RamNext
  BY <1>2 DEF PgNext, RamNext
<1>3. CASE \E t \in DOMAIN at : ThreadStep(t)
  BY <1>3 DEF ThreadStep
<1>4. CASE ThMay
  BY <1>4 DEF ThMay
<1>5. QED
  BY <1>1, <1>2, <1>3, <1>4 DEF ExercisesNext

LEMMA OneOfLogger ==
    ASSUME [ExercisesNext]_allVars, game = "logger"
    PROVE (\E t \in DOMAIN at : ThStep(t)) \/ ThMay \/ UNCHANGED exVars
<1> USE DEF ExGames, PrGames, NtGames, ThGames
<1>1. CASE UNCHANGED allVars
  BY <1>1 DEF allVars
<1>2. CASE PgNext \/ RamNext
  BY <1>2 DEF PgNext, RamNext
<1>3. CASE \E t \in DOMAIN at : ThreadStep(t)
  BY <1>3 DEF ThreadStep
<1>4. QED
  BY <1>1, <1>2, <1>3 DEF ExercisesNext

\* TasksHaveTheirUids: a uid is given once, memory is kept only for a task, and
\* whatever fails the mutex is given back; for any number of tasks a thread
\* makes.
THEOREM TasksAreApart == ExercisesSpec => [](game = "tasks" => TasksHaveTheirUids)
<1> DEFINE Inv == game = "tasks" => TkInv
<1>1. ExercisesInit => Inv
  BY TkBegins DEF ExercisesInit, ExInit, PrInit, PgInit, RamInit, NtInit, NbdInit, RpInit,
                  ExGames, PrGames, NtGames
<1>2. ASSUME Inv, [ExercisesNext]_allVars PROVE Inv'
  <2>1. game' = game
    BY <1>2, OneProgram
  <2>2. CASE game = "tasks"
    <3>1. TkInv /\ DOMAIN at = 1..3
      BY <1>2, <2>2 DEF TkInv, TkTypes
    <3>2. (\E t \in DOMAIN at : ThStep(t)) \/ UNCHANGED exVars
      BY <1>2, <2>2, OneOfThreads
    <3>3. CASE \E t \in DOMAIN at : ThStep(t)
      <4>1. PICK t \in 1..3 : TaskMaker(t)
        BY <2>2, <3>1, <3>3 DEF ThStep
      <4>2. QED
        BY <3>1, <4>1, TkStep, TkJoins DEF TkMakers
    <3>4. CASE UNCHANGED exVars
      <4>1. TkPendings' = TkPendings /\ UNCHANGED <<shared, at, hand>>
        BY <3>4 DEF exVars, TkPendings
      <4>2. QED
        BY <3>1, <4>1 DEF TkInv, TkTypes, TkLocked, TkBlocks, TkReads, TkFresh
    <3>5. QED
      BY <3>2, <3>3, <3>4
  <2>3. CASE game # "tasks"
    BY <2>1, <2>3
  <2>4. QED
    BY <2>2, <2>3
<1>3. Inv => (game = "tasks" => TasksHaveTheirUids)
  BY TkRight
<1> HIDE DEF Inv
<1>4. QED
  BY <1>1, <1>2, <1>3, PTL DEF ExercisesSpec

\* NothingIsDropped: what the producer made is in the buffer or was taken, each
\* number once, for any number of them and any buffer that has room.
THEOREM SpinlockDropsNothing == ExercisesSpec => [](game = "spinlock" => NothingIsDropped)
<1> DEFINE Inv == game = "spinlock" => SpInv
<1>1. ExercisesInit => Inv
  BY SpBegins DEF ExercisesInit, ExInit, PrInit, PgInit, RamInit, NtInit, NbdInit, RpInit,
                  ExGames, PrGames, NtGames
<1>2. ASSUME Inv, [ExercisesNext]_allVars PROVE Inv'
  <2>1. game' = game
    BY <1>2, OneProgram
  <2>2. CASE game = "spinlock"
    <3>1. SpInv /\ DOMAIN at = 1..3
      BY <1>2, <2>2 DEF SpInv, SpTypes
    <3>2. (\E t \in DOMAIN at : ThStep(t)) \/ UNCHANGED exVars
      BY <1>2, <2>2, OneOfThreads
    <3>3. CASE \E t \in DOMAIN at : ThStep(t)
      <4>1. PICK t \in 1..3 : SpRun(t)
        BY <2>2, <3>1, <3>3 DEF ThStep
      <4>2. QED
        BY <3>1, <4>1, SpStep, SpJoins DEF SpWorkers
    <3>4. CASE UNCHANGED exVars
      <4>1. UNCHANGED <<shared, at, hand>>
        BY <3>4 DEF exVars
      <4>2. QED
        BY <3>1, <4>1 DEF SpInv, SpTypes, SpLocked
    <3>5. QED
      BY <3>2, <3>3, <3>4
  <2>3. CASE game # "spinlock"
    BY <2>1, <2>3
  <2>4. QED
    BY <2>2, <2>3
<1>3. Inv => (game = "spinlock" => NothingIsDropped)
  BY SpRight
<1> HIDE DEF Inv
<1>4. QED
  BY <1>1, <1>2, <1>3, PTL DEF ExercisesSpec

\* LoggerKeepsLines: the file gets whole lines, those of a thread in its order,
\* and in the end each that passed, once, unless the stream failed; for any
\* number of lines, and whenever main changes the level.
THEOREM LoggerAlwaysKeepsLines == ExercisesSpec => [](game = "logger" => LoggerKeepsLines)
<1> DEFINE Inv == game = "logger" => LgInv
<1>1. ExercisesInit => Inv
  BY LgBegins DEF ExercisesInit, ExInit, PrInit, PgInit, RamInit, NtInit, NbdInit, RpInit,
                  ExGames, PrGames, NtGames
<1>2. ASSUME Inv, [ExercisesNext]_allVars PROVE Inv'
  <2>1. game' = game
    BY <1>2, OneProgram
  <2>2. CASE game = "logger"
    <3>1. LgInv /\ DOMAIN at = 1..3
      BY <1>2, <2>2 DEF LgInv, LgTypes
    <3>2. (\E t \in DOMAIN at : ThStep(t)) \/ ThMay \/ UNCHANGED exVars
      BY <1>2, <2>2, OneOfLogger
    <3>3. CASE \E t \in DOMAIN at : ThStep(t)
      <4>1. PICK t \in 1..3 : Logging(t)
        BY <2>2, <3>1, <3>3 DEF ThStep
      <4>2. QED
        BY <3>1, <4>1, LgStep, LgMain DEF LgOthers
    <3>4. CASE ThMay
      BY <3>1, <3>4, LgLevelSet DEF ThMay
    <3>5. CASE UNCHANGED exVars
      <4>1. UNCHANGED <<shared, at, hand>>
        BY <3>5 DEF exVars
      <4>2. QED
        BY <3>1, <4>1, LgUnchanged
    <3>6. QED
      BY <3>2, <3>3, <3>4, <3>5
  <2>3. CASE game # "logger"
    BY <2>1, <2>3
  <2>4. QED
    BY <2>2, <2>3
<1>3. Inv => (game = "logger" => LoggerKeepsLines)
  BY LgRight
<1> HIDE DEF Inv
<1>4. QED
  BY <1>1, <1>2, <1>3, PTL DEF ExercisesSpec

-----------------------------------------------------------------------------
\* The listener, and what comes from outside.
LEMMA NbdAside ==
    ASSUME NbdInv, DOMAIN shared' = NbdFields, UNCHANGED hand, NbdStill, shared'.fds = shared.fds,
           shared'.blocked = shared.blocked, DOMAIN at' = 1..2, at'[1] = at[1],
           at'[2] \in {"start", "do it", "doing", "clear", "end"},
           at[2] = "end" => at'[2] = "end", shared'.doing <=> at'[2] = "doing",
           \/ shared'.ended = shared.ended
           \/ shared'.ended = "exit"
           \/ shared'.ended = "killed" /\ ~shared.blocked
    PROVE  NbdInv'
<1>1. NbdTypes'
  BY DEF NbdInv, NbdTypes, NbdStill
<1>2. NbdEnding'
  BY DEF NbdInv, NbdEnding
<1>3. NbdFlow(at[1], hand[1].got, shared.to_app, shared.asked, shared.answers, shared.block)'
  BY DEF NbdInv, NbdStill
<1> QED
  BY <1>1, <1>2, <1>3 DEF NbdInv

LEMMA NbdKeepsListener ==
    ASSUME NbdInv, NbdRunning, NbdListenerThread
    PROVE  NbdInv'
<1>1. /\ DOMAIN at = 1..2 /\ DOMAIN shared = NbdFields
      /\ shared.doing <=> at[2] = "doing"
      /\ at[2] \in {"start", "do it", "doing", "clear", "end"}
  BY DEF NbdInv, NbdTypes, NbdEnding
<1> USE DEF NbdListener, Nothing, Sets
<1>2. ASSUME NEW from, NEW to, Moves(2, from, to), from # "end",
             to \in {"start", "do it", "doing", "clear", "end"},
             DOMAIN shared' = NbdFields, UNCHANGED hand, NbdStill, shared'.fds = shared.fds,
             shared'.blocked = shared.blocked, shared'.ended = shared.ended,
             \/ to = "doing" /\ shared'.doing
             \/ to # "doing" /\ ~shared'.doing
      PROVE  NbdInv'
  <2>1. DOMAIN at' = 1..2 /\ at'[1] = at[1] /\ at'[2] = to /\ at[2] = from
    <3>1. DOMAIN at = 1..2 /\ at' = [at EXCEPT ![2] = to] /\ at[2] = from
      BY <1>1, <1>2 DEF Moves
    <3> QED
      BY ONLY <3>1
  <2> QED
    BY <1>2, <2>1, NbdAside
<1>3. ASSUME NbdExits("exit")
      PROVE  NbdInv'
  <2>1. /\ DOMAIN shared' = NbdFields /\ UNCHANGED hand /\ NbdStill /\ shared'.fds = shared.fds
        /\ shared'.blocked = shared.blocked /\ shared'.doing = shared.doing /\ shared'.ended = "exit"
        /\ UNCHANGED at
    BY <1>1, <1>3 DEF NbdExits, NbdFields, NbdStill
  <2> QED
    BY <1>1, <2>1, NbdAside
<1>4. ASSUME NEW to \in {"do it", "end"}, Moves(2, "start", to), Nothing
      PROVE  NbdInv'
  <2>1. /\ DOMAIN shared' = NbdFields /\ UNCHANGED hand /\ NbdStill /\ shared'.fds = shared.fds
        /\ shared'.blocked = shared.blocked /\ shared'.doing = shared.doing /\ shared'.ended = shared.ended
    BY <1>1, <1>4 DEF NbdStill
  <2>2. at[2] = "start"
    BY <1>4 DEF Moves
  <2>3. to # "doing" /\ ~shared'.doing
    BY <1>1, <1>4, <2>1, <2>2
  <2> QED
    BY <1>2, <1>4, <2>1, <2>3
<1>5. CASE Moves(2, "do it", "doing") /\ Sets([shared EXCEPT !.doing = TRUE])
  <2>1. /\ DOMAIN shared' = NbdFields /\ UNCHANGED hand /\ NbdStill /\ shared'.fds = shared.fds
        /\ shared'.blocked = shared.blocked /\ shared'.doing = TRUE /\ shared'.ended = shared.ended
    BY <1>1, <1>5 DEF NbdStill, NbdFields
  <2> QED
    BY <1>2, <1>5, <2>1
<1>6. CASE Moves(2, "doing", "clear") /\ Sets([shared EXCEPT !.doing = FALSE])
  <2>1. /\ DOMAIN shared' = NbdFields /\ UNCHANGED hand /\ NbdStill /\ shared'.fds = shared.fds
        /\ shared'.blocked = shared.blocked /\ shared'.doing = FALSE /\ shared'.ended = shared.ended
    BY <1>1, <1>6 DEF NbdStill, NbdFields
  <2> QED
    BY <1>2, <1>6, <2>1
<1>7. CASE Moves(2, "clear", "end") /\ Nothing
  <2>1. /\ DOMAIN shared' = NbdFields /\ UNCHANGED hand /\ NbdStill /\ shared'.fds = shared.fds
        /\ shared'.blocked = shared.blocked /\ shared'.doing = shared.doing /\ shared'.ended = shared.ended
    BY <1>1, <1>7 DEF NbdStill
  <2>2. at[2] = "clear"
    BY <1>7 DEF Moves
  <2>3. "end" # "doing" /\ "clear" # "end" /\ ~shared'.doing
    BY <1>1, <2>1, <2>2
  <2> QED
    BY <1>2, <1>7, <2>1, <2>3
<1>8. CASE \E done \in Ioctl : Moves(2, "start", IF done THEN "do it" ELSE "end") /\ Nothing
  <2>1. PICK done \in Ioctl : Moves(2, "start", IF done THEN "do it" ELSE "end") /\ Nothing
    BY <1>8
  <2> DEFINE to == IF done THEN "do it" ELSE "end"
  <2>2. to \in {"do it", "end"} /\ Moves(2, "start", to) /\ Nothing
    BY <2>1
  <2> HIDE DEF to
  <2> QED
    BY <1>4, <2>2
<1> QED
  BY <1>3, <1>5, <1>6, <1>7, <1>8 DEF NbdListenerThread

LEMMA NbdKeepsOutside ==
    ASSUME NbdInv, NbdOutside
    PROVE  NbdInv'
<1>1. /\ DOMAIN at = 1..2 /\ DOMAIN shared = NbdFields
      /\ shared.doing <=> at[2] = "doing"
      /\ at[2] \in {"start", "do it", "doing", "clear", "end"} /\ DOMAIN hand = 1..2
      /\ DOMAIN hand[1] = {"got", "evlist"}
  BY DEF NbdInv, NbdTypes, NbdEnding
<1>2. CASE SignalHandlerDisconnectNBD
  <2>1. /\ DOMAIN shared' = NbdFields /\ UNCHANGED hand /\ NbdStill /\ shared'.fds = shared.fds
        /\ shared'.blocked = shared.blocked /\ shared'.doing = shared.doing /\ UNCHANGED at
        /\ shared'.ended = IF shared.blocked THEN shared.ended ELSE "killed"
    BY <1>1, <1>2 DEF SignalHandlerDisconnectNBD, NbdFields, NbdStill
  <2>2. shared'.ended = shared.ended \/ (shared'.ended = "killed" /\ ~shared.blocked)
    BY <2>1
  <2> QED
    BY <1>1, <2>1, <2>2, NbdAside
<1>3. CASE NbdTypesLine
  <2>1. /\ DOMAIN shared' = NbdFields /\ UNCHANGED hand /\ NbdStill /\ shared'.fds = shared.fds
        /\ shared'.blocked = shared.blocked /\ shared'.doing = shared.doing /\ UNCHANGED at
        /\ shared'.ended = shared.ended
    BY <1>1, <1>3 DEF NbdTypesLine, NbdFields, NbdStill
  <2> QED
    BY <1>1, <2>1, NbdAside
<1>4. CASE NbdAsks
  <2> DEFINE got == hand[1].got
             to == shared.to_app
             asked == shared.asked
             ans == shared.answers
             block == shared.block
  <2>1. NbdTyped(got, to, asked, ans, block) /\ NbdFlow(at[1], got, to, asked, ans, block)
    BY NbdInTypes DEF NbdInv
  <2>2. PICK type \in NbdKinds, inside \in {TRUE, shared.size} :
           shared' = [shared EXCEPT
             !.asked = Append(@, [type |-> type, inside |-> inside \/ type = "DISC"]),
             !.to_app = @ \o [j \in 1..NbdHeader |-> <<Len(shared.asked) + 1, "header">>]
                          \o (IF type = "WRITE" THEN <<<<Len(shared.asked) + 1, "data">>>> ELSE <<>>)]
    BY <1>4 DEF NbdAsks
  <2> DEFINE e == [type |-> type, inside |-> inside \/ type = "DISC"]
             more == Append(asked, e)
             on == to \o NbdSent(Len(asked)) \o NbdSentData(Len(asked), e.type = "WRITE")
  <2>3. e \in [type : NbdKinds, inside : BOOLEAN] /\ e.type = type
    OBVIOUS
  <2>4. /\ shared'.asked = more /\ shared'.to_app = on /\ shared'.answers = ans /\ shared'.block = block
        /\ DOMAIN shared' = NbdFields /\ shared'.fds = shared.fds /\ shared'.blocked = shared.blocked
        /\ shared'.doing = shared.doing /\ shared'.ended = shared.ended
    <3>1. shared' = [shared EXCEPT !.asked = more, !.to_app = on]
      BY <2>2 DEF NbdSent, NbdSentData
    <3> HIDE DEF more, on
    <3> QED
      BY <1>1, <3>1 DEF NbdFields
  <2>5. UNCHANGED at /\ UNCHANGED hand
    BY <1>4 DEF NbdAsks
  <2> HIDE DEF got, to, asked, ans, block, e
  <2>6. NbdTyped(got, on, more, ans, block) /\ NbdFlow(at[1], got, on, more, ans, block)
    BY <2>1, <2>3, NbdFlowAsks
  <2> HIDE DEF on, more
  <2>7. NbdTypes'
    BY <1>1, <2>4, <2>5, <2>6, NbdInTypes DEF NbdTypes, NbdTyped, got
  <2>8. NbdEnding'
    BY <2>4, <2>5 DEF NbdInv, NbdEnding
  <2>9. NbdFlow(at[1], hand[1].got, shared.to_app, shared.asked, shared.answers, shared.block)'
    BY <2>4, <2>5, <2>6 DEF got
  <2> QED
    BY <2>7, <2>8, <2>9 DEF NbdInv
<1> QED
  BY <1>2, <1>3, <1>4 DEF NbdOutside

LEMMA NbdKeeps == ASSUME NbdInv, NEW t, NbdStep(t) \/ NbdOutside PROVE NbdInv'
  BY NbdKeepsSetup, NbdKeepsLoop, NbdKeepsReading, NbdKeepsReply, NbdKeepsListener, NbdKeepsOutside
     DEF NbdStep, NbdMainStep

LEMMA NbdUnchanged == ASSUME NbdInv, UNCHANGED exVars PROVE NbdInv'
  BY DEF exVars, NbdInv, NbdTypes, NbdEnding

\* The block of the last WRITE before a request is the only one that can be stored.
LEMMA NbdStoredIs ==
    ASSUME NEW b, NEW n, NEW asked, asked = shared.asked, NbdStored(b, asked, n - 1)
    PROVE  b = BlockBefore(n)
<1> DEFINE S == NbdWrites(asked, n - 1)
<1>1. BlockBefore(n) = Max(S)
  BY DEF BlockBefore, NbdWrites
<1>2. b \in S /\ \A y \in S : y <= b
  BY DEF NbdStored
<1>3. \A x \in S : x \in Int
  BY DEF NbdWrites, Unwritten
<1> HIDE DEF S
<1>4. Max(S) \in S /\ \A y \in S : Max(S) >= y
  <2>1. \E x \in S : \A y \in S : x >= y
    BY <1>2, <1>3
  <2> QED
    BY <2>1 DEF Max
<1> QED
  BY <1>1, <1>2, <1>3, <1>4

LEMMA NbdRight == NbdInv => NbdAnswersInOrder
<1> SUFFICES ASSUME NbdInv PROVE NbdAnswersInOrder
  OBVIOUS
<1> DEFINE ans == shared.answers
           heads == NbdHeadsOf(ans)
<1>1. \E d \in Nat : NbdAnswered(ans, shared.asked, d)
  <2>1. Len(shared.asked) \in Nat
    <3> DEFINE R == [type : NbdKinds, inside : BOOLEAN]
    <3>1. shared.asked \in Seq(R)
      BY DEF NbdInv, NbdTypes, NbdAsked
    <3> HIDE DEF R
    <3> QED
      BY ONLY <3>1
  <2>2. CASE at[1] \in NbdOver
    <3>1. at[1] \notin NbdResting \cup NbdReading
      BY <2>2 DEF NbdResting, NbdReading, NbdOver, NbdSettingUp
    <3> QED
      BY <2>1, <3>1 DEF NbdInv, NbdFlow
  <2>3. CASE at[1] \notin NbdOver
    <3>1. PICK d \in 0 .. Len(shared.asked), f \in [Nat -> Nat] :
             NbdPlaced(at[1], hand[1].got, shared.asked, ans, shared.block, d, f)
      BY <2>3 DEF NbdInv, NbdFlow
    <3>2. NbdAnswered(ans, shared.asked, IF at[1] = "more" THEN d + 1 ELSE d)
      BY <3>1 DEF NbdPlaced
    <3>3. d \in Nat /\ d + 1 \in Nat
      BY <2>1
    <3> QED
      BY <3>2, <3>3
  <2> QED
    BY <2>2, <2>3
<1>2. PICK d \in Nat : NbdAnswered(ans, shared.asked, d)
  BY <1>1
<1>3. heads = {k \in DOMAIN ans : ans[k].part = "header"}
  BY DEF NbdHeadsOf
<1>4. \A j, k \in heads : j < k => ans[j].of < ans[k].of
  BY <1>2 DEF NbdAnswered
<1>5. \A k \in heads : \A n \in 1 .. ans[k].of : \E j \in heads : ans[j].of = n
  <2>1. \A k \in heads : ans[k].of \in 1..d
    BY <1>2 DEF NbdAnswered
  <2>2. \A k \in heads : \A n \in 1 .. ans[k].of : n \in 1..d
    BY <2>1
  <2>3. \A n \in 1..d : \E j \in heads : ans[j].of = n
    BY <1>2 DEF NbdAnswered
  <2> QED
    BY <2>2, <2>3
<1>6. ASSUME NEW k \in DOMAIN ans \ heads
      PROVE  ans[k].block = BlockBefore(ans[k].of) /\ k - 1 \in heads /\ ans[k - 1].of = ans[k].of
  <2>1. NbdStored(ans[k].block, shared.asked, ans[k].of - 1) /\ k - 1 \in heads /\ ans[k - 1].of = ans[k].of
    BY <1>2 DEF NbdAnswered
  <2> HIDE DEF ans
  <2>2. ans[k].block = BlockBefore(ans[k].of)
    BY <2>1, NbdStoredIs
  <2> QED
    BY <2>1, <2>2
<1>7. /\ shared.ended = "killed" => ~shared.blocked
      /\ shared.ended = "returned" => /\ at[NbdListener] = "end" /\ ~shared.doing
                                      /\ shared.fds = {"epoll"}
  BY DEF NbdInv, NbdEnding, NbdListener
<1> HIDE DEF heads
<1> QED
  BY <1>3, <1>4, <1>5, <1>6, <1>7 DEF NbdAnswersInOrder

LEMMA OneOfDevice ==
    ASSUME [ExercisesNext]_allVars, game \in {"nbd", "replies"}
    PROVE \/ game = "nbd" /\ \E t \in DOMAIN at : NbdStep(t)
          \/ game = "nbd" /\ NbdOutside
          \/ game = "replies" /\ \E t \in DOMAIN at : RpStep(t)
          \/ UNCHANGED exVars
<1> USE DEF ExGames, PrGames, NtGames, ThGames, exVars
<1>1. CASE UNCHANGED allVars
  BY <1>1 DEF allVars
<1>2. CASE game = "exercise6" /\ Next /\ UNCHANGED exVars
  BY <1>2
<1>3. CASE PgNext
  BY <1>3 DEF PgNext
<1>4. CASE RamNext
  BY <1>4 DEF RamNext
<1>5. CASE \/ game = "tcp_udp" /\ SelTypes /\ UNCHANGED game
           \/ game = "nbd" /\ NbdOutside /\ UNCHANGED game
           \/ ThMay /\ UNCHANGED game
  BY <1>5 DEF ThMay
<1>6. CASE \E t \in DOMAIN at : ThreadStep(t)
  BY <1>6 DEF ThreadStep
<1>7. QED
  BY <1>1, <1>2, <1>3, <1>4, <1>5, <1>6 DEF ExercisesNext

\* RepliesAreWhole: the bytes of a reply are in order and none is missing when it
\* is sent, and those of a reply sent alone in one piece; for any requests and
\* workers, any length of a reply and however little each write takes.
THEOREM RepliesAreAlwaysWhole == ExercisesSpec => [](game = "replies" => RepliesAreWhole)
<1> DEFINE Inv == game = "replies" => RpInv
<1>1. ExercisesInit => Inv
  BY RpBegins DEF ExercisesInit, ExInit, PrInit, PgInit, RamInit, NtInit, NbdInit, ThInit,
                  ExGames, PrGames, NtGames, ThGames
<1>2. ASSUME Inv, [ExercisesNext]_allVars PROVE Inv'
  <2>1. game' = game
    BY <1>2, OneProgram
  <2>2. CASE game = "replies"
    <3>1. RpInv /\ DOMAIN at = RpWorkers
      BY <1>2, <2>2 DEF RpInv, RpTypes
    <3>2. (\E t \in DOMAIN at : RpStep(t)) \/ UNCHANGED exVars
      BY <1>2, <2>2, OneOfDevice
    <3>3. CASE \E t \in DOMAIN at : RpStep(t)
      BY <2>1, <3>1, <3>3, RpKeeps
    <3>4. CASE UNCHANGED exVars
      BY <3>1, <3>4, RpUnchanged
    <3>5. QED
      BY <3>2, <3>3, <3>4
  <2>3. CASE game # "replies"
    BY <2>1, <2>3
  <2>4. QED
    BY <2>2, <2>3
<1>3. Inv => (game = "replies" => RepliesAreWhole)
  BY RpRight
<1> HIDE DEF Inv
<1>4. QED
  BY <1>1, <1>2, <1>3, PTL DEF ExercisesSpec

\* NbdAnswersInOrder: each request is answered once and in order, a READ with the
\* block as the last WRITE before it left it, and the descriptors, the listener
\* and the ways in which the program may end are in step; for any number of
\* requests and any parts in which they are read.
THEOREM DeviceAnswersInOrder == ExercisesSpec => [](game = "nbd" => NbdAnswersInOrder)
<1> DEFINE Inv == game = "nbd" => NbdInv
<1>1. ExercisesInit => Inv
  BY NbdBegins DEF ExercisesInit, ExInit, PrInit, PgInit, RamInit, NtInit, RpInit, ThInit,
                   ExGames, PrGames, NtGames, ThGames
<1>2. ASSUME Inv, [ExercisesNext]_allVars PROVE Inv'
  <2>1. game' = game
    BY <1>2, OneProgram
  <2>2. CASE game = "nbd"
    <3>1. NbdInv
      BY <1>2, <2>2
    <3>2. (\E t \in DOMAIN at : NbdStep(t)) \/ NbdOutside \/ UNCHANGED exVars
      BY <1>2, <2>2, OneOfDevice
    <3>3. CASE (\E t \in DOMAIN at : NbdStep(t)) \/ NbdOutside
      BY <3>1, <3>3, NbdKeeps
    <3>4. CASE UNCHANGED exVars
      BY <3>1, <3>4, NbdUnchanged
    <3>5. QED
      BY <2>1, <3>2, <3>3, <3>4
  <2>3. CASE game # "nbd"
    BY <2>1, <2>3
  <2>4. QED
    BY <2>2, <2>3
<1>3. Inv => (game = "nbd" => NbdAnswersInOrder)
  BY NbdRight
<1> HIDE DEF Inv
<1>4. QED
  BY <1>1, <1>2, <1>3, PTL DEF ExercisesSpec

\* HistogramIsRight, for a file of any size and any number of chars: of those
\* from 0 on, and in the runs that live to print.
THEOREM HistogramsAreRight == ExercisesSpec => [](game = "count_sort" => HistogramIsRight)
<1> DEFINE Inv == game = "count_sort" => CsStands
<1>1. ExercisesInit => Inv
  <2>1. CsInv => DOMAIN at = 1..3
    BY DEF CsInv, CsTypes
  <2>2. QED
    BY <2>1, OneBeginning, CsBegins DEF PrGames, CsStands
<1>2. ASSUME Inv, [ExercisesNext]_allVars PROVE Inv'
  <2>1. game' = game
    BY <1>2, OneProgram
  <2>2. CASE game = "count_sort"
    <3>1. CsStands /\ DOMAIN at = 1..3
      BY <1>2, <2>2 DEF CsStands
    <3>2. CASE \E t \in DOMAIN at : PrStep(t)
      <4>1. PICK t \in 1..3 : CountSort(t)
        BY <2>2, <3>1, <3>2 DEF PrStep
      <4>2. QED
        BY <3>1, <4>1, CsKeeps
    <3>3. CASE UNCHANGED exVars
      <4>1. CsLocals' = CsLocals /\ CsDone' = CsDone /\ UNCHANGED <<shared, at, hand>>
        BY <3>3 DEF exVars, CsLocals, CsDone
      <4>2. CsInv => CsInv'
        BY <4>1 DEF CsInv, CsTypes, CsLocked, CsThreadsAre, CsThreadIs, CsSums, CsAdded
      <4>3. QED
        BY <3>1, <4>1, <4>2 DEF CsStands, CsCrashed
    <3>4. QED
      BY <1>2, <2>2, <3>2, <3>3, OneProgram DEF PrGames
  <2>3. CASE game # "count_sort"
    BY <2>1, <2>3
  <2>4. QED
    BY <2>2, <2>3
<1>3. Inv => (game = "count_sort" => HistogramIsRight)
  BY CsRight DEF CsStands, CsCrashed, HistogramIsRight, CsMain
<1> HIDE DEF Inv
<1>4. QED
  BY <1>1, <1>2, <1>3, PTL DEF ExercisesSpec

-----------------------------------------------------------------------------
\* The programs that the theorems above are about.
ProvedPrograms == NtGames \cup {"exercise3", "exercise4", "semaphore", "ping_pong", "ipc",
                                "count_sort", "storage", "tasks", "spinlock", "logger",
                                "nbd", "replies"}

\* ExercisesAreSafe in each of these programs, for all sizes and lengths: what is
\* sent arrives once and in order, semaphores count what they say, turns
\* alternate, a histogram that is printed is right about the chars from 0 on (a
\* byte from 128 on is in no count and may end the process), tasks are apart, a
\* spinlock guards what it should, a log has every line whole, requests are
\* answered in order and replies whole unless a write fails, and a storage gives
\* back what was written; each where its own property has no exception.
THEOREM ProvedProgramsAreSafe ==
    ExercisesSpec => [](game \in ProvedPrograms => ExercisesAreSafe)
<1>1. ASSUME /\ game = "exercise3" => ExNumbersArrive
             /\ game = "exercise4" => ExNumbersArrive
             /\ game = "semaphore" => SemaphoreIsSum
             /\ game = "ping_pong" => TurnsAlternate
             /\ game = "ipc" => OnePrints
             /\ game = "count_sort" => HistogramIsRight
             /\ game \in NtGames => NtAreRight
             /\ game = "tasks" => TasksHaveTheirUids
             /\ game = "spinlock" => NothingIsDropped
             /\ game = "logger" => LoggerKeepsLines
             /\ game = "nbd" => NbdAnswersInOrder
             /\ game = "replies" => RepliesAreWhole
             /\ StorageIsADisk
      PROVE game \in ProvedPrograms => ExercisesAreSafe
  <2> HAVE game \in ProvedPrograms
  <2>1. game \in ExGames => ExNumbersArrive
    BY <1>1 DEF ProvedPrograms, ExGames, NtGames
  <2>2. game \in PrGames => PrAreRight
    BY <1>1 DEF ProvedPrograms, PrGames, NtGames, PrAreRight
  <2>3. ThAreRight
    BY <1>1 DEF ProvedPrograms, NtGames, ThAreRight
  <2>4. QED
    BY <1>1, <2>1, <2>2, <2>3 DEF ExercisesAreSafe
<1>2. QED
  BY <1>1, Exercise3Arrives, Exercise4Arrives, SemaphoreSums, PingPongTakesTurns,
     IpcTakesTurns, HistogramsAreRight, NetworkIsRight, TasksAreApart, SpinlockDropsNothing,
     LoggerAlwaysKeepsLines, DeviceAnswersInOrder, RepliesAreAlwaysWhole,
     StorageIsAlwaysADisk, PTL
=============================================================================

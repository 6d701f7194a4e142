------------------------------ MODULE Storage -------------------------------
(***************************************************************************)
(* Daniel/final_project/concrete/src/ram_storage.cpp as the two workers of *)
(* a pool use it, which nothing keeps apart: the bytes of a request are    *)
(* copied one by one.  Offset and length come from the socket, and their   *)
(* sum is a size_t, taken modulo RamWord.                                  *)
(***************************************************************************)
EXTENDS Exercise

CONSTANTS RamSize,     \* the size of the storage
          RamWord,     \* that of size_t, in which offset and length are added
          RamOffsets,  \* what is asked for
          RamLengths,
          RamWorkers

ASSUME StorageAssumption == /\ RamSize \in Nat /\ RamWord \in Nat /\ RamSize < RamWord
                            /\ RamOffsets \subseteq 0 .. RamWord - 1
                            /\ RamLengths \subseteq 1 .. RamWord - 1

Absent == 0    \* no worker's byte: workers write their number

NoAccess == [type |-> "none", offset |-> 0, len |-> 0, m_data |-> <<>>, met |-> FALSE]

\* disk has the bytes as the requests order them, mixed those that two writes
\* at once have left to chance; met: a read that a write of its bytes has met.
RamInit == /\ game = "storage"
           /\ at = [w \in RamWorkers |-> "pop"]
           /\ hand = [w \in RamWorkers |-> NoAccess]
           /\ shared = [m_storage |-> [b \in 0 .. RamSize - 1 |-> Absent],
                        disk |-> [b \in 0 .. RamSize - 1 |-> Absent],
                        mixed |-> {}, ended |-> "no"]

Bytes(h) == h.offset .. h.offset + h.len - 1

\* Another worker is in an access of the given type to one of h's bytes.
Meets(w, h, type) == \E v \in RamWorkers \ {w} :
    at[v] # "pop" /\ hand[v].type = type /\ Bytes(hand[v]) \cap Bytes(h) # {}

\* Mutated form: the last byte is left out of the check.
InRangeShort(h) == (h.offset + h.len - 1) % RamWord <= RamSize

\* The check of Read and of Write, which throws what no worker catches.
InRange(h) == (h.offset + h.len) % RamWord <= RamSize

\* A worker starts with a request; when the sum has wrapped, it will copy to
\* and from where the storage is not.
Access(w) ==
    \E type \in {"READ", "WRITE"}, offset \in RamOffsets, len \in RamLengths :
       LET h == [NoAccess EXCEPT !.type = type, !.offset = offset, !.len = len]
       IN  IF ~InRange(h)
           THEN /\ shared' = [shared EXCEPT !.ended = "thrown"]
                /\ UNCHANGED <<at, hand>>
           ELSE /\ Moves(w, "pop", "copy")
                /\ hand' = [v \in RamWorkers |->
                      IF v = w THEN [h EXCEPT !.met = Meets(w, h, "WRITE")]
                      ELSE [hand[v] EXCEPT !.met = @ \/
                               (type = "WRITE" /\ Bytes(hand[v]) \cap Bytes(h) # {})]]
                /\ shared' = [shared EXCEPT
                      !.disk = [b \in DOMAIN @ |-> IF type = "WRITE" /\ b \in Bytes(h)
                                                   THEN w ELSE @[b]],
                      !.mixed = IF type = "READ" THEN @
                                ELSE IF Meets(w, h, "WRITE") THEN @ \cup Bytes(h)
                                ELSE @ \ Bytes(h)]

\* std::copy, the next byte of a read or of a write.
CopyByte(w) ==
    LET h == hand[w]
        b == h.offset + Len(h.m_data)
        byte == IF h.type = "READ" THEN shared.m_storage[b] ELSE w
    IN  IF b >= RamSize
        THEN shared' = [shared EXCEPT !.ended = "astray"] /\ UNCHANGED <<at, hand>>
        ELSE /\ Moves(w, "copy", IF Len(h.m_data) + 1 = h.len THEN "reply" ELSE "copy")
             /\ Holds(w, [h EXCEPT !.m_data = Append(@, byte)])
             /\ shared' = [shared EXCEPT !.m_storage[b] = IF h.type = "READ" THEN @ ELSE w]

\* The worker has replied and pops its next task.
Replied(w) == /\ Moves(w, "reply", "pop") /\ Holds(w, NoAccess) /\ UNCHANGED shared

RamNext == /\ game = "storage" /\ UNCHANGED game /\ shared.ended = "no"
           /\ \E w \in RamWorkers : \/ at[w] = "pop" /\ Access(w)
                                    \/ at[w] = "copy" /\ CopyByte(w)
                                    \/ Replied(w)

-----------------------------------------------------------------------------
\* A read that no write of its bytes has met gives the last bytes written,
\* whatever the other worker does elsewhere; a copy leaves the storage only
\* after a sum that has wrapped.
StorageIsADisk ==
    game = "storage" =>
       /\ \A w \in RamWorkers :
             at[w] = "reply" /\ hand[w].type = "READ" /\ ~hand[w].met =>
                \A k \in 1 .. hand[w].len :
                   LET b == hand[w].offset + k - 1
                   IN  b \in shared.mixed \/ hand[w].m_data[k] = shared.disk[b]
       /\ shared.ended = "astray" =>
             \E w \in RamWorkers : at[w] = "copy" /\ hand[w].offset + hand[w].len >= RamWord
=============================================================================

------------------------------ MODULE Strings -------------------------------
(***************************************************************************)
(* Daniel/cpp/src: hrd_string_rc.cpp ("rc"), strings that share a counted  *)
(* buffer until one of them is written to, and hrd_string.cpp ("plain"),   *)
(* strings with a buffer each.  A text is one of the Values.               *)
(***************************************************************************)
EXTENDS Library

CONSTANTS StrNames,   \* bound: the String objects
          StrTexts    \* bound: the texts, numbers from 1

ASSUME StringsAssumption == IsFiniteSet(StrNames) /\ StrTexts \subseteq Nat \ {0}

\* str holds each object's buffer, NULL for one that is not constructed;
\* reference is the buffer that a char& returned by operator[] refers to.
StInit == /\ \E v \in {"rc", "plain"} :
                store = [v |-> v, str |-> [s \in StrNames |-> NULL],
                         m_ref_count |-> [b \in 1..Cells |-> 0],
                         buffer |-> [b \in 1..Cells |-> 0], used |-> {},
                         reference |-> NULL, crashed |-> FALSE]
          /\ log = [s \in StrNames |-> NULL]

StLive(m) == {s \in StrNames : m.str[s] # NULL}

Attach(m, b) == [m EXCEPT !.m_ref_count[b] = @ + 1]

DetachNDestroy(m, b) ==
    LET n == m.m_ref_count[b] - 1
    IN  [m EXCEPT !.m_ref_count[b] = n, !.used = IF n = 0 THEN @ \ {b} ELSE @,
                  !.reference = IF n = 0 /\ @ = b THEN NULL ELSE @]

\* operator new, which may throw, and the constructor of the buffer.
AllocSharedBuffer(m) ==
    {[mem |-> [m EXCEPT !.used = @ \cup {b}, !.m_ref_count[b] = 0], buf |-> b] : b \in UNION Malloc(m.used)}

\* When operator new throws there is no object and no buffer.
InitNewSharedBuf(m, text) ==
    {[n EXCEPT !.mem.buffer[n.buf] = text] : n \in AllocSharedBuffer(m)}

RcConstruct(m, s, text) ==
    {m} \cup {[Attach(n.mem, n.buf) EXCEPT !.str[s] = n.buf] : n \in InitNewSharedBuf(m, text)}

RcCopy(m, s, o) == {[Attach(m, m.str[o]) EXCEPT !.str[s] = m.str[o]]}

\* Mutated form: the old buffer is detached before the new one is attached.
RcAssignDetachFirst(m, s, o) ==
    LET new == m.str[o] IN {[Attach(DetachNDestroy(m, m.str[s]), new) EXCEPT !.str[s] = new]}

\* operator=: attaching first is what makes an assignment to itself harmless.
RcAssign(m, s, o) ==
    LET new == m.str[o] IN {[DetachNDestroy(Attach(m, new), m.str[s]) EXCEPT !.str[s] = new]}

RcDestroy(m, s) == [DetachNDestroy(m, m.str[s]) EXCEPT !.str[s] = NULL]

IsSinglyAttached(m, b) == m.m_ref_count[b] = 1

\* The operator[] that returns a char&, and the write through it.
RcWrite(m, s, text) ==
    LET old == m.str[s]
        separate == IF IsSinglyAttached(m, old) THEN {[mem |-> m, buf |-> old]}
                    ELSE {[mem |-> Attach(DetachNDestroy(n.mem, old), n.buf), buf |-> n.buf]
                            : n \in InitNewSharedBuf(m, m.buffer[old])}
    IN  {m} \cup {[n.mem EXCEPT !.str[s] = n.buf, !.buffer[n.buf] = text, !.reference = n.buf]
                    : n \in separate}

\* What the operators that only read see: texts are ordered like their numbers,
\* as strcmp orders them.
ToCStr(m, s)        == m.buffer[m.str[s]]
StrEqual(m, s, o)    == ToCStr(m, s) = ToCStr(m, o)
StrNotEqual(m, s, o) == ~StrEqual(m, s, o)
StrGreater(m, s, o)  == ToCStr(m, s) > ToCStr(m, o)
StrLess(m, s, o)     == StrGreater(m, o, s)

-----------------------------------------------------------------------------
\* hrd_string.cpp: a nothrow new that gives NULL is copied to all the same.
AllocAndCpy(m, text) == {[mem |-> [m EXCEPT !.crashed = TRUE], buf |-> NULL]}
                        \cup InitNewSharedBuf(m, text)

PlainConstruct(m, s, text) == {[n.mem EXCEPT !.str[s] = n.buf] : n \in AllocAndCpy(m, text)}

PlainCopy(m, s, o) == PlainConstruct(m, s, m.buffer[m.str[o]])

\* The copy is made before the old buffer is deleted.
PlainAssign(m, s, o) ==
    {[n.mem EXCEPT !.str[s] = n.buf, !.used = @ \ {m.str[s]}]
       : n \in AllocAndCpy(m, m.buffer[m.str[o]])}

PlainDestroy(m, s) == [m EXCEPT !.used = @ \ {m.str[s]}, !.str[s] = NULL]

-----------------------------------------------------------------------------
\* What s holds after a call that may have failed.
StTake(s, text) == log' = [log EXCEPT ![s] = IF store'.str[s] = NULL THEN NULL ELSE text]

StConstruct(s, text) ==
    /\ store.str[s] = NULL
    /\ \E m \in IF store.v = "rc" THEN RcConstruct(store, s, text)
                ELSE PlainConstruct(store, s, text) : store' = m
    /\ StTake(s, text)

StCopy(s, o) ==
    /\ store.str[s] = NULL /\ store.str[o] # NULL
    /\ \E m \in IF store.v = "rc" THEN RcCopy(store, s, o) ELSE PlainCopy(store, s, o) :
          store' = m
    /\ StTake(s, log[o])

StAssign(s, o) ==
    /\ store.str[s] # NULL /\ store.str[o] # NULL
    /\ \E m \in IF store.v = "rc" THEN RcAssign(store, s, o) ELSE PlainAssign(store, s, o) :
          store' = m
    /\ StTake(s, log[o])

StDestroy(s) == /\ store.str[s] # NULL
                /\ store' = IF store.v = "rc" THEN RcDestroy(store, s) ELSE PlainDestroy(store, s)
                /\ log' = [log EXCEPT ![s] = NULL]

\* A throw leaves the string as it was.
StWrite(s, text) ==
    /\ store.v = "rc" /\ store.str[s] # NULL
    /\ \E m \in RcWrite(store, s, text) : store' = m
    /\ log' = IF store' = store THEN log ELSE [log EXCEPT ![s] = text]

\* A kept char& writes to a buffer that may be shared by now: to all who share
\* it, which the client has to know.
StWriteKept(text) ==
    LET b == store.reference IN
    /\ b # NULL
    /\ store' = [store EXCEPT !.buffer[b] = text]
    /\ log' = [s \in StrNames |-> IF store.str[s] = b THEN text ELSE log[s]]

StNext == /\ ~store.crashed
          /\ \E s, o \in StrNames, text \in StrTexts :
                StConstruct(s, text) \/ StCopy(s, o) \/ StAssign(s, o) \/ StDestroy(s)
                \/ StWrite(s, text) \/ StWriteKept(text)

\* Every string reads as what was last written to it and to no other, and
\* compares with the others as that does, shared or not; a buffer is
\* freed with its last string, not before, and its count is that of its strings
\* (in plain there is no count, and no buffer has two strings).
StringsKeepTheirText ==
    LET owners(b) == {s \in StrNames : store.str[s] = b} IN
    ~store.crashed =>
       /\ store.used = {store.str[s] : s \in StLive(store)}
       /\ \A s \in StLive(store) : ToCStr(store, s) = log[s]
       /\ \A s, o \in StLive(store) : /\ StrEqual(store, s, o) = (log[s] = log[o])
                                     /\ StrNotEqual(store, s, o) = (log[s] # log[o])
                                     /\ StrLess(store, s, o) = (log[s] < log[o])
       /\ \A b \in store.used : Cardinality(owners(b)) =
             IF store.v = "rc" THEN store.m_ref_count[b] ELSE 1
=============================================================================

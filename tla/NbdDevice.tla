----------------------------- MODULE NbdDevice ------------------------------
(***************************************************************************)
(* Daniel/final_project/concrete: the program of test/netspace_tset.cpp,   *)
(* main alone (1), with all of nbd_driver_communicator.cpp: the setting up *)
(* of the device, of which errors are only printed, the listener thread    *)
(* (2) inside NBD_DO_IT, requests that come over the socket in parts, and  *)
(* the end.  The kernel's side of the device and the terminal are external.*)
(* And "replies": the workers of a pool that reply over one such socket.   *)
(***************************************************************************)
EXTENDS Exercise

CONSTANTS NbdRequests,   \* a bound: the kernel's requests
          NbdHeader,     \* the parts in which the header of a request is read
          RpAsked,       \* the requests that the workers are to answer
          RpWorkers,     \* the workers of the pool
          RpHeader,      \* the bytes of a reply's header, and those that a READ
          RpData         \* asks for

ASSUME DeviceAssumption == /\ NbdRequests \in Nat /\ NbdHeader \in Nat \ {0}
                           /\ RpAsked \in Seq({"READ", "WRITE"}) /\ RpWorkers \subseteq Nat \ {0}
                           /\ RpHeader \in Nat \ {0} /\ RpData \in Nat \ {0}

NbdMain     == 1
NbdListener == 2

Unwritten == 0    \* what the one block of the device has at first
NbdKinds  == {"READ", "WRITE", "DISC"}   \* DISC: the kernel is told to end by others

\* asked are the kernel's requests, to_app and answers the two directions of the
\* socket pair.  fds are the descriptors that are open, blocked says whether the
\* signals are, killed and ended how the process ended.
NbdShared == [asked |-> <<>>, to_app |-> <<>>, answers |-> <<>>, block |-> Unwritten,
              fds |-> {}, m_nbd_fd_disconnect |-> FALSE, size |-> FALSE,
              blocked |-> FALSE, doing |-> FALSE, line |-> "none",
              raised |-> FALSE, ended |-> "no"]

NbdInit == /\ game = "nbd" /\ shared = NbdShared
           /\ at = <<"open", "start">>
           /\ hand = [t \in 1..2 |-> [got |-> <<>>, evlist |-> {}]]

NbdExits(how) == /\ shared' = [shared EXCEPT !.ended = how]
                 /\ UNCHANGED <<at, hand>>

\* An ioctl on the device fails when it was not opened, and may at any time.
Ioctl == {FALSE} \cup {"device" \in shared.fds}

-----------------------------------------------------------------------------
\* The constructor of FD for the device: without a device it goes on.
FD == /\ Moves(NbdMain, "open", "pair")
      /\ \E there \in BOOLEAN :
            Sets([shared EXCEPT !.fds = IF there THEN @ \cup {"device"} ELSE @])

\* Setup: socketpair and what the static m_nbd_fd_disconnect is given, the size,
\* NBD_CLEAR_SOCK, whose result is only printed, sigprocmask, the thread, which
\* inherits the mask, and sigaction.
Setup ==
    \/ /\ Moves(NbdMain, "pair", "size")
       /\ Sets([shared EXCEPT !.fds = @ \cup {"app", "nbd"},
                              !.m_nbd_fd_disconnect = "device" \in shared.fds])
    \/ /\ Moves(NbdMain, "size", "mask")
       /\ \E done \in Ioctl : Sets([shared EXCEPT !.size = done])
    \/ Moves(NbdMain, "mask", "thread") /\ Sets([shared EXCEPT !.blocked = TRUE])
    \/ Moves(NbdMain, "thread", "loop") /\ Sets([shared EXCEPT !.fds = @ \cup {"epoll"}])

\* SIGINT or SIGTERM: the default action until sigprocmask; afterwards it stays
\* pending in both threads, so that the handler is never called.
SignalHandlerDisconnectNBD ==
    /\ ~shared.raised /\ UNCHANGED <<at, hand>>
    /\ shared' = [shared EXCEPT !.raised = TRUE,
                                !.ended = IF shared.blocked THEN @ ELSE "killed"]

\* NBD_DO_IT lasts until the other end of the socket is closed or the kernel is
\* told; it may fail at once, or in the end.
NbdListenerThread ==
    \/ /\ at[NbdMain] \notin {"open", "pair", "size", "mask", "thread"}
       /\ \E done \in Ioctl : Moves(NbdListener, "start", IF done THEN "do it" ELSE "end")
       /\ Nothing
    \/ /\ Moves(NbdListener, "do it", "doing") /\ Sets([shared EXCEPT !.doing = TRUE])
    \/ at[NbdListener] = "do it" /\ NbdExits("exit")
    \/ /\ "app" \notin shared.fds \/ \E k \in DOMAIN shared.asked : shared.asked[k].type = "DISC"
       /\ \/ Moves(NbdListener, "doing", "clear") /\ Sets([shared EXCEPT !.doing = FALSE])
          \/ at[NbdListener] = "doing" /\ NbdExits("exit")
    \/ Moves(NbdListener, "clear", "end") /\ Nothing

\* The kernel sends a request, with the bytes of a WRITE after its header; not
\* beyond the size, if that was set.
NbdAsks ==
    /\ shared.doing /\ Len(shared.asked) < NbdRequests /\ "app" \in shared.fds
    /\ \A k \in DOMAIN shared.asked : shared.asked[k].type # "DISC"
    /\ UNCHANGED <<at, hand>>
    /\ \E type \in NbdKinds, inside \in {TRUE, shared.size} :
          LET n == Len(shared.asked) + 1 IN
          shared' = [shared EXCEPT
             !.asked = Append(@, [type |-> type, inside |-> inside \/ type = "DISC"]),
             !.to_app = @ \o [i \in 1..NbdHeader |-> <<n, "header">>]
                          \o (IF type = "WRITE" THEN <<<<n, "data">>>> ELSE <<>>)]

\* A line is typed.
NbdTypesLine == /\ shared.line = "none" /\ UNCHANGED <<at, hand>>
            /\ \E line \in {"q", "other"} : shared' = [shared EXCEPT !.line = line]

-----------------------------------------------------------------------------
\* Mutated form: what one read gives is taken for all.
ReadOnce(count, from, to) ==
    LET got == hand[NbdMain].got
    IN  \E n \in 1 .. Min({count - Len(got), Len(shared.to_app)}) :
           /\ Moves(NbdMain, from, to)
           /\ Holds(NbdMain, [hand[NbdMain] EXCEPT !.got = @ \o SubSeq(shared.to_app, 1, n)])
           /\ shared' = [shared EXCEPT !.to_app = SubSeq(@, n + 1, Len(@))]

\* ReadAll: the next part of what is awaited, of which a read gives any number
\* of bytes.  The socket never ends: the process has its other end open too.
ReadAll(count, from, to) ==
    LET got == hand[NbdMain].got
    IN  \E n \in 1 .. Min({count - Len(got), Len(shared.to_app)}) :
           /\ Moves(NbdMain, from, IF Len(got) + n = count THEN to ELSE from)
           /\ Holds(NbdMain, [hand[NbdMain] EXCEPT !.got = @ \o SubSeq(shared.to_app, 1, n)])
           /\ shared' = [shared EXCEPT !.to_app = SubSeq(@, n + 1, Len(@))]

\* The number of the request whose bytes main has read.
NbdNumber == hand[NbdMain].got[1][1]
NbdType   == shared.asked[NbdNumber].type

ReceiveRequest ==
    \/ ReadAll(NbdHeader, "header", "data?")
    \/ /\ Moves(NbdMain, "data?", IF NbdType = "WRITE" THEN "data" ELSE "access") /\ Nothing
    \/ ReadAll(NbdHeader + 1, "data", "access")

\* The storage throws when the request is beyond its size; main catches it and
\* returns, its objects destroyed on the way.
NbdAccess ==
    \/ /\ at[NbdMain] = "access" /\ shared.asked[NbdNumber].inside
       /\ Moves(NbdMain, "access", "reply")
       /\ Sets([shared EXCEPT !.block = IF NbdType = "WRITE" THEN NbdNumber ELSE @])
    \/ /\ at[NbdMain] = "access" /\ ~shared.asked[NbdNumber].inside
       /\ Moves(NbdMain, "access", "destroy") /\ Nothing

\* The header, and the data of a READ; a DISC is answered too.  A write that
\* fails (~sent) is only printed: after a header that was lost the data is sent.
SendReply ==
    \E sent \in BOOLEAN :
    \/ /\ Moves(NbdMain, "reply", "more") /\ UNCHANGED hand
       /\ shared' = [shared EXCEPT !.answers = Append(@, [of |-> NbdNumber, part |-> "header",
                                                          sent |-> sent])]
    \/ /\ Moves(NbdMain, "more", "next") /\ Holds(NbdMain, [hand[NbdMain] EXCEPT !.got = <<>>])
       /\ shared' = IF NbdType # "READ" THEN shared
                    ELSE [shared EXCEPT !.answers = Append(@, [of |-> NbdNumber, part |-> "data",
                                                               block |-> shared.block,
                                                               sent |-> sent])]

\* Mutated form: the socket is left open.
DisconnectJoins(from, next, to) ==
    \/ Moves(NbdMain, from, next) /\ Sets([shared EXCEPT !.m_nbd_fd_disconnect = FALSE])
    \/ at[NbdListener] = "end" /\ Moves(NbdMain, next, to) /\ Nothing

\* The driver is not asked to disconnect: the flag is cleared, main's end of the
\* socket closed and the listener joined, which that end lets return.
Disconnect(from, next, to) ==
    \/ /\ Moves(NbdMain, from, next)
       /\ Sets([shared EXCEPT !.m_nbd_fd_disconnect = FALSE, !.fds = @ \ {"app"}])
    \/ at[NbdListener] = "end" /\ Moves(NbdMain, next, to) /\ Nothing

\* main: what epoll_wait gives is handled in any order, and after q not at all.
\* The destructors at the end close the application's socket for the second and
\* third time.
NbdReady == (IF shared.line # "none" THEN {"stdin"} ELSE {})
            \cup (IF shared.to_app # <<>> THEN {"app"} ELSE {})

NbdLoop ==
    \/ /\ Moves(NbdMain, "loop", IF shared.m_nbd_fd_disconnect THEN "wait" ELSE "destroy")
       /\ Nothing
    \/ /\ NbdReady # {} /\ Moves(NbdMain, "wait", "next") /\ UNCHANGED shared
       /\ Holds(NbdMain, [hand[NbdMain] EXCEPT !.evlist = NbdReady])
    \/ /\ hand[NbdMain].evlist = {} /\ Moves(NbdMain, "next", "loop") /\ Nothing
    \/ /\ "stdin" \in hand[NbdMain].evlist
       /\ Moves(NbdMain, "next", IF shared.line = "q" THEN "disconnect" ELSE "next")
       /\ Holds(NbdMain, [hand[NbdMain] EXCEPT !.evlist = @ \ {"stdin"}])
       /\ shared' = [shared EXCEPT !.line = "none"]
    \/ /\ "app" \in hand[NbdMain].evlist
       /\ Moves(NbdMain, "next", "header") /\ UNCHANGED shared
       /\ Holds(NbdMain, [hand[NbdMain] EXCEPT !.evlist = @ \ {"app"}])
    \/ Disconnect("disconnect", "join", "loop")
    \/ Disconnect("destroy", "last join", "close")
    \/ /\ Moves(NbdMain, "close", "end")
       /\ Sets([shared EXCEPT !.fds = @ \ {"app", "nbd", "device"}, !.ended = "returned"])

NbdRunning == shared.ended = "no"

NbdMainStep == NbdRunning /\ (FD \/ Setup \/ ReceiveRequest \/ NbdAccess \/ SendReply \/ NbdLoop)

NbdStep(t) == \/ t = NbdMain /\ NbdMainStep
              \/ t = NbdListener /\ NbdRunning /\ NbdListenerThread

NbdOutside == NbdRunning /\ (SignalHandlerDisconnectNBD \/ NbdAsks \/ NbdTypesLine)

-----------------------------------------------------------------------------
\* The block that request n should find: of the last WRITE before it.
BlockBefore(n) == Max({Unwritten} \cup {k \in 1 .. n - 1 : shared.asked[k].type = "WRITE"})

\* The answers that are written, whether the socket takes them or not, are one to
\* each request, in the order of the requests, a READ's with what the WRITEs
\* before it left; a WRITE was stored by then.  A signal ends
\* the program only before it is blocked, and after an end in good order the
\* listener has left the device and nothing of it is open.
NbdAnswersInOrder ==
    LET answers == shared.answers
        heads   == {k \in DOMAIN answers : answers[k].part = "header"}
    IN  /\ \A j, k \in heads : j < k => answers[j].of < answers[k].of
        /\ \A k \in heads : \A n \in 1 .. answers[k].of : \E j \in heads : answers[j].of = n
        /\ \A k \in DOMAIN answers \ heads :
              /\ answers[k].block = BlockBefore(answers[k].of)
              /\ k - 1 \in heads /\ answers[k - 1].of = answers[k].of
        /\ shared.ended = "killed" => ~shared.blocked
        /\ shared.ended = "returned" => /\ at[NbdListener] = "end" /\ ~shared.doing
                                        /\ shared.fds = {"epoll"}

\* An answer to a request of the kernel is written, and q, or a device that was not there,
\* ends the program; unless a request beyond the size ends it, or the listener.
NbdAwaits == /\ game = "nbd"
             /\ \/ shared.asked # <<>> /\ shared.line = "none"
                \/ shared.line = "q"
                \/ at[NbdMain] = "loop" /\ ~shared.m_nbd_fd_disconnect
NbdGets == /\ game = "nbd"
           /\ \/ ~NbdRunning
              \/ /\ shared.line # "q"
                 /\ \E k \in DOMAIN shared.answers : shared.answers[k].of = Len(shared.asked)

-----------------------------------------------------------------------------
\* The workers of the request engine's pool (framework/test/re_fw_test.cpp) reply
\* at once; write may take a part of what it is given, or fail, which is only
\* printed.

RpIdle == [of |-> 0, sent |-> 0]

\* stream is what the kernel gets, each byte with its reply's number; cut are the
\* replies whose header was not written whole or of which a write failed, beside
\* those during which another one was sent.
RpInit == /\ game = "replies"
          /\ shared = [taken |-> 0, stream |-> <<>>, cut |-> {}, beside |-> {}]
          /\ at = [t \in RpWorkers |-> "idle"]
          /\ hand = [t \in RpWorkers |-> RpIdle]

RpTake(t) ==
    LET n == shared.taken + 1
        others == {hand[u].of : u \in RpWorkers \ {t}} \ {0}
    IN  /\ n \in DOMAIN RpAsked
        /\ Moves(t, "idle", "header") /\ Holds(t, [of |-> n, sent |-> 0])
        /\ shared' = [shared EXCEPT !.taken = n,
                                    !.beside = @ \cup (IF others = {} THEN {} ELSE others \cup {n})]

RpBytes(t, k) == [i \in 1..k |-> <<hand[t].of, hand[t].sent + i>>]

\* The one write of a header: a part of it, or nothing where it fails, is taken
\* for the whole.
RpHeaderStep(t) ==
    LET reads == RpAsked[hand[t].of] = "READ"
    IN  /\ Moves(t, "header", IF reads THEN "data" ELSE "idle")
        /\ \E k \in 0..RpHeader :
              shared' = [shared EXCEPT !.stream = @ \o RpBytes(t, k),
                                       !.cut = IF k < RpHeader THEN @ \cup {hand[t].of} ELSE @]
        /\ Holds(t, IF reads THEN [hand[t] EXCEPT !.sent = RpHeader] ELSE RpIdle)

\* Mutated form: what one write takes is taken for all.
WriteOnce(t) ==
    \E k \in 1 .. RpHeader + RpData - hand[t].sent :
       /\ Moves(t, "data", "idle") /\ Holds(t, RpIdle)
       /\ shared' = [shared EXCEPT !.stream = @ \o RpBytes(t, k)]

\* WriteAll: one of its writes; the first that fails is the last.
WriteAll(t) ==
    \/ /\ Moves(t, "data", "idle") /\ Holds(t, RpIdle)
       /\ shared' = [shared EXCEPT !.cut = @ \cup {hand[t].of}]
    \/ \E k \in 1 .. RpHeader + RpData - hand[t].sent :
          LET all == hand[t].sent + k = RpHeader + RpData
          IN  /\ Moves(t, "data", IF all THEN "idle" ELSE "data")
              /\ Holds(t, IF all THEN RpIdle ELSE [hand[t] EXCEPT !.sent = @ + k])
              /\ shared' = [shared EXCEPT !.stream = @ \o RpBytes(t, k)]

RpStep(t) == t \in RpWorkers /\ (RpTake(t) \/ RpHeaderStep(t) \/ WriteAll(t))

\* The bytes of a reply come in order and each once, all of them by the time its
\* worker takes another request, unless it was cut; and in one piece,
\* unless another worker replied at the same time.
RepliesAreWhole ==
    \A n \in 1 .. shared.taken :
       LET places == {i \in DOMAIN shared.stream : shared.stream[i][1] = n}
           bytes  == {shared.stream[i][2] : i \in places}
           length == RpHeader + (IF RpAsked[n] = "READ" THEN RpData ELSE 0)
       IN  /\ \A i, j \in places : i < j => shared.stream[i][2] < shared.stream[j][2]
           /\ n \notin shared.cut => \A b \in bytes : 1..b \subseteq bytes
           /\ n \notin shared.cut /\ (\A t \in RpWorkers : hand[t].of # n) => bytes = 1..length
           /\ n \notin shared.beside => \A i, j \in places : i..j \subseteq places

\* All requests are answered.
RpAwaits == game = "replies"
RpGets   == /\ game = "replies" /\ shared.taken = Len(RpAsked)
            /\ \A t \in RpWorkers : at[t] = "idle"
=============================================================================

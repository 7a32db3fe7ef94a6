------------------------------ MODULE Connection ------------------------------
(***************************************************************************)
(* ConnectionP at one node: the commands that open, use and close          *)
(* connections, the messageCache they share, and the timers that write     *)
(* transfers and strings and accept connections.  Transport is reduced to  *)
(* what its callers see: the state of each socket and what it has taken.   *)
(*                                                                         *)
(* A socket's descriptor is its place in the sequence sockets, so that     *)
(* descriptors are never 0 and never drawn twice (TcpHandshake says what   *)
(* happens otherwise).                                                     *)
(***************************************************************************)
EXTENDS CommandHandler, FiniteSetsExt

CONSTANTS
    CACHE,   \* entries of messageCache and stringCache (5)
    CHUNK,   \* bytes one write is offered (128)
    CALLS,   \* bound: connections other nodes attempt
    Ports,   \* the ports a script listens on
    NoString \* an empty entry of stringCache

ASSUME ConnectionAssumption ==
    /\ CACHE \in Nat \ {0} /\ CHUNK \in Nat \ {0} /\ CALLS \in Nat
    /\ NoString \notin Buffers
    /\ \A script \in Scripts : \A cmd \in script : cmd.id = "bytes" => cmd.transfer \in Nat

VARIABLES
    messageCache,        \* [0], [1] and [2] of each entry: fd, sent, total
    stringCache,         \* the buffer a string is in
    connectTimer, connectTimerString, acceptTimer,
    sockets,             \* Transport's table
    attempted,           \* Transport's attemptedConnections, by port
    late                 \* history: sockets whose string was read too late

timers     == <<connectTimer, connectTimerString, acceptTimer>>
connection == <<messageCache, stringCache, timers, sockets, attempted, late>>
vars       == <<handler, connection>>

Entries == 1 .. CACHE
Fds     == DOMAIN sockets

\* for is the command that made the socket, or Accept for an accepted one.
Accept == [id |-> "accept"]
\* history: number says which command a string was, written what the socket has taken:
\* the bytes of transfers, and the strings and messages it has taken something of, all
\* of it or what it had room for.
NewSocket(conn, for, state) ==
    [conn |-> conn, for |-> for, state |-> state, written |-> << >>,
     number |-> IF for.id = "hello" THEN RunningNumber ELSE 0]

\* The first empty entry from i on; there is no entry CACHE + 1, and writing to it
\* changes nothing.
Slot(cache, i)      == Min({j \in i .. CACHE : cache[j].fd = 0} \cup {CACHE + 1})
Into(table, i, new) == [j \in Entries |-> IF j = i THEN new ELSE table[j]]

\* Transport.findSocket: the newest socket of a connection, or 0.
FindSocket(conn) == Max({0} \cup {fd \in Fds : sockets[fd].conn = conn})

Established(fd) == fd \in Fds /\ sockets[fd].state = "ESTABLISHED"

\* Transport.write may take nothing: of a connection that is not established, or when
\* what was written before still fills the buffer.  The first write finds room.
Refuses(fd) == Established(fd) => sockets[fd].written # << >>

-----------------------------------------------------------------------------
(* The commands *)

TestServer(cmd) ==
    LET fd   == Len(sockets) + 1
        slot == Slot(messageCache, 1)
    IN  /\ sockets' = Append(sockets, NewSocket(cmd.conn, cmd, "LISTEN"))
        /\ messageCache' = Into(messageCache, slot, [messageCache[slot] EXCEPT !.fd = fd])
        /\ acceptTimer' = TRUE
        /\ UNCHANGED <<stringCache, connectTimer, connectTimerString, attempted, late>>

TestClientBytes(cmd) ==
    LET fd   == Len(sockets) + 1
        slot == Slot(messageCache, 1)
    IN  /\ sockets' = Append(sockets, NewSocket(cmd.conn, cmd, "SYN_SENT"))
        /\ messageCache' = Into(messageCache, slot,
                                [fd |-> fd, sent |-> 0, total |-> cmd.transfer])
        /\ connectTimer' = TRUE
        /\ UNCHANGED <<stringCache, connectTimerString, acceptTimer, attempted, late>>

\* The string is not copied: the entry points into the command's buffer b.
TestClientString(cmd, b) ==
    LET fd   == Len(sockets) + 1
        slot == Slot(messageCache, 1)
    IN  /\ sockets' = Append(sockets, NewSocket(cmd.conn, cmd, "SYN_SENT"))
        /\ messageCache' = Into(messageCache, slot, [messageCache[slot] EXCEPT !.fd = fd])
        /\ stringCache' = Into(stringCache, slot, b)
        /\ connectTimerString' = TRUE
        /\ UNCHANGED <<connectTimer, acceptTimer, attempted, late>>

\* What the write does not take of a message is lost.
SendMsg(cmd) ==
    LET fd == FindSocket(cmd.conn)
    IN  /\ \/ /\ Established(fd)
              /\ sockets' = [sockets EXCEPT ![fd].written = Append(@, cmd)]
           \/ Refuses(fd) /\ UNCHANGED sockets
        /\ UNCHANGED <<messageCache, stringCache, timers, attempted, late>>

\* The entry is cleared whether or not Transport.close succeeds.
ClientClose(cmd) ==
    LET fd == FindSocket(cmd.conn)
    IN  /\ sockets' = IF Established(fd)
                      THEN [sockets EXCEPT ![fd].state = "CLOSED"] ELSE sockets
        /\ messageCache' = [i \in Entries |->
                IF messageCache[i].fd = fd THEN [messageCache[i] EXCEPT !.fd = 0]
                                           ELSE messageCache[i]]
        /\ UNCHANGED <<stringCache, timers, attempted, late>>

\* The task and Node's handler of the event it signals.
RunCommand ==
    /\ ProcessCommand
    /\ \/ Running.id = "server" /\ TestServer(Running)
       \/ Running.id = "bytes"  /\ TestClientBytes(Running)
       \/ Running.id = "hello"  /\ TestClientString(Running, Head(queue))
       \/ Running.id = "msg"    /\ SendMsg(Running)
       \/ Running.id = "close"  /\ ClientClose(Running)
       \/ Running.id = "dump"   /\ UNCHANGED connection

-----------------------------------------------------------------------------
(* The timers *)

\* connectTimerString.fired: Transport.write takes something of the strings at the
\* entries taken, whose rest is dropped, and nothing of the others, which are tried again.
ConnectTimerStringFired ==
    LET waiting == {i \in Entries : messageCache[i].fd # 0 /\ stringCache[i] # NoString}
    IN  \E taken \in SUBSET waiting :
            LET Of(fd) == {i \in taken : messageCache[i].fd = fd}
            IN  /\ connectTimerString
                /\ \A i \in taken : Established(messageCache[i].fd)
                /\ \A i \in waiting \ taken : Refuses(messageCache[i].fd)
                /\ connectTimerString' = (waiting # taken)
                /\ stringCache' = [i \in Entries |->
                                        IF i \in taken THEN NoString ELSE stringCache[i]]
                /\ sockets' = [fd \in Fds |->
                        IF Of(fd) = {} THEN sockets[fd]
                        ELSE [sockets[fd] EXCEPT
                                !.written = Append(@, content[stringCache[Min(Of(fd))]])]]
                /\ late' = late \cup
                        {fd \in Fds : Of(fd) # {} /\ count - sockets[fd].number >= POOL}
                /\ UNCHANGED <<handler, messageCache, connectTimer, acceptTimer, attempted>>

\* What a write is offered of a transfer; an entry that is past its end is offered
\* whole buffers.
Unfinished == {i \in Entries : messageCache[i].fd # 0
                                /\ messageCache[i].sent # messageCache[i].total}
Offered(e) == IF e.sent <= e.total THEN Min({e.total - e.sent, CHUNK}) ELSE CHUNK

\* An entry after Transport.write took n of what it was offered.  Mutant: all of it.
AdvancedByOffer(e, n) == [e EXCEPT !.sent = @ + Offered(e)]
Advanced(e, n)        == [e EXCEPT !.sent = @ + n]

\* Whether the timer is started again; the mutant only looks at the last entry.
DataLeftInLast == CACHE \in Unfinished
DataLeft       == Unfinished # {}

\* connectTimer.fired: Transport.write takes what it has room for.
ConnectTimerFired ==
    /\ connectTimer
    /\ connectTimer' = DataLeft
    /\ \E n \in [Unfinished -> 0 .. CHUNK] :
        /\ \A i \in Unfinished :
            n[i] <= IF Established(messageCache[i].fd) THEN Offered(messageCache[i]) ELSE 0
        /\ messageCache' = [i \in Entries |-> IF i \in Unfinished
                                THEN Advanced(messageCache[i], n[i]) ELSE messageCache[i]]
        /\ sockets' = [fd \in Fds |->
                LET of == {i \in Unfinished : messageCache[i].fd = fd}
                IN  IF of = {} THEN sockets[fd]
                    ELSE LET i == Min(of)
                         IN  [sockets[fd] EXCEPT !.written =
                                @ \o [k \in 1 .. n[i] |-> messageCache[i].sent + k - 1]]]
    /\ UNCHANGED <<handler, stringCache, connectTimerString, acceptTimer, attempted, late>>

\* The attempt Transport.accept takes for a port: the first, wherever it is in the
\* queue; those before it move to the end.  Mutant: only the front is looked at.
AttemptAtFront(waiting, port) == IF waiting # << >> /\ waiting[1] = port THEN 1 ELSE 0
Attempt(waiting, port) ==
    LET of == {k \in DOMAIN waiting : waiting[k] = port}
    IN  IF of = {} THEN 0 ELSE Min(of)

\* One turn of acceptTimer's loop, at entry i.  accept makes any socket whose second
\* value is 0 a listening one.
AcceptAt(s, i) ==
    LET e   == s.cache[i]
        now == [s.sockets EXCEPT ![e.fd].state = "LISTEN"]
        k   == Attempt(s.waiting, s.sockets[e.fd].conn)
        j   == Slot(s.cache, i)
    IN  IF s.left \/ (e.fd # 0 /\ e.sent # 0) THEN s
        ELSE IF e.fd = 0 THEN [s EXCEPT !.left = TRUE]
        ELSE IF k = 0 THEN [s EXCEPT !.sockets = now, !.left = TRUE, !.again = TRUE]
        ELSE [s EXCEPT !.sockets = Append(now, NewSocket("peer", Accept, "ESTABLISHED")),
                       !.waiting = SubSeq(@, k + 1, Len(@)) \o SubSeq(@, 1, k - 1),
                       !.cache = Into(@, j, [@[j] EXCEPT !.fd = Len(now) + 1, !.sent = 1]),
                       !.again = TRUE]

\* acceptTimer.fired
AcceptTimerFired ==
    LET loop[i \in 0 .. CACHE] ==
            IF i = 0
            THEN [cache |-> messageCache, sockets |-> sockets, waiting |-> attempted,
                  left |-> FALSE, again |-> FALSE]
            ELSE AcceptAt(loop[i - 1], i)
        after == loop[CACHE]
    IN  /\ acceptTimer
        /\ acceptTimer' = after.again
        /\ messageCache' = after.cache
        /\ sockets' = after.sockets
        /\ attempted' = after.waiting
        /\ UNCHANGED <<handler, stringCache, connectTimer, connectTimerString, late>>

-----------------------------------------------------------------------------
(* External: Transport and the other ends of the connections *)

Connected(fd) ==
    /\ sockets[fd].state = "SYN_SENT"
    /\ sockets' = [sockets EXCEPT ![fd].state = "ESTABLISHED"]
    /\ UNCHANGED <<handler, messageCache, stringCache, timers, attempted, late>>

ReceiveFin(fd) ==
    /\ Established(fd)
    /\ sockets' = [sockets EXCEPT ![fd].state = "CLOSED"]
    /\ UNCHANGED <<handler, messageCache, stringCache, timers, attempted, late>>

\* attemptedConnections.pushfront, while connections are still attempted.
ReceiveSyn(port) ==
    /\ Len(attempted) + Cardinality({fd \in Fds : sockets[fd].for = Accept}) < CALLS
    /\ attempted' = <<port>> \o attempted
    /\ UNCHANGED <<handler, messageCache, stringCache, timers, sockets, late>>

Init ==
    /\ HandlerInit
    /\ messageCache = [i \in Entries |-> [fd |-> 0, sent |-> 0, total |-> 0]]
    /\ stringCache = [i \in Entries |-> NoString]
    /\ connectTimer = FALSE /\ connectTimerString = FALSE /\ acceptTimer = FALSE
    /\ sockets = << >> /\ attempted = << >>
    /\ late = {}

Next ==
    \/ \E cmd \in todo : ReceiveCommand(cmd) /\ UNCHANGED connection
    \/ OtherPacket /\ UNCHANGED connection
    \/ RunCommand
    \/ ConnectTimerFired
    \/ ConnectTimerStringFired
    \/ AcceptTimerFired
    \/ \E fd \in Fds : Connected(fd)
    \/ \E fd \in Fds : ReceiveFin(fd)
    \/ \E port \in Ports : ReceiveSyn(port)

Spec == Init /\ [][Next]_vars

\* The task runs and timers fire.  Transport.write now and then has room for an
\* established connection (TcpStream!Transferred), also for its string.
Fairness ==
    /\ WF_vars(RunCommand)
    /\ WF_vars(AcceptTimerFired)
    /\ WF_vars(ConnectTimerStringFired)
    /\ WF_vars(ConnectTimerFired)
    /\ \A i \in Entries :
        /\ SF_vars(ConnectTimerFired /\ messageCache'[i].sent # messageCache[i].sent)
        /\ SF_vars(ConnectTimerStringFired /\ stringCache'[i] # stringCache[i])

FairSpec == Spec /\ Fairness

-----------------------------------------------------------------------------
(* Properties *)

\* Every variable keeps its type.
TypeOK ==
    /\ HandlerTypeOK
    /\ messageCache \in [Entries -> [fd : 0 .. Len(sockets), sent : Nat, total : Nat]]
    /\ stringCache \in [Entries -> Buffers \cup {NoString}]
    /\ \A t \in ToSet(timers) : t \in BOOLEAN
    /\ \A fd \in Fds :
        /\ sockets[fd].state \in {"LISTEN", "SYN_SENT", "ESTABLISHED", "CLOSED"}
        /\ sockets[fd].for \in Commands \cup {Accept}
    /\ attempted \in Seq(Ports) /\ Len(attempted) <= CALLS
    /\ late \subseteq Fds

Is(fd, id) == sockets[fd].for.id = id

\* On a node that only opens transfers, or only strings, a connection gets what the
\* command that opened it said and nothing else: of a transfer its first bytes, in
\* order, whatever part of them each write took; the string once, or what there was
\* room for, however often its write was refused, besides the messages sent on the
\* connection, each once, if the string's buffer was read before it came round.
WhatWasAsked ==
    \A fd \in Fds :
        LET s == sockets[fd]
        IN  /\ Is(fd, "bytes") =>
                /\ Len(s.written) <= s.for.transfer
                /\ \A k \in DOMAIN s.written : s.written[k] = k - 1
            /\ Is(fd, "hello") /\ fd \notin late =>
                /\ IsInjective(s.written)
                /\ \A w \in ToSet(s.written) :
                    w = s.for \/ (w # Noise /\ w.id = "msg" /\ w.conn = s.conn)

\* What an entry of messageCache holds for an established connection is written in
\* the end, unless the connection is closed or the entry cleared.
ToBeWritten(i, fd) ==
    /\ messageCache[i].fd = fd /\ Established(fd)
    /\ i \in Unfinished \/ stringCache[i] # NoString

WrittenInTheEnd ==
    \A i \in Entries, fd \in 1 .. CACHE + 1 :
        ToBeWritten(i, fd) /\ (Is(fd, "bytes") \/ Is(fd, "hello"))
            ~> ~ToBeWritten(i, fd)

\* The socket of the first entry listens, and every attempt to reach its port is
\* accepted, whatever other ports are attempted.  (Of a second one that is not so.)
FirstServed ==
    \A port \in Ports :
        LET fd == messageCache[1].fd
        IN  fd \in Fds /\ Is(fd, "server") /\ sockets[fd].conn = port /\ port \in ToSet(attempted)
                ~> port \notin ToSet(attempted)
=============================================================================

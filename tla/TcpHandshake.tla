---------------------------- MODULE TcpHandshake ----------------------------
(***************************************************************************)
(* How connections come about in TransportP.nc and ConnectionP.nc: one     *)
(* client node opens several of them to one listening port of a server, as *)
(* testA.py does.  The client's SYN, the server's SYNACK and the client's  *)
(* ACK; synTimer, which sends the SYN again, with another initial sequence *)
(* number, until the SYNACK is there; acceptTimer, which turns one queued  *)
(* attempt at a time into a socket.  No data is sent: TcpStream starts     *)
(* where this module ends.                                                 *)
(*                                                                         *)
(* The server's socket table (HashmapC) is the sequence of its entries in  *)
(* the order of their keys: entry 1 is the listening socket.               *)
(***************************************************************************)
EXTENDS Integers, Sequences, FiniteSets, SequencesExt, FiniteSetsExt

CONSTANTS
    Conns,    \* the connections the client opens, one client port each
    Nobody,   \* the destination of the listening socket
    MOD,      \* 2^8, the range of a uint8_t
    ISNs,     \* the initial sequence numbers the client may draw
    SeqNums,  \* the initial sequence numbers the server may draw
    CAP,      \* entries of the attemptedConnections list (10)
    NSOCK,    \* entries of the socket table (10)
    POOL,     \* packets the network holds (SimpleSend's pools)
    Collide   \* TRUE when a drawn file descriptor may be 0 or in use already

ASSUME HandshakeAssumption ==
    /\ Nobody \notin Conns
    /\ MOD \in Nat \ {0} /\ ISNs \subseteq 0 .. MOD - 1 /\ SeqNums \subseteq 0 .. MOD - 1
    /\ CAP \in Nat /\ NSOCK \in Nat \ {0} /\ POOL \in Nat /\ Collide \in BOOLEAN

VARIABLES
    cState,     \* client: the state of each socket
    lastSent,   \* client: the last initial sequence number sent
    lastRead,   \* client: the server's, once the SYNACK is there
    synTimer,   \* client: synTimer is running, one for all sockets
    attempted,  \* server: attemptedConnections
    sockets,    \* server: the socket table
    net,        \* the packets under way; IpP and SimpleSendP reorder and lose
    refused     \* history: the attempts the server has dropped

client == <<cState, lastSent, lastRead, synTimer>>
server == <<attempted, sockets, refused>>
vars   == <<client, server, net>>

U8(x) == x % MOD
Uint8 == 0 .. MOD - 1

Syn    == [flag : {"SYN"}, conn : Conns, sequence : Uint8]
Synack == [flag : {"SYNACK"}, conn : Conns, sequence : Uint8, ack : Uint8]
Ack    == [flag : {"ACK"}, conn : Conns, ack : Uint8]

\* struct connection, and the part of socket_store_t the handshake uses.
Attempt == [conn : Conns, seqNum : Uint8, mySeqNum : Uint8]
Socket  == [conn : Conns \cup {Nobody}, state : {"LISTEN", "ESTABLISHED", "SYN_RCVD"},
            lastRead : Uint8, lastSent : Uint8, lastAck : Uint8, lastAckIndex : Uint8]

Listener == [conn |-> Nobody, state |-> "LISTEN", lastRead |-> 0, lastSent |-> 0,
             lastAck |-> 0, lastAckIndex |-> 0]

\* Ip.ping: packets for which SimpleSend's pool has no room are dropped.
Put(under_way, packets) ==
    LET room == POOL - Cardinality(under_way)
        n    == IF room < Cardinality(packets) THEN room ELSE Cardinality(packets)
    IN  {under_way \cup kept : kept \in kSubset(n, packets)}

-----------------------------------------------------------------------------
(* The client *)

\* Connection.testClientBytes: bind a socket and Transport.connect it.
Connect(c) ==
    /\ cState[c] = "CLOSED"
    /\ \E isn \in ISNs :
        /\ lastSent' = [lastSent EXCEPT ![c] = isn]
        /\ net' \in Put(net, {[flag |-> "SYN", conn |-> c, sequence |-> isn]})
    /\ cState' = [cState EXCEPT ![c] = "SYN_SENT"]
    /\ synTimer' = TRUE
    /\ UNCHANGED <<lastRead, server>>

Connecting == {c \in Conns : cState[c] = "SYN_SENT"}

\* synTimer.fired: connect again every socket that is still SYN_SENT.
SynTimerFiredOnce ==
    /\ synTimer
    /\ synTimer' = FALSE
    /\ UNCHANGED <<cState, lastSent, lastRead, server, net>>
SynTimerFired ==
    /\ synTimer
    /\ \E isn \in [Connecting -> ISNs] :
        /\ lastSent' = [c \in Conns |-> IF c \in Connecting THEN isn[c] ELSE lastSent[c]]
        /\ net' \in Put(net, {[flag |-> "SYN", conn |-> c, sequence |-> isn[c]] :
                              c \in Connecting})
    /\ synTimer' = (Connecting # {})
    /\ UNCHANGED <<cState, lastRead, server>>

\* Transport.receive, case SYNACK.  The uint8_t ack is compared with the int
\* lastSent + 1, and whoever is answered stops the one timer.
AnswersAny(p) == TRUE
Answers(p) == p.ack = lastSent[p.conn] + 1

ReceiveSynack(p) ==
    /\ p.flag = "SYNACK"
    /\ \/ /\ Answers(p)
          /\ synTimer' = FALSE
          /\ lastRead' = [lastRead EXCEPT ![p.conn] = p.sequence]
          /\ cState' = [cState EXCEPT ![p.conn] = "ESTABLISHED"]
          /\ net' \in Put(net \ {p},
                    {[flag |-> "ACK", conn |-> p.conn, ack |-> U8(p.sequence + 1)]})
       \/ /\ ~Answers(p)
          /\ net' = net \ {p}
          /\ UNCHANGED <<synTimer, lastRead, cState>>
    /\ UNCHANGED <<lastSent, server>>

-----------------------------------------------------------------------------
(* The server *)

\* Transport.findSocket: the newest socket of the connection, 0 if there is none.
FindSocket(c) ==
    LET found == {i \in 1 .. Len(sockets) : sockets[i].conn = c}
    IN  IF found = {} THEN 0 ELSE CHOOSE i \in found : \A j \in found : j <= i

\* sockets.getPointer(fd)->state = SYN_RCVD.  Descriptor 0 is the key of an
\* empty entry; when no entry is empty it names whatever hashed to place 0.
SetSynRcvd(fd) ==
    IF fd # 0 THEN sockets' = [sockets EXCEPT ![fd].state = "SYN_RCVD"]
    ELSE IF Len(sockets) < NSOCK THEN UNCHANGED sockets
    ELSE \E i \in 1 .. NSOCK : sockets' = [sockets EXCEPT ![i].state = "SYN_RCVD"]

\* attemptedConnections.pushfront, which a full list ignores.
Queue(a) ==
    IF Len(attempted) < CAP
    THEN attempted' = <<a>> \o attempted /\ UNCHANGED refused
    ELSE refused' = refused \cup {a} /\ UNCHANGED attempted

\* Transport.receive, case SYN.
ReceiveSyn(p) ==
    /\ p.flag = "SYN"
    /\ \E my \in SeqNums :
        /\ Queue([conn |-> p.conn, seqNum |-> p.sequence, mySeqNum |-> my])
        /\ net' \in Put(net \ {p},
                  {[flag |-> "SYNACK", conn |-> p.conn, sequence |-> my,
                    ack |-> U8(p.sequence + 1)]})
    /\ SetSynRcvd(FindSocket(p.conn))
    /\ UNCHANGED client

\* Transport.receive, case ACK: the answer to a SYNACK.
ReceiveAck(p) ==
    /\ p.flag = "ACK"
    /\ net' = net \ {p}
    /\ LET fd == FindSocket(p.conn) IN
        IF fd # 0 /\ sockets[fd].state = "ESTABLISHED"
        THEN sockets' = [sockets EXCEPT
                ![fd].lastAckIndex = U8(@ + p.ack - sockets[fd].lastAck),
                ![fd].lastAck = p.ack]
        ELSE UNCHANGED sockets
    /\ UNCHANGED <<client, attempted, refused>>

\* The socket Transport.accept makes of an attempt.
Accepted(a) ==
    [conn |-> a.conn, state |-> "ESTABLISHED", lastRead |-> a.seqNum,
     lastSent |-> a.mySeqNum, lastAck |-> U8(a.mySeqNum + 1), lastAckIndex |-> 0]

\* sockets.insert(newFD, newSocket): a new entry, or, when the drawn descriptor
\* is in use, another socket's; descriptor 0, which a full table also gives, is
\* not inserted.
InsertUnchecked(table, s) == {Append(table, s)}
Insert(table, s) ==
    IF Len(table) = NSOCK THEN {table}
    ELSE {Append(table, s)} \cup
         (IF Collide THEN {table} \cup {ReplaceAt(table, i, s) : i \in 1 .. Len(table)}
                     ELSE {})

\* acceptTimer.fired: Transport.accept makes the newest attempt a socket.  The
\* timer is always started again.
AcceptTimerFiredNotTheLast ==
    /\ LET listening == [sockets EXCEPT ![1].state = "LISTEN"] IN
        IF Len(attempted) <= 1
        THEN sockets' = listening /\ UNCHANGED <<attempted, refused>>
        ELSE /\ sockets' \in Insert(listening, Accepted(Head(attempted)))
             /\ attempted' = Tail(attempted)
             /\ refused' = IF sockets' = listening
                           THEN refused \cup {Head(attempted)} ELSE refused
    /\ UNCHANGED <<client, net>>
AcceptTimerFired ==
    /\ LET listening == [sockets EXCEPT ![1].state = "LISTEN"] IN
        IF attempted = << >>
        THEN sockets' = listening /\ UNCHANGED <<attempted, refused>>
        ELSE /\ sockets' \in Insert(listening, Accepted(Head(attempted)))
             /\ attempted' = Tail(attempted)
             /\ refused' = IF sockets' = listening
                           THEN refused \cup {Head(attempted)} ELSE refused
    /\ UNCHANGED <<client, net>>

-----------------------------------------------------------------------------
(* The network loses a packet *)

Lose(p) ==
    /\ net' = net \ {p}
    /\ UNCHANGED <<client, server>>

Init ==
    /\ cState = [c \in Conns |-> "CLOSED"]
    /\ lastSent = [c \in Conns |-> 0] /\ lastRead = [c \in Conns |-> 0]
    /\ synTimer = FALSE
    /\ attempted = << >> /\ refused = {}
    /\ sockets = <<Listener>>
    /\ net = {}

Next ==
    \/ \E c \in Conns : Connect(c)
    \/ SynTimerFired
    \/ AcceptTimerFired
    \/ \E p \in net : ReceiveSyn(p)
    \/ \E p \in net : ReceiveSynack(p)
    \/ \E p \in net : ReceiveAck(p)
    \/ \E p \in net : Lose(p)

Spec == Init /\ [][Next]_vars

\* Timers fire.  A connection that goes on trying does not draw 255 for ever,
\* and the network does not always lose the SYNs, or the answers, that would
\* do.  Once the routes are known it is faster than the 5 s of synTimer.
Fairness ==
    /\ WF_vars(AcceptTimerFired)
    /\ WF_vars(SynTimerFired)
    /\ SF_vars(SynTimerFired /\ \A c \in Connecting : lastSent'[c] + 1 < MOD)
    /\ \A c \in Conns :
        /\ SF_vars(\E p \in net : p.conn = c /\ ReceiveSyn(p) /\ p.sequence + 1 < MOD)
        /\ SF_vars(\E p \in net : p.conn = c /\ ReceiveSynack(p) /\ Answers(p))
    /\ <>[][SynTimerFired => net = {}]_vars

FairSpec == Spec /\ Fairness

-----------------------------------------------------------------------------
(* Properties *)

\* Every variable keeps its type.
TypeOK ==
    /\ cState \in [Conns -> {"CLOSED", "SYN_SENT", "ESTABLISHED"}]
    /\ lastSent \in [Conns -> Uint8] /\ lastRead \in [Conns -> Uint8]
    /\ synTimer \in BOOLEAN
    /\ attempted \in Seq(Attempt) /\ Len(attempted) <= CAP
    /\ sockets \in Seq(Socket) /\ Len(sockets) \in 1 .. NSOCK
    /\ refused \subseteq Attempt
    /\ net \subseteq Syn \cup Synack \cup Ack

\* What the client believes established is an attempt with the same two initial
\* sequence numbers that the server has queued, made a socket of, or dropped
\* because a table was full: a late answer to an earlier SYN never establishes.
Backed ==
    \A c \in Conns : cState[c] = "ESTABLISHED" =>
        LET a == [conn |-> c, seqNum |-> lastSent[c], mySeqNum |-> lastRead[c]]
        IN  \/ a \in refused
            \/ \E i \in 1 .. Len(attempted) : attempted[i] = a
            \/ \E i \in 2 .. Len(sockets) :
                 sockets[i].conn = c /\ sockets[i].lastRead = a.seqNum
                    /\ sockets[i].lastSent = a.mySeqNum

\* What the client believes established gets a socket of the server in the end,
\* unless the server's table is full or an attempt found its list full.
AcceptedInTheEnd ==
    \A c \in Conns :
        cState[c] = "ESTABLISHED" ~>
            \/ FindSocket(c) # 0 \/ Len(sockets) = NSOCK
            \/ \E a \in refused : a.conn = c

\* TransportP.nc on synTimer: "If it's still SYN_SENT, then send try connecting
\* again."  Every connection the client opens is established in the end.
EverybodyConnects ==
    \A c \in Conns : cState[c] = "SYN_SENT" ~> cState[c] = "ESTABLISHED"
=============================================================================

-------------------------- MODULE TcpHandshakeProof --------------------------
(***************************************************************************)
(* Theorems about TcpHandshake, for any number of connections, any         *)
(* capacity of the list, the table and the network, and any numbers: its   *)
(* types, and that a client is only established on an attempt the server   *)
(* knows, as long as file descriptors do not collide.                      *)
(***************************************************************************)
EXTENDS TcpHandshake, TLAPS

-----------------------------------------------------------------------------
(* uint8_t and the packets *)

\* A uint8_t is in range, whatever integer is stored in it.
LEMMA U8Type == \A x \in Int : U8(x) \in Uint8
    BY HandshakeAssumption DEF U8, Uint8

\* The answer to a number is the int that follows it only when it has not wrapped.
LEMMA AnswerNumber ==
    ASSUME NEW x \in Uint8, NEW y \in Uint8, U8(x + 1) = y + 1
    PROVE  x = y
<1>1. x + 1 \in 1 .. MOD /\ MOD \in Nat \ {0}
    BY HandshakeAssumption DEF Uint8
<1>2. CASE x + 1 = MOD
    <2>1. U8(x + 1) = 0
        BY <1>1, <1>2 DEF U8
    <2> QED
        BY <2>1 DEF Uint8
<1>3. CASE x + 1 < MOD
    <2>1. U8(x + 1) = x + 1
        BY <1>1, <1>3 DEF U8
    <2> QED
        BY <2>1 DEF Uint8
<1> QED
    BY <1>1, <1>2, <1>3

\* What is under way after some packets are sent was under way before or is one of
\* them, whatever has been dropped.
LEMMA PutKeeps ==
    ASSUME NEW under_way, NEW packets, NEW after \in Put(under_way, packets)
    PROVE  \A p \in after : p \in under_way \/ p \in packets
    BY DEF Put, kSubset

LEMMA PutType ==
    ASSUME NEW S, NEW under_way \in SUBSET S, NEW packets \in SUBSET S,
           NEW after \in Put(under_way, packets)
    PROVE  after \subseteq S
    BY PutKeeps

Packet == Syn \cup Synack \cup Ack

\* A packet's flag says which fields it has.
LEMMA PacketFields ==
    ASSUME NEW p \in Packet
    PROVE  /\ p.conn \in Conns
           /\ p.flag = "SYN" => p.sequence \in Uint8
           /\ p.flag = "SYNACK" => p.sequence \in Uint8 /\ p.ack \in Uint8
           /\ p.flag = "ACK" => p.ack \in Uint8
    BY DEF Packet, Syn, Synack, Ack

-----------------------------------------------------------------------------
(* Types *)

\* The types of the server's table and list, and of the rest.
ServerTypes ==
    /\ attempted \in Seq(Attempt) /\ Len(attempted) <= CAP
    /\ sockets \in Seq(Socket) /\ Len(sockets) \in 1 .. NSOCK
    /\ refused \subseteq Attempt

ClientTypes ==
    /\ cState \in [Conns -> {"CLOSED", "SYN_SENT", "ESTABLISHED"}]
    /\ lastSent \in [Conns -> Uint8] /\ lastRead \in [Conns -> Uint8]
    /\ synTimer \in BOOLEAN

LEMMA TypeParts == TypeOK <=> ClientTypes /\ ServerTypes /\ net \subseteq Packet
    BY DEF TypeOK, ClientTypes, ServerTypes, Packet

LEMMA TypeInit == Init => TypeOK
<1> SUFFICES ASSUME Init PROVE TypeOK
    OBVIOUS
<1>1. 0 \in Uint8
    BY HandshakeAssumption DEF Uint8
<1>2. Listener \in Socket
    BY <1>1 DEF Listener, Socket
<1>3. sockets \in Seq(Socket) /\ Len(sockets) \in 1 .. NSOCK
    BY <1>2, HandshakeAssumption DEF Init
<1>4. attempted \in Seq(Attempt) /\ Len(attempted) <= CAP
    BY HandshakeAssumption DEF Init
<1> QED
    BY <1>1, <1>3, <1>4 DEF Init, TypeOK

\* A function on the first numbers is a sequence.
LEMMA IsSequence ==
    ASSUME NEW S, NEW n \in Nat, NEW f \in [1 .. n -> S]
    PROVE  f \in Seq(S) /\ Len(f) = n
    OBVIOUS

\* Two tables whose sockets have the same connections and initial numbers.
SameIdentities(new, table) ==
    \A k \in 1 .. Len(table) :
        /\ new[k].conn = table[k].conn
        /\ new[k].lastRead = table[k].lastRead
        /\ new[k].lastSent = table[k].lastSent

\* An entry replaced by one of the same identity.
LEMMA ReplaceType ==
    ASSUME NEW table \in Seq(Socket), NEW i, NEW e,
           i \in 1 .. Len(table) =>
                /\ e \in Socket /\ e.conn = table[i].conn
                /\ e.lastRead = table[i].lastRead /\ e.lastSent = table[i].lastSent
    PROVE  /\ [table EXCEPT ![i] = e] \in Seq(Socket)
           /\ Len([table EXCEPT ![i] = e]) = Len(table)
           /\ SameIdentities([table EXCEPT ![i] = e], table)
<1> DEFINE new == [table EXCEPT ![i] = e]
<1>1. new = [k \in 1 .. Len(table) |-> IF k = i THEN e ELSE table[k]] /\ Len(table) \in Nat
    OBVIOUS
<1>2. ASSUME NEW k \in 1 .. Len(table)
      PROVE  /\ new[k] \in Socket
             /\ new[k].conn = table[k].conn
             /\ new[k].lastRead = table[k].lastRead
             /\ new[k].lastSent = table[k].lastSent
    <2>1. table[k] \in Socket /\ new[k] = IF k = i THEN e ELSE table[k]
        OBVIOUS
    <2> HIDE DEF new
    <2> QED
        BY <2>1
<1> HIDE DEF new
<1>3. new \in [1 .. Len(table) -> Socket]
    <2>1. new = [k \in 1 .. Len(table) |-> new[k]]
        BY <1>1
    <2> QED
        BY <1>2, <2>1
<1>4. new \in Seq(Socket) /\ Len(new) = Len(table)
    BY <1>1, <1>3, IsSequence
<1>5. SameIdentities(new, table)
    BY <1>2 DEF SameIdentities
<1> QED
    BY <1>4, <1>5 DEF new

\* A new state of one entry, and new numbers of one, keep the table's type.
WithState(table, i, s) == [table EXCEPT ![i].state = s]

LEMMA StateType ==
    ASSUME NEW table \in Seq(Socket), NEW i, NEW s \in {"LISTEN", "ESTABLISHED", "SYN_RCVD"},
           NEW new, new = WithState(table, i, s)
    PROVE  new \in Seq(Socket) /\ Len(new) = Len(table) /\ SameIdentities(new, table)
<1> DEFINE e == [table[i] EXCEPT !.state = s]
<1>1. new = [table EXCEPT ![i] = e]
    BY DEF WithState
<1>2. i \in 1 .. Len(table) =>
        /\ e \in Socket /\ e.conn = table[i].conn
        /\ e.lastRead = table[i].lastRead /\ e.lastSent = table[i].lastSent
    <2>1. i \in 1 .. Len(table) => table[i] \in Socket
        OBVIOUS
    <2> QED
        BY <2>1 DEF Socket
<1>3. LET t == [table EXCEPT ![i] = e]
      IN  t \in Seq(Socket) /\ Len(t) = Len(table) /\ SameIdentities(t, table)
    <2> HIDE DEF e
    <2> QED
        BY <1>2, ReplaceType
<1> QED
    BY <1>1, <1>3

WithAck(table, i, x, y) == [table EXCEPT ![i].lastAckIndex = x, ![i].lastAck = y]

LEMMA AckType ==
    ASSUME NEW table \in Seq(Socket), NEW i, NEW x \in Uint8, NEW y \in Uint8,
           NEW new, new = WithAck(table, i, x, y)
    PROVE  new \in Seq(Socket) /\ Len(new) = Len(table) /\ SameIdentities(new, table)
<1> DEFINE d   == [table[i] EXCEPT !.lastAckIndex = x]
           mid == [table EXCEPT ![i] = d]
           e   == [mid[i] EXCEPT !.lastAck = y]
<1>1. new = [mid EXCEPT ![i] = e]
    BY DEF WithAck
<1>2. i \in 1 .. Len(table) =>
        /\ d \in Socket /\ d.conn = table[i].conn
        /\ d.lastRead = table[i].lastRead /\ d.lastSent = table[i].lastSent
    <2>1. i \in 1 .. Len(table) => table[i] \in Socket
        OBVIOUS
    <2> QED
        BY <2>1 DEF Socket
<1>3. mid \in Seq(Socket) /\ Len(mid) = Len(table) /\ SameIdentities(mid, table)
    <2> HIDE DEF d
    <2> QED
        BY <1>2, ReplaceType
<1> HIDE DEF mid
<1>4. i \in 1 .. Len(mid) =>
        /\ e \in Socket /\ e.conn = mid[i].conn
        /\ e.lastRead = mid[i].lastRead /\ e.lastSent = mid[i].lastSent
    <2>1. i \in 1 .. Len(mid) => mid[i] \in Socket
        BY <1>3
    <2> QED
        BY <2>1 DEF Socket
<1>5. LET t == [mid EXCEPT ![i] = e]
      IN  t \in Seq(Socket) /\ Len(t) = Len(mid) /\ SameIdentities(t, mid)
    <2> HIDE DEF e
    <2> QED
        BY <1>3, <1>4, ReplaceType
<1>6. new \in Seq(Socket) /\ Len(new) = Len(mid) /\ SameIdentities(new, mid)
    BY <1>1, <1>5
<1> QED
    BY <1>3, <1>6 DEF SameIdentities

\* A socket is put at the end of a table with room, or not inserted, or, when
\* descriptors collide, put in the place of another.
LEMMA InsertType ==
    ASSUME NEW table \in Seq(Socket), Len(table) \in 1 .. NSOCK, NEW s \in Socket,
           NEW after \in Insert(table, s)
    PROVE  /\ after \in Seq(Socket) /\ Len(after) \in 1 .. NSOCK
           /\ ~Collide => after = table \/ (Len(table) < NSOCK /\ after = Append(table, s))
<1>0. NSOCK \in Nat /\ Len(table) \in Nat
    BY HandshakeAssumption
<1>1. CASE after = table
    BY <1>1
<1>2. CASE Len(table) < NSOCK /\ after = Append(table, s)
    <2>1. Append(table, s) \in Seq(Socket) /\ Len(Append(table, s)) = Len(table) + 1
        OBVIOUS
    <2> QED
        BY <1>0, <1>2, <2>1
<1>3. CASE Collide /\ \E i \in 1 .. Len(table) : after = ReplaceAt(table, i, s)
    <2>1. PICK i \in 1 .. Len(table) : after = ReplaceAt(table, i, s)
        BY <1>3
    <2>2. after = [table EXCEPT ![i] = s]
        BY <2>1 DEF ReplaceAt
    <2>3. after \in [1 .. Len(table) -> Socket]
        BY <2>2
    <2>4. after \in Seq(Socket) /\ Len(after) = Len(table)
        BY <1>0, <2>3, IsSequence
    <2> QED
        BY <1>3, <2>4
<1>4. \/ after = table
      \/ Len(table) # NSOCK /\ after = Append(table, s)
      \/ Collide /\ \E i \in 1 .. Len(table) : after = ReplaceAt(table, i, s)
    BY DEF Insert
<1> QED
    BY <1>0, <1>1, <1>2, <1>3, <1>4

\* The packets the actions send.
LEMMA PacketTypes ==
    ASSUME NEW c \in Conns, NEW x \in Uint8, NEW y \in Uint8
    PROVE  /\ [flag |-> "SYN", conn |-> c, sequence |-> x] \in Packet
           /\ [flag |-> "SYNACK", conn |-> c, sequence |-> x, ack |-> y] \in Packet
           /\ [flag |-> "ACK", conn |-> c, ack |-> y] \in Packet
    BY DEF Packet, Syn, Synack, Ack

\* The numbers that may be drawn are uint8_t, and so is the one after a uint8_t.
LEMMA NumberTypes ==
    /\ ISNs \subseteq Uint8 /\ SeqNums \subseteq Uint8
    /\ \A x \in Uint8 : x \in Int /\ U8(x + 1) \in Uint8
<1>1. ISNs \subseteq Uint8 /\ SeqNums \subseteq Uint8
    BY HandshakeAssumption DEF Uint8
<1>2. \A x \in Uint8 : x \in Int /\ x + 1 \in Int
    BY HandshakeAssumption DEF Uint8
<1> QED
    BY <1>1, <1>2, U8Type

LEMMA ServerTypesUnchanged == ServerTypes /\ UNCHANGED server => ServerTypes'
    BY DEF ServerTypes, server

LEMMA ClientTypesUnchanged == ClientTypes /\ UNCHANGED client => ClientTypes'
    BY DEF ClientTypes, client

LEMMA TypeConnect ==
    ASSUME TypeOK, NEW c \in Conns, Connect(c)
    PROVE  TypeOK'
<1> USE TypeParts
<1>1. PICK isn \in ISNs :
        /\ lastSent' = [lastSent EXCEPT ![c] = isn]
        /\ net' \in Put(net, {[flag |-> "SYN", conn |-> c, sequence |-> isn]})
    BY DEF Connect
<1>2. isn \in Uint8
    BY NumberTypes
<1>3. net' \subseteq Packet
    <2>1. {[flag |-> "SYN", conn |-> c, sequence |-> isn]} \subseteq Packet
        BY <1>2, PacketTypes
    <2> QED
        BY <1>1, <2>1, PutType
<1>4. ClientTypes'
    BY <1>1, <1>2 DEF Connect, ClientTypes
<1> QED
    BY <1>3, <1>4, ServerTypesUnchanged DEF Connect, TypeOK, ClientTypes, ServerTypes, Packet

LEMMA TypeSynTimer == TypeOK /\ SynTimerFired => TypeOK'
<1> SUFFICES ASSUME TypeOK, SynTimerFired PROVE TypeOK'
    OBVIOUS
<1>1. PICK isn \in [Connecting -> ISNs] :
        /\ lastSent' = [c \in Conns |-> IF c \in Connecting THEN isn[c] ELSE lastSent[c]]
        /\ net' \in Put(net, {[flag |-> "SYN", conn |-> c, sequence |-> isn[c]] :
                              c \in Connecting})
    BY DEF SynTimerFired
<1>2. \A c \in Connecting : c \in Conns /\ isn[c] \in Uint8
    BY NumberTypes DEF Connecting
<1>3. net' \subseteq Packet
    <2>1. {[flag |-> "SYN", conn |-> c, sequence |-> isn[c]] : c \in Connecting} \subseteq Packet
        BY <1>2, PacketTypes
    <2>2. net \subseteq Packet
        BY TypeParts
    <2> QED
        BY <1>1, <2>1, <2>2, PutType
<1>4. ClientTypes /\ ServerTypes
    BY TypeParts
<1>5. lastSent' \in [Conns -> Uint8]
    BY <1>1, <1>2, <1>4 DEF ClientTypes
<1>6. ClientTypes'
    BY <1>4, <1>5 DEF SynTimerFired, ClientTypes
<1>7. ServerTypes'
    BY <1>4, ServerTypesUnchanged DEF SynTimerFired
<1> QED
    BY <1>3, <1>6, <1>7 DEF TypeOK, ClientTypes, ServerTypes, Packet

LEMMA TypeSynack ==
    ASSUME TypeOK, NEW p \in net, ReceiveSynack(p)
    PROVE  TypeOK'
<1>1. ClientTypes /\ ServerTypes /\ net \subseteq Packet /\ p \in Packet
    BY TypeParts
<1>2. p.conn \in Conns /\ p.sequence \in Uint8 /\ p.ack \in Uint8
    BY <1>1, PacketFields DEF ReceiveSynack
<1>3. {[flag |-> "ACK", conn |-> p.conn, ack |-> U8(p.sequence + 1)]} \subseteq Packet
    BY <1>2, PacketTypes, NumberTypes
<1>4. net' \subseteq Packet
    <2>1. net \ {p} \subseteq Packet
        BY <1>1
    <2> QED
        BY <1>3, <2>1, PutType DEF ReceiveSynack
<1>5. ClientTypes'
    BY <1>1, <1>2 DEF ReceiveSynack, ClientTypes
<1>6. ServerTypes'
    BY <1>1, ServerTypesUnchanged DEF ReceiveSynack
<1> QED
    BY <1>4, <1>5, <1>6 DEF TypeOK, ClientTypes, ServerTypes, Packet

\* What the server does with a SYN: an attempt is queued or refused, the table keeps
\* its length and what identifies its sockets, and a SYNACK is sent.
LEMMA SynStep ==
    ASSUME TypeOK, NEW p \in net, ReceiveSyn(p)
    PROVE  /\ TypeOK'
           /\ \E my \in SeqNums :
                LET a == [conn |-> p.conn, seqNum |-> p.sequence, mySeqNum |-> my] IN
                /\ a \in Attempt
                /\ \/ attempted' = <<a>> \o attempted /\ refused' = refused
                   \/ attempted' = attempted /\ refused' = refused \cup {a}
                /\ net' \in Put(net \ {p}, {[flag |-> "SYNACK", conn |-> p.conn,
                                sequence |-> my, ack |-> U8(p.sequence + 1)]})
           /\ Len(sockets') = Len(sockets)
           /\ SameIdentities(sockets', sockets)
<1>0. ClientTypes /\ ServerTypes /\ net \subseteq Packet /\ p \in Packet
    BY TypeParts
<1>1. p.conn \in Conns /\ p.sequence \in Uint8
    BY <1>0, PacketFields DEF ReceiveSyn
<1>2. PICK my \in SeqNums :
        /\ Queue([conn |-> p.conn, seqNum |-> p.sequence, mySeqNum |-> my])
        /\ net' \in Put(net \ {p}, {[flag |-> "SYNACK", conn |-> p.conn, sequence |-> my,
                                     ack |-> U8(p.sequence + 1)]})
    BY DEF ReceiveSyn
<1> DEFINE a == [conn |-> p.conn, seqNum |-> p.sequence, mySeqNum |-> my]
<1>3. a \in Attempt /\ my \in Uint8
    BY <1>1, NumberTypes DEF Attempt
<1>4. net' \subseteq Packet
    <2>1. {[flag |-> "SYNACK", conn |-> p.conn, sequence |-> my, ack |-> U8(p.sequence + 1)]}
            \subseteq Packet
        BY <1>1, <1>3, PacketTypes, NumberTypes
    <2>2. net \ {p} \subseteq Packet
        BY <1>0
    <2> QED
        BY <1>2, <2>1, <2>2, PutType
<1>5. /\ attempted' \in Seq(Attempt) /\ Len(attempted') <= CAP /\ refused' \subseteq Attempt
      /\ \/ attempted' = <<a>> \o attempted /\ refused' = refused
         \/ attempted' = attempted /\ refused' = refused \cup {a}
    <2>0. /\ attempted \in Seq(Attempt) /\ Len(attempted) <= CAP /\ refused \subseteq Attempt
          /\ Len(attempted) \in Nat /\ CAP \in Nat /\ Queue(a)
        BY <1>0, <1>2, HandshakeAssumption DEF ServerTypes
    <2> HIDE DEF a
    <2>1. CASE Len(attempted) < CAP
        <3>1. <<a>> \o attempted \in Seq(Attempt) /\ Len(<<a>> \o attempted) = Len(attempted) + 1
            BY <1>3, <2>0
        <3> QED
            BY <2>0, <2>1, <3>1 DEF Queue
    <2>2. CASE ~(Len(attempted) < CAP)
        BY <1>3, <2>0, <2>2 DEF Queue
    <2> QED
        BY <2>1, <2>2
<1>6. /\ sockets' \in Seq(Socket) /\ Len(sockets') = Len(sockets)
      /\ SameIdentities(sockets', sockets)
    <2>1. sockets' = sockets \/ \E i : sockets' = [sockets EXCEPT ![i].state = "SYN_RCVD"]
        BY DEF ReceiveSyn, SetSynRcvd
    <2>2. sockets \in Seq(Socket)
        BY <1>0 DEF ServerTypes
    <2>3. CASE sockets' = sockets
        BY <2>2, <2>3 DEF SameIdentities
    <2>4. CASE \E i : sockets' = [sockets EXCEPT ![i].state = "SYN_RCVD"]
        <3>1. PICK i : sockets' = WithState(sockets, i, "SYN_RCVD")
            BY <2>4 DEF WithState
        <3> QED
            BY <2>2, <3>1, StateType
    <2> QED
        BY <2>1, <2>3, <2>4
<1>7. ServerTypes'
    BY <1>0, <1>5, <1>6 DEF ServerTypes
<1>8. ClientTypes'
    BY <1>0, ClientTypesUnchanged DEF ReceiveSyn
<1>9. TypeOK'
    BY <1>4, <1>7, <1>8 DEF TypeOK, ClientTypes, ServerTypes, Packet
<1> QED
    BY <1>2, <1>3, <1>5, <1>6, <1>9

\* The last packet of a handshake changes no identity either.
LEMMA AckStep ==
    ASSUME TypeOK, NEW p \in net, ReceiveAck(p)
    PROVE  /\ TypeOK'
           /\ Len(sockets') = Len(sockets) /\ SameIdentities(sockets', sockets)
<1>0. ClientTypes /\ ServerTypes /\ net \subseteq Packet /\ p \in Packet
    BY TypeParts
<1>1. p.ack \in Uint8
    BY <1>0, PacketFields DEF ReceiveAck
<1>2. sockets \in Seq(Socket)
    BY <1>0 DEF ServerTypes
<1> DEFINE fd == FindSocket(p.conn)
           x  == U8(sockets[fd].lastAckIndex + p.ack - sockets[fd].lastAck)
<1>3. sockets' = sockets \/ sockets' = WithAck(sockets, fd, x, p.ack)
    BY DEF ReceiveAck, WithAck
<1>4. /\ sockets' \in Seq(Socket) /\ Len(sockets') = Len(sockets)
      /\ SameIdentities(sockets', sockets)
    <2>1. CASE sockets' = sockets
        BY <1>2, <2>1 DEF SameIdentities
    <2>2. CASE fd \in 1 .. Len(sockets) /\ sockets' = WithAck(sockets, fd, x, p.ack)
        <3>1. sockets[fd] \in Socket
            BY <1>2, <2>2
        <3>2. /\ sockets[fd].lastAckIndex \in Int /\ sockets[fd].lastAck \in Int
              /\ p.ack \in Int
            BY <1>1, <3>1, NumberTypes DEF Socket
        <3>3. x \in Uint8
            BY <3>2, U8Type
        <3> HIDE DEF x, fd
        <3> QED
            BY <1>1, <1>2, <2>2, <3>3, AckType
    <2>3. CASE fd \notin 1 .. Len(sockets) /\ sockets' = WithAck(sockets, fd, x, p.ack)
        <3> HIDE DEF x, fd
        <3>1. sockets' = sockets
            BY <1>2, <2>3 DEF WithAck
        <3> QED
            BY <1>2, <3>1 DEF SameIdentities
    <2> QED
        BY <1>3, <2>1, <2>2, <2>3
<1>5. ServerTypes'
    BY <1>0, <1>4 DEF ServerTypes, ReceiveAck
<1>6. ClientTypes'
    BY <1>0, ClientTypesUnchanged DEF ReceiveAck
<1>7. net' \subseteq Packet
    BY <1>0 DEF ReceiveAck
<1> QED
    BY <1>4, <1>5, <1>6, <1>7 DEF TypeOK, ClientTypes, ServerTypes, Packet

\* The table acceptTimer's accept inserts into: the first entry listens.
Listening == WithState(sockets, 1, "LISTEN")

LEMMA ListeningType ==
    ASSUME TypeOK
    PROVE  /\ Listening \in Seq(Socket) /\ Len(Listening) = Len(sockets)
           /\ SameIdentities(Listening, sockets)
<1>1. sockets \in Seq(Socket)
    BY DEF TypeOK
<1> QED
    BY <1>1, StateType DEF Listening

\* The newest attempt becomes the last socket of the table or is refused.
LEMMA AcceptStep ==
    ASSUME TypeOK, AcceptTimerFired
    PROVE  /\ TypeOK'
           /\ \/ sockets' = Listening /\ attempted' = attempted /\ refused' = refused
              \/ /\ attempted # << >> /\ attempted' = Tail(attempted)
                 /\ sockets' \in Insert(Listening, Accepted(Head(attempted)))
                 /\ refused' = IF sockets' = Listening
                               THEN refused \cup {Head(attempted)} ELSE refused
<1>0. /\ ClientTypes /\ net \subseteq Packet /\ NSOCK \in Nat
      /\ attempted \in Seq(Attempt) /\ Len(attempted) <= CAP
      /\ Len(sockets) \in 1 .. NSOCK /\ refused \subseteq Attempt
    BY TypeParts, HandshakeAssumption DEF ServerTypes
<1>1. \/ sockets' = Listening /\ attempted' = attempted /\ refused' = refused
      \/ /\ attempted # << >> /\ attempted' = Tail(attempted)
         /\ sockets' \in Insert(Listening, Accepted(Head(attempted)))
         /\ refused' = IF sockets' = Listening
                       THEN refused \cup {Head(attempted)} ELSE refused
    BY DEF AcceptTimerFired, Listening, WithState
<1>2. ServerTypes'
    <2>1. CASE sockets' = Listening /\ attempted' = attempted /\ refused' = refused
        BY <1>0, <2>1, ListeningType DEF ServerTypes
    <2>2. CASE /\ attempted # << >> /\ attempted' = Tail(attempted)
               /\ sockets' \in Insert(Listening, Accepted(Head(attempted)))
               /\ refused' = IF sockets' = Listening
                             THEN refused \cup {Head(attempted)} ELSE refused
        <3>1. /\ Head(attempted) \in Attempt /\ Tail(attempted) \in Seq(Attempt)
              /\ Len(Tail(attempted)) <= CAP
            BY <1>0, <2>2, HandshakeAssumption
        <3>2. Accepted(Head(attempted)) \in Socket
            BY <3>1, NumberTypes, HandshakeAssumption DEF Accepted, Attempt, Socket, Uint8
        <3>3. sockets' \in Seq(Socket) /\ Len(sockets') \in 1 .. NSOCK
            BY <1>0, <2>2, <3>2, ListeningType, InsertType
        <3> QED
            BY <1>0, <2>2, <3>1, <3>3 DEF ServerTypes
    <2> QED
        BY <1>1, <2>1, <2>2
<1>3. ClientTypes' /\ net' \subseteq Packet
    BY <1>0, ClientTypesUnchanged DEF AcceptTimerFired
<1> QED
    BY <1>1, <1>2, <1>3 DEF TypeOK, ClientTypes, ServerTypes, Packet

LEMMA TypeNext == TypeOK /\ [Next]_vars => TypeOK'
<1> SUFFICES ASSUME TypeOK, [Next]_vars PROVE TypeOK'
    OBVIOUS
<1>1. ASSUME NEW c \in Conns, Connect(c) PROVE TypeOK'
    BY <1>1, TypeConnect
<1>2. CASE SynTimerFired
    BY <1>2, TypeSynTimer
<1>3. CASE AcceptTimerFired
    BY <1>3, AcceptStep
<1>4. ASSUME NEW p \in net, ReceiveSyn(p) PROVE TypeOK'
    BY <1>4, SynStep
<1>5. ASSUME NEW p \in net, ReceiveSynack(p) PROVE TypeOK'
    BY <1>5, TypeSynack
<1>6. ASSUME NEW p \in net, ReceiveAck(p) PROVE TypeOK'
    BY <1>6, AckStep
<1>7. ASSUME NEW p \in net, Lose(p) PROVE TypeOK'
    BY <1>7 DEF Lose, client, server, TypeOK
<1>8. CASE UNCHANGED vars
    BY <1>8 DEF vars, client, server, TypeOK
<1> QED
    BY <1>1, <1>2, <1>3, <1>4, <1>5, <1>6, <1>7, <1>8 DEF Next

\* Every variable of the handshake keeps its type: numbers stay uint8_t, the list and
\* the table never outgrow their capacity, whatever the descriptors drawn.
THEOREM HandshakeTypeCorrect == Spec => []TypeOK
<1> QED
    BY TypeInit, TypeNext, PTL DEF Spec

-----------------------------------------------------------------------------
(* What the server knows *)

\* The server has queued the attempt, made a socket of it or refused it.
Known(a) ==
    \/ a \in refused
    \/ \E i \in 1 .. Len(attempted) : attempted[i] = a
    \/ \E i \in 2 .. Len(sockets) :
         sockets[i].conn = a.conn /\ sockets[i].lastRead = a.seqNum
            /\ sockets[i].lastSent = a.mySeqNum

\* Every answer under way is to an attempt the server knows, and so is the one a
\* client took for its connection.
Answered(p) ==
    \E x \in Uint8 : /\ p.ack = U8(x + 1)
                     /\ Known([conn |-> p.conn, seqNum |-> x, mySeqNum |-> p.sequence])

Believed(c) == Known([conn |-> c, seqNum |-> lastSent[c], mySeqNum |-> lastRead[c]])

BackedInv ==
    /\ \A p \in net : p.flag = "SYNACK" => Answered(p)
    /\ \A c \in Conns : cState[c] = "ESTABLISHED" => Believed(c)

\* What the server knows it never forgets, unless a new socket takes the descriptor
\* of another one.
LEMMA KnownKept ==
    ASSUME TypeOK, ~Collide, Next, NEW a, Known(a)
    PROVE  Known(a)'
<1>0. /\ attempted \in Seq(Attempt) /\ Len(attempted) \in Nat
      /\ sockets \in Seq(Socket) /\ Len(sockets) \in Nat /\ Len(sockets) >= 1
    BY HandshakeAssumption DEF TypeOK
<1>1. CASE UNCHANGED server
    BY <1>1 DEF server, Known
<1>2. CASE /\ Len(sockets') = Len(sockets) /\ SameIdentities(sockets', sockets)
           /\ refused \subseteq refused'
           /\ \A i \in 1 .. Len(attempted) :
                \E k \in 1 .. Len(attempted') : attempted'[k] = attempted[i]
    <2>1. CASE a \in refused
        BY <1>2, <2>1 DEF Known
    <2>2. CASE \E i \in 1 .. Len(attempted) : attempted[i] = a
        BY <1>2, <2>2 DEF Known
    <2>3. CASE \E i \in 2 .. Len(sockets) :
                sockets[i].conn = a.conn /\ sockets[i].lastRead = a.seqNum
                    /\ sockets[i].lastSent = a.mySeqNum
        <3>1. PICK i \in 2 .. Len(sockets) :
                sockets[i].conn = a.conn /\ sockets[i].lastRead = a.seqNum
                    /\ sockets[i].lastSent = a.mySeqNum
            BY <2>3
        <3>2. i \in 1 .. Len(sockets) /\ i \in 2 .. Len(sockets')
            BY <1>0, <1>2
        <3> QED
            BY <1>2, <3>1, <3>2 DEF Known, SameIdentities
    <2> QED
        BY <2>1, <2>2, <2>3 DEF Known
<1>3. ASSUME NEW p \in net, ReceiveSyn(p) PROVE Known(a)'
    <2>1. PICK b \in Attempt :
            \/ attempted' = <<b>> \o attempted /\ refused' = refused
            \/ attempted' = attempted /\ refused' = refused \cup {b}
        BY <1>3, SynStep
    <2>2. Len(sockets') = Len(sockets) /\ SameIdentities(sockets', sockets)
        BY <1>3, SynStep
    <2>3. CASE attempted' = <<b>> \o attempted
        <3>1. ASSUME NEW i \in 1 .. Len(attempted)
              PROVE  i + 1 \in 1 .. Len(attempted') /\ attempted'[i + 1] = attempted[i]
            BY <1>0, <2>3
        <3> QED
            BY <1>2, <2>1, <2>2, <3>1
    <2>4. CASE attempted' = attempted
        BY <1>2, <2>1, <2>2, <2>4
    <2> QED
        BY <2>1, <2>3, <2>4
<1>4. ASSUME NEW p \in net, ReceiveAck(p) PROVE Known(a)'
    <2>1. attempted' = attempted /\ refused' = refused
        BY <1>4 DEF ReceiveAck
    <2> QED
        BY <1>2, <1>4, <2>1, AckStep
<1>5. CASE AcceptTimerFired
    <2>1. CASE sockets' = Listening /\ attempted' = attempted /\ refused' = refused
        BY <1>2, <2>1, ListeningType
    <2>2. CASE /\ attempted # << >> /\ attempted' = Tail(attempted)
               /\ sockets' \in Insert(Listening, Accepted(Head(attempted)))
               /\ refused' = IF sockets' = Listening
                             THEN refused \cup {Head(attempted)} ELSE refused
        <3> DEFINE h == Head(attempted)
        <3>0. /\ Len(attempted') = Len(attempted) - 1 /\ h = attempted[1] /\ h \in Attempt
              /\ \A i \in 1 .. Len(attempted) - 1 : attempted'[i] = attempted[i + 1]
            BY <1>0, <2>2
        <3>1. /\ Listening \in Seq(Socket) /\ Len(Listening) = Len(sockets)
              /\ SameIdentities(Listening, sockets)
            BY ListeningType
        <3>2. Accepted(h) \in Socket
            BY <3>0, NumberTypes, HandshakeAssumption DEF Accepted, Attempt, Socket, Uint8
        <3>3. \/ sockets' = Listening
              \/ sockets' = Append(Listening, Accepted(h))
            <4>1. Len(Listening) \in 1 .. NSOCK
                BY <3>1 DEF TypeOK
            <4> QED
                BY <2>2, <3>1, <3>2, <4>1, InsertType
        <3>4. ASSUME NEW i \in 1 .. Len(sockets)
              PROVE  /\ i \in 1 .. Len(sockets')
                     /\ sockets'[i].conn = sockets[i].conn
                     /\ sockets'[i].lastRead = sockets[i].lastRead
                     /\ sockets'[i].lastSent = sockets[i].lastSent
            <4>1. i \in 1 .. Len(sockets') /\ sockets'[i] = Listening[i]
                BY <1>0, <3>1, <3>2, <3>3
            <4> QED
                BY <3>1, <4>1 DEF SameIdentities
        <3>5. CASE a \in refused
            BY <2>2, <3>5 DEF Known
        <3>6. CASE \E i \in 2 .. Len(sockets) :
                    sockets[i].conn = a.conn /\ sockets[i].lastRead = a.seqNum
                        /\ sockets[i].lastSent = a.mySeqNum
            <4>1. PICK i \in 2 .. Len(sockets) :
                    sockets[i].conn = a.conn /\ sockets[i].lastRead = a.seqNum
                        /\ sockets[i].lastSent = a.mySeqNum
                BY <3>6
            <4>2. i \in 1 .. Len(sockets) /\ i \in 2 .. Len(sockets')
                BY <3>4
            <4> QED
                BY <3>4, <4>1, <4>2 DEF Known
        <3>7. CASE \E i \in 1 .. Len(attempted) : attempted[i] = a
            <4>1. PICK i \in 1 .. Len(attempted) : attempted[i] = a
                BY <3>7
            <4>2. CASE i = 1
                <5>1. a = h
                    BY <3>0, <4>1, <4>2
                <5>2. CASE sockets' = Listening
                    BY <2>2, <5>1, <5>2 DEF Known
                <5>3. CASE sockets' = Append(Listening, Accepted(h))
                    <6>1. /\ Len(sockets') = Len(sockets) + 1
                          /\ sockets'[Len(sockets) + 1] = Accepted(h)
                        BY <3>1, <3>2, <5>3
                    <6>2. Len(sockets) + 1 \in 2 .. Len(sockets')
                        BY <1>0, <6>1
                    <6>3. /\ Accepted(h).conn = a.conn /\ Accepted(h).lastRead = a.seqNum
                          /\ Accepted(h).lastSent = a.mySeqNum
                        BY <5>1 DEF Accepted
                    <6> QED
                        BY <6>1, <6>2, <6>3 DEF Known
                <5> QED
                    BY <3>3, <5>2, <5>3
            <4>3. CASE i # 1
                <5>1. i - 1 \in 1 .. Len(attempted') /\ i - 1 \in 1 .. Len(attempted) - 1
                    BY <1>0, <3>0, <4>3
                <5>2. attempted'[i - 1] = attempted[(i - 1) + 1]
                    BY <3>0, <5>1
                <5>3. attempted'[i - 1] = a
                    BY <1>0, <4>1, <5>2
                <5> QED
                    BY <5>1, <5>3 DEF Known
            <4> QED
                BY <4>2, <4>3
        <3> QED
            BY <3>5, <3>6, <3>7 DEF Known
    <2> QED
        BY <1>5, <2>1, <2>2, AcceptStep
<1>6. ASSUME NEW c \in Conns, Connect(c) PROVE Known(a)'
    BY <1>1, <1>6 DEF Connect
<1>7. CASE SynTimerFired
    BY <1>1, <1>7 DEF SynTimerFired
<1>8. ASSUME NEW p \in net, ReceiveSynack(p) PROVE Known(a)'
    BY <1>1, <1>8 DEF ReceiveSynack
<1>9. ASSUME NEW p \in net, Lose(p) PROVE Known(a)'
    BY <1>1, <1>9 DEF Lose
<1> QED
    BY <1>3, <1>4, <1>5, <1>6, <1>7, <1>8, <1>9 DEF Next

LEMMA AnsweredKept ==
    ASSUME TypeOK, ~Collide, Next, NEW p, Answered(p)
    PROVE  Answered(p)'
<1>1. PICK x \in Uint8 : /\ p.ack = U8(x + 1)
                         /\ Known([conn |-> p.conn, seqNum |-> x, mySeqNum |-> p.sequence])
    BY DEF Answered
<1>2. Known([conn |-> p.conn, seqNum |-> x, mySeqNum |-> p.sequence])'
    BY <1>1, KnownKept
<1> QED
    BY <1>1, <1>2 DEF Answered

\* The answers under way stay answers when none is sent.
LEMMA AnswersKept ==
    ASSUME TypeOK, BackedInv, ~Collide, Next,
           \A p \in net' : p.flag = "SYNACK" => p \in net
    PROVE  \A p \in net' : p.flag = "SYNACK" => Answered(p)'
    BY AnsweredKept DEF BackedInv

\* What is believed stays so for a client that has taken no step.
LEMMA BelievedKept ==
    ASSUME TypeOK, BackedInv, ~Collide, Next, NEW c \in Conns,
           cState[c] = "ESTABLISHED", lastSent'[c] = lastSent[c], lastRead'[c] = lastRead[c]
    PROVE  Believed(c)'
<1>1. Known([conn |-> c, seqNum |-> lastSent[c], mySeqNum |-> lastRead[c]])
    BY DEF BackedInv, Believed
<1>2. Known([conn |-> c, seqNum |-> lastSent[c], mySeqNum |-> lastRead[c]])'
    BY <1>1, KnownKept
<1> QED
    BY <1>2 DEF Believed

LEMMA BackedInit == Init => BackedInv
    BY DEF Init, BackedInv

LEMMA BackedConnect ==
    ASSUME TypeOK, BackedInv, ~Collide, NEW c \in Conns, Connect(c)
    PROVE  BackedInv'
<1>0. Next
    BY DEF Next
<1>1. PICK isn \in ISNs :
        /\ lastSent' = [lastSent EXCEPT ![c] = isn]
        /\ net' \in Put(net, {[flag |-> "SYN", conn |-> c, sequence |-> isn]})
    BY DEF Connect
<1>2. \A p \in net' : p.flag = "SYNACK" => p \in net
    BY <1>1, PutKeeps
<1>3. ASSUME NEW d \in Conns, cState'[d] = "ESTABLISHED" PROVE Believed(d)'
    <2>1. d # c /\ cState[d] = "ESTABLISHED"
        BY <1>3 DEF Connect, TypeOK
    <2>2. lastSent'[d] = lastSent[d] /\ lastRead'[d] = lastRead[d]
        BY <1>1, <2>1 DEF Connect, TypeOK
    <2> QED
        BY <1>0, <2>1, <2>2, BelievedKept
<1> QED
    BY <1>0, <1>2, <1>3, AnswersKept DEF BackedInv

LEMMA BackedSynTimer ==
    ASSUME TypeOK, BackedInv, ~Collide, SynTimerFired
    PROVE  BackedInv'
<1>0. Next
    BY DEF Next
<1>1. PICK isn \in [Connecting -> ISNs] :
        /\ lastSent' = [c \in Conns |-> IF c \in Connecting THEN isn[c] ELSE lastSent[c]]
        /\ net' \in Put(net, {[flag |-> "SYN", conn |-> c, sequence |-> isn[c]] :
                              c \in Connecting})
    BY DEF SynTimerFired
<1>2. \A p \in net' : p.flag = "SYNACK" => p \in net
    BY <1>1, PutKeeps
<1>3. ASSUME NEW d \in Conns, cState'[d] = "ESTABLISHED" PROVE Believed(d)'
    <2>1. d \notin Connecting /\ cState[d] = "ESTABLISHED"
        BY <1>3 DEF SynTimerFired, Connecting
    <2>2. lastSent'[d] = lastSent[d] /\ lastRead'[d] = lastRead[d]
        BY <1>1, <2>1 DEF SynTimerFired
    <2> QED
        BY <1>0, <2>1, <2>2, BelievedKept
<1> QED
    BY <1>0, <1>2, <1>3, AnswersKept DEF BackedInv

\* A SYNACK is sent with the number of the attempt just queued or refused.
LEMMA BackedSyn ==
    ASSUME TypeOK, BackedInv, ~Collide, NEW p \in net, ReceiveSyn(p)
    PROVE  BackedInv'
<1>0. Next
    BY DEF Next
<1>1. PICK my \in SeqNums :
        LET a == [conn |-> p.conn, seqNum |-> p.sequence, mySeqNum |-> my] IN
        /\ a \in Attempt
        /\ \/ attempted' = <<a>> \o attempted /\ refused' = refused
           \/ attempted' = attempted /\ refused' = refused \cup {a}
        /\ net' \in Put(net \ {p}, {[flag |-> "SYNACK", conn |-> p.conn,
                        sequence |-> my, ack |-> U8(p.sequence + 1)]})
    BY SynStep
<1> DEFINE a == [conn |-> p.conn, seqNum |-> p.sequence, mySeqNum |-> my]
           q == [flag |-> "SYNACK", conn |-> p.conn, sequence |-> my,
                 ack |-> U8(p.sequence + 1)]
<1>2. Known(a)'
    <2>0. a \in Attempt /\ attempted \in Seq(Attempt)
        BY <1>1 DEF TypeOK
    <2>1. CASE attempted' = <<a>> \o attempted
        <3> HIDE DEF a
        <3>1. 1 \in 1 .. Len(attempted') /\ attempted'[1] = a
            BY <2>0, <2>1
        <3> QED
            BY <3>1 DEF Known
    <2>2. CASE refused' = refused \cup {a}
        BY <2>2 DEF Known
    <2> QED
        BY <1>1, <2>1, <2>2
<1>3. Answered(q)'
    <2>1. p.sequence \in Uint8
        BY TypeParts, PacketFields DEF ReceiveSyn
    <2> QED
        BY <1>2, <2>1 DEF Answered
<1>4. ASSUME NEW r \in net', r.flag = "SYNACK" PROVE Answered(r)'
    <2>1. r \in net \/ r = q
        BY <1>1, PutKeeps
    <2>2. CASE r \in net
        BY <1>0, <1>4, <2>2, AnsweredKept DEF BackedInv
    <2> QED
        BY <1>3, <2>1, <2>2
<1>5. ASSUME NEW d \in Conns, cState'[d] = "ESTABLISHED" PROVE Believed(d)'
    <2>1. /\ cState[d] = "ESTABLISHED"
          /\ lastSent'[d] = lastSent[d] /\ lastRead'[d] = lastRead[d]
        BY <1>5 DEF ReceiveSyn, client
    <2> QED
        BY <1>0, <2>1, BelievedKept
<1> QED
    BY <1>4, <1>5 DEF BackedInv

\* The answer a client takes names the last number it sent: an int one more than a
\* uint8_t, which no wrapped answer equals.
LEMMA BackedSynack ==
    ASSUME TypeOK, BackedInv, ~Collide, NEW p \in net, ReceiveSynack(p)
    PROVE  BackedInv'
<1>0. Next
    BY DEF Next
<1>1. \A r \in net' : r.flag = "SYNACK" => r \in net
    <2>1. CASE Answers(p)
        BY <2>1, PutKeeps DEF ReceiveSynack
    <2> QED
        BY <2>1 DEF ReceiveSynack
<1>2. p.conn \in Conns
    BY TypeParts, PacketFields
<1>3. lastSent' = lastSent
    BY DEF ReceiveSynack
<1>4. ASSUME NEW d \in Conns, cState'[d] = "ESTABLISHED" PROVE Believed(d)'
    <2>1. CASE Answers(p) /\ d = p.conn
        <3>1. PICK x \in Uint8 : /\ p.ack = U8(x + 1)
                    /\ Known([conn |-> p.conn, seqNum |-> x, mySeqNum |-> p.sequence])
            BY DEF BackedInv, Answered, ReceiveSynack
        <3>2. lastSent[d] \in Uint8 /\ U8(x + 1) = lastSent[d] + 1
            BY <2>1, <3>1 DEF Answers, TypeOK
        <3>3. x = lastSent[d]
            BY <3>2, AnswerNumber
        <3>4. lastRead'[d] = p.sequence
            BY <2>1 DEF ReceiveSynack, TypeOK
        <3>5. Known([conn |-> p.conn, seqNum |-> x, mySeqNum |-> p.sequence])'
            BY <1>0, <3>1, KnownKept
        <3> QED
            BY <1>3, <2>1, <3>3, <3>4, <3>5 DEF Believed
    <2>2. CASE ~(Answers(p) /\ d = p.conn)
        <3>1. cState[d] = "ESTABLISHED" /\ lastRead'[d] = lastRead[d]
            BY <1>4, <2>2 DEF ReceiveSynack, TypeOK
        <3> QED
            BY <1>0, <1>3, <3>1, BelievedKept
    <2> QED
        BY <2>1, <2>2
<1> QED
    BY <1>0, <1>1, <1>4, AnswersKept DEF BackedInv

\* The rest sends no answer and leaves the client alone.
LEMMA BackedOther ==
    ASSUME TypeOK, BackedInv, ~Collide, Next, net' \subseteq net, UNCHANGED client
    PROVE  BackedInv'
<1>1. \A p \in net' : p.flag = "SYNACK" => Answered(p)'
    BY AnswersKept
<1>2. ASSUME NEW d \in Conns, cState'[d] = "ESTABLISHED" PROVE Believed(d)'
    <2>1. /\ cState[d] = "ESTABLISHED"
          /\ lastSent'[d] = lastSent[d] /\ lastRead'[d] = lastRead[d]
        BY <1>2 DEF client
    <2> QED
        BY <2>1, BelievedKept
<1> QED
    BY <1>1, <1>2 DEF BackedInv

LEMMA BackedNext ==
    ASSUME TypeOK, BackedInv, ~Collide, [Next]_vars
    PROVE  BackedInv'
<1>1. ASSUME NEW c \in Conns, Connect(c) PROVE BackedInv'
    BY <1>1, BackedConnect
<1>2. CASE SynTimerFired
    BY <1>2, BackedSynTimer
<1>3. CASE AcceptTimerFired
    BY <1>3, BackedOther DEF AcceptTimerFired, Next
<1>4. ASSUME NEW p \in net, ReceiveSyn(p) PROVE BackedInv'
    BY <1>4, BackedSyn
<1>5. ASSUME NEW p \in net, ReceiveSynack(p) PROVE BackedInv'
    BY <1>5, BackedSynack
<1>6. ASSUME NEW p \in net, ReceiveAck(p) PROVE BackedInv'
    <2>1. Next /\ net' \subseteq net /\ UNCHANGED client
        BY <1>6 DEF ReceiveAck, Next
    <2> QED
        BY <2>1, BackedOther
<1>7. ASSUME NEW p \in net, Lose(p) PROVE BackedInv'
    <2>1. Next /\ net' \subseteq net /\ UNCHANGED client
        BY <1>7 DEF Lose, Next
    <2> QED
        BY <2>1, BackedOther
<1>8. CASE UNCHANGED vars
    <2>1. \A a : Known(a)' <=> Known(a)
        BY <1>8 DEF vars, server, Known
    <2>2. \A p : Answered(p)' <=> Answered(p)
        BY <2>1 DEF Answered
    <2>3. \A c : Believed(c)' <=> Believed(c)
        BY <1>8, <2>1 DEF vars, client, Believed
    <2> QED
        BY <1>8, <2>2, <2>3 DEF vars, client, BackedInv
<1> QED
    BY <1>1, <1>2, <1>3, <1>4, <1>5, <1>6, <1>7, <1>8 DEF Next

LEMMA BackedFollows == BackedInv => Backed
    BY DEF BackedInv, Believed, Known, Backed

\* A client is established only on an attempt, with the two numbers both sides drew,
\* that the server has queued, made a socket of or refused, as long as the drawn file
\* descriptors are free: an answer to an earlier SYN never establishes.
THEOREM BackedHolds ==
    ASSUME ~Collide
    PROVE  Spec => []Backed
<1>1. TypeOK /\ BackedInv /\ [Next]_vars => TypeOK' /\ BackedInv'
    BY TypeNext, BackedNext
<1> QED
    BY TypeInit, BackedInit, BackedFollows, <1>1, PTL DEF Spec
=============================================================================

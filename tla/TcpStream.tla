------------------------------ MODULE TcpStream ------------------------------
(***************************************************************************)
(* One established connection of TransportP.nc: the byte stream a client   *)
(* application (ConnectionP.connectTimer) pushes through Transport.write,  *)
(* the client's half of the socket, the server's half, and the network     *)
(* between them (IpP and SimpleSendP, abstracted).  The model starts where *)
(* the handshake ends: both sockets are ESTABLISHED and agree on the       *)
(* client's initial sequence number.                                       *)
(*                                                                         *)
(* Byte k of the stream has the value k, as connectTimer.fired writes it.  *)
(* Such a stream never holds "\r\n", so Transport.read returns 0 and never *)
(* moves lastRead or lastReadIndex.                                        *)
(*                                                                         *)
(* uint8_t arithmetic is arithmetic modulo MOD (256 in the code).          *)
(***************************************************************************)
EXTENDS Integers, Sequences

CONSTANTS
    BUF,        \* SOCKET_BUFFER_SIZE (128)
    MAX_DATA,   \* TCP_MAX_DATA (11)
    MOD,        \* 2^8, the range of a uint8_t
    TOTAL,      \* how many bytes the application transfers
    ISNs,       \* the client's possible initial sequence numbers
    POOL,       \* packets one direction of the network holds (SimpleSend's pool)
    Lossy,      \* TRUE when the network may lose packets
    Reordering, \* TRUE when the network may deliver in any order
    Patient,    \* TRUE when resendTimer only fires after the network is quiet
    MayClose    \* TRUE when the application may close the connection

ASSUME StreamAssumption ==
    /\ BUF \in Nat \ {0} /\ MAX_DATA \in Nat \ {0} /\ TOTAL \in Nat /\ POOL \in Nat
    /\ MOD \in Nat /\ 3 * MAX_DATA < MOD /\ BUF < MOD
    /\ ISNs \subseteq 0 .. MOD - 1
    /\ {Lossy, Reordering, Patient, MayClose} \subseteq BOOLEAN

VARIABLES
    written,      \* messageCache[i][1]: bytes the application has written
    cState,       \* the client socket's state
    lastWritten,  \* client: sequence number after the last written byte
    lastSent,     \* client: sequence number of the last byte sent
    lastAck,      \* client: the last cumulative ACK received
    lastAckIndex, \* client: index in sendBuff of the byte lastAck names
    sendBuff,     \* client: bytes written
    sndWindow,    \* client: effectiveWindow
    resendTimer,  \* client: resendTimer is running
    sState,       \* the server socket's state
    lastRead,     \* server: initial sequence number, nothing is ever read
    nextExpected, \* server: the cumulative ACK it sends
    rcvdBuff,     \* server: bytes received
    rcvWindow,    \* server: effectiveWindow
    toServer,     \* packets under way to the server
    toClient,     \* packets under way to the client
    fault,        \* a copy has left its buffer: nothing is known after that
    high          \* history: the most bytes nextExpected has ever covered

app    == <<written>>
client == <<cState, lastWritten, lastSent, lastAck, lastAckIndex, sendBuff,
            sndWindow, resendTimer>>
server == <<sState, lastRead, nextExpected, rcvdBuff, rcvWindow, high>>
net    == <<toServer, toClient>>
vars   == <<app, client, server, net, fault>>

-----------------------------------------------------------------------------
(* uint8_t, bytes and packets *)

U8(x) == x % MOD
Uint8 == 0 .. MOD - 1
Least(a, b) == IF a < b THEN a ELSE b
Most(a, b)  == IF a < b THEN b ELSE a

\* Whatever lies outside a buffer, or was left in one by an earlier use.
Junk == -1
Byte == (0 .. TOTAL - 1) \cup {Junk}

\* The window a side starts with: TCP_MAX_DATA * 3.
WINDOW == 3 * MAX_DATA

Buffer  == [0 .. BUF - 1 -> Byte]
Payload == [0 .. MAX_DATA - 1 -> Byte]

\* A data packet: the ack field carries the length of the payload.
DataPacket == [flag : {"NONE"}, sequence : Uint8, ack : 1 .. MAX_DATA, payload : Payload]
\* The server's ACK, a FIN, and the client's ACK: the server never sends data,
\* so of a client's ACK it only uses the advertised window.
ServerAck == [flag : {"ACK"}, ack : Uint8, advertisedWindow : Uint8]
Fin       == [flag : {"FIN"}]
ClientAck == [flag : {"ACK"}, advertisedWindow : Uint8]

\* A read of sendBuff[i]; the code does not check i.
ReadAt(buff, i) == IF i \in 0 .. BUF - 1 THEN buff[i] ELSE Junk

-----------------------------------------------------------------------------
(* The network.  Ip.ping hands a packet to SimpleSend, which drops it when  *)
(* its pool is empty; nobody looks at the error.                            *)

Put(channel, packets) ==
    LET all == channel \o packets
    IN  SubSeq(all, 1, Least(Len(all), POOL))

Without(channel, i) ==
    SubSeq(channel, 1, i - 1) \o SubSeq(channel, i + 1, Len(channel))

Deliverable(channel) ==
    {i \in 1 .. Len(channel) : Reordering \/ i = 1}

Quiet == toServer = << >> /\ toClient = << >>

-----------------------------------------------------------------------------
(* Transport.sendBuffer (the socket is ESTABLISHED).  The loop sends chunks *)
(* of at most TCP_MAX_DATA bytes until the window or the data runs out.     *)

Available(lw, ls) == U8(lw - ls - 1)

\* The code converts neither lastSent + 1 nor the sum back to uint8_t.
SendIndex(ls, li) == ls + 1 - lastAck + li

\* The packets that carry the n bytes after ls.
Segments(buff, ls, li, n) ==
    [k \in 1 .. (n + MAX_DATA - 1) \div MAX_DATA |->
        LET done  == (k - 1) * MAX_DATA
            len   == Least(MAX_DATA, n - done)
            start == SendIndex(U8(ls + done), li)
        IN  [flag |-> "NONE", sequence |-> U8(ls + done + 1), ack |-> len,
             payload |-> [j \in 0 .. MAX_DATA - 1 |->
                            IF j < len THEN ReadAt(buff, start + j) ELSE Junk]]]

\* The timer is started only when the loop ended on an empty window; running
\* out of data returns from inside the loop.
NeedsTimerNever(lw, ls, win) == FALSE
NeedsTimer(lw, ls, win) == win = 0 /\ (ls < lw - 1 \/ ls > lw + 1)

SendBuffer(buff, lw, ls, li, timer) ==
    LET n    == Least(sndWindow, Available(lw, ls))
        last == U8(ls + n)
    IN  /\ toServer' = Put(toServer, Segments(buff, ls, li, n))
        /\ lastSent' = last
        /\ sndWindow' = sndWindow - n
        /\ resendTimer' = (timer \/ NeedsTimer(lw, last, sndWindow - n))

-----------------------------------------------------------------------------
(* The client *)

\* Transport.write's choice of where the new bytes go: acknowledged bytes are
\* removed first when the rest of the buffer is too short for n.
WriteIndex == U8(lastWritten - lastAck + lastAckIndex)
Compacts(n) == lastAckIndex > 0 /\ BUF - WriteIndex < n

\* memcpy(&sendBuff[0], &sendBuff[lastAckIndex + 1], lastWritten - lastAck)
Compacted ==
    [j \in 0 .. BUF - 1 |-> IF j < U8(lastWritten - lastAck)
                            THEN ReadAt(sendBuff, lastAckIndex + 1 + j)
                            ELSE sendBuff[j]]

\* memcpy(&sendBuff[at], data, BUF - at): the n bytes the caller meant, then
\* whatever follows them in its buffer.
Appended(buff, at, n) ==
    [j \in 0 .. BUF - 1 |-> IF j < at THEN buff[j]
                            ELSE IF j < at + n THEN written + j - at ELSE Junk]

\* connectTimer.fired: offer what is left of the transfer, at most one buffer
\* (128 bytes) of it, to Transport.write.
ConnectTimerFired ==
    /\ ~fault /\ cState = "ESTABLISHED" /\ written < TOTAL
    /\ LET want == Least(BUF, TOTAL - written)
           at   == IF Compacts(want) THEN U8(lastWritten - lastAck) ELSE WriteIndex
           base == IF Compacts(want) THEN Compacted ELSE sendBuff
           li   == IF Compacts(want) THEN 0 ELSE lastAckIndex
           n    == Least(want, BUF - at)
           buff == Appended(base, at, n)
       IN IF at > BUF
          THEN fault' = TRUE /\ UNCHANGED <<app, client, net>>
          ELSE /\ written' = written + n
               /\ lastWritten' = U8(lastWritten + n)
               /\ lastAckIndex' = li
               /\ sendBuff' = buff
               /\ SendBuffer(buff, U8(lastWritten + n), lastSent, li, resendTimer)
               /\ UNCHANGED <<cState, lastAck, toClient, fault>>
    /\ UNCHANGED server

\* resendTimer.fired: go back to the last acknowledged byte.
ResendTimerFired ==
    /\ ~fault /\ resendTimer
    /\ Patient => Quiet
    /\ IF cState = "ESTABLISHED"
       THEN SendBuffer(sendBuff, lastWritten, U8(lastAck - 1), lastAckIndex, FALSE)
       ELSE resendTimer' = FALSE /\ UNCHANGED <<lastSent, sndWindow, toServer>>
    /\ UNCHANGED <<app, cState, lastWritten, lastAck, lastAckIndex, sendBuff,
                   server, toClient, fault>>

\* The number of bytes under way when ack is the last acknowledgement.
OutstandingOffByOne(ack) == lastSent - ack
Outstanding(ack) == lastSent - ack + 1

\* Transport.receive, case ACK.
ClientReceiveAck(i) ==
    LET p == toClient[i] IN
    /\ ~fault /\ p.flag = "ACK"
    /\ toClient' = Without(toClient, i)
    /\ IF cState = "ESTABLISHED"
       THEN /\ lastAckIndex' = U8(lastAckIndex + p.ack - lastAck)
            /\ lastAck' = p.ack
            /\ sndWindow' = U8(p.advertisedWindow - Outstanding(p.ack))
       ELSE UNCHANGED <<lastAckIndex, lastAck, sndWindow>>
    /\ UNCHANGED <<app, cState, lastWritten, lastSent, sendBuff, resendTimer,
                   server, toServer, fault>>

\* Connection.clientClose and Transport.close: the socket is forgotten by the
\* application, so what is not yet written or sent never will be.
CloseWithoutFin ==
    /\ ~fault /\ MayClose /\ cState = "ESTABLISHED"
    /\ cState' = "CLOSED"
    /\ UNCHANGED <<app, lastWritten, lastSent, lastAck, lastAckIndex, sendBuff,
                   sndWindow, resendTimer, server, net, fault>>
Close ==
    /\ ~fault /\ MayClose /\ cState = "ESTABLISHED"
    /\ cState' = "CLOSED"
    /\ toServer' = Put(toServer, <<[flag |-> "FIN"]>>)
    /\ UNCHANGED <<app, lastWritten, lastSent, lastAck, lastAckIndex, sendBuff,
                   sndWindow, resendTimer, server, toClient, fault>>

\* Transport.receive, case FIN, at the client: the server only sends a FIN in
\* answer to the client's, so the socket is CLOSED already.
ClientReceiveFin(i) ==
    /\ ~fault /\ toClient[i].flag = "FIN"
    /\ toClient' = Without(toClient, i)
    /\ toServer' = Put(toServer, <<[flag |-> "ACK", advertisedWindow |-> sndWindow]>>)
    /\ UNCHANGED <<app, client, server, fault>>

-----------------------------------------------------------------------------
(* The server *)

\* Transport.receive, default case: which data packets are taken, compared as
\* ints and not modulo 2^8.
AcceptsAny(p) == TRUE
Accepts(p) == p.sequence <= nextExpected \/ p.sequence + p.ack <= nextExpected

\* nextExpected = myHeader->sequence + myHeader->ack
Advanced(p) == U8(p.sequence + p.ack)

\* Where the payload goes: all TCP_MAX_DATA bytes of it are copied.
ReceiveIndexOffByOne(p) == U8(p.sequence - lastRead)
ReceiveIndex(p) == U8(p.sequence - lastRead - 1)

Stored(p) ==
    [j \in 0 .. BUF - 1 |->
        IF j \in ReceiveIndex(p) .. ReceiveIndex(p) + MAX_DATA - 1
        THEN p.payload[j - ReceiveIndex(p)] ELSE rcvdBuff[j]]

\* effectiveWindow after len more bytes: never zero, or the sender would never
\* be told that it may send again.
WindowAfterUnwrapped(len) == rcvWindow - len
WindowAfter(len) == LET w == U8(rcvWindow - len) IN IF w = 0 THEN 1 ELSE w

\* The server's cumulative acknowledgement.
ReplyOffByOne(ne, win) == [flag |-> "ACK", ack |-> U8(ne + 1), advertisedWindow |-> win]
Reply(ne, win) == [flag |-> "ACK", ack |-> ne, advertisedWindow |-> win]

\* The stream offset a cumulative acknowledgement stands for.
Offset(ack) == U8(ack - lastRead - 1)

\* Data is taken in every state of the socket, CLOSED included.
ServerReceiveData(i) ==
    LET p == toServer[i] IN
    /\ ~fault /\ p.flag = "NONE"
    /\ IF ~Accepts(p)
       THEN /\ toClient' = Put(toClient, <<Reply(nextExpected, rcvWindow)>>)
            /\ UNCHANGED <<nextExpected, rcvdBuff, rcvWindow, high, fault>>
       ELSE IF ReceiveIndex(p) + MAX_DATA > BUF
       THEN /\ fault' = TRUE
            /\ UNCHANGED <<nextExpected, rcvdBuff, rcvWindow, high, toClient>>
       ELSE /\ nextExpected' = Advanced(p)
            /\ rcvdBuff' = Stored(p)
            /\ rcvWindow' = WindowAfter(p.ack)
            /\ high' = Most(high, Offset(nextExpected'))
            /\ toClient' = Put(toClient, <<Reply(nextExpected', rcvWindow')>>)
            /\ UNCHANGED fault
    /\ toServer' = Without(toServer, i)
    /\ UNCHANGED <<app, client, sState, lastRead>>

\* Transport.receive, case ACK: the handshake's last ACK, or the answer to the
\* server's FIN.  The server has nothing outstanding, so its window becomes
\* what the client advertises.
ServerReceiveAck(i) ==
    LET p == toServer[i] IN
    /\ ~fault /\ p.flag = "ACK"
    /\ toServer' = Without(toServer, i)
    /\ rcvWindow' = IF sState = "ESTABLISHED" THEN p.advertisedWindow ELSE rcvWindow
    /\ UNCHANGED <<app, client, sState, lastRead, nextExpected, rcvdBuff, high,
                   toClient, fault>>

\* Transport.receive, case FIN: acknowledge, close this side with a FIN of its
\* own, and fall through to case ACK, which ignores a socket not ESTABLISHED.
ServerReceiveFin(i) ==
    /\ ~fault /\ toServer[i].flag = "FIN"
    /\ toServer' = Without(toServer, i)
    /\ toClient' = Put(toClient, <<Reply(nextExpected, rcvWindow)>> \o
                                 IF sState = "CLOSED" THEN << >> ELSE <<[flag |-> "FIN"]>>)
    /\ sState' = "CLOSED"
    /\ UNCHANGED <<app, client, lastRead, nextExpected, rcvdBuff, rcvWindow, high, fault>>

-----------------------------------------------------------------------------
(* The network loses a packet *)

LoseToServer(i) ==
    /\ ~fault /\ Lossy
    /\ toServer' = Without(toServer, i)
    /\ UNCHANGED <<app, client, server, toClient, fault>>

LoseToClient(i) ==
    /\ ~fault /\ Lossy
    /\ toClient' = Without(toClient, i)
    /\ UNCHANGED <<app, client, server, toServer, fault>>

-----------------------------------------------------------------------------
(* The specification.  Transport.connect and the SYNACK set the client up,  *)
(* Transport.accept the server; the handshake's ACK may still be under way. *)

Init ==
    /\ written = 0
    /\ lastRead \in ISNs
    /\ cState = "ESTABLISHED" /\ sState = "ESTABLISHED"
    /\ lastWritten = U8(lastRead + 1) /\ lastAck = U8(lastRead + 1)
    /\ lastSent = lastRead /\ lastAckIndex = 0
    /\ nextExpected = U8(lastRead + 1)
    /\ sendBuff = [j \in 0 .. BUF - 1 |-> Junk] /\ rcvdBuff = [j \in 0 .. BUF - 1 |-> Junk]
    /\ sndWindow = WINDOW /\ rcvWindow = WINDOW
    /\ resendTimer = FALSE
    /\ toServer \in {<< >>, <<[flag |-> "ACK", advertisedWindow |-> WINDOW]>>}
    /\ toClient = << >>
    /\ fault = FALSE
    /\ high = 0

Next ==
    \/ ConnectTimerFired
    \/ ResendTimerFired
    \/ Close
    \/ \E i \in Deliverable(toClient) : ClientReceiveAck(i)
    \/ \E i \in Deliverable(toClient) : ClientReceiveFin(i)
    \/ \E i \in Deliverable(toServer) : ServerReceiveData(i)
    \/ \E i \in Deliverable(toServer) : ServerReceiveAck(i)
    \/ \E i \in Deliverable(toServer) : ServerReceiveFin(i)
    \/ \E i \in 1 .. Len(toServer) : LoseToServer(i)
    \/ \E i \in 1 .. Len(toClient) : LoseToClient(i)

Spec == Init /\ [][Next]_vars

\* A running timer fires and a packet that is not lost arrives.  A transfer
\* that goes on retransmitting gets a packet through: strong fairness.
Fairness ==
    /\ WF_vars(ConnectTimerFired)
    /\ WF_vars(ResendTimerFired)
    /\ SF_vars(\E i \in Deliverable(toClient) : ClientReceiveAck(i))
    /\ SF_vars(\E i \in Deliverable(toClient) : ClientReceiveFin(i))
    /\ SF_vars(\E i \in Deliverable(toServer) : ServerReceiveData(i))
    /\ SF_vars(\E i \in Deliverable(toServer) : ServerReceiveAck(i))
    /\ SF_vars(\E i \in Deliverable(toServer) : ServerReceiveFin(i))

FairSpec == Spec /\ Fairness

-----------------------------------------------------------------------------
(* Properties *)

\* The transfers for which the code is right: the bytes, and the tail of the
\* last payload, fit the buffers, and the sequence numbers do not wrap.
Fits ==
    /\ TOTAL + MAX_DATA - 1 <= BUF
    /\ \A isn \in ISNs : isn + TOTAL + 1 < MOD

\* Every variable keeps its type.
TypeOK ==
    /\ written \in 0 .. TOTAL /\ high \in Uint8
    /\ cState \in {"ESTABLISHED", "CLOSED"} /\ sState \in {"ESTABLISHED", "CLOSED"}
    /\ lastWritten \in Uint8 /\ lastSent \in Uint8 /\ lastAck \in Uint8
    /\ lastAckIndex \in Uint8 /\ nextExpected \in Uint8 /\ lastRead \in Uint8
    /\ sndWindow \in Uint8 /\ rcvWindow \in Uint8
    /\ sendBuff \in Buffer /\ rcvdBuff \in Buffer
    /\ resendTimer \in BOOLEAN /\ fault \in BOOLEAN
    /\ toServer \in Seq(DataPacket \cup Fin \cup ClientAck)
    /\ toClient \in Seq(ServerAck \cup Fin)

\* What the receiver acknowledges is what the application wrote: every byte
\* below nextExpected sits in rcvdBuff at its place, whatever the network and
\* the retransmissions did (Transport.receive, default case).
StreamIntegrity ==
    ~fault => \A k \in 0 .. Offset(nextExpected) - 1 :
                k < written /\ k < BUF /\ rcvdBuff[k] = k

\* The client never takes a byte for acknowledged that the server has not had:
\* lastAck, and every ACK under way, stay within what nextExpected has covered.
AckedWasReceived ==
    /\ Offset(lastAck) <= high
    /\ \A i \in 1 .. Len(toClient) :
        toClient[i].flag = "ACK" => Offset(toClient[i].ack) <= high

\* The inductive invariant behind the two: each side's numbers are positions in
\* the stream, each buffer holds the stream where they say, and so does every
\* packet under way.
Carries(p, from, to) ==
    /\ p.sequence > from /\ p.sequence + p.ack <= to
    /\ \A j \in 0 .. p.ack - 1 : p.payload[j] = p.sequence - from - 1 + j

DataCorrect(p) == p.flag = "NONE" => Carries(p, lastRead, lastWritten)

AckCorrect(p) ==
    p.flag = "ACK" => p.ack > lastRead /\ p.ack <= lastRead + 1 + high

ClientInv ==
    /\ written \in {0, TOTAL}
    /\ lastWritten = lastRead + 1 + written
    /\ lastAck \in lastRead + 1 .. lastRead + 1 + high
    /\ lastAckIndex = lastAck - lastRead - 1
    /\ lastSent \in lastRead .. lastWritten - 1
    /\ \A k \in 0 .. written - 1 : sendBuff[k] = k

ServerInv ==
    /\ lastRead \in ISNs
    /\ high <= written
    /\ nextExpected \in lastRead + 1 .. lastRead + 1 + high
    /\ \A k \in 0 .. nextExpected - lastRead - 2 : rcvdBuff[k] = k

NetInv ==
    /\ \A i \in 1 .. Len(toServer) : DataCorrect(toServer[i])
    /\ \A i \in 1 .. Len(toClient) : AckCorrect(toClient[i])

StreamInv == ClientInv /\ ServerInv /\ NetInv /\ ~fault

\* No copy into sendBuff or rcvdBuff leaves the buffer.
BuffersHold == ~fault

\* write's "remove already ACKed bytes": every byte written and not yet
\* acknowledged stays in sendBuff where sendBuffer will look for it.
UnackedKept ==
    \A k \in 0 .. U8(lastWritten - lastAck) - 1 :
        ReadAt(sendBuff, lastAckIndex + k) = Offset(lastAck) + k

\* The payload bytes under way to the server.
InFlight ==
    LET sum[n \in 0 .. Len(toServer)] ==
            IF n = 0 THEN 0
            ELSE sum[n - 1] + IF toServer[n].flag = "NONE" THEN toServer[n].ack ELSE 0
    IN  sum[Len(toServer)]

\* Flow control: what the client has under way, and what it still believes it
\* may send, never exceed the window the server has left.
FlowControl == cState = "ESTABLISHED" => InFlight + sndWindow <= rcvWindow

\* Transport.nc on write: "This data will eventually be transmitted".  All of
\* the transfer is received, and the client learns it, or the connection is
\* closed.
Transferred ==
    <>[](\/ high = TOTAL /\ lastAck = lastWritten
         \/ cState = "CLOSED" \/ fault)

\* Connection.clientClose: a close reaches the other side, whatever is still
\* under way when it happens.
CloseCompletes == cState = "CLOSED" ~> (sState = "CLOSED" \/ fault)
=============================================================================

--------------------------- MODULE TcpStreamProof ---------------------------
(***************************************************************************)
(* Proofs about TcpStream, for every buffer size, payload size, transfer,  *)
(* pool and network (lossy or not, in order or not).                       *)
(***************************************************************************)
EXTENDS TcpStream, WellFoundedInduction, TLAPS

-----------------------------------------------------------------------------
(* uint8_t *)

\* A uint8_t is in range, whatever integer is stored in it.
LEMMA U8Type == \A x \in Int : U8(x) \in Uint8
  BY StreamAssumption DEF U8, Uint8

\* Storing a number that fits changes nothing.
LEMMA U8Fits == \A x \in Uint8 : U8(x) = x
  BY StreamAssumption DEF U8, Uint8

\* What is stored in a uint8_t is an integer below 2^8.
LEMMA Uint8Range == /\ Uint8 \subseteq Int
                    /\ \A x \in Uint8 : 0 <= x /\ x < MOD
                    /\ 0 \in Uint8
  BY StreamAssumption DEF Uint8

-----------------------------------------------------------------------------
(* The network's sequences: no operation on a channel makes up a packet. *)

LEMMA PutType ==
  ASSUME NEW S, NEW c \in Seq(S), NEW ps \in Seq(S)
  PROVE  Put(c, ps) \in Seq(S)
  BY StreamAssumption DEF Put, Least

LEMMA WithoutType ==
  ASSUME NEW S, NEW c \in Seq(S), NEW i \in 1 .. Len(c)
  PROVE  Without(c, i) \in Seq(S)
  BY DEF Without

LEMMA Delivered ==
  ASSUME NEW S, NEW c \in Seq(S), NEW i \in Deliverable(c)
  PROVE  i \in 1 .. Len(c) /\ c[i] \in S
  BY DEF Deliverable

-----------------------------------------------------------------------------
(* Transport.sendBuffer *)

\* Every chunk but those past the end holds a byte.
LEMMA ChunkStart ==
  ASSUME NEW n \in Nat, NEW k \in 1 .. (n + MAX_DATA - 1) \div MAX_DATA
  PROVE  (k - 1) * MAX_DATA \in 0 .. n - 1
<1> DEFINE q == (n + MAX_DATA - 1) \div MAX_DATA
<1>1. q \in Nat /\ MAX_DATA * q <= n + MAX_DATA - 1
  BY StreamAssumption
<1>2. MAX_DATA * k <= MAX_DATA * q
  BY <1>1, StreamAssumption
<1>3. (k - 1) * MAX_DATA = MAX_DATA * k - MAX_DATA
  BY <1>1, StreamAssumption
<1>4. MAX_DATA * k >= MAX_DATA
  BY <1>1, StreamAssumption
<1> QED BY <1>1, <1>2, <1>3, <1>4, StreamAssumption

\* What sendBuffer puts on the wire has the shape of data packets.
LEMMA SegmentsType ==
  ASSUME NEW buff \in Buffer, NEW ls \in Int, NEW li \in Int, NEW n \in Nat
  PROVE  Segments(buff, ls, li, n) \in Seq(DataPacket)
<1> DEFINE q == (n + MAX_DATA - 1) \div MAX_DATA
<1>1. q \in Nat
  BY StreamAssumption
<1>2. ASSUME NEW k \in 1 .. q
      PROVE  Segments(buff, ls, li, n)[k] \in DataPacket
  <2> DEFINE done == (k - 1) * MAX_DATA
             len  == Least(MAX_DATA, n - done)
             start == SendIndex(U8(ls + done), li)
             load == [j \in 0 .. MAX_DATA - 1 |->
                        IF j < len THEN ReadAt(buff, start + j) ELSE Junk]
  <2>1. done \in 0 .. n - 1
    BY ChunkStart
  <2>2. len \in 1 .. MAX_DATA
    BY <2>1, StreamAssumption DEF Least
  <2>3. \A i : ReadAt(buff, i) \in Byte
    BY DEF ReadAt, Buffer, Byte
  <2>4. load \in Payload
    BY <2>3 DEF Payload, Byte
  <2>5. U8(ls + done + 1) \in Uint8
    BY <2>1, U8Type
  <2>6. Segments(buff, ls, li, n)[k] =
          [flag |-> "NONE", sequence |-> U8(ls + done + 1), ack |-> len, payload |-> load]
    BY DEF Segments
  <2> HIDE DEF done, len, load
  <2> QED BY <2>2, <2>4, <2>5, <2>6 DEF DataPacket
<1>3. Segments(buff, ls, li, n) = [k \in 1 .. q |-> Segments(buff, ls, li, n)[k]]
  BY DEF Segments
<1> HIDE DEF q
<1> QED BY <1>1, <1>2, <1>3

-----------------------------------------------------------------------------
(* Type correctness *)

\* Every packet under way to the server, to the client.
ToServer == DataPacket \cup Fin \cup ClientAck
ToClient == ServerAck \cup Fin

\* Both writes and retransmissions call sendBuffer: it keeps the types of what
\* it assigns.
LEMMA SendBufferType ==
  ASSUME TypeOK, NEW buff \in Buffer, NEW lw \in Uint8, NEW ls \in Uint8,
         NEW li \in Uint8, NEW timer \in BOOLEAN,
         SendBuffer(buff, lw, ls, li, timer)
  PROVE  /\ toServer' \in Seq(ToServer)
         /\ lastSent' \in Uint8 /\ sndWindow' \in Uint8 /\ resendTimer' \in BOOLEAN
<1> DEFINE n == Least(sndWindow, Available(lw, ls))
<1>1. n \in 0 .. sndWindow
  BY U8Type, StreamAssumption DEF Available, Least, TypeOK, Uint8
<1>2. Segments(buff, ls, li, n) \in Seq(ToServer)
  BY <1>1, SegmentsType DEF ToServer, TypeOK, Uint8
<1>3. toServer' = Put(toServer, Segments(buff, ls, li, n))
  BY DEF SendBuffer
<1>4. toServer' \in Seq(ToServer)
  BY <1>2, <1>3, PutType DEF TypeOK, ToServer
<1>5. lastSent' = U8(ls + n) /\ sndWindow' = sndWindow - n
  BY DEF SendBuffer
<1>6. lastSent' \in Uint8
  BY <1>1, <1>5, U8Type, StreamAssumption DEF Uint8, TypeOK
<1>7. sndWindow' \in Uint8
  BY <1>1, <1>5, StreamAssumption DEF Uint8, TypeOK
<1>8. resendTimer' \in BOOLEAN
  BY DEF SendBuffer, NeedsTimer
<1> QED BY <1>4, <1>6, <1>7, <1>8

\* The type invariant holds in the first state.
LEMMA InitType == Init => TypeOK
<1> SUFFICES ASSUME Init PROVE TypeOK
  OBVIOUS
<1>1. /\ lastRead \in Uint8 /\ WINDOW \in Uint8
      /\ U8(lastRead + 1) \in Uint8 /\ 0 \in Uint8
  BY StreamAssumption, U8Type DEF Init, Uint8, WINDOW
<1>2. [j \in 0 .. BUF - 1 |-> Junk] \in Buffer
  BY DEF Buffer, Byte
<1>3. toServer \in Seq(DataPacket \cup Fin \cup ClientAck)
  <2>1. [flag |-> "ACK", advertisedWindow |-> WINDOW] \in ClientAck
    BY <1>1 DEF ClientAck
  <2>2. toServer = << >> \/ toServer = <<[flag |-> "ACK", advertisedWindow |-> WINDOW]>>
    BY DEF Init
  <2>3. \A r \in ToServer : << >> \in Seq(ToServer) /\ <<r>> \in Seq(ToServer)
    OBVIOUS
  <2> QED BY <2>1, <2>2, <2>3 DEF ToServer
<1>4. toClient \in Seq(ServerAck \cup Fin) /\ written \in 0 .. TOTAL
  BY StreamAssumption DEF Init
<1> QED BY <1>1, <1>2, <1>3, <1>4 DEF Init, TypeOK

\* A write fills sendBuff with bytes and moves the pointers within range.
LEMMA ConnectTimerType == TypeOK /\ ConnectTimerFired => TypeOK'
<1> SUFFICES ASSUME TypeOK, ConnectTimerFired PROVE TypeOK'
  OBVIOUS
<1> DEFINE want == Least(BUF, TOTAL - written)
           at   == IF Compacts(want) THEN U8(lastWritten - lastAck) ELSE WriteIndex
           base == IF Compacts(want) THEN Compacted ELSE sendBuff
           li   == IF Compacts(want) THEN 0 ELSE lastAckIndex
           n    == Least(want, BUF - at)
           buff == Appended(base, at, n)
<1>1. at \in Uint8 /\ li \in Uint8
  <2>1. U8(lastWritten - lastAck) \in Uint8 /\ WriteIndex \in Uint8
    BY U8Type, Uint8Range DEF TypeOK, WriteIndex
  <2>2. lastAckIndex \in Uint8 /\ 0 \in Uint8
    BY Uint8Range DEF TypeOK
  <2> QED BY <2>1, <2>2
<1>2. base \in Buffer
  BY DEF TypeOK, Compacted, ReadAt, Buffer, Byte
<1>3. CASE at > BUF
  BY <1>3 DEF ConnectTimerFired, TypeOK, app, client, server, net
<1>4. CASE ~(at > BUF)
  <2>1. at \in 0 .. BUF /\ written \in 0 .. TOTAL - 1
    <3> HIDE DEF at
    <3>1. at \in Int /\ 0 <= at /\ BUF \in Int
      BY <1>1, Uint8Range, StreamAssumption
    <3>2. written \in 0 .. TOTAL /\ written < TOTAL
      BY DEF TypeOK, ConnectTimerFired
    <3> QED BY <1>4, <3>1, <3>2, StreamAssumption
  <2>2. n \in 0 .. TOTAL - written /\ n \in 0 .. BUF - at
    <3> HIDE DEF at
    <3> QED BY <2>1, StreamAssumption DEF Least
  <2>3. buff \in Buffer
    <3> HIDE DEF at, base, n
    <3> QED BY <1>2, <2>1, <2>2, StreamAssumption DEF Appended, Buffer, Byte
  <2>3a. U8(lastWritten + n) \in Uint8
    <3> HIDE DEF n
    <3> QED BY <2>1, <2>2, U8Type, Uint8Range, StreamAssumption DEF TypeOK
  <2>4. /\ written' = written + n /\ lastWritten' = U8(lastWritten + n)
        /\ lastAckIndex' = li /\ sendBuff' = buff
        /\ SendBuffer(buff, U8(lastWritten + n), lastSent, li, resendTimer)
        /\ UNCHANGED <<cState, lastAck, toClient, fault, server>>
    BY <1>4 DEF ConnectTimerFired
  <2>5. written' \in 0 .. TOTAL
    <3> HIDE DEF at, n
    <3> QED BY <2>1, <2>2, <2>4, StreamAssumption
  <2> HIDE DEF want, at, base, li, n, buff
  <2>6. /\ toServer' \in Seq(ToServer) /\ lastSent' \in Uint8
        /\ sndWindow' \in Uint8 /\ resendTimer' \in BOOLEAN
    BY <1>1, <2>3, <2>4, <2>3a, SendBufferType DEF TypeOK
  <2> QED BY <1>1, <2>3, <2>4, <2>5, <2>6, <2>3a DEF TypeOK, ToServer, server
<1> QED BY <1>3, <1>4

\* A retransmission keeps the types.
LEMMA ResendTimerType == TypeOK /\ ResendTimerFired => TypeOK'
<1> SUFFICES ASSUME TypeOK, ResendTimerFired PROVE TypeOK'
  OBVIOUS
<1>1. CASE cState = "ESTABLISHED"
  <2>1. U8(lastAck - 1) \in Uint8
    BY U8Type, StreamAssumption DEF TypeOK, Uint8
  <2>2. /\ toServer' \in Seq(ToServer) /\ lastSent' \in Uint8
        /\ sndWindow' \in Uint8 /\ resendTimer' \in BOOLEAN
    BY <1>1, <2>1, SendBufferType DEF ResendTimerFired, TypeOK
  <2> QED BY <2>2 DEF ResendTimerFired, TypeOK, ToServer, app, server
<1>2. CASE cState # "ESTABLISHED"
  BY <1>2 DEF ResendTimerFired, TypeOK, app, server
<1> QED BY <1>1, <1>2

-----------------------------------------------------------------------------
(* What the two sides put on the wire besides data *)

LEMMA ControlPackets ==
  /\ [flag |-> "FIN"] \in Fin
  /\ \A w \in Uint8 : [flag |-> "ACK", advertisedWindow |-> w] \in ClientAck
  /\ \A a, w \in Uint8 : Reply(a, w) \in ServerAck
  BY DEF Fin, ClientAck, ServerAck, Reply

\* The client's other handlers keep the types.
LEMMA ClientType ==
  ASSUME TypeOK,
         \/ Close
         \/ \E i \in Deliverable(toClient) : ClientReceiveAck(i)
         \/ \E i \in Deliverable(toClient) : ClientReceiveFin(i)
  PROVE  TypeOK'
<1>1. CASE Close
  <2>1. <<[flag |-> "FIN"]>> \in Seq(ToServer)
    BY ControlPackets DEF ToServer
  <2>2. toServer' \in Seq(ToServer)
    BY <1>1, <2>1, PutType DEF Close, TypeOK, ToServer
  <2> QED BY <1>1, <2>2 DEF Close, TypeOK, ToServer, app, server
<1>2. ASSUME NEW i \in Deliverable(toClient), ClientReceiveAck(i) PROVE TypeOK'
  <2>1. i \in 1 .. Len(toClient) /\ toClient[i] \in ToClient
    BY Delivered DEF TypeOK, ToClient
  <2>2. toClient' \in Seq(ToClient)
    BY <1>2, <2>1, WithoutType DEF ClientReceiveAck, TypeOK, ToClient
  <2>3. toClient[i].ack \in Uint8 /\ toClient[i].advertisedWindow \in Uint8
    BY <1>2, <2>1 DEF ClientReceiveAck, ToClient, ServerAck, Fin
  <2>4. lastAckIndex' \in Uint8 /\ lastAck' \in Uint8 /\ sndWindow' \in Uint8
    <3> DEFINE p == toClient[i]
    <3>1. /\ p.ack \in Int /\ p.advertisedWindow \in Int /\ lastSent \in Int
          /\ lastAck \in Int /\ lastAckIndex \in Int
      BY <2>3, Uint8Range DEF TypeOK
    <3>2. /\ U8(lastAckIndex + p.ack - lastAck) \in Uint8
          /\ U8(p.advertisedWindow - Outstanding(p.ack)) \in Uint8
      BY <3>1, U8Type DEF Outstanding
    <3> QED BY <1>2, <2>3, <3>2 DEF ClientReceiveAck, TypeOK
  <2> QED BY <1>2, <2>2, <2>4 DEF ClientReceiveAck, TypeOK, ToClient, app, server
<1>3. ASSUME NEW i \in Deliverable(toClient), ClientReceiveFin(i) PROVE TypeOK'
  <2>1. i \in 1 .. Len(toClient)
    BY Delivered DEF TypeOK
  <2>2. toClient' \in Seq(ToClient)
    BY <1>3, <2>1, WithoutType DEF ClientReceiveFin, TypeOK, ToClient
  <2>3. <<[flag |-> "ACK", advertisedWindow |-> sndWindow]>> \in Seq(ToServer)
    BY ControlPackets DEF ToServer, TypeOK
  <2>4. toServer' \in Seq(ToServer)
    BY <1>3, <2>3, PutType DEF ClientReceiveFin, TypeOK, ToServer
  <2> QED BY <1>3, <2>2, <2>4 DEF ClientReceiveFin, TypeOK, ToClient, ToServer,
                                  app, client, server
<1> QED BY <1>1, <1>2, <1>3

\* The server's handlers keep the types.
LEMMA ServerType ==
  ASSUME TypeOK,
         \/ \E i \in Deliverable(toServer) : ServerReceiveData(i)
         \/ \E i \in Deliverable(toServer) : ServerReceiveAck(i)
         \/ \E i \in Deliverable(toServer) : ServerReceiveFin(i)
  PROVE  TypeOK'
<1>1. ASSUME NEW i \in Deliverable(toServer), ServerReceiveData(i) PROVE TypeOK'
  <2> DEFINE p == toServer[i]
  <2>1. i \in 1 .. Len(toServer) /\ p \in ToServer
    BY Delivered DEF TypeOK, ToServer
  <2>2. p \in DataPacket
    BY <1>1, <2>1 DEF ServerReceiveData, ToServer, Fin, ClientAck
  <2>3. p.sequence \in Int /\ p.ack \in Int /\ p.payload \in Payload
    BY <2>2, Uint8Range DEF DataPacket
  <2>4. toServer' \in Seq(ToServer)
    BY <1>1, <2>1, WithoutType DEF ServerReceiveData, TypeOK, ToServer
  <2>5. /\ nextExpected \in Uint8 /\ rcvWindow \in Uint8 /\ high \in Uint8
        /\ lastRead \in Uint8 /\ nextExpected \in Int /\ rcvWindow \in Int /\ lastRead \in Int
    BY Uint8Range DEF TypeOK
  <2>6. Advanced(p) \in Uint8 /\ WindowAfter(p.ack) \in Uint8 /\ ReceiveIndex(p) \in Uint8
    <3>1. 1 \in Uint8
      BY StreamAssumption DEF Uint8
    <3> QED BY <2>3, <2>5, <3>1, U8Type DEF Advanced, WindowAfter, ReceiveIndex
  <2>7. Stored(p) \in Buffer
    <3>1. ReceiveIndex(p) \in Int
      BY <2>6, Uint8Range
    <3>2. \A j \in 0 .. BUF - 1 : Stored(p)[j] \in Byte
      BY <2>3, <3>1, StreamAssumption DEF Stored, Payload, TypeOK, Buffer
    <3> QED BY <3>2 DEF Stored, Buffer
  <2>8. \A a \in Uint8 : Most(high, Offset(a)) \in Uint8
    <3> SUFFICES ASSUME NEW a \in Uint8 PROVE Most(high, Offset(a)) \in Uint8
      OBVIOUS
    <3>1. Offset(a) \in Uint8
      BY <2>5, U8Type, Uint8Range DEF Offset
    <3> QED BY <2>5, <3>1 DEF Most
  <2>9. /\ nextExpected' \in Uint8 /\ rcvdBuff' \in Buffer /\ rcvWindow' \in Uint8
        /\ high' \in Uint8 /\ fault' \in BOOLEAN /\ toClient' \in Seq(ToClient)
    <3>1. \A a, w \in Uint8 : Put(toClient, <<Reply(a, w)>>) \in Seq(ToClient)
      <4> SUFFICES ASSUME NEW a \in Uint8, NEW w \in Uint8
                   PROVE  Put(toClient, <<Reply(a, w)>>) \in Seq(ToClient)
        OBVIOUS
      <4>1. Reply(a, w) \in ToClient
        BY ControlPackets DEF ToClient
      <4>2. <<Reply(a, w)>> \in Seq(ToClient)
        BY <4>1
      <4> QED BY <4>2, PutType DEF TypeOK, ToClient
    <3>2. CASE ~Accepts(p)
      BY <1>1, <2>5, <3>1, <3>2 DEF ServerReceiveData, TypeOK
    <3>3. CASE Accepts(p) /\ ReceiveIndex(p) + MAX_DATA > BUF
      BY <1>1, <3>3 DEF ServerReceiveData, TypeOK, ToClient
    <3>4. CASE Accepts(p) /\ ~(ReceiveIndex(p) + MAX_DATA > BUF)
      <4>1. /\ nextExpected' = Advanced(p) /\ rcvdBuff' = Stored(p)
            /\ rcvWindow' = WindowAfter(p.ack) /\ high' = Most(high, Offset(nextExpected'))
            /\ toClient' = Put(toClient, <<Reply(nextExpected', rcvWindow')>>)
            /\ fault' = fault
        BY <1>1, <3>4 DEF ServerReceiveData
      <4> QED BY <2>6, <2>7, <2>8, <3>1, <4>1 DEF TypeOK
    <3> QED BY <3>2, <3>3, <3>4
  <2> QED BY <1>1, <2>4, <2>9 DEF ServerReceiveData, TypeOK, ToServer, ToClient, app, client
<1>2. ASSUME NEW i \in Deliverable(toServer), ServerReceiveAck(i) PROVE TypeOK'
  <2>1. i \in 1 .. Len(toServer) /\ toServer[i] \in ToServer
    BY Delivered DEF TypeOK, ToServer
  <2>2. toServer' \in Seq(ToServer)
    BY <1>2, <2>1, WithoutType DEF ServerReceiveAck, TypeOK, ToServer
  <2>3. toServer[i].advertisedWindow \in Uint8
    BY <1>2, <2>1 DEF ServerReceiveAck, ToServer, ClientAck, Fin, DataPacket
  <2> QED BY <1>2, <2>2, <2>3 DEF ServerReceiveAck, TypeOK, ToServer, app, client
<1>3. ASSUME NEW i \in Deliverable(toServer), ServerReceiveFin(i) PROVE TypeOK'
  <2>1. i \in 1 .. Len(toServer)
    BY Delivered DEF TypeOK
  <2>2. toServer' \in Seq(ToServer)
    BY <1>3, <2>1, WithoutType DEF ServerReceiveFin, TypeOK, ToServer
  <2>3. Reply(nextExpected, rcvWindow) \in ToClient /\ [flag |-> "FIN"] \in ToClient
    BY ControlPackets DEF ToClient, TypeOK
  <2>4. <<Reply(nextExpected, rcvWindow)>> \o
           (IF sState = "CLOSED" THEN << >> ELSE <<[flag |-> "FIN"]>>) \in Seq(ToClient)
    BY <2>3
  <2>5. toClient' \in Seq(ToClient)
    BY <1>3, <2>4, PutType DEF ServerReceiveFin, TypeOK, ToClient
  <2> QED BY <1>3, <2>2, <2>5 DEF ServerReceiveFin, TypeOK, ToServer, ToClient, app, client
<1> QED BY <1>1, <1>2, <1>3

\* Losing a packet keeps the types.
LEMMA LoseType ==
  ASSUME TypeOK,
         \/ \E i \in 1 .. Len(toServer) : LoseToServer(i)
         \/ \E i \in 1 .. Len(toClient) : LoseToClient(i)
  PROVE  TypeOK'
<1>1. ASSUME NEW i \in 1 .. Len(toServer), LoseToServer(i) PROVE TypeOK'
  BY <1>1, WithoutType DEF LoseToServer, TypeOK, app, client, server
<1>2. ASSUME NEW i \in 1 .. Len(toClient), LoseToClient(i) PROVE TypeOK'
  BY <1>2, WithoutType DEF LoseToClient, TypeOK, app, client, server
<1> QED BY <1>1, <1>2

\* Every variable of the connection keeps its type: the uint8_t fields stay in
\* range and the buffers and channels hold bytes and packets.
THEOREM TypeCorrect == Spec => []TypeOK
<1>1. TypeOK /\ [Next]_vars => TypeOK'
  <2> SUFFICES ASSUME TypeOK, [Next]_vars PROVE TypeOK'
    OBVIOUS
  <2>1. CASE ConnectTimerFired
    BY <2>1, ConnectTimerType
  <2>2. CASE ResendTimerFired
    BY <2>2, ResendTimerType
  <2>3. CASE \/ Close
             \/ \E i \in Deliverable(toClient) : ClientReceiveAck(i)
             \/ \E i \in Deliverable(toClient) : ClientReceiveFin(i)
    BY <2>3, ClientType
  <2>4. CASE \/ \E i \in Deliverable(toServer) : ServerReceiveData(i)
             \/ \E i \in Deliverable(toServer) : ServerReceiveAck(i)
             \/ \E i \in Deliverable(toServer) : ServerReceiveFin(i)
    BY <2>4, ServerType
  <2>5. CASE \/ \E i \in 1 .. Len(toServer) : LoseToServer(i)
             \/ \E i \in 1 .. Len(toClient) : LoseToClient(i)
    BY <2>5, LoseType
  <2>6. CASE UNCHANGED vars
    BY <2>6 DEF TypeOK, vars, app, client, server, net
  <2> QED BY <2>1, <2>2, <2>3, <2>4, <2>5, <2>6 DEF Next
<1> QED BY <1>1, InitType, PTL DEF Spec

-----------------------------------------------------------------------------
(* The stream.  From here on the transfer fits the buffers and the sequence *)
(* numbers do not wrap.                                                     *)

\* Every packet of a channel that grew was there before or is new.
LEMMA PutElement ==
  ASSUME NEW S, NEW c \in Seq(S), NEW ps \in Seq(S), NEW i \in 1 .. Len(Put(c, ps))
  PROVE  \/ \E j \in 1 .. Len(c) : Put(c, ps)[i] = c[j]
         \/ \E j \in 1 .. Len(ps) : Put(c, ps)[i] = ps[j]
<1> DEFINE all == c \o ps
           n   == Least(Len(all), POOL)
<1>1. all \in Seq(S) /\ Len(all) = Len(c) + Len(ps)
  OBVIOUS
<1>2. n \in 0 .. Len(all)
  BY <1>1, StreamAssumption DEF Least
<1>3. Put(c, ps) = SubSeq(all, 1, n)
  BY DEF Put
<1> HIDE DEF n
<1>4. i \in 1 .. n /\ Put(c, ps)[i] = all[i]
  <2> HIDE DEF all
  <2> QED BY <1>1, <1>2, <1>3
<1>5. IF i <= Len(c) THEN all[i] = c[i] ELSE all[i] = ps[i - Len(c)]
  BY <1>1, <1>2, <1>4
<1>6. CASE i <= Len(c)
  BY <1>4, <1>5, <1>6
<1>7. CASE i > Len(c)
  <2>1. i - Len(c) \in 1 .. Len(ps)
    BY <1>1, <1>2, <1>4, <1>7
  <2> QED BY <1>4, <1>5, <1>7, <2>1
<1> QED BY <1>6, <1>7

\* Every packet of a channel that shrank was there before.
LEMMA WithoutElement ==
  ASSUME NEW S, NEW c \in Seq(S), NEW k \in 1 .. Len(c), NEW i \in 1 .. Len(Without(c, k))
  PROVE  \E j \in 1 .. Len(c) : Without(c, k)[i] = c[j]
<1>1. /\ SubSeq(c, 1, k - 1) \in Seq(S) /\ Len(SubSeq(c, 1, k - 1)) = k - 1
      /\ SubSeq(c, k + 1, Len(c)) \in Seq(S) /\ Len(SubSeq(c, k + 1, Len(c))) = Len(c) - k
  OBVIOUS
<1>2. i \in 1 .. Len(c) - 1
  <2> DEFINE a == SubSeq(c, 1, k - 1)
             b == SubSeq(c, k + 1, Len(c))
  <2>1. a \in Seq(S) /\ b \in Seq(S) /\ Len(a) + Len(b) = Len(c) - 1
    <3>1. a \in Seq(S) /\ Len(a) = k - 1
      BY <1>1
    <3>2. b \in Seq(S) /\ Len(b) = Len(c) - k
      BY <1>1
    <3>3. Len(c) \in Nat /\ k \in Int
      OBVIOUS
    <3> HIDE DEF a, b
    <3> QED BY <3>1, <3>2, <3>3
  <2>2. Without(c, k) = a \o b
    BY DEF Without
  <2> HIDE DEF a, b
  <2> QED BY <2>1, <2>2
<1>3. CASE i <= k - 1
  <2>1. Without(c, k)[i] = c[i]
    BY <1>1, <1>2, <1>3 DEF Without
  <2> QED BY <1>2, <2>1
<1>4. CASE i > k - 1
  <2>1. Without(c, k)[i] = c[i + 1]
    BY <1>1, <1>2, <1>4 DEF Without
  <2> QED BY <1>2, <2>1
<1> QED BY <1>2, <1>3, <1>4

\* The fields of a data packet are numbers.
LEMMA DataFields ==
  \A p \in ToServer : p.flag = "NONE" =>
      /\ p \in DataPacket
      /\ p.sequence \in Int /\ p.ack \in 1 .. MAX_DATA /\ p.ack \in Int
      /\ p.payload \in Payload
<1> SUFFICES ASSUME NEW p \in ToServer, p.flag = "NONE"
             PROVE  /\ p \in DataPacket
                    /\ p.sequence \in Int /\ p.ack \in 1 .. MAX_DATA /\ p.ack \in Int
                    /\ p.payload \in Payload
  OBVIOUS
<1>1. p \in DataPacket
  BY DEF ToServer, Fin, ClientAck
<1>2. p.sequence \in Uint8 /\ p.ack \in 1 .. MAX_DATA /\ p.payload \in Payload
  BY <1>1 DEF DataPacket
<1>3. p.sequence \in Int
  BY <1>2, Uint8Range
<1>4. p.ack \in Int
  BY <1>2
<1> QED BY <1>1, <1>2, <1>3, <1>4

\* The numbers of the stream do not wrap.
LEMMA StreamNumbers ==
  ASSUME Fits, TypeOK, StreamInv
  PROVE  /\ lastRead \in Nat /\ lastRead + TOTAL + 1 < MOD
         /\ \A x \in 0 .. TOTAL : lastRead + 1 + x \in Uint8 /\ x \in Uint8
         /\ written \in 0 .. TOTAL /\ high \in 0 .. written
<1>1. lastRead \in ISNs /\ lastRead \in Nat
  BY StreamAssumption DEF StreamInv, ServerInv
<1>2. lastRead + TOTAL + 1 < MOD
  BY <1>1 DEF Fits
<1>3. written \in 0 .. TOTAL /\ high \in Int /\ 0 <= high
  BY Uint8Range DEF TypeOK
<1>4. high \in 0 .. written
  BY <1>3 DEF StreamInv, ServerInv
<1>5. \A x \in 0 .. TOTAL : lastRead + 1 + x \in Uint8 /\ x \in Uint8
  BY <1>1, <1>2, StreamAssumption DEF Uint8
<1> QED BY <1>1, <1>2, <1>3, <1>4, <1>5

\* Every data packet sendBuffer makes carries the bytes its sequence number
\* names.
LEMMA SegmentsCorrect ==
  ASSUME Fits, NEW r \in ISNs, NEW w \in 0 .. TOTAL, NEW buff \in Buffer,
         NEW ls \in r .. r + w, NEW n \in 0 .. r + w - ls, NEW li,
         lastAck \in Int, li = lastAck - r - 1,
         \A k \in 0 .. w - 1 : buff[k] = k
  PROVE  \A i \in 1 .. Len(Segments(buff, ls, li, n)) :
            Carries(Segments(buff, ls, li, n)[i], r, r + 1 + w)
<1> SUFFICES ASSUME NEW i \in 1 .. Len(Segments(buff, ls, li, n))
             PROVE  Carries(Segments(buff, ls, li, n)[i], r, r + 1 + w)
  OBVIOUS
<1> DEFINE q == (n + MAX_DATA - 1) \div MAX_DATA
           done == (i - 1) * MAX_DATA
           len  == Least(MAX_DATA, n - done)
           p == Segments(buff, ls, li, n)[i]
<1>1. r \in Nat /\ r + TOTAL + 1 < MOD /\ TOTAL \in Nat /\ MAX_DATA \in Nat \ {0}
      /\ TOTAL <= BUF /\ BUF \in Nat
  BY StreamAssumption DEF Fits
<1>2. q \in Nat /\ Len(Segments(buff, ls, li, n)) = q
  BY <1>1, StreamAssumption DEF Segments
<1>3. done \in 0 .. n - 1
  BY <1>1, <1>2, ChunkStart
<1> HIDE DEF q, done
<1>4. len \in 1 .. n - done
  BY <1>1, <1>3 DEF Least
<1>5. ls + done \in Uint8 /\ ls + done + 1 \in Uint8
  BY <1>1, <1>3, StreamAssumption DEF Uint8
<1>6. U8(ls + done) = ls + done /\ U8(ls + done + 1) = ls + done + 1
  BY <1>5, U8Fits
<1>7. SendIndex(U8(ls + done), li) = ls + done - r
  BY <1>1, <1>3, <1>6 DEF SendIndex
<1>8. /\ p.sequence = ls + done + 1 /\ p.ack = len
      /\ p.payload = [j \in 0 .. MAX_DATA - 1 |->
                        IF j < len THEN ReadAt(buff, ls + done - r + j) ELSE Junk]
  BY <1>2, <1>6, <1>7 DEF Segments, q, done
<1>9. ASSUME NEW j \in 0 .. len - 1
      PROVE  p.payload[j] = ls + done - r + j
  <2>1. j \in 0 .. MAX_DATA - 1 /\ j < len
    BY <1>1, <1>3, <1>4 DEF Least
  <2>2. ls + done - r + j \in 0 .. w - 1
    BY <1>1, <1>3, <1>4
  <2>3. ReadAt(buff, ls + done - r + j) = ls + done - r + j
    BY <1>1, <2>2 DEF ReadAt
  <2> QED BY <1>8, <2>1, <2>3
<1> HIDE DEF len, p
<1>10. \A j \in 0 .. p.ack - 1 : p.payload[j] = p.sequence - r - 1 + j
  BY <1>1, <1>3, <1>4, <1>8, <1>9
<1>11. p.sequence > r /\ p.sequence + p.ack <= r + 1 + w
  BY <1>1, <1>3, <1>4, <1>8
<1> QED BY <1>10, <1>11 DEF p, Carries

-----------------------------------------------------------------------------
(* The inductive invariant *)

LEMMA InitStream == Fits /\ Init => StreamInv
<1> SUFFICES ASSUME Fits, Init PROVE StreamInv
  OBVIOUS
<1>1. lastRead \in ISNs /\ lastRead \in Nat /\ lastRead + TOTAL + 1 < MOD /\ TOTAL \in Nat
  BY StreamAssumption DEF Init, Fits
<1>2. U8(lastRead + 1) = lastRead + 1
  <2>1. lastRead + 1 \in Uint8
    BY <1>1, StreamAssumption DEF Uint8
  <2> QED BY <2>1, U8Fits
<1>3. NetInv
  BY DEF Init, NetInv, DataCorrect
<1>4. ClientInv
  BY <1>1, <1>2 DEF Init, ClientInv
<1>5. ServerInv
  BY <1>1, <1>2 DEF Init, ServerInv
<1> QED BY <1>3, <1>4, <1>5 DEF Init, StreamInv

\* A call of sendBuffer on a consistent socket keeps the socket consistent and
\* puts only correct packets on the wire.
LEMMA SendBufferCorrect ==
  ASSUME Fits, TypeOK, StreamInv, NEW w \in {0, TOTAL}, written <= w,
         NEW buff \in Buffer, \A k \in 0 .. w - 1 : buff[k] = k,
         NEW ls \in lastRead .. lastRead + w, NEW timer,
         SendBuffer(buff, lastRead + 1 + w, ls, lastAckIndex, timer),
         lastRead' = lastRead, lastWritten' = lastRead + 1 + w
  PROVE  /\ lastSent' \in lastRead .. lastRead + w
         /\ \A i \in 1 .. Len(toServer') : DataCorrect(toServer[i])'
<1> DEFINE lw == lastRead + 1 + w
           n  == Least(sndWindow, Available(lw, ls))
           ps == Segments(buff, ls, lastAckIndex, n)
<1>1. /\ lastRead \in Nat /\ lastRead + TOTAL + 1 < MOD /\ TOTAL \in Nat /\ w \in 0 .. TOTAL
      /\ written \in 0 .. TOTAL /\ sndWindow \in Nat /\ lastAck \in Int
      /\ lastRead \in ISNs /\ lastAckIndex = lastAck - lastRead - 1
      /\ lastWritten = lastRead + 1 + written
  <2>1. /\ lastRead \in Nat /\ lastRead + TOTAL + 1 < MOD /\ TOTAL \in Nat
        /\ w \in 0 .. TOTAL /\ written \in 0 .. TOTAL
    BY StreamNumbers, StreamAssumption
  <2>2. sndWindow \in Nat /\ lastAck \in Int
    BY Uint8Range DEF TypeOK
  <2> QED BY <2>1, <2>2 DEF StreamInv, ServerInv, ClientInv
<1>2. Available(lw, ls) = lastRead + w - ls
  <2>1. lw - ls - 1 = lastRead + w - ls /\ lastRead + w - ls \in Uint8
    BY <1>1, StreamAssumption DEF Uint8
  <2> QED BY <2>1, U8Fits DEF Available
<1>3. n \in 0 .. lastRead + w - ls
  BY <1>1, <1>2 DEF Least
<1>4. toServer' = Put(toServer, ps) /\ lastSent' = U8(ls + n)
  BY DEF SendBuffer
<1>5. toServer \in Seq(ToServer) /\ ps \in Seq(ToServer)
  <2>1. ps \in Seq(DataPacket)
    BY <1>1, <1>3, SegmentsType
  <2> QED BY <2>1 DEF TypeOK, ToServer
<1>6. lastSent' \in lastRead .. lastRead + w
  <2>1. ls + n \in Uint8
    BY <1>1, <1>3, StreamAssumption DEF Uint8
  <2>2. lastSent' = ls + n
    BY <1>4, <2>1, U8Fits
  <2> QED BY <1>1, <1>3, <2>2
<1>7. \A j \in 1 .. Len(ps) : Carries(ps[j], lastRead, lw)
  <2> HIDE DEF n
  <2> QED BY <1>1, <1>3, SegmentsCorrect
<1> HIDE DEF n, ps
<1>8. ASSUME NEW j \in 1 .. Len(toServer), toServer[j].flag = "NONE"
      PROVE  Carries(toServer[j], lastRead, lw)
  <2> DEFINE p == toServer[j]
  <2>1. p \in ToServer
    BY <1>5
  <2>2. p.sequence \in Int /\ p.ack \in Int
    BY <1>8, <2>1, DataFields
  <2>3. Carries(p, lastRead, lastWritten)
    BY <1>8 DEF StreamInv, NetInv, DataCorrect
  <2> HIDE DEF p
  <2>4. p.sequence + p.ack <= lw
    BY <1>1, <2>2, <2>3 DEF Carries
  <2> QED BY <2>3, <2>4 DEF Carries, p
<1>9. ASSUME NEW i \in 1 .. Len(toServer')
      PROVE  DataCorrect(toServer[i])'
  <2>1. \/ \E j \in 1 .. Len(toServer) : toServer'[i] = toServer[j]
        \/ \E j \in 1 .. Len(ps) : toServer'[i] = ps[j]
    BY <1>4, <1>5, PutElement
  <2>2. toServer'[i].flag = "NONE" => Carries(toServer'[i], lastRead, lw)
    BY <1>7, <1>8, <2>1
  <2> QED BY <2>2 DEF DataCorrect
<1> QED BY <1>6, <1>9

\* The whole transfer goes into the empty send buffer with the one write that
\* connectTimer makes.
LEMMA ConnectTimerWrites ==
  ASSUME Fits, TypeOK, StreamInv, ConnectTimerFired
  PROVE  /\ written = 0 /\ high = 0 /\ TOTAL \in Nat \ {0} /\ TOTAL <= BUF /\ BUF \in Nat
         /\ lastRead \in Nat /\ lastRead + TOTAL + 1 < MOD
         /\ lastWritten = lastRead + 1 /\ lastAck = lastRead + 1 /\ lastAckIndex = 0
         /\ lastSent = lastRead
         /\ written' = TOTAL /\ lastWritten' = lastRead + 1 + TOTAL
         /\ lastAckIndex' = lastAckIndex
         /\ UNCHANGED <<cState, lastAck, toClient, fault, server>>
         /\ \E buff \in Buffer :
               /\ sendBuff' = buff /\ \A k \in 0 .. TOTAL - 1 : buff[k] = k
               /\ SendBuffer(buff, lastRead + 1 + TOTAL, lastSent, lastAckIndex, resendTimer)
<1>1. /\ written = 0 /\ high = 0 /\ TOTAL \in Nat \ {0} /\ TOTAL <= BUF /\ BUF \in Nat
      /\ lastRead \in Nat /\ lastRead + TOTAL + 1 < MOD
      /\ lastWritten = lastRead + 1 /\ lastAck = lastRead + 1 /\ lastAckIndex = 0
      /\ lastSent = lastRead
  <2>1. /\ lastRead \in Nat /\ lastRead + TOTAL + 1 < MOD /\ written \in 0 .. TOTAL
        /\ high \in 0 .. written /\ MAX_DATA \in Nat \ {0} /\ TOTAL \in Nat /\ BUF \in Nat
    BY StreamNumbers, StreamAssumption
  <2>2. TOTAL <= BUF
    BY <2>1 DEF Fits
  <2>3. written = 0 /\ TOTAL # 0
    BY <2>1 DEF ConnectTimerFired, StreamInv, ClientInv
  <2> QED BY <2>1, <2>2, <2>3 DEF StreamInv, ClientInv
<1>2. U8(0) = 0 /\ U8(lastRead + 1 + TOTAL) = lastRead + 1 + TOTAL
  <2>1. 0 \in Uint8 /\ lastRead + 1 + TOTAL \in Uint8
    BY <1>1, StreamAssumption DEF Uint8
  <2> QED BY <2>1, U8Fits
<1>3. WriteIndex = 0 /\ Least(BUF, TOTAL - written) = TOTAL /\ ~Compacts(TOTAL)
  <2>1. lastWritten - lastAck + lastAckIndex = 0
    BY <1>1
  <2> QED BY <1>1, <1>2, <2>1 DEF WriteIndex, Least, Compacts
<1> DEFINE buff == Appended(sendBuff, 0, TOTAL)
<1>4. /\ written' = TOTAL /\ lastWritten' = lastRead + 1 + TOTAL /\ lastAckIndex' = lastAckIndex
      /\ sendBuff' = buff
      /\ SendBuffer(buff, lastRead + 1 + TOTAL, lastSent, lastAckIndex, resendTimer)
      /\ UNCHANGED <<cState, lastAck, toClient, fault, server>>
  <2>1. Least(TOTAL, BUF - 0) = TOTAL /\ written + TOTAL = TOTAL /\ ~(0 > BUF)
        /\ lastWritten + TOTAL = lastRead + 1 + TOTAL
    BY <1>1 DEF Least
  <2> HIDE DEF buff
  <2> QED BY <1>1, <1>2, <1>3, <2>1 DEF ConnectTimerFired, buff
<1>5. buff \in Buffer /\ \A k \in 0 .. TOTAL - 1 : buff[k] = k
  <2>1. \A j \in 0 .. BUF - 1 : buff[j] = IF j < TOTAL THEN j ELSE Junk
    BY <1>1 DEF Appended
  <2>2. buff = [j \in 0 .. BUF - 1 |-> buff[j]]
    BY DEF Appended
  <2>3. \A j \in 0 .. BUF - 1 : buff[j] \in Byte
    BY <1>1, <2>1 DEF Byte
  <2>4. buff \in Buffer
    BY <2>2, <2>3 DEF Buffer
  <2> QED BY <1>1, <2>1, <2>4
<1> HIDE DEF buff
<1> QED BY <1>1, <1>4, <1>5

LEMMA ConnectTimerStream == Fits /\ TypeOK /\ StreamInv /\ ConnectTimerFired => StreamInv'
<1> SUFFICES ASSUME Fits, TypeOK, StreamInv, ConnectTimerFired PROVE StreamInv'
  OBVIOUS
<1>1. /\ written = 0 /\ high = 0 /\ TOTAL \in Nat \ {0}
      /\ lastRead \in Nat /\ lastRead + TOTAL + 1 < MOD
      /\ lastWritten = lastRead + 1 /\ lastAck = lastRead + 1 /\ lastAckIndex = 0
      /\ lastSent = lastRead
  BY ConnectTimerWrites
<1>4. /\ written' = TOTAL /\ lastWritten' = lastRead + 1 + TOTAL /\ lastAckIndex' = lastAckIndex
      /\ UNCHANGED <<cState, lastAck, toClient, fault, server>>
  BY ConnectTimerWrites
<1>5. PICK buff \in Buffer :
        /\ sendBuff' = buff /\ \A k \in 0 .. TOTAL - 1 : buff[k] = k
        /\ SendBuffer(buff, lastRead + 1 + TOTAL, lastSent, lastAckIndex, resendTimer)
  BY ConnectTimerWrites
<1>6. /\ lastSent' \in lastRead .. lastRead + TOTAL
      /\ \A i \in 1 .. Len(toServer') : DataCorrect(toServer[i])'
  <2>1. lastRead' = lastRead /\ lastSent \in lastRead .. lastRead + TOTAL /\ written <= TOTAL
    BY <1>1, <1>4 DEF server
  <2> QED BY <1>4, <1>5, <2>1, SendBufferCorrect
<1>7. ClientInv'
  BY <1>1, <1>4, <1>5, <1>6 DEF ClientInv, server
<1>8. ServerInv'
  BY <1>1, <1>4 DEF StreamInv, ServerInv, server
<1>9. NetInv' /\ ~fault'
  BY <1>4, <1>6 DEF StreamInv, NetInv, AckCorrect, server
<1> QED BY <1>7, <1>8, <1>9 DEF StreamInv

\* Going back to the last acknowledged byte keeps the socket consistent.
LEMMA ResendTimerStream == Fits /\ TypeOK /\ StreamInv /\ ResendTimerFired => StreamInv'
<1> SUFFICES ASSUME Fits, TypeOK, StreamInv, ResendTimerFired PROVE StreamInv'
  OBVIOUS
<1>1. /\ lastRead \in Nat /\ lastRead + TOTAL + 1 < MOD /\ TOTAL \in Nat
      /\ written \in 0 .. TOTAL /\ written \in {0, TOTAL} /\ high \in 0 .. written
      /\ lastWritten = lastRead + 1 + written
      /\ lastAck \in lastRead + 1 .. lastRead + 1 + high
      /\ lastSent \in lastRead .. lastWritten - 1
      /\ sendBuff \in Buffer /\ \A k \in 0 .. written - 1 : sendBuff[k] = k
  BY StreamNumbers, StreamAssumption DEF StreamInv, ClientInv, TypeOK
<1>2. /\ UNCHANGED <<app, cState, lastWritten, lastAck, lastAckIndex, sendBuff,
                     server, toClient, fault>>
      /\ written' = written /\ lastRead' = lastRead
  BY DEF ResendTimerFired, app, server
<1>3. /\ lastSent' \in lastRead .. lastWritten - 1
      /\ \A i \in 1 .. Len(toServer') : DataCorrect(toServer[i])'
  <2>1. CASE cState = "ESTABLISHED"
    <3>1. U8(lastAck - 1) = lastAck - 1
      <4>1. lastAck - 1 \in Uint8
        BY <1>1, StreamAssumption DEF Uint8
      <4> QED BY <4>1, U8Fits
    <3>2. SendBuffer(sendBuff, lastRead + 1 + written, lastAck - 1, lastAckIndex, FALSE)
      BY <1>1, <2>1, <3>1 DEF ResendTimerFired
    <3>3. lastAck - 1 \in lastRead .. lastRead + written /\ written <= written
          /\ lastWritten' = lastRead + 1 + written
      BY <1>1, <1>2
    <3>4. /\ lastSent' \in lastRead .. lastRead + written
          /\ \A i \in 1 .. Len(toServer') : DataCorrect(toServer[i])'
      BY <1>1, <1>2, <3>2, <3>3, SendBufferCorrect
    <3> QED BY <1>1, <3>4
  <2>2. CASE cState # "ESTABLISHED"
    BY <1>1, <1>2, <2>2 DEF ResendTimerFired, StreamInv, NetInv, DataCorrect
  <2> QED BY <2>1, <2>2
<1>4. ClientInv'
  BY <1>1, <1>2, <1>3 DEF StreamInv, ClientInv, server
<1>5. ServerInv' /\ ~fault'
  BY <1>2 DEF StreamInv, ServerInv, server
<1>6. NetInv'
  BY <1>2, <1>3 DEF StreamInv, NetInv, AckCorrect, server
<1> QED BY <1>4, <1>5, <1>6 DEF StreamInv

-----------------------------------------------------------------------------
(* The handlers that only take packets from the network, or answer them *)

\* What a channel holds after new packets entered it: what it held, or them.
LEMMA PutToServer ==
  \A c, ps \in Seq(ToServer) : \A i \in 1 .. Len(Put(c, ps)) :
     \/ \E j \in 1 .. Len(c) : Put(c, ps)[i] = c[j]
     \/ \E j \in 1 .. Len(ps) : Put(c, ps)[i] = ps[j]
BY PutElement

LEMMA PutToClient ==
  \A c, ps \in Seq(ToClient) : \A i \in 1 .. Len(Put(c, ps)) :
     \/ \E j \in 1 .. Len(c) : Put(c, ps)[i] = c[j]
     \/ \E j \in 1 .. Len(ps) : Put(c, ps)[i] = ps[j]
BY PutElement

\* When nothing but the channels, the sockets' states and the windows change,
\* and the channels gain no data packet and no new ACK, the invariant stays.
LEMMA ChannelStream ==
  ASSUME StreamInv,
         UNCHANGED <<written, lastWritten, lastSent, lastAck, lastAckIndex, sendBuff,
                     lastRead, nextExpected, rcvdBuff, high, fault>>,
         \A i \in 1 .. Len(toServer') :
             \/ toServer'[i].flag # "NONE"
             \/ \E j \in 1 .. Len(toServer) : toServer'[i] = toServer[j],
         \A i \in 1 .. Len(toClient') :
             \/ toClient'[i].flag # "ACK"
             \/ toClient'[i].ack = nextExpected
             \/ \E j \in 1 .. Len(toClient) : toClient'[i] = toClient[j]
  PROVE  StreamInv'
<1>1. ClientInv' /\ ServerInv' /\ ~fault'
  BY DEF StreamInv, ClientInv, ServerInv
<1>2. \A p : DataCorrect(p) => Carries(p, lastRead', lastWritten') \/ p.flag # "NONE"
  BY DEF DataCorrect
<1>3. \A i \in 1 .. Len(toServer') : DataCorrect(toServer[i])'
  BY <1>2 DEF StreamInv, NetInv, DataCorrect
<1>4. nextExpected > lastRead /\ nextExpected <= lastRead + 1 + high
  <2>1. nextExpected \in lastRead + 1 .. lastRead + 1 + high /\ lastRead \in Int
    BY StreamAssumption DEF StreamInv, ServerInv
  <2> QED BY <2>1
<1>5. \A i \in 1 .. Len(toClient') : AckCorrect(toClient[i])'
  BY <1>4 DEF StreamInv, NetInv, AckCorrect
<1> QED BY <1>1, <1>3, <1>5 DEF StreamInv, NetInv

\* Closing, the exchange of FINs, the handshake's ACK and losses touch neither
\* the stream nor the pointers into it.
LEMMA ControlStream ==
  ASSUME TypeOK, StreamInv,
         \/ Close
         \/ \E i \in Deliverable(toClient) : ClientReceiveFin(i)
         \/ \E i \in Deliverable(toServer) : ServerReceiveAck(i)
         \/ \E i \in Deliverable(toServer) : ServerReceiveFin(i)
         \/ \E i \in 1 .. Len(toServer) : LoseToServer(i)
         \/ \E i \in 1 .. Len(toClient) : LoseToClient(i)
  PROVE  StreamInv'
<1>1. toServer \in Seq(ToServer) /\ toClient \in Seq(ToClient)
  BY DEF TypeOK, ToServer, ToClient
<1>2. CASE Close
  <2> DEFINE ps == <<[flag |-> "FIN"]>>
  <2>1. ps \in Seq(ToServer) /\ \A j \in 1 .. Len(ps) : ps[j].flag # "NONE"
    BY ControlPackets DEF ToServer
  <2>2. toServer' = Put(toServer, ps)
    BY <1>2 DEF Close
  <2> HIDE DEF ps
  <2>3. \A i \in 1 .. Len(toServer') :
           \/ toServer'[i].flag # "NONE"
           \/ \E j \in 1 .. Len(toServer) : toServer'[i] = toServer[j]
    <3>1. \A i \in 1 .. Len(Put(toServer, ps)) :
             \/ \E j \in 1 .. Len(toServer) : Put(toServer, ps)[i] = toServer[j]
             \/ \E j \in 1 .. Len(ps) : Put(toServer, ps)[i] = ps[j]
      BY <1>1, <2>1, PutToServer
    <3> QED BY <2>1, <2>2, <3>1
  <2> QED BY <1>2, <2>3, ChannelStream DEF Close, app, server
<1>3. ASSUME NEW k \in Deliverable(toClient), ClientReceiveFin(k) PROVE StreamInv'
  <2> DEFINE ps == <<[flag |-> "ACK", advertisedWindow |-> sndWindow]>>
  <2>1. ps \in Seq(ToServer) /\ \A j \in 1 .. Len(ps) : ps[j].flag # "NONE"
    BY ControlPackets DEF ToServer, TypeOK
  <2>2. toServer' = Put(toServer, ps) /\ toClient' = Without(toClient, k)
    BY <1>3 DEF ClientReceiveFin
  <2> HIDE DEF ps
  <2>3. \A i \in 1 .. Len(toServer') :
           \/ toServer'[i].flag # "NONE"
           \/ \E j \in 1 .. Len(toServer) : toServer'[i] = toServer[j]
    <3>1. \A i \in 1 .. Len(Put(toServer, ps)) :
             \/ \E j \in 1 .. Len(toServer) : Put(toServer, ps)[i] = toServer[j]
             \/ \E j \in 1 .. Len(ps) : Put(toServer, ps)[i] = ps[j]
      BY <1>1, <2>1, PutToServer
    <3> QED BY <2>1, <2>2, <3>1
  <2>4. \A i \in 1 .. Len(toClient') : \E j \in 1 .. Len(toClient) : toClient'[i] = toClient[j]
    BY <1>1, <2>2, Delivered, WithoutElement
  <2> QED BY <1>3, <2>3, <2>4, ChannelStream DEF ClientReceiveFin, app, client, server
<1>4. ASSUME NEW k \in Deliverable(toServer), ServerReceiveAck(k) PROVE StreamInv'
  <2>1. toServer' = Without(toServer, k)
    BY <1>4 DEF ServerReceiveAck
  <2>2. \A i \in 1 .. Len(toServer') : \E j \in 1 .. Len(toServer) : toServer'[i] = toServer[j]
    BY <1>1, <2>1, Delivered, WithoutElement
  <2> QED BY <1>4, <2>2, ChannelStream DEF ServerReceiveAck, app, client
<1>5. ASSUME NEW k \in Deliverable(toServer), ServerReceiveFin(k) PROVE StreamInv'
  <2> DEFINE ps == <<Reply(nextExpected, rcvWindow)>> \o
                      IF sState = "CLOSED" THEN << >> ELSE <<[flag |-> "FIN"]>>
  <2>1. Reply(nextExpected, rcvWindow) \in ToClient /\ [flag |-> "FIN"] \in ToClient
    BY ControlPackets DEF ToClient, TypeOK
  <2>2. ps \in Seq(ToClient)
    BY <2>1
  <2>3. \A j \in 1 .. Len(ps) : ps[j].flag # "ACK" \/ ps[j].ack = nextExpected
    BY DEF Reply
  <2>4. toServer' = Without(toServer, k) /\ toClient' = Put(toClient, ps)
    BY <1>5 DEF ServerReceiveFin
  <2> HIDE DEF ps
  <2>5. \A i \in 1 .. Len(toServer') : \E j \in 1 .. Len(toServer) : toServer'[i] = toServer[j]
    BY <1>1, <2>4, Delivered, WithoutElement
  <2>6. \A i \in 1 .. Len(toClient') :
           \/ toClient'[i].flag # "ACK" \/ toClient'[i].ack = nextExpected
           \/ \E j \in 1 .. Len(toClient) : toClient'[i] = toClient[j]
    <3>1. \A i \in 1 .. Len(Put(toClient, ps)) :
             \/ \E j \in 1 .. Len(toClient) : Put(toClient, ps)[i] = toClient[j]
             \/ \E j \in 1 .. Len(ps) : Put(toClient, ps)[i] = ps[j]
      BY <1>1, <2>2, PutToClient
    <3> QED BY <2>3, <2>4, <3>1
  <2> QED BY <1>5, <2>5, <2>6, ChannelStream DEF ServerReceiveFin, app, client
<1>6. ASSUME NEW k \in 1 .. Len(toServer), LoseToServer(k) PROVE StreamInv'
  <2>1. \A i \in 1 .. Len(toServer') : \E j \in 1 .. Len(toServer) : toServer'[i] = toServer[j]
    BY <1>1, <1>6, WithoutElement DEF LoseToServer
  <2> QED BY <1>6, <2>1, ChannelStream DEF LoseToServer, app, client, server
<1>7. ASSUME NEW k \in 1 .. Len(toClient), LoseToClient(k) PROVE StreamInv'
  <2>1. \A i \in 1 .. Len(toClient') : \E j \in 1 .. Len(toClient) : toClient'[i] = toClient[j]
    BY <1>1, <1>7, WithoutElement DEF LoseToClient
  <2> QED BY <1>7, <2>1, ChannelStream DEF LoseToClient, app, client, server
<1> QED BY <1>2, <1>3, <1>4, <1>5, <1>6, <1>7

\* An acknowledgement moves lastAck and its index in sendBuff together.
LEMMA ClientAckStream ==
  ASSUME Fits, TypeOK, StreamInv, NEW i \in Deliverable(toClient), ClientReceiveAck(i)
  PROVE  StreamInv'
<1> DEFINE p == toClient[i]
<1>1. i \in 1 .. Len(toClient) /\ toClient \in Seq(ToClient)
  BY Delivered DEF TypeOK, ToClient
<1>2. p.ack \in Int
  <2>1. p \in ServerAck
    BY <1>1 DEF ClientReceiveAck, ToClient, Fin
  <2> QED BY <2>1, Uint8Range DEF ServerAck
<1>3. p.ack > lastRead /\ p.ack <= lastRead + 1 + high
  BY <1>1 DEF StreamInv, NetInv, AckCorrect, ClientReceiveAck
<1>4. /\ lastRead \in Nat /\ lastRead + TOTAL + 1 < MOD /\ TOTAL \in Nat
      /\ written \in 0 .. TOTAL /\ high \in 0 .. written
      /\ lastAckIndex = lastAck - lastRead - 1 /\ lastAck \in Int
  BY StreamNumbers, StreamAssumption, Uint8Range DEF StreamInv, ClientInv, TypeOK
<1> HIDE DEF p
<1>5. /\ p.ack \in lastRead + 1 .. lastRead + 1 + high
      /\ U8(lastAckIndex + p.ack - lastAck) = p.ack - lastRead - 1
  <2>1. lastAckIndex + p.ack - lastAck = p.ack - lastRead - 1
    BY <1>2, <1>4
  <2>2. p.ack - lastRead - 1 \in Uint8
    BY <1>2, <1>3, <1>4, StreamAssumption DEF Uint8
  <2> QED BY <1>2, <1>3, <1>4, <2>1, <2>2, U8Fits
<1>6. /\ lastAck' \in lastRead + 1 .. lastRead + 1 + high
      /\ lastAckIndex' = lastAck' - lastRead - 1
      /\ UNCHANGED <<written, lastWritten, lastSent, sendBuff, lastRead, nextExpected,
                     rcvdBuff, high, toServer, fault>>
      /\ toClient' = Without(toClient, i)
  <2>1. CASE cState = "ESTABLISHED"
    BY <1>5, <2>1 DEF ClientReceiveAck, app, server, p
  <2>2. CASE cState # "ESTABLISHED"
    BY <2>2 DEF ClientReceiveAck, app, server, StreamInv, ClientInv
  <2> QED BY <2>1, <2>2
<1>7. ClientInv' /\ ServerInv' /\ ~fault'
  BY <1>6 DEF StreamInv, ClientInv, ServerInv
<1>8. \A k \in 1 .. Len(toClient') : \E j \in 1 .. Len(toClient) : toClient'[k] = toClient[j]
  BY <1>1, <1>6, WithoutElement
<1>9. NetInv'
  BY <1>6, <1>8 DEF StreamInv, NetInv, DataCorrect, AckCorrect
<1> QED BY <1>7, <1>9 DEF StreamInv

\* Taking a data packet extends, or cuts back, a prefix of the stream; the
\* bytes copied beyond the packet's own fall behind nextExpected.
LEMMA ServerDataStream ==
  ASSUME Fits, TypeOK, StreamInv, NEW i \in Deliverable(toServer), ServerReceiveData(i)
  PROVE  StreamInv'
<1> DEFINE p == toServer[i]
           off == p.sequence - lastRead - 1
<1>1. i \in 1 .. Len(toServer) /\ p \in ToServer /\ toServer \in Seq(ToServer)
      /\ toClient \in Seq(ToClient)
  BY Delivered DEF TypeOK, ToServer, ToClient
<1>2. /\ p.flag = "NONE" /\ p.sequence \in Int /\ p.ack \in 1 .. MAX_DATA
      /\ p.ack \in Int /\ p.payload \in Payload
  BY <1>1, DataFields DEF ServerReceiveData
<1>3. Carries(p, lastRead, lastWritten)
  BY <1>1, <1>2 DEF StreamInv, NetInv, DataCorrect
<1>4. /\ lastRead \in Nat /\ lastRead + TOTAL + 1 < MOD /\ TOTAL \in Nat
      /\ written \in 0 .. TOTAL /\ high \in 0 .. written
      /\ lastWritten = lastRead + 1 + written
      /\ nextExpected \in lastRead + 1 .. lastRead + 1 + high
      /\ MAX_DATA \in Nat \ {0} /\ BUF \in Nat /\ TOTAL + MAX_DATA - 1 <= BUF
  BY StreamNumbers, StreamAssumption DEF StreamInv, ClientInv, ServerInv, Fits
<1> HIDE DEF p
<1>5. /\ off \in 0 .. written - p.ack
      /\ Advanced(p) = p.sequence + p.ack /\ ReceiveIndex(p) = off
  <2>1. off \in 0 .. written - p.ack
    BY <1>2, <1>3, <1>4 DEF Carries
  <2>2. p.sequence + p.ack \in Uint8 /\ off \in Uint8
    BY <1>2, <1>4, <2>1, StreamAssumption DEF Uint8
  <2> QED BY <2>1, <2>2, U8Fits DEF Advanced, ReceiveIndex
<1>6. ~(ReceiveIndex(p) + MAX_DATA > BUF)
  BY <1>2, <1>4, <1>5
<1>7. toServer' = Without(toServer, i) /\ UNCHANGED <<app, client, sState, lastRead>>
  BY DEF ServerReceiveData
<1>8. \A k \in 1 .. Len(toServer') : \E j \in 1 .. Len(toServer) : toServer'[k] = toServer[j]
  BY <1>1, <1>7, WithoutElement
<1>9. CASE ~Accepts(p)
  <2>1. /\ toClient' = Put(toClient, <<Reply(nextExpected, rcvWindow)>>)
        /\ UNCHANGED <<nextExpected, rcvdBuff, rcvWindow, high, fault>>
    BY <1>9 DEF ServerReceiveData, p
  <2> DEFINE ps == <<Reply(nextExpected, rcvWindow)>>
  <2>2. Reply(nextExpected, rcvWindow) \in ToClient
    BY ControlPackets DEF ToClient, TypeOK
  <2>3. ps \in Seq(ToClient) /\ \A j \in 1 .. Len(ps) : ps[j].ack = nextExpected
    BY <2>2 DEF Reply
  <2>4. toClient' = Put(toClient, ps)
    BY <2>1
  <2> HIDE DEF ps
  <2>5. \A k \in 1 .. Len(toClient') :
           \/ toClient'[k].ack = nextExpected
           \/ \E j \in 1 .. Len(toClient) : toClient'[k] = toClient[j]
    <3>1. \A k \in 1 .. Len(Put(toClient, ps)) :
             \/ \E j \in 1 .. Len(toClient) : Put(toClient, ps)[k] = toClient[j]
             \/ \E j \in 1 .. Len(ps) : Put(toClient, ps)[k] = ps[j]
      BY <1>1, <2>3, PutToClient
    <3> QED BY <2>3, <2>4, <3>1
  <2> QED BY <1>7, <1>8, <2>1, <2>5, ChannelStream DEF app, client
<1>10. CASE Accepts(p)
  <2>1. /\ nextExpected' = p.sequence + p.ack /\ rcvdBuff' = Stored(p)
        /\ high' = Most(high, Offset(nextExpected'))
        /\ toClient' = Put(toClient, <<Reply(nextExpected', rcvWindow')>>)
        /\ fault' = fault
    BY <1>5, <1>6, <1>10 DEF ServerReceiveData, p
  <2>2. p.sequence <= nextExpected
    <3>1. nextExpected \in Int
      BY <1>4
    <3> QED BY <1>2, <1>10, <3>1 DEF Accepts
  <2>3. Offset(nextExpected') = off + p.ack
    <3>1. nextExpected' - lastRead - 1 = off + p.ack /\ off + p.ack \in Uint8
      BY <1>2, <1>4, <1>5, <2>1, StreamAssumption DEF Uint8
    <3> QED BY <3>1, U8Fits DEF Offset
  <2>4. /\ high' \in high .. written
        /\ nextExpected' \in lastRead + 1 .. lastRead + 1 + high'
        /\ nextExpected' > lastRead /\ nextExpected' <= lastRead + 1 + high'
    BY <1>2, <1>4, <1>5, <2>1, <2>3 DEF Most
  <2>5. \A k \in 0 .. nextExpected' - lastRead - 2 : rcvdBuff'[k] = k
    <3> SUFFICES ASSUME NEW k \in 0 .. nextExpected' - lastRead - 2
                 PROVE  Stored(p)[k] = k
      BY <2>1
    <3>1. k \in 0 .. off + p.ack - 1 /\ k \in 0 .. BUF - 1
      BY <1>2, <1>4, <1>5, <2>1
    <3>2. CASE k < off
      <4>1. k \in 0 .. nextExpected - lastRead - 2
        BY <1>2, <1>4, <2>2, <3>1, <3>2
      <4>2. rcvdBuff[k] = k
        BY <4>1 DEF StreamInv, ServerInv
      <4>3. k \notin ReceiveIndex(p) .. ReceiveIndex(p) + MAX_DATA - 1
        BY <1>2, <1>4, <1>5, <3>1, <3>2
      <4> QED BY <3>1, <4>2, <4>3 DEF Stored
    <3>3. CASE k >= off
      <4>1. k - off \in 0 .. p.ack - 1
        BY <1>2, <1>4, <3>1, <3>3
      <4>2. p.payload[k - off] = off + (k - off)
        BY <1>3, <4>1 DEF Carries
      <4>3. k \in ReceiveIndex(p) .. ReceiveIndex(p) + MAX_DATA - 1
        BY <1>2, <1>4, <1>5, <3>1, <3>3
      <4>4. Stored(p)[k] = p.payload[k - off]
        BY <1>5, <3>1, <4>3 DEF Stored
      <4> QED BY <1>2, <1>4, <3>1, <4>2, <4>4
    <3> QED BY <1>2, <1>4, <3>1, <3>2, <3>3
  <2>6. ClientInv'
    <3>1. lastAck \in lastRead + 1 .. lastRead + 1 + high /\ lastAck \in Int
      BY Uint8Range DEF StreamInv, ClientInv, TypeOK
    <3>2. \A a, b, x, y \in Int : a \in x + 1 .. x + 1 + b /\ b <= y => a \in x + 1 .. x + 1 + y
      OBVIOUS
    <3>3. high' \in Int /\ high \in Int /\ high <= high' /\ lastRead \in Int
      BY <1>4, <2>4
    <3>4. lastAck \in lastRead + 1 .. lastRead + 1 + high'
      BY <3>1, <3>2, <3>3
    <3> QED BY <1>7, <3>4 DEF StreamInv, ClientInv, app, client
  <2>7. ServerInv' /\ ~fault'
    BY <1>4, <1>7, <2>1, <2>4, <2>5 DEF StreamInv, ServerInv, app
  <2> DEFINE ps == <<Reply(nextExpected', rcvWindow')>>
  <2>8. ps \in Seq({Reply(nextExpected', rcvWindow')}) /\ Len(ps) = 1
        /\ ps[1].ack = nextExpected'
    BY DEF Reply
  <2>9. \A k \in 1 .. Len(toClient') :
           \/ toClient'[k].ack = nextExpected'
           \/ \E j \in 1 .. Len(toClient) : toClient'[k] = toClient[j]
    <3>1. toClient \in Seq(ToClient \cup {Reply(nextExpected', rcvWindow')})
          /\ ps \in Seq(ToClient \cup {Reply(nextExpected', rcvWindow')})
      BY <1>1, <2>8
    <3>2. toClient' = Put(toClient, ps)
      BY <2>1
    <3> HIDE DEF ps
    <3>3. \A k \in 1 .. Len(Put(toClient, ps)) :
             \/ \E j \in 1 .. Len(toClient) : Put(toClient, ps)[k] = toClient[j]
             \/ \E j \in 1 .. Len(ps) : Put(toClient, ps)[k] = ps[j]
      BY <3>1, PutElement
    <3> QED BY <2>8, <3>2, <3>3
  <2>10. \A k \in 1 .. Len(toClient') : AckCorrect(toClient[k])'
    <3>1. nextExpected' > lastRead /\ nextExpected' <= lastRead + 1 + high'
      BY <2>4
    <3>2. ASSUME NEW j \in 1 .. Len(toClient), toClient[j].flag = "ACK"
          PROVE  toClient[j].ack > lastRead /\ toClient[j].ack <= lastRead + 1 + high'
      <4>1. toClient[j].ack \in Int
        <5>1. toClient[j] \in ServerAck
          BY <1>1, <3>2 DEF ToClient, Fin
        <5> QED BY <5>1, Uint8Range DEF ServerAck
      <4>2. toClient[j].ack > lastRead /\ toClient[j].ack <= lastRead + 1 + high
        BY <3>2 DEF StreamInv, NetInv, AckCorrect
      <4> QED BY <1>4, <2>4, <4>1, <4>2
    <3> QED BY <1>7, <2>9, <3>1, <3>2 DEF AckCorrect
  <2>11. \A k \in 1 .. Len(toServer') : DataCorrect(toServer[k])'
    BY <1>7, <1>8 DEF StreamInv, NetInv, DataCorrect, client
  <2> QED BY <2>6, <2>7, <2>10, <2>11 DEF StreamInv, NetInv
<1> QED BY <1>9, <1>10

\* The three facts together.
LEMMA StreamInvariant == ASSUME Fits PROVE Spec => []StreamInv
<1>1. TypeOK /\ StreamInv /\ [Next]_vars => StreamInv'
  <2> SUFFICES ASSUME TypeOK, StreamInv, [Next]_vars PROVE StreamInv'
    OBVIOUS
  <2>1. CASE ConnectTimerFired
    BY <2>1, ConnectTimerStream
  <2>2. CASE ResendTimerFired
    BY <2>2, ResendTimerStream
  <2>3. CASE \E i \in Deliverable(toClient) : ClientReceiveAck(i)
    BY <2>3, ClientAckStream
  <2>4. CASE \E i \in Deliverable(toServer) : ServerReceiveData(i)
    BY <2>4, ServerDataStream
  <2>5. CASE \/ Close
             \/ \E i \in Deliverable(toClient) : ClientReceiveFin(i)
             \/ \E i \in Deliverable(toServer) : ServerReceiveAck(i)
             \/ \E i \in Deliverable(toServer) : ServerReceiveFin(i)
             \/ \E i \in 1 .. Len(toServer) : LoseToServer(i)
             \/ \E i \in 1 .. Len(toClient) : LoseToClient(i)
    BY <2>5, ControlStream
  <2>6. CASE UNCHANGED vars
    BY <2>6 DEF StreamInv, ClientInv, ServerInv, NetInv, DataCorrect, AckCorrect,
                vars, app, client, server, net
  <2> QED BY <2>1, <2>2, <2>3, <2>4, <2>5, <2>6 DEF Next
<1> QED BY <1>1, InitStream, TypeCorrect, PTL DEF Spec

\* Whatever the network loses, delays or reorders, and however often the client
\* retransmits, the bytes the server acknowledges are the bytes the application
\* wrote, each at its place in rcvdBuff (Transport.receive, default case).
THEOREM StreamIntegrityHolds == ASSUME Fits PROVE Spec => []StreamIntegrity
<1>1. TypeOK /\ StreamInv => StreamIntegrity
  <2> SUFFICES ASSUME TypeOK, StreamInv,
                      NEW k \in 0 .. Offset(nextExpected) - 1
               PROVE  k < written /\ k < BUF /\ rcvdBuff[k] = k
    BY DEF StreamIntegrity
  <2>1. /\ lastRead \in Nat /\ lastRead + TOTAL + 1 < MOD /\ TOTAL \in Nat
        /\ written \in 0 .. TOTAL /\ high \in 0 .. written
        /\ nextExpected \in lastRead + 1 .. lastRead + 1 + high
        /\ MAX_DATA \in Nat \ {0} /\ BUF \in Nat /\ TOTAL + MAX_DATA - 1 <= BUF
    BY StreamNumbers, StreamAssumption DEF StreamInv, ServerInv, Fits
  <2>2. Offset(nextExpected) = nextExpected - lastRead - 1
    <3>1. nextExpected - lastRead - 1 \in Uint8
      BY <2>1, StreamAssumption DEF Uint8
    <3> QED BY <3>1, U8Fits DEF Offset
  <2>3. k \in 0 .. nextExpected - lastRead - 2 /\ k < written /\ k < BUF
    BY <2>1, <2>2
  <2> QED BY <2>3 DEF StreamInv, ServerInv
<1> QED BY <1>1, TypeCorrect, StreamInvariant, PTL

\* The client takes for acknowledged only what the server has had: its lastAck,
\* and every ACK on its way, is covered by what nextExpected reached.
THEOREM AckedWasReceivedHolds == ASSUME Fits PROVE Spec => []AckedWasReceived
<1>1. TypeOK /\ StreamInv => AckedWasReceived
  <2> SUFFICES ASSUME TypeOK, StreamInv PROVE AckedWasReceived
    OBVIOUS
  <2>1. /\ lastRead \in Nat /\ lastRead + TOTAL + 1 < MOD /\ TOTAL \in Nat
        /\ written \in 0 .. TOTAL /\ high \in 0 .. written
    BY StreamNumbers, StreamAssumption
  <2>2. ASSUME NEW a \in Int, a > lastRead, a <= lastRead + 1 + high
        PROVE  Offset(a) <= high
    <3>1. a - lastRead - 1 \in Uint8
      BY <2>1, <2>2, StreamAssumption DEF Uint8
    <3> QED BY <2>1, <2>2, <3>1, U8Fits DEF Offset
  <2>3. Offset(lastAck) <= high
    <3>1. lastAck \in lastRead + 1 .. lastRead + 1 + high /\ lastAck \in Int
      BY Uint8Range DEF StreamInv, ClientInv, TypeOK
    <3> QED BY <2>1, <2>2, <3>1
  <2>4. ASSUME NEW i \in 1 .. Len(toClient), toClient[i].flag = "ACK"
        PROVE  Offset(toClient[i].ack) <= high
    <3>1. toClient[i] \in ServerAck
      BY <2>4 DEF TypeOK, Fin
    <3>2. toClient[i].ack \in Int
      BY <3>1, Uint8Range DEF ServerAck
    <3>3. toClient[i].ack > lastRead /\ toClient[i].ack <= lastRead + 1 + high
      BY <2>4 DEF StreamInv, NetInv, AckCorrect
    <3> QED BY <2>2, <3>2, <3>3
  <2> QED BY <2>3, <2>4 DEF AckedWasReceived
<1> QED BY <1>1, TypeCorrect, StreamInvariant, PTL

\* A transfer that fits never makes a memcpy of the two buffers leave them.
THEOREM BuffersHoldAlways == ASSUME Fits PROVE Spec => []BuffersHold
<1>1. StreamInv => BuffersHold
  BY DEF StreamInv, BuffersHold
<1> QED BY <1>1, StreamInvariant, PTL

-----------------------------------------------------------------------------
(* Flow control, of a network that may lose packets but delivers those to   *)
(* the server in order, and a retransmission timer that waits until it is   *)
(* quiet.                                                                   *)

\* Where the packets of a channel stay when it grows, and when it shrinks.
LEMMA PutPlace ==
  ASSUME NEW S, NEW c \in Seq(S), NEW ps \in Seq(S), NEW i \in 1 .. Len(Put(c, ps))
  PROVE  \/ i \in 1 .. Len(c) /\ Put(c, ps)[i] = c[i]
         \/ i - Len(c) \in 1 .. Len(ps) /\ Put(c, ps)[i] = ps[i - Len(c)]
<1> DEFINE all == c \o ps
           n   == Least(Len(all), POOL)
<1>1. all \in Seq(S) /\ Len(all) = Len(c) + Len(ps)
  OBVIOUS
<1>2. n \in 0 .. Len(all)
  BY <1>1, StreamAssumption DEF Least
<1>3. Put(c, ps) = SubSeq(all, 1, n)
  BY DEF Put
<1> HIDE DEF n
<1>4. i \in 1 .. n /\ Put(c, ps)[i] = all[i]
  <2> HIDE DEF all
  <2> QED BY <1>1, <1>2, <1>3
<1>5. IF i <= Len(c) THEN all[i] = c[i] ELSE all[i] = ps[i - Len(c)]
  BY <1>1, <1>2, <1>4
<1>6. CASE i <= Len(c)
  BY <1>4, <1>5, <1>6
<1>7. CASE i > Len(c)
  <2>1. i - Len(c) \in 1 .. Len(ps)
    BY <1>1, <1>2, <1>4, <1>7
  <2> QED BY <1>4, <1>5, <1>7, <2>1
<1> QED BY <1>6, <1>7

LEMMA WithoutPlace ==
  ASSUME NEW S, NEW c \in Seq(S), NEW k \in 1 .. Len(c)
  PROVE  /\ Len(Without(c, k)) = Len(c) - 1 /\ Len(c) \in Nat
         /\ \A i \in 1 .. Len(c) - 1 : Without(c, k)[i] = IF i < k THEN c[i] ELSE c[i + 1]
<1> DEFINE a == SubSeq(c, 1, k - 1)
           b == SubSeq(c, k + 1, Len(c))
<1>1. /\ a \in Seq(S) /\ Len(a) = k - 1 /\ \A i \in 1 .. k - 1 : a[i] = c[i]
  OBVIOUS
<1>2. /\ b \in Seq(S) /\ Len(b) = Len(c) - k
      /\ \A i \in 1 .. Len(c) - k : b[i] = c[k + i]
  OBVIOUS
<1>3. Without(c, k) = a \o b /\ Len(c) \in Nat
  BY DEF Without
<1> HIDE DEF a, b
<1>4. /\ Len(a \o b) = Len(c) - 1
      /\ \A i \in 1 .. Len(c) - 1 : (a \o b)[i] = IF i <= k - 1 THEN a[i] ELSE b[i - (k - 1)]
  <2>1. k - 1 \in Nat /\ Len(c) - k \in Nat /\ (k - 1) + (Len(c) - k) = Len(c) - 1
    BY <1>3
  <2>2. PICK x, y \in Nat : x = k - 1 /\ y = Len(c) - k /\ x + y = Len(c) - 1
    BY <2>1
  <2>3. a \in Seq(S) /\ b \in Seq(S) /\ Len(a) = x /\ Len(b) = y
    BY <1>1, <1>2, <2>2
  <2>4. /\ Len(a \o b) = x + y
        /\ \A i \in 1 .. x + y : (a \o b)[i] = IF i <= x THEN a[i] ELSE b[i - x]
    BY <2>3
  <2> QED BY <2>2, <2>4
<1>5. ASSUME NEW i \in 1 .. Len(c) - 1
      PROVE  (a \o b)[i] = IF i < k THEN c[i] ELSE c[i + 1]
  <2>1. CASE i < k
    <3>1. i \in 1 .. k - 1 /\ i <= k - 1
      BY <1>3, <2>1
    <3> QED BY <1>1, <1>4, <2>1, <3>1
  <2>2. CASE ~(i < k)
    <3>1. i - (k - 1) \in 1 .. Len(c) - k /\ k + (i - (k - 1)) = i + 1 /\ ~(i <= k - 1)
      BY <1>3, <2>2
    <3> QED BY <1>2, <1>4, <2>2, <3>1
  <2> QED BY <2>1, <2>2
<1> QED BY <1>3, <1>4, <1>5

\* The chunks of sendBuffer, one behind the other.
LEMMA SegmentsRow ==
  ASSUME NEW buff, NEW ls \in Nat, NEW li, NEW n \in Nat, ls + n + 1 < MOD
  PROVE  /\ \A i \in 1 .. Len(Segments(buff, ls, li, n)) :
              LET p == Segments(buff, ls, li, n)[i]
              IN  /\ p.flag = "NONE" /\ p.sequence \in Nat /\ p.ack \in Nat \ {0}
                  /\ ls < p.sequence /\ p.sequence + p.ack <= ls + n + 1
         /\ \A i, j \in 1 .. Len(Segments(buff, ls, li, n)) : i < j =>
              Segments(buff, ls, li, n)[i].sequence + Segments(buff, ls, li, n)[i].ack
                <= Segments(buff, ls, li, n)[j].sequence
<1> DEFINE q == (n + MAX_DATA - 1) \div MAX_DATA
           ps == Segments(buff, ls, li, n)
           done(i) == (i - 1) * MAX_DATA
           len(i)  == Least(MAX_DATA, n - done(i))
<1>1. q \in Nat /\ MAX_DATA \in Nat \ {0} /\ MOD \in Nat /\ Len(ps) = q
  BY StreamAssumption DEF Segments
<1>2. ASSUME NEW i \in 1 .. q
      PROVE  /\ ps[i].flag = "NONE" /\ ps[i].sequence = ls + done(i) + 1 /\ ps[i].ack = len(i)
             /\ done(i) \in 0 .. n - 1 /\ len(i) \in 1 .. MAX_DATA /\ len(i) <= n - done(i)
  <2>1. done(i) \in 0 .. n - 1
    BY ChunkStart
  <2>2. len(i) \in 1 .. MAX_DATA /\ len(i) <= n - done(i)
    BY <1>1, <2>1 DEF Least
  <2>3. ls + done(i) + 1 \in Uint8
    BY <1>1, <2>1 DEF Uint8
  <2>4. U8(ls + done(i) + 1) = ls + done(i) + 1
    BY <2>3, U8Fits
  <2>5. ps[i].flag = "NONE" /\ ps[i].sequence = U8(ls + done(i) + 1) /\ ps[i].ack = len(i)
    BY DEF Segments
  <2> QED BY <2>1, <2>2, <2>4, <2>5
<1>3. ASSUME NEW i \in 1 .. q, NEW j \in 1 .. q, i < j
      PROVE  done(i) + MAX_DATA <= done(j)
  <2>1. j - i - 1 \in Nat /\ i \in Nat /\ j \in Nat
    BY <1>1, <1>3
  <2>2. (j - i - 1) * MAX_DATA \in Nat
    BY <1>1, <2>1
  <2>3. done(j) = done(i) + MAX_DATA + (j - i - 1) * MAX_DATA
    BY <1>1, <2>1
  <2>4. done(i) \in Int
    BY <1>1, <2>1
  <2> HIDE DEF done
  <2> QED BY <1>1, <2>2, <2>3, <2>4
<1> HIDE DEF done, len, ps, q
<1>4. \A i \in 1 .. q :
        /\ ps[i].flag = "NONE" /\ ps[i].sequence \in Nat /\ ps[i].ack \in Nat \ {0}
        /\ ls < ps[i].sequence /\ ps[i].sequence + ps[i].ack <= ls + n + 1
  <2> SUFFICES ASSUME NEW i \in 1 .. q
               PROVE  /\ ps[i].flag = "NONE" /\ ps[i].sequence \in Nat
                      /\ ps[i].ack \in Nat \ {0} /\ ls < ps[i].sequence
                      /\ ps[i].sequence + ps[i].ack <= ls + n + 1
    OBVIOUS
  <2>1. /\ ps[i].flag = "NONE" /\ ps[i].sequence = ls + done(i) + 1 /\ ps[i].ack = len(i)
        /\ done(i) \in 0 .. n - 1 /\ len(i) \in 1 .. MAX_DATA /\ len(i) <= n - done(i)
    BY <1>2
  <2>2. \A d, l \in Int : d >= 0 /\ l <= n - d =>
           ls + d + 1 \in Nat /\ ls < ls + d + 1 /\ (ls + d + 1) + l <= ls + n + 1
    OBVIOUS
  <2>3. done(i) \in Int /\ done(i) >= 0 /\ len(i) \in Int /\ len(i) \in Nat \ {0}
    BY <1>1, <2>1
  <2> QED BY <2>1, <2>2, <2>3
<1>5. \A i, j \in 1 .. q : i < j => ps[i].sequence + ps[i].ack <= ps[j].sequence
  <2> SUFFICES ASSUME NEW i \in 1 .. q, NEW j \in 1 .. q, i < j
               PROVE  ps[i].sequence + ps[i].ack <= ps[j].sequence
    OBVIOUS
  <2>1. done(i) + MAX_DATA <= done(j)
    BY <1>3
  <2>2. /\ done(i) \in 0 .. n - 1 /\ len(i) \in 1 .. MAX_DATA /\ done(j) \in 0 .. n - 1
        /\ ps[i].sequence = ls + done(i) + 1 /\ ps[i].ack = len(i)
        /\ ps[j].sequence = ls + done(j) + 1
    BY <1>2
  <2>3. len(i) <= MAX_DATA /\ len(i) \in Int /\ done(i) \in Int /\ done(j) \in Int
    BY <1>1, <2>2
  <2>4. \A d, e, l, m \in Int : d + m <= e /\ l <= m => (ls + d + 1) + l <= ls + e + 1
    OBVIOUS
  <2>5. (ls + done(i) + 1) + len(i) <= ls + done(j) + 1
    BY <1>1, <2>1, <2>3, <2>4
  <2> QED BY <2>2, <2>5
<1> QED BY <1>1, <1>4, <1>5 DEF ps

\* Where the client goes on sending, and where an acknowledgement says it may not.
Sent    == lastSent + 1
Edge(a) == a.ack + a.advertisedWindow

\* The data under way is in order, and the handshake's ACK, if it is there, before it.
InOrder ==
  /\ \A i, j \in 1 .. Len(toServer) :
        i < j /\ toServer[i].flag = "NONE" /\ toServer[j].flag = "NONE" =>
            toServer[i].sequence + toServer[i].ack <= toServer[j].sequence
  /\ \A i \in 1 .. Len(toServer) :
        \/ toServer[i].flag = "NONE"
        \/ i = 1 /\ toServer[i].flag = "ACK" /\ toServer[i].advertisedWindow = rcvWindow

\* A data packet and all that is sent or may be sent after it fit the window.
Fitting(p) == p.flag = "NONE" =>
  /\ lastAck <= p.sequence /\ p.sequence + p.ack <= Sent
  /\ sndWindow + Sent - p.sequence <= rcvWindow

\* An acknowledgement allows no more, and no less than what was sent.
Allows(a) ==
  /\ a.flag = "ACK" /\ a.ack <= nextExpected
  /\ Sent <= Edge(a) /\ Edge(a) - Sent <= rcvWindow
  /\ \A j \in 1 .. Len(toServer) : toServer[j].flag = "NONE" =>
        a.ack <= toServer[j].sequence /\ Edge(a) - toServer[j].sequence <= rcvWindow

FlowInv ==
  cState = "ESTABLISHED" =>
    /\ InOrder
    /\ \A i \in 1 .. Len(toServer) : Fitting(toServer[i])
    /\ \A i \in 1 .. Len(toClient) : Allows(toClient[i])
    /\ sndWindow <= rcvWindow /\ Sent - nextExpected <= rcvWindow /\ lastAck <= nextExpected
    /\ written = 0 => toClient = << >>

\* The handlers' numbers, and those of the packets, are naturals.
LEMMA FlowNumbers ==
  ASSUME Fits, TypeOK, StreamInv
  PROVE  /\ lastRead \in Nat /\ lastWritten \in Nat /\ lastSent \in Nat /\ lastAck \in Nat
         /\ nextExpected \in Nat /\ sndWindow \in Nat /\ rcvWindow \in Nat /\ written \in Nat
         /\ lastRead + TOTAL + 1 < MOD /\ TOTAL \in Nat /\ MOD \in Nat /\ written <= TOTAL
         /\ lastWritten = lastRead + 1 + written /\ lastSent < lastWritten
         /\ lastRead < lastAck /\ lastAck <= lastWritten /\ rcvWindow < MOD
<1>1. /\ lastRead \in Nat /\ lastRead + TOTAL + 1 < MOD /\ TOTAL \in Nat /\ MOD \in Nat
      /\ written \in 0 .. TOTAL /\ high \in 0 .. written
  BY StreamNumbers, StreamAssumption
<1>2. /\ lastWritten \in Uint8 /\ lastSent \in Uint8 /\ lastAck \in Uint8
      /\ nextExpected \in Uint8 /\ sndWindow \in Uint8 /\ rcvWindow \in Uint8
  BY DEF TypeOK
<1>3. /\ lastWritten \in Nat /\ lastSent \in Nat /\ lastAck \in Nat
      /\ nextExpected \in Nat /\ sndWindow \in Nat /\ rcvWindow \in Nat /\ rcvWindow < MOD
  BY <1>2, Uint8Range
<1>4. /\ lastWritten = lastRead + 1 + written
      /\ lastAck \in lastRead + 1 .. lastRead + 1 + high
      /\ lastSent \in lastRead .. lastWritten - 1
  BY DEF StreamInv, ClientInv
<1> QED BY <1>1, <1>3, <1>4

LEMMA PacketNumbers ==
  ASSUME TypeOK
  PROVE  /\ toServer \in Seq(ToServer) /\ toClient \in Seq(ToClient)
         /\ \A i \in 1 .. Len(toServer) : toServer[i].flag = "NONE" =>
              toServer[i].sequence \in Nat /\ toServer[i].ack \in Nat \ {0}
         /\ \A i \in 1 .. Len(toClient) : toClient[i].flag = "ACK" =>
              toClient[i].ack \in Nat /\ toClient[i].advertisedWindow \in Nat
<1>1. toServer \in Seq(ToServer) /\ toClient \in Seq(ToClient)
  BY DEF TypeOK, ToServer, ToClient
<1>2. ASSUME NEW i \in 1 .. Len(toServer), toServer[i].flag = "NONE"
      PROVE  toServer[i].sequence \in Nat /\ toServer[i].ack \in Nat \ {0}
  <2>1. toServer[i] \in ToServer
    BY <1>1
  <2>2. toServer[i] \in DataPacket
    BY <1>2, <2>1, DataFields
  <2>3. toServer[i].sequence \in Uint8 /\ toServer[i].ack \in 1 .. MAX_DATA
    BY <2>2 DEF DataPacket
  <2> QED BY <2>3, Uint8Range
<1>3. ASSUME NEW i \in 1 .. Len(toClient), toClient[i].flag = "ACK"
      PROVE  toClient[i].ack \in Nat /\ toClient[i].advertisedWindow \in Nat
  <2>1. toClient[i] \in ServerAck
    BY <1>1, <1>3 DEF ToClient, Fin
  <2>2. toClient[i].ack \in Uint8 /\ toClient[i].advertisedWindow \in Uint8
    BY <2>1 DEF ServerAck
  <2> QED BY <2>2, StreamAssumption DEF Uint8
<1> QED BY <1>1, <1>2, <1>3

LEMMA AvailableIs ==
  \A a, b \in Int : a - b - 1 \in Uint8 => Available(a, b) = a - b - 1
BY U8Fits DEF Available

\* sendBuffer from the last acknowledged byte, with no data under way: what is
\* sent, and what may be sent after it, fits the window it had.
LEMMA FlowSend ==
  ASSUME Fits, TypeOK, StreamInv, InOrder,
         \A i \in 1 .. Len(toServer) : toServer[i].flag # "NONE",
         sndWindow <= rcvWindow, lastAck <= nextExpected, toClient = << >>,
         NEW w \in 0 .. TOTAL, lastAck <= lastRead + 1 + w,
         NEW buff \in Buffer, NEW timer,
         SendBuffer(buff, lastRead + 1 + w, lastAck - 1, lastAckIndex, timer),
         UNCHANGED <<lastAck, toClient, nextExpected, rcvWindow>>
  PROVE  FlowInv'
<1> DEFINE ls == lastAck - 1
           n  == Least(sndWindow, Available(lastRead + 1 + w, ls))
           ps == Segments(buff, ls, lastAckIndex, n)
<1>1. /\ lastRead \in Nat /\ lastAck \in Nat /\ nextExpected \in Nat /\ sndWindow \in Nat
      /\ rcvWindow \in Nat /\ lastRead + TOTAL + 1 < MOD /\ TOTAL \in Nat /\ MOD \in Nat
      /\ lastRead < lastAck
  BY FlowNumbers
<1>2. Available(lastRead + 1 + w, ls) = lastRead + 1 + w - lastAck
  <2>1. ls \in Int /\ lastRead + 1 + w \in Int /\ (lastRead + 1 + w) - ls - 1 \in Uint8
        /\ (lastRead + 1 + w) - ls - 1 = lastRead + 1 + w - lastAck
    BY <1>1 DEF Uint8
  <2> HIDE DEF ls
  <2> QED BY <2>1, AvailableIs
<1>3. n \in Nat /\ n <= sndWindow /\ n <= lastRead + 1 + w - lastAck /\ ls \in Nat
  BY <1>1, <1>2 DEF Least
<1>4. toServer' = Put(toServer, ps) /\ lastSent' = U8(ls + n) /\ sndWindow' = sndWindow - n
  BY DEF SendBuffer
<1> HIDE DEF n
<1>5. ls + n \in Uint8 /\ ls + n + 1 < MOD
  BY <1>1, <1>3 DEF Uint8
<1>6. Sent' = lastAck + n
  <2>1. lastSent' = ls + n
    BY <1>4, <1>5, U8Fits
  <2> QED BY <1>1, <1>3, <2>1 DEF Sent
<1>7. toServer \in Seq(ToServer) /\ ps \in Seq(ToServer)
  <2>1. lastAckIndex \in Int /\ ls \in Int
    BY <1>3, Uint8Range DEF TypeOK
  <2>2. ps \in Seq(DataPacket)
    BY <1>3, <2>1, SegmentsType
  <2> QED BY <2>2 DEF TypeOK, ToServer
<1>8. /\ \A i \in 1 .. Len(ps) :
            /\ ps[i].flag = "NONE" /\ ps[i].sequence \in Nat /\ ps[i].ack \in Nat \ {0}
            /\ ls < ps[i].sequence /\ ps[i].sequence + ps[i].ack <= ls + n + 1
      /\ \A i, j \in 1 .. Len(ps) : i < j => ps[i].sequence + ps[i].ack <= ps[j].sequence
  BY <1>3, <1>5, SegmentsRow
<1> HIDE DEF ps
<1>9. \A i \in 1 .. Len(toServer') :
         \/ i \in 1 .. Len(toServer) /\ toServer'[i] = toServer[i]
         \/ i - Len(toServer) \in 1 .. Len(ps) /\ toServer'[i] = ps[i - Len(toServer)]
  BY <1>4, <1>7, PutPlace
<1>10. InOrder'
  <2>1. ASSUME NEW i \in 1 .. Len(toServer'), NEW j \in 1 .. Len(toServer'), i < j,
               toServer'[i].flag = "NONE", toServer'[j].flag = "NONE"
        PROVE  toServer'[i].sequence + toServer'[i].ack <= toServer'[j].sequence
    <3>1. i - Len(toServer) \in 1 .. Len(ps) /\ toServer'[i] = ps[i - Len(toServer)]
      BY <1>9, <2>1
    <3>2. j - Len(toServer) \in 1 .. Len(ps) /\ toServer'[j] = ps[j - Len(toServer)]
      BY <1>9, <2>1
    <3>3. i - Len(toServer) < j - Len(toServer)
      BY <1>7, <2>1
    <3> QED BY <1>8, <3>1, <3>2, <3>3
  <2>2. ASSUME NEW i \in 1 .. Len(toServer')
        PROVE  \/ toServer'[i].flag = "NONE"
               \/ i = 1 /\ toServer'[i].flag = "ACK" /\ toServer'[i].advertisedWindow = rcvWindow'
    <3>1. CASE i \in 1 .. Len(toServer) /\ toServer'[i] = toServer[i]
      BY <3>1 DEF InOrder
    <3>2. CASE i - Len(toServer) \in 1 .. Len(ps) /\ toServer'[i] = ps[i - Len(toServer)]
      BY <1>8, <3>2
    <3> QED BY <1>9, <3>1, <3>2
  <2> QED BY <2>1, <2>2 DEF InOrder
<1>11. ASSUME NEW i \in 1 .. Len(toServer'), toServer'[i].flag = "NONE"
       PROVE  /\ lastAck' <= toServer'[i].sequence
              /\ toServer'[i].sequence + toServer'[i].ack <= Sent'
              /\ sndWindow' + Sent' - toServer'[i].sequence <= rcvWindow'
  <2>1. PICK k \in 1 .. Len(ps) : toServer'[i] = ps[k]
    BY <1>9, <1>11
  <2>2. /\ ps[k].sequence \in Nat /\ ps[k].ack \in Nat
        /\ ls < ps[k].sequence /\ ps[k].sequence + ps[k].ack <= ls + n + 1
    BY <1>8
  <2>3. \A s, l \in Nat : lastAck - 1 < s /\ s + l <= (lastAck - 1) + n + 1 =>
           /\ lastAck <= s /\ s + l <= lastAck + n
           /\ (sndWindow - n) + (lastAck + n) - s <= rcvWindow
    BY <1>1, <1>3
  <2>4. /\ lastAck <= ps[k].sequence /\ ps[k].sequence + ps[k].ack <= lastAck + n
        /\ (sndWindow - n) + (lastAck + n) - ps[k].sequence <= rcvWindow
    BY <2>2, <2>3
  <2> QED BY <1>4, <1>6, <2>1, <2>4
<1>12. sndWindow' <= rcvWindow' /\ Sent' - nextExpected' <= rcvWindow' /\ lastAck' <= nextExpected'
  BY <1>1, <1>3, <1>4, <1>6
<1>13. \A i \in 1 .. Len(toServer') : Fitting(toServer[i])'
  BY <1>11 DEF Fitting
<1> QED BY <1>10, <1>12, <1>13 DEF FlowInv

\* A channel from which the k-th packet is gone keeps its order.
LEMMA StaysInOrder ==
  ASSUME TypeOK, InOrder, NEW k \in 1 .. Len(toServer), toServer' = Without(toServer, k)
  PROVE  /\ \A i, j \in 1 .. Len(toServer') :
               i < j /\ toServer'[i].flag = "NONE" /\ toServer'[j].flag = "NONE" =>
                  toServer'[i].sequence + toServer'[i].ack <= toServer'[j].sequence
         /\ \A i \in 1 .. Len(toServer') :
               \/ toServer'[i].flag = "NONE"
               \/ /\ i = 1 /\ k > 1 /\ toServer'[i].flag = "ACK"
                  /\ toServer'[i].advertisedWindow = rcvWindow
         /\ \A i \in 1 .. Len(toServer') :
               \E j \in 1 .. Len(toServer) : toServer'[i] = toServer[j] /\ (k = 1 => j > 1)
<1> DEFINE at(i) == IF i < k THEN i ELSE i + 1
<1>1. /\ Len(toServer) \in Nat /\ Len(toServer') = Len(toServer) - 1
      /\ \A i \in 1 .. Len(toServer') :
            toServer'[i] = IF i < k THEN toServer[i] ELSE toServer[i + 1]
  <2>1. toServer \in Seq(ToServer)
    BY PacketNumbers
  <2> QED BY <2>1, WithoutPlace
<1>2. \A i \in 1 .. Len(toServer') : toServer'[i] = toServer[at(i)]
  BY <1>1
<1>3. /\ \A i \in 1 .. Len(toServer') : at(i) \in 1 .. Len(toServer) /\ (k = 1 => at(i) > 1)
                                        /\ (at(i) = 1 => i = 1 /\ k > 1)
      /\ \A i, j \in 1 .. Len(toServer') : i < j => at(i) < at(j)
  BY <1>1
<1> HIDE DEF at
<1>4. ASSUME NEW i \in 1 .. Len(toServer'), NEW j \in 1 .. Len(toServer'), i < j,
             toServer'[i].flag = "NONE", toServer'[j].flag = "NONE"
      PROVE  toServer'[i].sequence + toServer'[i].ack <= toServer'[j].sequence
  <2>1. /\ at(i) \in 1 .. Len(toServer) /\ at(j) \in 1 .. Len(toServer) /\ at(i) < at(j)
        /\ toServer'[i] = toServer[at(i)] /\ toServer'[j] = toServer[at(j)]
    BY <1>2, <1>3, <1>4
  <2> QED BY <1>4, <2>1 DEF InOrder
<1>5. ASSUME NEW i \in 1 .. Len(toServer'), toServer'[i].flag # "NONE"
      PROVE  /\ i = 1 /\ k > 1 /\ toServer'[i].flag = "ACK"
             /\ toServer'[i].advertisedWindow = rcvWindow
  <2>1. at(i) \in 1 .. Len(toServer) /\ toServer'[i] = toServer[at(i)]
        /\ (at(i) = 1 => i = 1 /\ k > 1)
    BY <1>2, <1>3
  <2> QED BY <1>5, <2>1 DEF InOrder
<1>6. \A i \in 1 .. Len(toServer') :
         \E j \in 1 .. Len(toServer) : toServer'[i] = toServer[j] /\ (k = 1 => j > 1)
  BY <1>2, <1>3
<1> QED BY <1>4, <1>5, <1>6

\* connectTimer.fired writes the whole transfer and sends from its first byte.
LEMMA ConnectTimerFlow ==
  ASSUME Fits, TypeOK, StreamInv, FlowInv, ConnectTimerFired
  PROVE  FlowInv'
<1>1. /\ written = 0 /\ lastAck = lastRead + 1 /\ lastSent = lastRead /\ lastRead \in Nat
      /\ TOTAL \in Nat \ {0}
      /\ UNCHANGED <<cState, lastAck, toClient, fault, server>>
      /\ \E buff \in Buffer :
            SendBuffer(buff, lastRead + 1 + TOTAL, lastSent, lastAckIndex, resendTimer)
  BY ConnectTimerWrites
<1>2. PICK buff \in Buffer :
         SendBuffer(buff, lastRead + 1 + TOTAL, lastAck - 1, lastAckIndex, resendTimer)
  <2>1. lastSent = lastAck - 1
    BY <1>1
  <2> QED BY <1>1, <2>1
<1>3. /\ InOrder /\ \A i \in 1 .. Len(toServer) : Fitting(toServer[i])
      /\ sndWindow <= rcvWindow /\ lastAck <= nextExpected /\ toClient = << >>
  BY <1>1 DEF FlowInv, ConnectTimerFired
<1>4. ASSUME NEW i \in 1 .. Len(toServer), toServer[i].flag = "NONE" PROVE FALSE
  <2>1. toServer[i].sequence \in Nat /\ toServer[i].ack \in Nat \ {0}
    BY <1>4, PacketNumbers
  <2>2. lastAck <= toServer[i].sequence /\ toServer[i].sequence + toServer[i].ack <= lastAck
    BY <1>1, <1>3, <1>4 DEF Fitting, Sent
  <2> QED BY <1>1, <2>1, <2>2
<1>5. TOTAL \in 0 .. TOTAL /\ lastAck <= lastRead + 1 + TOTAL
      /\ UNCHANGED <<lastAck, toClient, nextExpected, rcvWindow>>
  BY <1>1 DEF server
<1> QED BY <1>2, <1>3, <1>4, <1>5, FlowSend

\* resendTimer.fired starts again at the last acknowledged byte, with nothing under way.
LEMMA ResendTimerFlow ==
  ASSUME Fits, Patient, TypeOK, StreamInv, FlowInv, cState = "ESTABLISHED", ResendTimerFired
  PROVE  FlowInv'
<1>1. /\ lastRead \in Nat /\ lastAck \in Nat /\ written \in Nat /\ TOTAL \in Nat
      /\ lastRead + TOTAL + 1 < MOD /\ MOD \in Nat
      /\ lastWritten = lastRead + 1 + written /\ written <= TOTAL
      /\ lastRead < lastAck /\ lastAck <= lastWritten
  BY FlowNumbers
<1>2. U8(lastAck - 1) = lastAck - 1
  <2>1. lastAck - 1 \in Uint8
    BY <1>1 DEF Uint8
  <2> QED BY <2>1, U8Fits
<1>3. /\ SendBuffer(sendBuff, lastRead + 1 + written, lastAck - 1, lastAckIndex, FALSE)
      /\ UNCHANGED <<lastAck, toClient, nextExpected, rcvWindow>>
      /\ toServer = << >> /\ toClient = << >>
  BY <1>1, <1>2 DEF ResendTimerFired, Quiet, server
<1>4. /\ InOrder /\ sndWindow <= rcvWindow /\ lastAck <= nextExpected
      /\ \A i \in 1 .. Len(toServer) : toServer[i].flag # "NONE"
  BY <1>3 DEF FlowInv
<1>5. sendBuff \in Buffer /\ written \in 0 .. TOTAL /\ lastAck <= lastRead + 1 + written
  BY <1>1 DEF TypeOK
<1> QED BY <1>3, <1>4, <1>5, FlowSend

\* The window is uint8_t, and a window of zero is announced as one.
LEMMA WindowAfterIs ==
  ASSUME TypeOK, NEW l \in Nat, l <= rcvWindow
  PROVE  WindowAfter(l) \in Nat /\ rcvWindow - l <= WindowAfter(l)
<1>1. rcvWindow \in Nat /\ rcvWindow - l \in Uint8
  BY StreamAssumption DEF TypeOK, Uint8
<1>2. U8(rcvWindow - l) = rcvWindow - l
  BY <1>1, U8Fits
<1> QED BY <1>1, <1>2 DEF WindowAfter

\* The first packet under way is data: what the server makes of it leaves the
\* bytes behind the packet, and the acknowledgements of them, in its window.
LEMMA ServerDataFlow ==
  ASSUME Fits, ~Reordering, TypeOK, StreamInv, FlowInv, cState = "ESTABLISHED",
         NEW i \in Deliverable(toServer), ServerReceiveData(i)
  PROVE  FlowInv'
<1> DEFINE p == toServer[1]
           s == p.sequence
           l == p.ack
           W == rcvWindow
<1>1. /\ i = 1 /\ 1 \in 1 .. Len(toServer) /\ p.flag = "NONE"
      /\ s \in Nat /\ l \in Nat \ {0} /\ toServer' = Without(toServer, 1)
      /\ UNCHANGED <<written, lastSent, lastAck, sndWindow>>
  <2>1. i = 1 /\ i \in 1 .. Len(toServer)
    BY DEF Deliverable
  <2>2. p.flag = "NONE" /\ toServer' = Without(toServer, 1)
        /\ UNCHANGED <<written, lastSent, lastAck, sndWindow>>
    BY <2>1 DEF ServerReceiveData, app, client
  <2> QED BY <2>1, <2>2, PacketNumbers
<1>2. /\ lastRead \in Nat /\ lastSent \in Nat /\ lastAck \in Nat /\ nextExpected \in Nat
      /\ sndWindow \in Nat /\ W \in Nat /\ written \in Nat /\ MOD \in Nat
      /\ lastRead + TOTAL + 1 < MOD /\ TOTAL \in Nat
      /\ lastWritten = lastRead + 1 + written /\ written <= TOTAL
      /\ Sent \in Nat /\ Sent' = Sent
  BY <1>1, FlowNumbers DEF Sent
<1>3. /\ lastAck <= s /\ s + l <= Sent /\ sndWindow + Sent - s <= W
      /\ sndWindow <= W /\ Sent - nextExpected <= W /\ lastAck <= nextExpected
      /\ InOrder /\ \A k \in 1 .. Len(toServer) : Fitting(toServer[k])
      /\ \A k \in 1 .. Len(toClient) : Allows(toClient[k])
  BY <1>1 DEF FlowInv, Fitting
<1>4. s + l <= lastRead + 1 + written /\ lastRead < s
  BY <1>1, <1>2 DEF StreamInv, NetInv, DataCorrect, Carries
<1>5. /\ nextExpected' \in Nat /\ rcvWindow' \in Nat /\ W - l <= rcvWindow'
      /\ nextExpected' <= s + l /\ lastAck <= nextExpected'
      /\ Sent - nextExpected' <= rcvWindow'
      /\ \A a \in Nat : a <= nextExpected /\ a <= s => a <= nextExpected'
      /\ toClient' = Put(toClient, <<Reply(nextExpected', rcvWindow')>>)
  <2>1. CASE ~Accepts(p)
    <3>1. UNCHANGED <<nextExpected, rcvWindow>>
          /\ toClient' = Put(toClient, <<Reply(nextExpected, rcvWindow)>>)
      BY <1>1, <2>1 DEF ServerReceiveData
    <3>2. nextExpected < s
      BY <1>1, <1>2, <2>1 DEF Accepts
    <3> HIDE DEF s, l, W, p
    <3> QED BY <1>1, <1>2, <1>3, <3>1, <3>2 DEF W
  <2>2. CASE Accepts(p)
    <3>1. ~fault'
      BY ServerDataStream DEF StreamInv
    <3>2. /\ nextExpected' = Advanced(p) /\ rcvWindow' = WindowAfter(l)
          /\ toClient' = Put(toClient, <<Reply(nextExpected', rcvWindow')>>)
      BY <1>1, <2>2, <3>1 DEF ServerReceiveData
    <3>3. Advanced(p) = s + l
      <4>1. s + l \in Uint8
        BY <1>1, <1>2, <1>4 DEF Uint8
      <4> QED BY <4>1, U8Fits DEF Advanced
    <3>4. l <= W
      BY <1>1, <1>2, <1>3
    <3>5. WindowAfter(l) \in Nat /\ W - l <= WindowAfter(l)
      BY <1>1, <3>4, WindowAfterIs
    <3> HIDE DEF s, l, W, p
    <3> QED BY <1>1, <1>2, <1>3, <3>2, <3>3, <3>5
  <2> QED BY <2>1, <2>2
<1>6. ASSUME NEW j \in 1 .. Len(toServer')
      PROVE  \E k \in 2 .. Len(toServer) :
                /\ toServer'[j] = toServer[k] /\ toServer[k].flag = "NONE"
                /\ toServer[k].sequence \in Nat /\ toServer[k].ack \in Nat
                /\ s + l <= toServer[k].sequence
                /\ lastAck <= toServer[k].sequence
                /\ toServer[k].sequence + toServer[k].ack <= Sent
  <2>1. PICK k \in 1 .. Len(toServer) : toServer'[j] = toServer[k] /\ k > 1
    BY <1>1, <1>3, StaysInOrder
  <2>2. toServer[k].flag = "NONE"
    BY <1>3, <2>1 DEF InOrder
  <2>3. s + l <= toServer[k].sequence
    BY <1>1, <1>3, <2>1, <2>2 DEF InOrder
  <2>4. lastAck <= toServer[k].sequence /\ toServer[k].sequence + toServer[k].ack <= Sent
    BY <1>3, <2>2 DEF Fitting
  <2>5. toServer[k].sequence \in Nat /\ toServer[k].ack \in Nat /\ k \in 2 .. Len(toServer)
    BY <2>1, <2>2, PacketNumbers
  <2> QED BY <2>1, <2>2, <2>3, <2>4, <2>5
<1> HIDE DEF s, l
<1>7. InOrder'
  <2>1. \A a, b \in 1 .. Len(toServer') :
          a < b /\ toServer'[a].flag = "NONE" /\ toServer'[b].flag = "NONE" =>
            toServer'[a].sequence + toServer'[a].ack <= toServer'[b].sequence
    BY <1>1, <1>3, StaysInOrder
  <2>2. \A a \in 1 .. Len(toServer') : toServer'[a].flag = "NONE"
    BY <1>6
  <2> QED BY <2>1, <2>2 DEF InOrder
<1>8. ASSUME NEW j \in 1 .. Len(toServer')
      PROVE  /\ lastAck' <= toServer'[j].sequence
             /\ toServer'[j].sequence + toServer'[j].ack <= Sent'
             /\ sndWindow' + Sent' - toServer'[j].sequence <= rcvWindow'
  <2>1. PICK k \in 2 .. Len(toServer) :
                /\ toServer'[j] = toServer[k]
                /\ toServer[k].sequence \in Nat
                /\ s + l <= toServer[k].sequence
                /\ lastAck <= toServer[k].sequence
                /\ toServer[k].sequence + toServer[k].ack <= Sent
    BY <1>6
  <2>2. sndWindow + Sent - toServer[k].sequence <= rcvWindow'
    BY <1>1, <1>2, <1>3, <1>5, <2>1
  <2> QED BY <1>1, <1>2, <2>1, <2>2
<1>9. \A j \in 1 .. Len(toServer') : Fitting(toServer[j])'
  BY <1>8 DEF Fitting
<1>10. ASSUME NEW a, a.flag = "ACK", a.ack \in Nat, a.advertisedWindow \in Nat,
              \/ Allows(a)
              \/ a.ack = nextExpected' /\ a.advertisedWindow = rcvWindow'
       PROVE  /\ a.ack <= nextExpected' /\ Sent <= Edge(a) /\ Edge(a) - Sent <= rcvWindow'
              /\ \A j \in 1 .. Len(toServer') :
                    a.ack <= toServer'[j].sequence
                    /\ Edge(a) - toServer'[j].sequence <= rcvWindow'
  <2>0. s \in Nat /\ l \in Nat /\ W \in Nat /\ Sent \in Nat /\ s + l <= Sent
    BY <1>1, <1>2, <1>3
  <2>1. Edge(a) \in Nat /\ Edge(a) = a.ack + a.advertisedWindow
    BY <1>10 DEF Edge
  <2>2. /\ a.ack <= nextExpected' /\ Sent <= Edge(a) /\ Edge(a) - Sent <= rcvWindow'
        /\ a.ack <= s + l /\ Edge(a) - (s + l) <= rcvWindow'
    <3>1. CASE Allows(a)
      <4>1. /\ a.ack <= nextExpected /\ Sent <= Edge(a) /\ a.ack <= s /\ Edge(a) - s <= W
        BY <1>1, <3>1 DEF Allows, s
      <4>2. a.ack <= nextExpected'
        BY <1>5, <1>10, <4>1
      <4>3. \A e, x \in Nat : x <= s /\ e - s <= W =>
                e - Sent <= rcvWindow' /\ x <= s + l /\ e - (s + l) <= rcvWindow'
        <5>1. \A e, x, w \in Nat : x <= s /\ e - s <= W /\ W - l <= w =>
                  e - Sent <= w /\ x <= s + l /\ e - (s + l) <= w
          BY <2>0
        <5> QED BY <1>5, <5>1
      <4>4. /\ Edge(a) - Sent <= rcvWindow' /\ a.ack <= s + l
            /\ Edge(a) - (s + l) <= rcvWindow'
        BY <1>10, <2>1, <4>1, <4>3
      <4> QED BY <4>1, <4>2, <4>4
    <3>2. CASE a.ack = nextExpected' /\ a.advertisedWindow = rcvWindow'
      <4>1. Edge(a) = nextExpected' + rcvWindow' /\ a.ack = nextExpected'
        BY <2>1, <3>2
      <4>2. ASSUME NEW v \in Nat, NEW w \in Nat, NEW e \in Nat,
                   v <= s + l, Sent - v <= w, e = v + w
            PROVE  /\ v <= v /\ Sent <= e /\ e - Sent <= w
                   /\ v <= s + l /\ e - (s + l) <= w
        BY <2>0, <4>2
      <4>3. nextExpected' \in Nat /\ rcvWindow' \in Nat /\ nextExpected' <= s + l
            /\ Sent - nextExpected' <= rcvWindow'
        BY <1>5
      <4> QED BY <2>1, <4>1, <4>2, <4>3
    <3> QED BY <1>10, <3>1, <3>2
  <2>3. ASSUME NEW j \in 1 .. Len(toServer')
        PROVE  a.ack <= toServer'[j].sequence /\ Edge(a) - toServer'[j].sequence <= rcvWindow'
    <3>1. toServer'[j].sequence \in Nat /\ s + l <= toServer'[j].sequence
      BY <1>6
    <3> QED BY <1>1, <1>5, <1>10, <2>1, <2>2, <3>1
  <2> QED BY <2>2, <2>3
<1>11. ASSUME NEW j \in 1 .. Len(toClient') PROVE Allows(toClient[j])'
  <2>1. \/ \E k \in 1 .. Len(toClient) : toClient'[j] = toClient[k]
        \/ toClient'[j] = Reply(nextExpected', rcvWindow')
    <3> DEFINE S == ToClient \cup {Reply(nextExpected', rcvWindow')}
               r == <<Reply(nextExpected', rcvWindow')>>
    <3>1. toClient \in Seq(S) /\ r \in Seq(S) /\ Len(r) = 1
          /\ r[1] = Reply(nextExpected', rcvWindow')
      BY PacketNumbers
    <3>2. toClient' = Put(toClient, r)
      BY <1>5
    <3> HIDE DEF r, S
    <3>3. \/ \E k \in 1 .. Len(toClient) : toClient'[j] = toClient[k]
          \/ \E k \in 1 .. Len(r) : toClient'[j] = r[k]
      BY <3>1, <3>2, PutElement
    <3> QED BY <3>1, <3>3
  <2>2. LET a == toClient'[j]
        IN  /\ a.flag = "ACK" /\ a.ack \in Nat /\ a.advertisedWindow \in Nat
            /\ \/ Allows(a)
               \/ a.ack = nextExpected' /\ a.advertisedWindow = rcvWindow'
    <3>1. CASE \E k \in 1 .. Len(toClient) : toClient'[j] = toClient[k]
      <4>1. PICK k \in 1 .. Len(toClient) : toClient'[j] = toClient[k]
        BY <3>1
      <4>2. Allows(toClient[k]) /\ toClient[k].flag = "ACK"
        BY <1>3 DEF Allows
      <4> QED BY <4>1, <4>2, PacketNumbers
    <3>2. CASE toClient'[j] = Reply(nextExpected', rcvWindow')
      BY <1>5, <3>2 DEF Reply
    <3> QED BY <2>1, <3>1, <3>2
  <2> DEFINE a == toClient'[j]
  <2>3. /\ a.flag = "ACK"
        /\ a.ack <= nextExpected' /\ Sent <= Edge(a) /\ Edge(a) - Sent <= rcvWindow'
        /\ \A k \in 1 .. Len(toServer') :
              a.ack <= toServer'[k].sequence
              /\ Edge(a) - toServer'[k].sequence <= rcvWindow'
    BY <1>10, <2>2
  <2> QED BY <1>2, <2>3 DEF Allows, Edge
<1>12. sndWindow' <= rcvWindow' /\ Sent' - nextExpected' <= rcvWindow' /\ lastAck' <= nextExpected'
       /\ written' # 0
  <2>1. sndWindow <= rcvWindow'
    BY <1>1, <1>2, <1>3, <1>5
  <2>2. written # 0
    BY <1>1, <1>2, <1>4
  <2> QED BY <1>1, <1>2, <1>5, <2>1, <2>2
<1> QED BY <1>7, <1>9, <1>11, <1>12 DEF FlowInv

\* An acknowledgement keeps what it allows while the server's numbers stay.
LEMMA AllowsStill ==
  ASSUME Sent' = Sent, nextExpected' = nextExpected, rcvWindow' = rcvWindow,
         \A i \in 1 .. Len(toServer') : \E j \in 1 .. Len(toServer) : toServer'[i] = toServer[j],
         \A i \in 1 .. Len(toClient') : \E j \in 1 .. Len(toClient) : toClient'[i] = toClient[j],
         \A i \in 1 .. Len(toClient) : Allows(toClient[i])
  PROVE  \A i \in 1 .. Len(toClient') : Allows(toClient[i])'
<1> SUFFICES ASSUME NEW i \in 1 .. Len(toClient') PROVE Allows(toClient[i])'
  OBVIOUS
<1>1. PICK k \in 1 .. Len(toClient) : toClient'[i] = toClient[k]
  OBVIOUS
<1> DEFINE a == toClient[k]
<1>2. Allows(a)
  OBVIOUS
<1>3. \A j \in 1 .. Len(toServer') : toServer'[j].flag = "NONE" =>
        a.ack <= toServer'[j].sequence /\ Edge(a) - toServer'[j].sequence <= rcvWindow
  BY <1>2 DEF Allows
<1>4. /\ a.flag = "ACK" /\ a.ack <= nextExpected
      /\ Sent <= Edge(a) /\ Edge(a) - Sent <= rcvWindow
  BY <1>2 DEF Allows
<1>5. toClient'[i] = a
  BY <1>1
<1> HIDE DEF a
<1> QED BY <1>3, <1>4, <1>5 DEF Allows, Edge

\* An acknowledgement moves lastAck and the window; what is behind is its edge.
LEMMA ClientAckFlow ==
  ASSUME Fits, TypeOK, StreamInv, FlowInv, cState = "ESTABLISHED",
         NEW i \in Deliverable(toClient), ClientReceiveAck(i)
  PROVE  FlowInv'
<1> DEFINE p == toClient[i]
           e == p.ack + p.advertisedWindow
<1>1. /\ i \in 1 .. Len(toClient) /\ p.flag = "ACK" /\ toClient' = Without(toClient, i)
      /\ lastAck' = p.ack /\ sndWindow' = U8(p.advertisedWindow - Outstanding(p.ack))
      /\ UNCHANGED <<written, cState, lastSent, nextExpected, rcvWindow, toServer>>
  BY DEF ClientReceiveAck, Deliverable, app, server
<1>2. /\ lastSent \in Nat /\ nextExpected \in Nat /\ rcvWindow \in Nat /\ MOD \in Nat
      /\ rcvWindow < MOD
      /\ p.ack \in Nat /\ p.advertisedWindow \in Nat /\ e \in Nat
      /\ Sent = lastSent + 1 /\ Sent \in Nat /\ Sent' = Sent
  <2>1. p.ack \in Nat /\ p.advertisedWindow \in Nat
    BY <1>1, PacketNumbers
  <2>2. e \in Nat
    BY <2>1
  <2>3. /\ lastSent \in Nat /\ nextExpected \in Nat /\ rcvWindow \in Nat /\ MOD \in Nat
        /\ rcvWindow < MOD
    BY FlowNumbers
  <2> HIDE DEF e, p
  <2> QED BY <1>1, <2>1, <2>2, <2>3 DEF Sent
<1>3. /\ p.ack <= nextExpected /\ Sent <= e /\ e - Sent <= rcvWindow
      /\ \A j \in 1 .. Len(toServer) : toServer[j].flag = "NONE" =>
            p.ack <= toServer[j].sequence /\ e - toServer[j].sequence <= rcvWindow
      /\ InOrder /\ \A k \in 1 .. Len(toServer) : Fitting(toServer[k])
      /\ \A k \in 1 .. Len(toClient) : Allows(toClient[k])
      /\ Sent - nextExpected <= rcvWindow
      /\ written = 0 => toClient = << >>
  BY <1>1 DEF FlowInv, Allows, Edge
<1>4. sndWindow' = e - Sent
  <2>1. \A a, w \in Nat : w - (lastSent - a + 1) = (a + w) - (lastSent + 1)
    BY <1>2
  <2>2. p.advertisedWindow - Outstanding(p.ack) = e - Sent
    BY <1>2, <2>1 DEF Outstanding
  <2> HIDE DEF e, p
  <2>3. e - Sent \in Uint8
    BY <1>2, <1>3 DEF Uint8
  <2> QED BY <1>1, <2>2, <2>3, U8Fits
<1>5. \A k \in 1 .. Len(toClient') : \E j \in 1 .. Len(toClient) : toClient'[k] = toClient[j]
  BY <1>1, PacketNumbers, WithoutElement
<1> HIDE DEF p, e
<1>6. ASSUME NEW j \in 1 .. Len(toServer), toServer[j].flag = "NONE"
      PROVE  /\ lastAck' <= toServer[j].sequence /\ toServer[j].sequence + toServer[j].ack <= Sent'
             /\ sndWindow' + Sent' - toServer[j].sequence <= rcvWindow
  <2>1. /\ p.ack <= toServer[j].sequence /\ e - toServer[j].sequence <= rcvWindow
        /\ toServer[j].sequence + toServer[j].ack <= Sent
    BY <1>3, <1>6 DEF Fitting
  <2>2. toServer[j].sequence \in Nat
    BY <1>6, PacketNumbers
  <2>3. (e - Sent) + Sent - toServer[j].sequence <= rcvWindow
    BY <1>2, <2>1, <2>2
  <2> QED BY <1>1, <1>2, <1>4, <2>1, <2>3
<1>7. \A j \in 1 .. Len(toServer') : Fitting(toServer[j])'
  BY <1>1, <1>6 DEF Fitting
<1>8. InOrder'
  BY <1>1, <1>3 DEF InOrder
<1>9. \A j \in 1 .. Len(toClient') : Allows(toClient[j])'
  BY <1>1, <1>2, <1>3, <1>5, AllowsStill
<1>10. sndWindow' <= rcvWindow' /\ Sent' - nextExpected' <= rcvWindow' /\ lastAck' <= nextExpected'
       /\ (written' = 0 => toClient' = << >>)
  <2>1. toClient # << >>
    BY <1>1
  <2> QED BY <1>1, <1>2, <1>3, <1>4, <2>1
<1> QED BY <1>7, <1>8, <1>9, <1>10 DEF FlowInv

\* When packets are only taken from the channels, and no number changes, flow
\* control stays.
LEMMA FewerFlow ==
  ASSUME TypeOK, FlowInv, cState = "ESTABLISHED",
         UNCHANGED <<written, lastSent, lastAck, sndWindow, nextExpected, rcvWindow>>,
         \/ toServer' = toServer
         \/ \E k \in 1 .. Len(toServer) : toServer' = Without(toServer, k),
         \/ toClient' = toClient
         \/ \E k \in 1 .. Len(toClient) : toClient' = Without(toClient, k)
  PROVE  FlowInv'
<1>1. /\ InOrder /\ \A k \in 1 .. Len(toServer) : Fitting(toServer[k])
      /\ \A k \in 1 .. Len(toClient) : Allows(toClient[k])
      /\ written = 0 => toClient = << >>
      /\ sndWindow <= rcvWindow /\ Sent - nextExpected <= rcvWindow /\ lastAck <= nextExpected
  BY DEF FlowInv
<1>2. InOrder' /\ \A i \in 1 .. Len(toServer') : \E j \in 1 .. Len(toServer) : toServer'[i] = toServer[j]
  <2>1. CASE toServer' = toServer
    BY <1>1, <2>1 DEF InOrder
  <2>2. ASSUME NEW k \in 1 .. Len(toServer), toServer' = Without(toServer, k)
        PROVE  /\ InOrder'
               /\ \A i \in 1 .. Len(toServer') : \E j \in 1 .. Len(toServer) : toServer'[i] = toServer[j]
    <3>1. /\ \A i, j \in 1 .. Len(toServer') :
               i < j /\ toServer'[i].flag = "NONE" /\ toServer'[j].flag = "NONE" =>
                  toServer'[i].sequence + toServer'[i].ack <= toServer'[j].sequence
          /\ \A i \in 1 .. Len(toServer') :
               \/ toServer'[i].flag = "NONE"
               \/ /\ i = 1 /\ toServer'[i].flag = "ACK"
                  /\ toServer'[i].advertisedWindow = rcvWindow
          /\ \A i \in 1 .. Len(toServer') : \E j \in 1 .. Len(toServer) : toServer'[i] = toServer[j]
      BY <1>1, <2>2, StaysInOrder
    <3> QED BY <3>1 DEF InOrder
  <2> QED BY <2>1, <2>2
<1>3. \A i \in 1 .. Len(toClient') : \E j \in 1 .. Len(toClient) : toClient'[i] = toClient[j]
  <2>1. toClient \in Seq(ToClient)
    BY PacketNumbers
  <2> QED BY <2>1, WithoutElement
<1>4. toClient = << >> => toClient' = << >>
  OBVIOUS
<1>5. Sent' = Sent
  BY DEF Sent
<1>6. \A i \in 1 .. Len(toServer') : Fitting(toServer[i])'
  BY <1>1, <1>2, <1>5 DEF Fitting
<1>7. \A i \in 1 .. Len(toClient') : Allows(toClient[i])'
  BY <1>1, <1>2, <1>3, <1>5, AllowsStill
<1> QED BY <1>1, <1>2, <1>4, <1>5, <1>6, <1>7 DEF FlowInv

\* What is left: the handshake's ACK, losses, and FINs, of which there are none.
LEMMA OtherFlow ==
  ASSUME Fits, ~Reordering, TypeOK, StreamInv, FlowInv, cState = "ESTABLISHED",
         \/ Close
         \/ \E i \in Deliverable(toClient) : ClientReceiveFin(i)
         \/ \E i \in Deliverable(toServer) : ServerReceiveAck(i)
         \/ \E i \in Deliverable(toServer) : ServerReceiveFin(i)
         \/ \E i \in 1 .. Len(toServer) : LoseToServer(i)
         \/ \E i \in 1 .. Len(toClient) : LoseToClient(i)
  PROVE  FlowInv'
<1>1. CASE Close
  BY <1>1 DEF Close, FlowInv
<1>2. ASSUME NEW i \in Deliverable(toClient), ClientReceiveFin(i) PROVE FALSE
  <2>1. i \in 1 .. Len(toClient)
    BY DEF Deliverable
  <2> QED BY <1>2, <2>1 DEF ClientReceiveFin, FlowInv, Allows
<1>3. ASSUME NEW i \in Deliverable(toServer), ServerReceiveAck(i) PROVE FlowInv'
  <2>1. i \in 1 .. Len(toServer) /\ toServer[i].flag = "ACK"
    BY <1>3 DEF Deliverable, ServerReceiveAck
  <2>2. toServer[i].advertisedWindow = rcvWindow
    BY <2>1 DEF FlowInv, InOrder
  <2>3. /\ UNCHANGED <<written, lastSent, lastAck, sndWindow, nextExpected, rcvWindow, toClient>>
        /\ toServer' = Without(toServer, i)
    BY <1>3, <2>2 DEF ServerReceiveAck, app, client
  <2> QED BY <2>1, <2>3, FewerFlow
<1>4. ASSUME NEW i \in Deliverable(toServer), ServerReceiveFin(i) PROVE FALSE
  <2>1. i \in 1 .. Len(toServer) /\ toServer[i].flag = "FIN"
    BY <1>4 DEF Deliverable, ServerReceiveFin
  <2> QED BY <2>1 DEF FlowInv, InOrder
<1>5. ASSUME NEW i \in 1 .. Len(toServer), LoseToServer(i) PROVE FlowInv'
  BY <1>5, FewerFlow DEF LoseToServer, app, client, server
<1>6. ASSUME NEW i \in 1 .. Len(toClient), LoseToClient(i) PROVE FlowInv'
  BY <1>6, FewerFlow DEF LoseToClient, app, client, server
<1> QED BY <1>1, <1>2, <1>3, <1>4, <1>5, <1>6

\* Flow control's invariant, initially and in every step.
LEMMA FlowInvariant ==
  ASSUME Fits, ~Reordering, Patient
  PROVE  Spec => []FlowInv
<1>1. Init /\ StreamInv /\ TypeOK => FlowInv
  <2> SUFFICES ASSUME Init, StreamInv, TypeOK PROVE FlowInv
    OBVIOUS
  <2>1. /\ lastRead \in Nat /\ lastSent = lastRead /\ written = 0 /\ toClient = << >>
        /\ sndWindow = rcvWindow /\ rcvWindow \in Nat /\ nextExpected = lastAck
    BY FlowNumbers DEF Init
  <2>2. lastAck = lastRead + 1
    <3>1. lastAckIndex = lastAck - lastRead - 1 /\ lastAckIndex = 0 /\ lastAck \in Nat
      BY FlowNumbers DEF StreamInv, ClientInv, Init
    <3> QED BY <2>1, <3>1
  <2>3. Sent = lastAck /\ Sent - nextExpected <= rcvWindow /\ lastAck <= nextExpected
    BY <2>1, <2>2 DEF Sent
  <2>4. InOrder /\ \A i \in 1 .. Len(toServer) : Fitting(toServer[i])
    BY DEF Init, InOrder, Fitting
  <2> QED BY <2>1, <2>3, <2>4 DEF FlowInv
<1>2. TypeOK /\ StreamInv /\ FlowInv /\ [Next]_vars => FlowInv'
  <2> SUFFICES ASSUME TypeOK, StreamInv, FlowInv, [Next]_vars PROVE FlowInv'
    OBVIOUS
  <2>1. CASE cState # "ESTABLISHED"
    <3>1. cState' # "ESTABLISHED"
      BY <2>1 DEF Next, vars, client, ConnectTimerFired, ResendTimerFired, Close,
                  ClientReceiveAck, ClientReceiveFin, ServerReceiveData, ServerReceiveAck,
                  ServerReceiveFin, LoseToServer, LoseToClient
    <3> QED BY <3>1 DEF FlowInv
  <2>2. CASE cState = "ESTABLISHED"
    <3>1. CASE ConnectTimerFired
      BY <3>1, ConnectTimerFlow
    <3>2. CASE ResendTimerFired
      BY <2>2, <3>2, ResendTimerFlow
    <3>3. CASE \E i \in Deliverable(toClient) : ClientReceiveAck(i)
      BY <2>2, <3>3, ClientAckFlow
    <3>4. CASE \E i \in Deliverable(toServer) : ServerReceiveData(i)
      BY <2>2, <3>4, ServerDataFlow
    <3>5. CASE \/ Close
               \/ \E i \in Deliverable(toClient) : ClientReceiveFin(i)
               \/ \E i \in Deliverable(toServer) : ServerReceiveAck(i)
               \/ \E i \in Deliverable(toServer) : ServerReceiveFin(i)
               \/ \E i \in 1 .. Len(toServer) : LoseToServer(i)
               \/ \E i \in 1 .. Len(toClient) : LoseToClient(i)
      BY <2>2, <3>5, OtherFlow
    <3>6. CASE UNCHANGED vars
      BY <2>2, <3>6, FewerFlow DEF vars, app, client, server, net
    <3> QED BY <3>1, <3>2, <3>3, <3>4, <3>5, <3>6 DEF Next
  <2> QED BY <2>1, <2>2
<1> QED BY <1>1, <1>2, TypeCorrect, StreamInvariant, PTL DEF Spec

-----------------------------------------------------------------------------
(* The bytes under way.  InFlight is a sum over a channel of any length: the *)
(* facts about it are proved of the least prefix that would break them.     *)

\* A set of naturals has a least element.
LEMMA LeastOf ==
  ASSUME NEW S \in SUBSET Nat, S # {}
  PROVE  \E x \in S : \A y \in S : x <= y
<1>1. IsWellFoundedOn(OpToRel(<, Nat), Nat)
  BY NatLessThanWellFounded
<1>2. PICK x \in S : \A y \in S : ~(<<y, x>> \in OpToRel(<, Nat))
  BY <1>1, WFMin
<1>3. ASSUME NEW y \in S, y < x PROVE <<y, x>> \in OpToRel(<, Nat)
  BY <1>3 DEF OpToRel
<1>4. \A y \in S : x \in Nat /\ y \in Nat /\ ~(y < x)
  BY <1>2, <1>3
<1> QED BY <1>4

\* The sums of the payloads of the first n packets.
Sums(sum, m) ==
  sum = [n \in 0 .. m |->
           IF n = 0 THEN 0
           ELSE sum[n - 1] + IF toServer[n].flag = "NONE" THEN toServer[n].ack ELSE 0]

LEMMA SumsExist ==
  ASSUME NEW m \in Nat
  PROVE  \E sum : Sums(sum, m)
<1> DEFINE Missing == {k \in Nat : ~ \E sum : Sums(sum, k)}
           load(n) == IF toServer[n].flag = "NONE" THEN toServer[n].ack ELSE 0
<1> SUFFICES ASSUME Missing # {} PROVE FALSE
  OBVIOUS
<1>1. PICK k \in Missing : \A j \in Missing : k <= j
  BY LeastOf
<1>2. k \in Nat /\ ~ \E sum : Sums(sum, k)
  OBVIOUS
<1>3. CASE k = 0
  <2> DEFINE r == [n \in 0 .. 0 |-> 0]
  <2>1. Sums(r, 0)
    BY DEF Sums
  <2> QED BY <1>2, <1>3, <2>1
<1>4. CASE k # 0
  <2>1. k - 1 \in Nat /\ ~(k <= k - 1)
    BY <1>2, <1>4
  <2>2. PICK g : Sums(g, k - 1)
    BY <1>1, <2>1
  <2>3. \A n \in 0 .. k - 1 : g[n] = IF n = 0 THEN 0 ELSE g[n - 1] + load(n)
    BY <2>2 DEF Sums
  <2> DEFINE r == [n \in 0 .. k |-> IF n < k THEN g[n] ELSE g[k - 1] + load(k)]
  <2>4. /\ r = [n \in 0 .. k |-> r[n]]
        /\ \A n \in 0 .. k : r[n] = IF n < k THEN g[n] ELSE g[k - 1] + load(k)
    OBVIOUS
  <2> HIDE DEF r, load
  <2>5. ASSUME NEW n \in 0 .. k
        PROVE  r[n] = IF n = 0 THEN 0 ELSE r[n - 1] + load(n)
    <3>1. CASE n = 0
      BY <1>2, <1>4, <2>3, <2>4, <3>1
    <3>2. CASE n # 0 /\ n < k
      <4>1. n \in 0 .. k - 1 /\ n - 1 \in 0 .. k /\ n - 1 < k
        BY <1>2, <3>2
      <4> QED BY <2>3, <2>4, <3>2, <4>1
    <3>3. CASE n = k
      <4>1. k - 1 \in 0 .. k /\ k - 1 < k /\ ~(k < k) /\ k \in 0 .. k
        BY <1>2, <1>4
      <4> QED BY <1>4, <2>4, <3>3, <4>1
    <3> QED BY <1>2, <3>1, <3>2, <3>3
  <2>6. Sums(r, k)
    BY <2>4, <2>5 DEF Sums, load
  <2> QED BY <1>2, <2>6
<1> QED BY <1>3, <1>4

\* Data that is in order carries no more than what lies between the first byte
\* and the last.
Spans(sum, n) ==
  /\ sum[n] \in Nat
  /\ \A from, to \in Nat :
        /\ from <= to
        /\ \A i \in 1 .. Len(toServer) : i <= n /\ toServer[i].flag = "NONE" =>
              from <= toServer[i].sequence /\ toServer[i].sequence + toServer[i].ack <= to
        => sum[n] <= to - from

LEMMA SumsSpan ==
  ASSUME TypeOK, InOrder, NEW sum, Sums(sum, Len(toServer))
  PROVE  Spans(sum, Len(toServer))
<1> DEFINE m == Len(toServer)
           Wrong == {n \in 0 .. m : ~Spans(sum, n)}
<1>1. m \in Nat
  BY PacketNumbers
<1>2. \A n \in 0 .. m :
         sum[n] = IF n = 0 THEN 0
                  ELSE sum[n - 1] + IF toServer[n].flag = "NONE" THEN toServer[n].ack ELSE 0
  BY DEF Sums
<1> SUFFICES ASSUME Wrong # {} PROVE FALSE
  BY <1>1
<1>3. PICK n \in Wrong : \A j \in Wrong : n <= j
  <2>1. Wrong \in SUBSET Nat
    BY <1>1
  <2> HIDE DEF Wrong
  <2> QED BY <2>1, LeastOf
<1>4. n \in 0 .. m /\ ~Spans(sum, n)
  BY <1>3
<1>5. CASE n = 0
  <2>1. sum[0] = 0
    BY <1>1, <1>2
  <2>2. Spans(sum, 0)
    BY <2>1 DEF Spans
  <2> QED BY <1>4, <1>5, <2>2
<1>6. CASE n # 0
  <2>1. n \in 1 .. m /\ n \in Nat /\ n - 1 \in 0 .. m /\ n - 1 \in Nat /\ ~(n <= n - 1)
    BY <1>1, <1>4, <1>6
  <2>2. Spans(sum, n - 1)
    BY <1>3, <2>1
  <2>3. sum[n] = sum[n - 1] + IF toServer[n].flag = "NONE" THEN toServer[n].ack ELSE 0
    BY <1>2, <1>4, <1>6
  <2> DEFINE s == toServer[n].sequence
             l == toServer[n].ack
  <2>4. toServer[n].flag = "NONE" => s \in Nat /\ l \in Nat
    BY <2>1, PacketNumbers
  <2> HIDE DEF Wrong
  <2>5. sum[n] \in Nat
    BY <2>2, <2>3, <2>4 DEF Spans
  <2>6. ASSUME NEW from \in Nat, NEW to \in Nat, from <= to,
               \A i \in 1 .. m : i <= n /\ toServer[i].flag = "NONE" =>
                  from <= toServer[i].sequence /\ toServer[i].sequence + toServer[i].ack <= to
        PROVE  sum[n] <= to - from
    <3>1. CASE toServer[n].flag = "NONE"
      <4>1. s \in Nat /\ l \in Nat /\ from <= s /\ s + l <= to /\ sum[n] = sum[n - 1] + l
        BY <2>1, <2>3, <2>4, <2>6, <3>1
      <4>2. \A i \in 1 .. m : i <= n - 1 /\ toServer[i].flag = "NONE" =>
               from <= toServer[i].sequence /\ toServer[i].sequence + toServer[i].ack <= s
        <5>1. \A i \in 1 .. m : i <= n - 1 => i <= n /\ i < n
          BY <2>1
        <5> QED BY <2>1, <2>6, <3>1, <5>1 DEF InOrder
      <4>3. sum[n - 1] \in Nat /\ sum[n - 1] <= s - from
        BY <2>2, <4>1, <4>2 DEF Spans
      <4> QED BY <4>1, <4>3
    <3>2. CASE toServer[n].flag # "NONE"
      <4>1. \A i \in 1 .. m : i <= n - 1 => i <= n
        BY <2>1
      <4>2. sum[n - 1] \in Nat /\ sum[n - 1] <= to - from
        BY <2>2, <2>6, <4>1 DEF Spans
      <4> QED BY <2>3, <3>2, <4>2
    <3> QED BY <3>1, <3>2
  <2>7. Spans(sum, n)
    BY <2>5, <2>6 DEF Spans
  <2> QED BY <1>4, <2>7
<1> QED BY <1>5, <1>6

\* What is under way, and what the client may still send, never exceed the
\* window the server has left (effectiveWindow of Transport.receive), though
\* packets be lost, if those that arrive arrive in order and resendTimer waits
\* until the network is quiet.
THEOREM FlowControlHolds ==
  ASSUME Fits, ~Reordering, Patient
  PROVE  Spec => []FlowControl
<1>1. TypeOK /\ StreamInv /\ FlowInv => FlowControl
  <2> SUFFICES ASSUME TypeOK, StreamInv, FlowInv, cState = "ESTABLISHED"
               PROVE  InFlight + sndWindow <= rcvWindow
    BY DEF FlowControl
  <2> DEFINE m == Len(toServer)
             f == CHOOSE sum : Sums(sum, m)
             Data == {i \in 1 .. m : toServer[i].flag = "NONE"}
  <2>1. m \in Nat
    BY PacketNumbers
  <2>2. Sums(f, m)
    BY <2>1, SumsExist
  <2>3. InFlight = f[m]
    BY DEF InFlight, Sums
  <2> HIDE DEF f
  <2>4. InOrder /\ (\A i \in 1 .. m : Fitting(toServer[i])) /\ sndWindow <= rcvWindow
    BY DEF FlowInv
  <2>5. Spans(f, m)
    BY <2>2, <2>4, SumsSpan
  <2>6. /\ sndWindow \in Nat /\ rcvWindow \in Nat /\ Sent \in Nat /\ f[m] \in Nat
    BY <2>5, FlowNumbers DEF Sent, Spans
  <2>7. CASE Data = {}
    <3>0. \A i \in 1 .. m : toServer[i].flag # "NONE"
      BY <2>7
    <3>1. f[m] <= 0 - 0
      <4>1. \A from, to \in Nat : from <= to => f[m] <= to - from
        BY <2>5, <3>0 DEF Spans
      <4> QED BY <4>1
    <3> QED BY <2>3, <2>4, <2>6, <3>1
  <2>8. CASE Data # {}
    <3>1. PICK k \in Data : \A j \in Data : k <= j
      <4>1. Data \in SUBSET Nat
        BY <2>1
      <4> HIDE DEF Data
      <4> QED BY <2>8, <4>1, LeastOf
    <3>2. k \in 1 .. m /\ toServer[k].flag = "NONE"
      BY <3>1
    <3>3. toServer[k].sequence \in Nat /\ toServer[k].ack \in Nat \ {0}
      BY <3>2, PacketNumbers
    <3>4. toServer[k].sequence + toServer[k].ack <= Sent
          /\ sndWindow + Sent - toServer[k].sequence <= rcvWindow
      BY <2>4, <3>2 DEF Fitting
    <3>5. ASSUME NEW i \in 1 .. m, toServer[i].flag = "NONE"
          PROVE  toServer[k].sequence <= toServer[i].sequence
                 /\ toServer[i].sequence + toServer[i].ack <= Sent
      <4>1. i = k \/ k < i
        BY <3>1, <3>5
      <4>2. toServer[i].sequence \in Nat
        BY <3>5, PacketNumbers
      <4>3. k < i => toServer[k].sequence + toServer[k].ack <= toServer[i].sequence
        BY <2>4, <3>2, <3>5 DEF InOrder
      <4>4. toServer[k].sequence <= toServer[i].sequence
        BY <3>3, <4>1, <4>2, <4>3
      <4> QED BY <2>4, <3>5, <4>4 DEF Fitting
    <3>6. toServer[k].sequence <= Sent
      BY <2>6, <3>3, <3>4
    <3>7. f[m] <= Sent - toServer[k].sequence
      BY <2>5, <2>6, <3>3, <3>5, <3>6 DEF Spans
    <3> QED BY <2>3, <2>6, <3>3, <3>4, <3>7
  <2> QED BY <2>7, <2>8
<1> QED BY <1>1, TypeCorrect, StreamInvariant, FlowInvariant, PTL
=============================================================================

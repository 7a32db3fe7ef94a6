--------------------------- MODULE SimpleSendProof ---------------------------
(***************************************************************************)
(* Theorems about SimpleSend.tla, for every finite pool and every number   *)
(* of calls: its types, its invariants, and that it implements SendQueue.  *)
(***************************************************************************)
EXTENDS SimpleSend, FiniteSetTheorems, TLAPS

-----------------------------------------------------------------------------
(* Types *)

LEMMA TypeInit == Init => TypeOK
<1> SUFFICES ASSUME Init PROVE TypeOK
    OBVIOUS
<1>1. sends \in 0 .. MaxSends
    BY SimpleSendAssumption DEF Init
<1>2. queue \in Seq(Buf) /\ pool \subseteq Buf
    BY DEF Init
<1>3. info \in [Buf -> Msg \cup {Nothing}] /\ pkt \in Msg \cup {Nothing}
    BY DEF Init
<1>4. {busy, sendTimer, task, radioOn, sending} \subseteq BOOLEAN
    BY DEF Init
<1> QED
    BY <1>1, <1>2, <1>3, <1>4 DEF TypeOK

LEMMA TypeInductive == TypeOK /\ [Next]_vars => TypeOK'
<1> SUFFICES ASSUME TypeOK, [Next]_vars PROVE TypeOK'
    OBVIOUS
<1> USE DEF TypeOK, PostSendTask
<1>1. ASSUME NEW m \in Msg, Send(m) PROVE TypeOK'
    <2> sends' \in 0 .. MaxSends
        BY <1>1, SimpleSendAssumption DEF Send
    <2>1. CASE pool = {} /\ UNCHANGED <<pool, queue, info, sendTimer>>
        BY <1>1, <2>1 DEF Send
    <2>2. CASE \E b \in pool :
                /\ pool' = pool \ {b}
                /\ info' = [info EXCEPT ![b] = m]
                /\ queue' = Append(queue, b)
                /\ PostSendTask
        BY <1>1, <2>2 DEF Send
    <2> QED
        BY <1>1, <2>1, <2>2 DEF Send
<1>2. CASE SendTimerFired
    BY <1>2 DEF SendTimerFired
<1>3. CASE Transmit
    <2>1. Head(queue) \in Buf /\ Tail(queue) \in Seq(Buf)
        BY <1>3 DEF Transmit
    <2> QED
        BY <1>3, <2>1 DEF Transmit
<1>4. CASE TransmitFails
    <2>1. Head(queue) \in Buf
        BY <1>4 DEF TransmitFails
    <2> QED
        BY <1>4, <2>1 DEF TransmitFails
<1>5. CASE NothingToDo
    BY <1>5 DEF NothingToDo
<1>6. CASE SendDone
    BY <1>6 DEF SendDone
<1>7. CASE StartDone
    BY <1>7 DEF StartDone
<1>8. CASE UNCHANGED vars
    BY <1>8 DEF vars
<1> QED
    BY <1>1, <1>2, <1>3, <1>4, <1>5, <1>6, <1>7, <1>8 DEF Next

\* Every variable keeps its type: a queued pointer is a buffer of the pool, and
\* every buffer holds a packet that was sent.
THEOREM SendTypeCorrect == Spec => []TypeOK
<1> QED
    BY TypeInit, TypeInductive, PTL DEF Spec

-----------------------------------------------------------------------------
(* The inductive invariant *)

\* The pool and its buffers are finite, and taking one out or putting one back
\* changes the count by one.
LEMMA PoolCount ==
    ASSUME TypeOK, NEW b \in Buf
    PROVE  /\ Cardinality(pool) \in Nat /\ Cardinality(Buf) \in Nat
           /\ b \in pool => Cardinality(pool \ {b}) = Cardinality(pool) - 1
           /\ b \notin pool => Cardinality(pool \cup {b}) = Cardinality(pool) + 1
<1>1. IsFiniteSet(Buf)
    BY SimpleSendAssumption
<1>2. pool \in SUBSET Buf
    BY DEF TypeOK
<1>3. IsFiniteSet(pool)
    BY <1>1, <1>2, FS_Subset
<1> QED
    BY <1>1, <1>3, FS_CardinalityType, FS_AddElement, FS_RemoveElement

\* The buffers of the tail of the queue are the queue's, one place earlier.
LEMMA TailEntries ==
    ASSUME NEW q \in Seq(Buf), q # << >>
    PROVE  /\ Tail(q) \in Seq(Buf) /\ Len(Tail(q)) = Len(q) - 1 /\ Len(q) \in Nat
           /\ \A i \in 1 .. Len(q) - 1 : Tail(q)[i] = q[i + 1]
           /\ 1 \in 1 .. Len(q) /\ Head(q) = q[1] /\ Head(q) \in Buf
    OBVIOUS

\* The entries of a queue with one more buffer.
LEMMA AppendEntries ==
    ASSUME NEW q \in Seq(Buf), NEW b \in Buf
    PROVE  /\ Append(q, b) \in Seq(Buf) /\ Len(Append(q, b)) = Len(q) + 1 /\ Len(q) \in Nat
           /\ \A i \in 1 .. Len(q) : Append(q, b)[i] = q[i]
           /\ Append(q, b)[Len(q) + 1] = b
    OBVIOUS

LEMMA InvInit == Init => SendInv
<1> SUFFICES ASSUME Init PROVE SendInv
    OBVIOUS
<1>1. Cardinality(Buf) \in Nat
    BY SimpleSendAssumption, FS_CardinalityType
<1>2. Len(queue) = 0
    BY DEF Init
<1>3. \A i \in 1 .. Len(queue) : FALSE
    BY <1>2
<1>4. BuffersConserved
    BY <1>3 DEF Init, BuffersConserved
<1>5. Len(queue) + Cardinality(pool) = Cardinality(Buf)
    BY <1>1, <1>2 DEF Init
<1> QED
    BY <1>3, <1>4, <1>5 DEF Init, SendInv, Awake

\* A packet is accepted into a free buffer.
LEMMA InvAccept ==
    ASSUME TypeOK, SendInv, NEW m \in Msg, NEW b \in pool,
           pool' = pool \ {b}, info' = [info EXCEPT ![b] = m],
           queue' = Append(queue, b), sendTimer' = TRUE,
           UNCHANGED <<busy, pkt, task, radioOn, sending>>
    PROVE  SendInv'
<1>0. queue \in Seq(Buf) /\ b \in Buf
    BY DEF TypeOK
<1>1. /\ Len(queue') = Len(queue) + 1 /\ Len(queue) \in Nat
      /\ \A i \in 1 .. Len(queue) : queue'[i] = queue[i]
      /\ queue'[Len(queue) + 1] = b
    BY <1>0, AppendEntries
<1>2. \A i \in 1 .. Len(queue) : queue[i] # b /\ queue[i] \in Buf
    BY <1>0 DEF SendInv, BuffersConserved
<1>3. BuffersConserved'
    BY <1>1, <1>2 DEF SendInv, BuffersConserved
<1>4. Len(queue') + Cardinality(pool') = Cardinality(Buf)
    BY <1>0, <1>1, PoolCount DEF SendInv
<1>5. \A i \in 1 .. Len(queue') : info'[queue'[i]] \in Msg
    BY <1>0, <1>1, <1>2 DEF SendInv, TypeOK
<1> QED
    BY <1>3, <1>4, <1>5 DEF SendInv, Awake

\* The radio takes the head of the queue, whose buffer is free again.
LEMMA InvTransmit == TypeOK /\ SendInv /\ Transmit => SendInv'
<1> SUFFICES ASSUME TypeOK, SendInv, Transmit PROVE SendInv'
    OBVIOUS
<1>0. queue \in Seq(Buf) /\ queue # << >>
    BY DEF TypeOK, Transmit
<1>1. /\ queue' = Tail(queue) /\ Len(queue') = Len(queue) - 1 /\ Len(queue) \in Nat
      /\ \A i \in 1 .. Len(queue) - 1 : queue'[i] = queue[i + 1]
      /\ 1 \in 1 .. Len(queue) /\ Head(queue) = queue[1] /\ Head(queue) \in Buf
    BY <1>0, TailEntries DEF Transmit
<1>2. pool' = pool \cup {queue[1]} /\ queue[1] \notin pool
    BY <1>1 DEF Transmit, SendInv, BuffersConserved
<1>3. \A i, j \in 1 .. Len(queue') : queue'[i] = queue'[j] => i = j
    <2> TAKE i, j \in 1 .. Len(queue')
    <2> HAVE queue'[i] = queue'[j]
    <2>1. i + 1 \in 1 .. Len(queue) /\ j + 1 \in 1 .. Len(queue)
        BY <1>1
    <2>2. queue[i + 1] = queue[j + 1]
        BY <1>1
    <2>3. i + 1 = j + 1
        BY <2>1, <2>2 DEF SendInv, BuffersConserved
    <2> QED
        BY <2>3
<1>4. ASSUME NEW b \in Buf
      PROVE  b \in pool' <=> ~ \E i \in 1 .. Len(queue') : queue'[i] = b
    <2>1. b \in pool <=> ~ \E i \in 1 .. Len(queue) : queue[i] = b
        BY DEF SendInv, BuffersConserved
    <2>2. \A i, j \in 1 .. Len(queue) : queue[i] = queue[j] => i = j
        BY DEF SendInv, BuffersConserved
    <2>3. CASE b = queue[1]
        BY <1>1, <1>2, <2>2, <2>3
    <2>4. CASE b # queue[1]
        <3>1. ASSUME NEW i \in 1 .. Len(queue), queue[i] = b
              PROVE  \E j \in 1 .. Len(queue') : queue'[j] = b
            <4>1. i - 1 \in 1 .. Len(queue') /\ i - 1 \in 1 .. Len(queue) - 1
                BY <1>1, <2>4, <3>1
            <4>2. queue'[i - 1] = queue[(i - 1) + 1]
                BY <1>1, <4>1
            <4> QED
                BY <3>1, <4>1, <4>2
        <3>2. ASSUME NEW j \in 1 .. Len(queue'), queue'[j] = b
              PROVE  \E i \in 1 .. Len(queue) : queue[i] = b
            BY <1>1, <3>2
        <3> QED
            BY <1>2, <2>1, <2>4, <3>1, <3>2
    <2> QED
        BY <2>3, <2>4
<1>5. Len(queue') + Cardinality(pool') = Cardinality(Buf)
    BY <1>1, <1>2, PoolCount DEF SendInv
<1>6. \A i \in 1 .. Len(queue') : info'[queue'[i]] \in Msg
    BY <1>1 DEF SendInv, Transmit
<1>7. pkt' \in Msg
    BY <1>1 DEF SendInv, Transmit
<1>8. Awake' /\ (busy = sending)'
    BY <1>1 DEF Transmit, Awake, PostSendTask
<1> QED
    BY <1>3, <1>4, <1>5, <1>6, <1>7, <1>8 DEF SendInv, BuffersConserved

LEMMA InvInductive == TypeOK /\ SendInv /\ [Next]_vars => SendInv'
<1> SUFFICES ASSUME TypeOK, SendInv, [Next]_vars PROVE SendInv'
    OBVIOUS
<1>1. ASSUME NEW m \in Msg, Send(m) PROVE SendInv'
    <2>1. CASE pool = {} /\ UNCHANGED <<pool, queue, info, sendTimer>>
        BY <1>1, <2>1 DEF Send, SendInv, BuffersConserved, Awake
    <2>2. CASE /\ PostSendTask
               /\ \E b \in pool :
                    /\ pool' = pool \ {b}
                    /\ info' = [info EXCEPT ![b] = m]
                    /\ queue' = Append(queue, b)
        BY <1>1, <2>2, InvAccept DEF Send, PostSendTask
    <2> QED
        BY <1>1, <2>1, <2>2 DEF Send
<1>2. CASE SendTimerFired
    BY <1>2 DEF SendTimerFired, SendInv, BuffersConserved, Awake
<1>3. CASE Transmit
    BY <1>3, InvTransmit
<1>4. CASE TransmitFails
    BY <1>4 DEF TransmitFails, PostSendTask, SendInv, BuffersConserved, Awake
<1>5. CASE NothingToDo
    BY <1>5 DEF NothingToDo, PostSendTask, SendInv, BuffersConserved, Awake
<1>6. CASE SendDone
    BY <1>6 DEF SendDone, PostSendTask, SendInv, BuffersConserved, Awake
<1>7. CASE StartDone
    BY <1>7 DEF StartDone, SendInv, BuffersConserved, Awake
<1>8. CASE UNCHANGED vars
    BY <1>8 DEF vars, SendInv, BuffersConserved, Awake
<1> QED
    BY <1>1, <1>2, <1>3, <1>4, <1>5, <1>6, <1>7, <1>8 DEF Next

LEMMA SendInvariant == Spec => [](TypeOK /\ SendInv)
<1>1. Init => TypeOK /\ SendInv
    BY InvInit, TypeInit
<1>2. TypeOK /\ SendInv /\ [Next]_vars => TypeOK' /\ SendInv'
    BY TypeInductive, InvInductive
<1> QED
    BY <1>1, <1>2, PTL DEF Spec

\* SimpleSend.send, sendBufferTask: no buffer of the pool is ever lost, queued
\* twice, or free and queued at once.
THEOREM BuffersConservedAlways == Spec => []BuffersConserved
<1>1. SendInv => BuffersConserved
    BY DEF SendInv
<1> QED
    BY <1>1, SendInvariant, PTL

\* postSendTask: while a packet is queued, the timer or the task that will take
\* it is pending.
THEOREM AlwaysAwake == Spec => []Awake
<1>1. SendInv => Awake
    BY DEF SendInv
<1> QED
    BY <1>1, SendInvariant, PTL

-----------------------------------------------------------------------------
(* The refinement *)

\* The contents of the queue are a sequence of packets as long as the queue.
LEMMA WaitingSeq ==
    ASSUME TypeOK, SendInv
    PROVE  /\ Waiting \in Seq(Msg) /\ Len(Waiting) = Len(queue) /\ Len(queue) \in Nat
           /\ \A i \in 1 .. Len(queue) : Waiting[i] = info[queue[i]]
    BY DEF TypeOK, SendInv, Waiting

\* Two sequences of packets with the same entries are the same.
LEMMA SameSeq ==
    ASSUME NEW s \in Seq(Msg), NEW t \in Seq(Msg), Len(s) = Len(t),
           \A i \in 1 .. Len(s) : s[i] = t[i]
    PROVE  s = t
    OBVIOUS

\* A packet accepted by SimpleSend joins the abstract queue at its end.
LEMMA AcceptStep ==
    ASSUME TypeOK, SendInv, TypeOK', SendInv', NEW m \in Msg, NEW b \in pool,
           info' = [info EXCEPT ![b] = m], queue' = Append(queue, b),
           UNCHANGED <<pkt, sending>>
    PROVE  SQ!Accept(m)
<1>0. queue \in Seq(Buf) /\ b \in Buf
    BY DEF TypeOK
<1>1. /\ Len(queue') = Len(queue) + 1 /\ Len(queue) \in Nat
      /\ \A i \in 1 .. Len(queue) : queue'[i] = queue[i]
      /\ queue'[Len(queue) + 1] = b
    BY <1>0, AppendEntries
<1>2. \A i \in 1 .. Len(queue) : queue[i] # b /\ queue[i] \in Buf
    BY <1>0 DEF SendInv, BuffersConserved
<1>3. /\ Waiting \in Seq(Msg) /\ Len(Waiting) = Len(queue)
      /\ \A i \in 1 .. Len(queue) : Waiting[i] = info[queue[i]]
    BY WaitingSeq
<1>4. /\ Waiting' \in Seq(Msg) /\ Len(Waiting') = Len(queue')
      /\ \A i \in 1 .. Len(queue') : Waiting'[i] = info'[queue'[i]]
    BY DEF TypeOK, SendInv, Waiting
<1>5. Len(Waiting) < Cardinality(Buf)
    <2>1. Cardinality(pool) \in Nat /\ Cardinality(pool) # 0
        <3>1. pool \in SUBSET Buf /\ IsFiniteSet(Buf)
            BY SimpleSendAssumption DEF TypeOK
        <3>2. IsFiniteSet(pool)
            BY <3>1, FS_Subset
        <3> QED
            BY <3>2, FS_CardinalityType, FS_EmptySet
    <2> QED
        BY <1>1, <1>3, <2>1 DEF SendInv
<1>6. Waiting' = Append(Waiting, m)
    <2>1. \A i \in 1 .. Len(queue) : Waiting'[i] = Waiting[i]
        BY <1>0, <1>1, <1>2, <1>3, <1>4 DEF TypeOK
    <2>2. Waiting'[Len(queue) + 1] = m
        BY <1>0, <1>1, <1>4 DEF TypeOK
    <2>3. /\ Append(Waiting, m) \in Seq(Msg) /\ Len(Append(Waiting, m)) = Len(queue) + 1
          /\ \A i \in 1 .. Len(queue) : Append(Waiting, m)[i] = Waiting[i]
          /\ Append(Waiting, m)[Len(queue) + 1] = m
        BY <1>3
    <2> HIDE DEF Waiting
    <2>4. \A i \in 1 .. Len(queue) + 1 : Waiting'[i] = Append(Waiting, m)[i]
        <3> TAKE i \in 1 .. Len(queue) + 1
        <3>1. CASE i = Len(queue) + 1
            BY <2>2, <2>3, <3>1
        <3>2. CASE i \in 1 .. Len(queue)
            BY <2>1, <2>3, <3>2
        <3>3. Len(queue) \in Nat
            BY <1>1
        <3>4. i = Len(queue) + 1 \/ i \in 1 .. Len(queue)
            BY <3>3
        <3> QED
            BY <3>1, <3>2, <3>4
    <2> QED
        BY <1>1, <1>4, <2>3, <2>4, SameSeq
<1>7. Air' = Air
    BY DEF Air
<1> QED
    BY <1>5, <1>6, <1>7 DEF SQ!Accept

\* A packet the radio takes is the head of the abstract queue.
LEMMA TransmitStep ==
    ASSUME TypeOK, SendInv, TypeOK', SendInv', Transmit
    PROVE  SQ!Transmit
<1>0. queue \in Seq(Buf) /\ queue # << >>
    BY DEF TypeOK, Transmit
<1>1. /\ queue' = Tail(queue) /\ Len(queue') = Len(queue) - 1 /\ Len(queue) \in Nat
      /\ \A i \in 1 .. Len(queue) - 1 : queue'[i] = queue[i + 1]
      /\ 1 \in 1 .. Len(queue) /\ Head(queue) = queue[1] /\ Head(queue) \in Buf
    BY <1>0, TailEntries DEF Transmit
<1>2. /\ Waiting \in Seq(Msg) /\ Len(Waiting) = Len(queue)
      /\ \A i \in 1 .. Len(queue) : Waiting[i] = info[queue[i]]
    BY WaitingSeq
<1>3. /\ Waiting' \in Seq(Msg) /\ Len(Waiting') = Len(queue')
      /\ \A i \in 1 .. Len(queue') : Waiting'[i] = info'[queue'[i]]
    BY DEF TypeOK, SendInv, Waiting
<1>4. Waiting # << >> /\ Head(Waiting) = Waiting[1]
    BY <1>1, <1>2
<1>5. /\ Tail(Waiting) \in Seq(Msg) /\ Len(Tail(Waiting)) = Len(queue) - 1
      /\ \A i \in 1 .. Len(queue) - 1 : Tail(Waiting)[i] = Waiting[i + 1]
    BY <1>1, <1>2, <1>4
<1>6. Waiting' = Tail(Waiting)
    <2>1. \A i \in 1 .. Len(queue) - 1 : Waiting'[i] = Tail(Waiting)[i]
        BY <1>1, <1>2, <1>3, <1>5 DEF Transmit
    <2> QED
        BY <1>1, <1>3, <1>5, <2>1, SameSeq
<1>7. Air = Nothing
    BY DEF Air, SendInv, Transmit
<1>8. Air' = Head(Waiting)
    BY <1>1, <1>2, <1>4 DEF Air, Transmit
<1> QED
    BY <1>4, <1>6, <1>7, <1>8 DEF SQ!Transmit

\* Every step of SimpleSend is a step of the abstract queue or leaves it alone.
LEMMA StepSimulation ==
    TypeOK /\ SendInv /\ TypeOK' /\ SendInv' /\ [Next]_vars => [SQ!Next]_(SQ!vars)
<1> SUFFICES ASSUME TypeOK, SendInv, TypeOK', SendInv', [Next]_vars
             PROVE  [SQ!Next]_(SQ!vars)
    OBVIOUS
<1>0. ASSUME UNCHANGED <<queue, info>> PROVE Waiting' = Waiting
    BY <1>0 DEF Waiting
<1>1. ASSUME NEW m \in Msg, Send(m) PROVE [SQ!Next]_(SQ!vars)
    <2>1. CASE pool = {} /\ UNCHANGED <<pool, queue, info, sendTimer>>
        BY <1>0, <1>1, <2>1 DEF Send, SQ!vars, Air
    <2>2. CASE \E b \in pool :
                /\ pool' = pool \ {b}
                /\ info' = [info EXCEPT ![b] = m]
                /\ queue' = Append(queue, b)
        BY <1>1, <2>2, AcceptStep DEF Send, SQ!Next
    <2> QED
        BY <1>1, <2>1, <2>2 DEF Send
<1>2. CASE SendTimerFired
    BY <1>0, <1>2 DEF SendTimerFired, SQ!vars, Air
<1>3. CASE Transmit
    BY <1>3, TransmitStep DEF SQ!Next
<1>4. CASE TransmitFails
    BY <1>0, <1>4 DEF TransmitFails, SQ!vars, Air, SendInv
<1>5. CASE NothingToDo
    BY <1>0, <1>5 DEF NothingToDo, SQ!vars, Air
<1>6. CASE SendDone
    <2>1. Air # Nothing /\ Air' = Nothing
        BY <1>6, SimpleSendAssumption DEF SendDone, SendInv, Air
    <2> QED
        BY <1>0, <1>6, <2>1 DEF SendDone, SQ!Next, SQ!Done
<1>7. CASE StartDone
    BY <1>0, <1>7 DEF StartDone, SQ!vars, Air
<1>8. CASE UNCHANGED vars
    BY <1>0, <1>8 DEF vars, SQ!vars, Air
<1> QED
    BY <1>1, <1>2, <1>3, <1>4, <1>5, <1>6, <1>7, <1>8 DEF Next

\* SimpleSendP is a bounded FIFO queue in front of the radio: what send accepts
\* goes on the air once, unchanged and in order, and it refuses a packet only
\* by leaving the queue alone.
THEOREM ImplementsSendQueue == Spec => ImplementsQueue
<1>1. Init => SQ!Init
    <2> SUFFICES ASSUME Init PROVE SQ!Init
        OBVIOUS
    <2>1. Len(queue) = 0
        BY DEF Init
    <2>2. Waiting = << >>
        BY <2>1 DEF Waiting
    <2> QED
        BY <2>2 DEF Init, SQ!Init, Air
<1> QED
    BY <1>1, SendInvariant, StepSimulation, PTL DEF Spec, ImplementsQueue, SQ!Spec
=============================================================================

----------------------------- MODULE SimpleSend -----------------------------
(***************************************************************************)
(* SimpleSendP.nc: one instance of the delayed sender every protocol layer *)
(* puts its packets through.  A packet is copied into a buffer of a pool,  *)
(* the buffer queued, and a timer, then a task, move the head of the queue *)
(* into the one message_t the radio sends from.  TinyOS runs commands,     *)
(* events and tasks one after the other, so each is one action.            *)
(***************************************************************************)
EXTENDS Integers, Sequences, FiniteSets

CONSTANTS
    Msg,      \* the packets the layers above send, with their destination
    Nothing,  \* the content of a buffer never written
    Buf,      \* the sendInfo buffers of the pool (20 in SimpleSendC)
    MaxSends  \* bound: how many times SimpleSend.send is called

ASSUME SimpleSendAssumption ==
    /\ IsFiniteSet(Buf) /\ Nothing \notin Msg /\ MaxSends \in Nat

VARIABLES
    pool,       \* the free buffers
    queue,      \* the queued buffers, in order
    info,       \* what each buffer holds
    busy,       \* the busy flag
    pkt,        \* the message_t handed to the radio
    sendTimer,  \* sendTimer is running
    task,       \* sendBufferTask is posted
    radioOn,    \* external: the radio has started
    sending,    \* external: the radio owes a sendDone
    sends       \* calls of SimpleSend.send so far

vars == <<pool, queue, info, busy, pkt, sendTimer, task, radioOn, sending, sends>>

\* postSendTask starts the timer, or leaves the one that runs alone.
PostSendTask == sendTimer' = TRUE

\* SimpleSend.send: a copy of the packet is queued, or the call returns FAIL.
SendUnchecked(m) ==
    /\ sends < MaxSends
    /\ sends' = sends + 1
    /\ IF pool = {} THEN queue' = Append(queue, Nothing) /\ UNCHANGED <<pool, info>>
       ELSE \E b \in pool :
                /\ pool' = pool \ {b}
                /\ info' = [info EXCEPT ![b] = m]
                /\ queue' = Append(queue, b)
    /\ PostSendTask
    /\ UNCHANGED <<busy, pkt, task, radioOn, sending>>
Send(m) ==
    /\ sends < MaxSends
    /\ sends' = sends + 1
    /\ \/ /\ pool # {}
          /\ \E b \in pool :
                /\ pool' = pool \ {b}
                /\ info' = [info EXCEPT ![b] = m]
                /\ queue' = Append(queue, b)
          /\ PostSendTask
       \/ pool = {} /\ UNCHANGED <<pool, queue, info, sendTimer>>
    /\ UNCHANGED <<busy, pkt, task, radioOn, sending>>

\* sendTimer.fired
SendTimerFired ==
    /\ sendTimer
    /\ sendTimer' = FALSE
    /\ task' = TRUE
    /\ UNCHANGED <<pool, queue, info, busy, pkt, radioOn, sending, sends>>

\* sendBufferTask when AMSend takes the packet: the buffer goes back to the
\* pool, and the timer is started again if more is queued.
TransmitWithoutDequeue ==
    /\ task /\ queue # << >> /\ ~busy /\ radioOn
    /\ pkt' = info[Head(queue)]
    /\ busy' = TRUE /\ sending' = TRUE
    /\ pool' = pool \cup {Head(queue)}
    /\ PostSendTask
    /\ task' = FALSE
    /\ UNCHANGED <<queue, info, radioOn, sends>>
Transmit ==
    /\ task /\ queue # << >> /\ ~busy /\ radioOn
    /\ pkt' = info[Head(queue)]
    /\ busy' = TRUE /\ sending' = TRUE
    /\ queue' = Tail(queue)
    /\ pool' = pool \cup {Head(queue)}
    /\ IF Tail(queue) # << >> THEN PostSendTask ELSE UNCHANGED sendTimer
    /\ task' = FALSE
    /\ UNCHANGED <<info, radioOn, sends>>

\* sendBufferTask when AMSend refuses it: pkt is written, the buffer stays at
\* the head of the queue, to be tried again.
TransmitFailsDrops ==
    /\ task /\ queue # << >> /\ ~busy /\ ~radioOn
    /\ pkt' = info[Head(queue)]
    /\ queue' = Tail(queue)
    /\ pool' = pool \cup {Head(queue)}
    /\ PostSendTask
    /\ task' = FALSE
    /\ UNCHANGED <<info, busy, radioOn, sending, sends>>
TransmitFails ==
    /\ task /\ queue # << >> /\ ~busy /\ ~radioOn
    /\ pkt' = info[Head(queue)]
    /\ PostSendTask
    /\ task' = FALSE
    /\ UNCHANGED <<pool, queue, info, busy, radioOn, sending, sends>>

\* sendBufferTask when there is nothing to send, or the radio has not finished.
NothingToDoSleeps ==
    /\ task /\ (queue = << >> \/ busy)
    /\ task' = FALSE
    /\ UNCHANGED <<pool, queue, info, busy, pkt, sendTimer, radioOn, sending, sends>>
NothingToDo ==
    /\ task /\ (queue = << >> \/ busy)
    /\ IF queue # << >> THEN PostSendTask ELSE UNCHANGED sendTimer
    /\ task' = FALSE
    /\ UNCHANGED <<pool, queue, info, busy, pkt, radioOn, sending, sends>>

\* AMSend.sendDone: whatever the error, the packet is not tried again.
SendDone ==
    /\ sending
    /\ sending' = FALSE
    /\ busy' = FALSE
    /\ PostSendTask
    /\ UNCHANGED <<pool, queue, info, pkt, task, radioOn, sends>>

\* AMControl.startDone: Node.nc starts the radio until it has started.
StartDone ==
    /\ ~radioOn
    /\ radioOn' = TRUE
    /\ UNCHANGED <<pool, queue, info, busy, pkt, sendTimer, task, sending, sends>>

Init ==
    /\ pool = Buf /\ queue = << >>
    /\ info = [b \in Buf |-> Nothing]
    /\ busy = FALSE /\ pkt = Nothing
    /\ sendTimer = FALSE /\ task = FALSE
    /\ radioOn = FALSE /\ sending = FALSE
    /\ sends = 0

Next ==
    \/ \E m \in Msg : Send(m)
    \/ SendTimerFired
    \/ Transmit
    \/ TransmitFails
    \/ NothingToDo
    \/ SendDone
    \/ StartDone

Spec == Init /\ [][Next]_vars

\* Timers fire, tasks run, the radio starts and answers every packet it took.
Fairness ==
    /\ WF_vars(SendTimerFired) /\ WF_vars(Transmit \/ TransmitFails \/ NothingToDo)
    /\ WF_vars(SendDone) /\ WF_vars(StartDone)

FairSpec == Spec /\ Fairness

-----------------------------------------------------------------------------
(* Properties *)

\* Every variable keeps its type.
TypeOK ==
    /\ pool \subseteq Buf /\ queue \in Seq(Buf)
    /\ info \in [Buf -> Msg \cup {Nothing}] /\ pkt \in Msg \cup {Nothing}
    /\ {busy, sendTimer, task, radioOn, sending} \subseteq BOOLEAN
    /\ sends \in 0 .. MaxSends

\* A buffer is free or queued, never both, never twice, never lost: Pool.get,
\* enqueue, dequeue and Pool.put always move a buffer as a whole.
BuffersConserved ==
    /\ \A b \in Buf : b \in pool <=> ~ \E i \in 1 .. Len(queue) : queue[i] = b
    /\ \A i, j \in 1 .. Len(queue) : queue[i] = queue[j] => i = j

\* No wake-up is lost: while a packet is queued the timer runs or the task is
\* posted, also when the radio is busy or refused the packet.
Awake == queue # << >> => sendTimer \/ task

\* The inductive invariant: the two together, the component is busy while the radio
\* owes it a sendDone, queued buffers are filled, and the queue is as long as the pool
\* is short.
SendInv ==
    /\ BuffersConserved /\ Awake
    /\ busy = sending
    /\ Len(queue) + Cardinality(pool) = Cardinality(Buf)
    /\ \A i \in 1 .. Len(queue) : info[queue[i]] \in Msg
    /\ sending => pkt \in Msg

\* The abstract queue: the contents of the queued buffers, and pkt while the
\* radio holds it.
Waiting == [i \in 1 .. Len(queue) |-> info[queue[i]]]
Air     == IF sending THEN pkt ELSE Nothing

SQ == INSTANCE SendQueue WITH
        Capacity <- Cardinality(Buf), waiting <- Waiting, air <- Air

\* SimpleSend is a bounded FIFO queue: what it accepts goes on the air once,
\* unchanged and in order.
ImplementsQueue == SQ!Spec

\* And it goes on the air eventually.
ImplementsLiveQueue == SQ!LiveSpec
=============================================================================

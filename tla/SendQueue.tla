------------------------------ MODULE SendQueue ------------------------------
(***************************************************************************)
(* What SimpleSend promises its callers: a bounded first-in first-out queue *)
(* in front of a radio that holds one packet at a time.  A packet that is  *)
(* accepted goes on the air once, unchanged, in its turn; a packet offered *)
(* while the queue is full is refused.                                     *)
(***************************************************************************)
EXTENDS Integers, Sequences

CONSTANTS
    Msg,      \* packets
    Nothing,  \* no packet
    Capacity  \* packets the queue holds

VARIABLES
    waiting,  \* the accepted packets that are not yet on the air
    air       \* the packet the radio holds, or Nothing

vars == <<waiting, air>>

Init == waiting = << >> /\ air = Nothing

Accept(m) ==
    /\ Len(waiting) < Capacity
    /\ waiting' = Append(waiting, m)
    /\ UNCHANGED air

Transmit ==
    /\ air = Nothing /\ waiting # << >>
    /\ air' = Head(waiting)
    /\ waiting' = Tail(waiting)

Done ==
    /\ air # Nothing
    /\ air' = Nothing
    /\ UNCHANGED waiting

Next == (\E m \in Msg : Accept(m)) \/ Transmit \/ Done

Spec == Init /\ [][Next]_vars

\* Nothing waits for ever.
Live == WF_vars(Transmit) /\ WF_vars(Done)

LiveSpec == Spec /\ Live
=============================================================================

-------------------------- MODULE NeighborDiscovery --------------------------
(***************************************************************************)
(* NeighborP at one node, the nodes around it, and the radio between them. *)
(* In each round the node asks everybody; a node that hears it answers     *)
(* (FloodingP), at once or late.  10 s after the last answer the answers   *)
(* of the last three rounds decide who is a neighbor, and the next round   *)
(* comes 60 s after that.                                                  *)
(***************************************************************************)
EXTENDS Naturals, Sequences, FiniteSets, SequencesExt

CONSTANTS
    Others,   \* the nodes around
    Nothing   \* an entry of the array that was never written (0)

ASSUME DiscoveryAssumption == IsFiniteSet(Others) /\ Nothing \notin Others

VARIABLES
    movingWindowCurrIndex,
    known,               \* the keys of the neighbors map, in its order
    weights,             \* the answers of the last three rounds of each
    confirmedNeighbor,
    finalizedNeighbors,  \* the array the other components read
    settle,              \* checkNeighborsSettled is running
    recheck,             \* recheckNeighbors is running
    booted,              \* the first question has been sent
    on,                  \* the nodes that are turned on
    answers,             \* the nodes whose answer is under way
    silent,              \* history: the rounds begun since each one's last answer, to 3
    signalled,           \* history: those confirmed at the last neighborsHaveSettled
    byAccident,          \* history: those that were confirmed from the start
    deaf                 \* history: there was a round nobody answered

timers  == <<settle, recheck, booted>>
history == <<silent, signalled, byAccident, deaf>>
vars    == <<movingWindowCurrIndex, known, weights, confirmedNeighbor, finalizedNeighbors,
             timers, on, answers, history>>

Index == 0 .. 2

-----------------------------------------------------------------------------
(* NeighborP *)

Confirmed == {o \in ToSet(known) : confirmedNeighbor[o]}

\* getNeighborArray: the confirmed neighbors are written from the start of the
\* array, and what was behind them stays.  One key of the map, after y were written:
Write(filled, flags, o) ==
    IF flags[o]
    THEN [array |-> [filled.array EXCEPT ![filled.y + 1] = o], y |-> filled.y + 1]
    ELSE filled

Refilled(flags) ==
    LET filled[i \in 0 .. Len(known)] ==
            IF i = 0 THEN [array |-> finalizedNeighbors, y |-> 0]
            ELSE Write(filled[i - 1], flags, known[i])
    IN  filled[Len(known)].array

\* FloodingP and LinkStateP read the array, whenever they flood a packet.
GetNeighborArray ==
    /\ finalizedNeighbors' = Refilled(confirmedNeighbor)
    /\ UNCHANGED <<movingWindowCurrIndex, known, weights, confirmedNeighbor, timers,
                   on, answers, history>>

\* The place in the window of the next round, and of an answer, which counts for
\* the round that is going on.  Mutant: an index that is not wrapped.
NextUnwrapped == movingWindowCurrIndex + 1
NextRound     == (movingWindowCurrIndex + 1) % 3
ThisRound     == movingWindowCurrIndex

\* startNeighborDiscovery: the oldest answers are forgotten; the question, or the
\* answer to it, is lost for all but the nodes of heard.
StartNeighborDiscovery(heard) ==
    /\ movingWindowCurrIndex' = NextRound
    /\ weights' = [o \in Others |->
                    [weights[o] EXCEPT ![NextRound] = IF o \in ToSet(known) THEN 0 ELSE @]]
    /\ answers' = answers \cup heard
    /\ silent' = [o \in Others |-> IF silent[o] < 3 THEN silent[o] + 1 ELSE 3]
    /\ deaf' = (deaf \/ answers \cup heard = {})
    /\ UNCHANGED <<known, confirmedNeighbor, finalizedNeighbors, on, signalled, byAccident>>

\* Node.booted
Booted(heard) ==
    /\ ~booted /\ booted' = TRUE
    /\ StartNeighborDiscovery(heard)
    /\ UNCHANGED <<settle, recheck>>

RecheckNeighborsFired(heard) ==
    /\ recheck /\ recheck' = FALSE
    /\ StartNeighborDiscovery(heard)
    /\ UNCHANGED <<settle, booted>>

\* FloodingP's receive, case PROTOCOL_NEIGHBORRESPONSE: processNeighborResponse.
\* A new neighbor counts as having answered three times; its confirmedNeighbor is
\* whatever the stack held.
ProcessNeighborResponse(o) ==
    /\ o \in answers
    /\ answers' = answers \ {o}
    /\ silent' = [silent EXCEPT ![o] = 0]
    /\ settle' = TRUE
    /\ \/ /\ o \in ToSet(known)
          /\ weights' = [weights EXCEPT ![o][ThisRound] = 1]
          /\ UNCHANGED <<known, confirmedNeighbor, byAccident>>
       \/ /\ o \notin ToSet(known)
          /\ known' = Append(known, o)
          /\ weights' = [weights EXCEPT ![o] = [i \in Index |-> 1]]
          /\ \E b \in BOOLEAN :
              /\ confirmedNeighbor' = [confirmedNeighbor EXCEPT ![o] = b]
              /\ byAccident' = IF b THEN byAccident \cup {o} ELSE byAccident
    /\ UNCHANGED <<movingWindowCurrIndex, finalizedNeighbors, recheck, booted, on,
                   signalled, deaf>>

\* An average above 0.30: one answer in three rounds.  Mutants: two, and none.
AnsweredOrNot(o) == weights[o][0] + weights[o][1] + weights[o][2] >= 0
AnsweredTwice(o) == weights[o][0] + weights[o][1] + weights[o][2] >= 2
Answered(o)      == weights[o][0] + weights[o][1] + weights[o][2] >= 1

\* Whether haveNeighborsChanged; the mutant forgets those who are lost.
ChangedByNew(flags) == \E o \in ToSet(known) : flags[o] /\ ~confirmedNeighbor[o]
Changed(flags)      == \E o \in ToSet(known) : flags[o] # confirmedNeighbor[o]

\* checkNeighborsSettled.fired, which starts recheckNeighbors; LinkStateP's handler
\* of neighborsHaveSettled reads the array.
CheckNeighbors(again) ==
    LET flags == [o \in Others |-> o \in ToSet(known) /\ Answered(o)]
    IN  /\ settle /\ settle' = FALSE
        /\ recheck' = again
        /\ confirmedNeighbor' = flags
        /\ IF Changed(flags)
           THEN /\ finalizedNeighbors' = Refilled(flags)
                /\ signalled' = {o \in ToSet(known) : flags[o]}
           ELSE UNCHANGED <<finalizedNeighbors, signalled>>
        /\ UNCHANGED <<movingWindowCurrIndex, known, weights, booted, on, answers,
                       silent, byAccident, deaf>>

\* Mutant: recheckNeighbors is not started.
CheckNeighborsOnce         == CheckNeighbors(recheck)
CheckNeighborsSettledFired == CheckNeighbors(TRUE)

-----------------------------------------------------------------------------
(* External: nodes are turned off and on *)

Turn(o) ==
    /\ on' = IF o \in on THEN on \ {o} ELSE on \cup {o}
    /\ UNCHANGED <<movingWindowCurrIndex, known, weights, confirmedNeighbor,
                   finalizedNeighbors, timers, answers, history>>

Init ==
    /\ movingWindowCurrIndex = 0
    /\ known = << >>
    /\ weights = [o \in Others |-> [i \in Index |-> 0]]
    /\ confirmedNeighbor = [o \in Others |-> FALSE]
    /\ finalizedNeighbors = [i \in 1 .. Cardinality(Others) |-> Nothing]
    /\ settle = FALSE /\ recheck = FALSE /\ booted = FALSE
    /\ on = Others
    /\ answers = {}
    /\ silent = [o \in Others |-> 3]
    /\ signalled = {} /\ byAccident = {} /\ deaf = FALSE

Next ==
    \/ \E heard \in SUBSET on : Booted(heard)
    \/ \E heard \in SUBSET on : RecheckNeighborsFired(heard)
    \/ \E o \in Others : ProcessNeighborResponse(o)
    \/ CheckNeighborsSettledFired
    \/ GetNeighborArray
    \/ \E o \in Others : Turn(o)

Spec == Init /\ [][Next]_vars

\* The node boots, its timers fire and an answer under way arrives.
Fairness ==
    /\ WF_vars(\E heard \in SUBSET on : Booted(heard))
    /\ WF_vars(\E heard \in SUBSET on : RecheckNeighborsFired(heard))
    /\ WF_vars(\E o \in Others : ProcessNeighborResponse(o))
    /\ WF_vars(CheckNeighborsSettledFired)

FairSpec == Spec /\ Fairness

-----------------------------------------------------------------------------
(* Properties *)

\* Every variable keeps its type.
TypeOK ==
    /\ movingWindowCurrIndex \in Index
    /\ known \in Seq(Others) /\ IsInjective(known)
    /\ weights \in [Others -> [Index -> {0, 1}]]
    /\ confirmedNeighbor \in [Others -> BOOLEAN]
    /\ finalizedNeighbors \in [1 .. Cardinality(Others) -> Others \cup {Nothing}]
    /\ settle \in BOOLEAN /\ recheck \in BOOLEAN /\ booted \in BOOLEAN
    /\ on \subseteq Others /\ answers \subseteq Others
    /\ silent \in [Others -> 0 .. 3]
    /\ signalled \subseteq Others /\ byAccident \subseteq Others /\ deaf \in BOOLEAN

\* The window of three bits that is written in a circle says whether a node has
\* answered in this round or the two before it, however late the answers are and
\* whichever of the two timers is first.
Window ==
    \A o \in ToSet(known) : Answered(o) <=> silent[o] < 3

\* Every change of the neighborhood was signalled, but for nodes that were
\* confirmed by accident, and the array has all neighbors that were signalled.
Announced ==
    /\ Confirmed \ byAccident \subseteq signalled
    /\ signalled \subseteq Confirmed
    /\ signalled \subseteq ToSet(finalizedNeighbors)

\* As long as somebody answers in each round there is another one.
GoesOn ==
    []~deaf => []<><<\E heard \in SUBSET on : RecheckNeighborsFired(heard)>>_vars

\* Then a node that has gone for good is forgotten,
Forgets ==
    \A o \in Others : []~deaf /\ <>[](o \notin on) => <>[](o \notin Confirmed)

\* and a node that answers again and again, even if seldom, is a neighbor again
\* and again.
Finds ==
    \A o \in Others : []<><<ProcessNeighborResponse(o)>>_vars => []<>(o \in Confirmed)
=============================================================================

----------------------- MODULE NeighborDiscoveryProof -----------------------
(***************************************************************************)
(* Theorems about NeighborDiscovery, for any number of nodes around: the   *)
(* window of three bits that is written in a circle is what a node         *)
(* remembers of the last three rounds.                                     *)
(***************************************************************************)
EXTENDS NeighborDiscovery, FiniteSetTheorems, WellFoundedInduction, TLAPS

-----------------------------------------------------------------------------
(* The window *)

\* The place of the round before, and of the one before that, which is the next
\* to be written.
Before(i) == (i + 2) % 3
After(i)  == (i + 1) % 3

\* The three places in the order of their rounds.
LEMMA Circle ==
    ASSUME NEW i \in Index
    PROVE  /\ After(i) \in Index /\ Before(i) \in Index
           /\ i # Before(i) /\ i # After(i) /\ Before(i) # After(i)
           /\ \A j \in Index : j = i \/ j = Before(i) \/ j = After(i)
           /\ Before(After(i)) = i /\ After(After(i)) = Before(i)
<1>1. i = 0 \/ i = 1 \/ i = 2
    BY DEF Index
<1>2. CASE i = 0
    BY <1>2 DEF Index, Before, After
<1>3. CASE i = 1
    BY <1>3 DEF Index, Before, After
<1>4. CASE i = 2
    BY <1>4 DEF Index, Before, After
<1> QED
    BY <1>1, <1>2, <1>3, <1>4

\* The variables the window depends on.
WindowTypes ==
    /\ movingWindowCurrIndex \in Index
    /\ known \in Seq(Others)
    /\ weights \in [Others -> [Index -> {0, 1}]]
    /\ silent \in [Others -> 0 .. 3]
    /\ answers \subseteq Others /\ on \subseteq Others

\* silent counts the rounds since o's last answer, up to three; w is o's window
\* when the current round is written at i.
Remembers(w, s, i) ==
    /\ s = 0 <=> w[i] = 1
    /\ s <= 1 <=> w[i] = 1 \/ w[Before(i)] = 1
    /\ s <= 2 <=> w[i] = 1 \/ w[Before(i)] = 1 \/ w[After(i)] = 1

WindowInv ==
    /\ WindowTypes
    /\ \A o \in ToSet(known) : Remembers(weights[o], silent[o], movingWindowCurrIndex)

\* The known nodes are nodes around.
LEMMA KnownIsOthers ==
    ASSUME known \in Seq(Others)
    PROVE  ToSet(known) \subseteq Others
BY DEF ToSet

\* The members of a sequence with one more value.
LEMMA AppendToSet ==
    ASSUME NEW S, NEW s \in Seq(S), NEW e \in S
    PROVE  Append(s, e) \in Seq(S) /\ ToSet(Append(s, e)) = ToSet(s) \cup {e}
<1>1. /\ Append(s, e) \in Seq(S) /\ Len(s) \in Nat
      /\ DOMAIN s = 1 .. Len(s) /\ DOMAIN Append(s, e) = 1 .. Len(s) + 1
      /\ \A i \in 1 .. Len(s) : Append(s, e)[i] = s[i]
      /\ Append(s, e)[Len(s) + 1] = e
    OBVIOUS
<1>2. \A i \in 1 .. Len(s) + 1 : i \in 1 .. Len(s) \/ i = Len(s) + 1
    BY <1>1
<1>3. 1 .. Len(s) \subseteq 1 .. Len(s) + 1 /\ Len(s) + 1 \in 1 .. Len(s) + 1
    BY <1>1
<1> DEFINE t == Append(s, e)
<1>4. ToSet(t) \subseteq ToSet(s) \cup {e}
    BY <1>1, <1>2 DEF ToSet
<1>5. ToSet(s) \cup {e} \subseteq ToSet(t)
    BY <1>1, <1>3 DEF ToSet
<1> QED
    BY <1>1, <1>4, <1>5

LEMMA InvInit == Init => WindowInv
<1> SUFFICES ASSUME Init PROVE WindowInv
    OBVIOUS
<1>1. movingWindowCurrIndex \in Index
    BY DEF Init, Index
<1>2. known \in Seq(Others) /\ answers \subseteq Others /\ on \subseteq Others
    BY DEF Init
<1>3. weights \in [Others -> [Index -> {0, 1}]] /\ silent \in [Others -> 0 .. 3]
    BY DEF Init
<1>4. ToSet(known) = {}
    BY DEF Init, ToSet
<1> QED
    BY <1>1, <1>2, <1>3, <1>4 DEF WindowInv, WindowTypes

\* A round begins: the window moves on, the answers of three rounds ago go and
\* everybody has been silent for one more round.
LEMMA InvStart ==
    ASSUME WindowInv, NEW heard \in SUBSET on, StartNeighborDiscovery(heard)
    PROVE  WindowInv'
<1> DEFINE i == movingWindowCurrIndex
<1>0. /\ i \in Index /\ known \in Seq(Others)
      /\ weights \in [Others -> [Index -> {0, 1}]] /\ silent \in [Others -> 0 .. 3]
      /\ answers \subseteq Others /\ on \subseteq Others
    BY DEF WindowInv, WindowTypes
<1>1. i' = After(i) /\ NextRound = After(i)
    BY DEF StartNeighborDiscovery, NextRound, After
<1>2. After(i) \in Index
    BY <1>0, Circle
<1>3. weights' = [o \in Others |->
                   [weights[o] EXCEPT ![After(i)] = IF o \in ToSet(known) THEN 0 ELSE @]]
    BY <1>1 DEF StartNeighborDiscovery
<1>4. weights' \in [Others -> [Index -> {0, 1}]]
    <2>1. ASSUME NEW o \in Others
          PROVE  [weights[o] EXCEPT ![After(i)] = IF o \in ToSet(known) THEN 0 ELSE @]
                    \in [Index -> {0, 1}]
        <3>1. weights[o] \in [Index -> {0, 1}]
            BY <1>0
        <3> QED
            BY <1>2, <3>1
    <2> QED
        BY <1>3, <2>1
<1>5. silent' = [o \in Others |-> IF silent[o] < 3 THEN silent[o] + 1 ELSE 3]
    BY DEF StartNeighborDiscovery
<1>6. silent' \in [Others -> 0 .. 3]
    <2>1. \A o \in Others : silent[o] \in 0 .. 3
        BY <1>0
    <2> QED
        BY <1>5, <2>1
<1>7. known' = known /\ answers' \subseteq Others /\ on' \subseteq Others
    BY <1>0 DEF StartNeighborDiscovery
<1>8. ASSUME NEW o \in ToSet(known)
      PROVE  Remembers(weights'[o], silent'[o], After(i))
    <2>1. o \in Others
        BY <1>0, KnownIsOthers
    <2>2. Remembers(weights[o], silent[o], i) /\ silent[o] \in 0 .. 3
        BY <1>0, <2>1 DEF WindowInv
    <2>3. weights[o] \in [Index -> {0, 1}]
        BY <1>0, <2>1
    <2>4. /\ weights'[o][After(i)] = 0
          /\ weights'[o][i] = weights[o][i]
          /\ weights'[o][Before(i)] = weights[o][Before(i)]
        BY <1>0, <1>3, <2>1, <2>3, Circle
    <2>5. silent'[o] = IF silent[o] < 3 THEN silent[o] + 1 ELSE 3
        BY <1>5, <2>1
    <2>6. Before(After(i)) = i /\ After(After(i)) = Before(i)
        BY <1>0, Circle
    <2> HIDE DEF i
    <2> QED
        BY <2>2, <2>4, <2>5, <2>6 DEF Remembers
<1> QED
    BY <1>1, <1>2, <1>4, <1>6, <1>7, <1>8 DEF WindowInv, WindowTypes

\* An answer counts for the round that is going on, a new node's for all three.
LEMMA InvAnswer ==
    ASSUME WindowInv, NEW n \in Others, ProcessNeighborResponse(n)
    PROVE  WindowInv'
<1> DEFINE i == movingWindowCurrIndex
<1>0. /\ i \in Index /\ known \in Seq(Others)
      /\ weights \in [Others -> [Index -> {0, 1}]] /\ silent \in [Others -> 0 .. 3]
      /\ answers \subseteq Others /\ on \subseteq Others
    BY DEF WindowInv, WindowTypes
<1>1. /\ i' = i /\ on' \subseteq Others /\ answers' \subseteq Others
      /\ silent' = [silent EXCEPT ![n] = 0]
    BY <1>0 DEF ProcessNeighborResponse
<1>2. silent' \in [Others -> 0 .. 3] /\ silent'[n] = 0
    BY <1>0, <1>1
<1>3. ASSUME NEW o \in ToSet(known), o # n, weights'[o] = weights[o]
      PROVE  Remembers(weights'[o], silent'[o], i)
    <2>1. silent'[o] = silent[o]
        BY <1>0, <1>1, <1>3, KnownIsOthers
    <2> QED
        BY <1>3, <2>1 DEF WindowInv
<1>4. CASE n \in ToSet(known) /\ weights' = [weights EXCEPT ![n][i] = 1] /\ known' = known
    <2>1. weights' \in [Others -> [Index -> {0, 1}]] /\ weights'[n][i] = 1
        BY <1>0, <1>4
    <2>2. Remembers(weights'[n], silent'[n], i)
        BY <1>2, <2>1 DEF Remembers
    <2>3. \A o \in ToSet(known) : o # n => weights'[o] = weights[o]
        BY <1>0, <1>4, KnownIsOthers
    <2> QED
        BY <1>0, <1>1, <1>2, <1>3, <1>4, <2>1, <2>2, <2>3 DEF WindowInv, WindowTypes
<1>5. CASE /\ n \notin ToSet(known) /\ known' = Append(known, n)
           /\ weights' = [weights EXCEPT ![n] = [j \in Index |-> 1]]
    <2>1. weights' \in [Others -> [Index -> {0, 1}]] /\ weights'[n][i] = 1
        BY <1>0, <1>5
    <2>2. Remembers(weights'[n], silent'[n], i)
        BY <1>2, <2>1 DEF Remembers
    <2>3. \A o \in ToSet(known) : o # n /\ weights'[o] = weights[o]
        BY <1>0, <1>5, KnownIsOthers
    <2>4. known' \in Seq(Others) /\ ToSet(known') = ToSet(known) \cup {n}
        BY <1>0, <1>5, AppendToSet
    <2> QED
        BY <1>0, <1>1, <1>2, <1>3, <2>1, <2>2, <2>3, <2>4 DEF WindowInv, WindowTypes
<1> QED
    BY <1>4, <1>5 DEF ProcessNeighborResponse, ThisRound

LEMMA InvNext == WindowInv /\ [Next]_vars => WindowInv'
<1> SUFFICES ASSUME WindowInv, [Next]_vars PROVE WindowInv'
    OBVIOUS
<1>1. ASSUME NEW heard \in SUBSET on, Booted(heard) \/ RecheckNeighborsFired(heard)
      PROVE  WindowInv'
    BY <1>1, InvStart DEF Booted, RecheckNeighborsFired
<1>2. ASSUME NEW o \in Others, ProcessNeighborResponse(o) PROVE WindowInv'
    BY <1>2, InvAnswer
<1>3. CASE /\ UNCHANGED <<movingWindowCurrIndex, known, weights, silent, answers>>
           /\ on' \subseteq Others
    BY <1>3 DEF WindowInv, WindowTypes, Index
<1>4. on \subseteq Others
    BY DEF WindowInv, WindowTypes
<1>5. CASE CheckNeighborsSettledFired
    BY <1>3, <1>4, <1>5 DEF CheckNeighborsSettledFired, CheckNeighbors
<1>6. CASE GetNeighborArray
    BY <1>3, <1>4, <1>6 DEF GetNeighborArray, history
<1>7. ASSUME NEW o \in Others, Turn(o) PROVE WindowInv'
    BY <1>3, <1>4, <1>7 DEF Turn, history
<1>8. CASE UNCHANGED vars
    BY <1>3, <1>4, <1>8 DEF vars, history
<1> QED
    BY <1>1, <1>2, <1>5, <1>6, <1>7, <1>8 DEF Next

\* The sum of the three bits is positive when one of them is set, wherever the
\* current round is in the circle.
LEMMA InvWindow == WindowInv => Window
<1> SUFFICES ASSUME WindowInv, NEW o \in ToSet(known) PROVE Answered(o) <=> silent[o] < 3
    BY DEF Window
<1> DEFINE i == movingWindowCurrIndex
           w == weights[o]
<1>1. i \in Index /\ o \in Others /\ w \in [Index -> {0, 1}] /\ silent[o] \in 0 .. 3
    BY KnownIsOthers DEF WindowInv, WindowTypes
<1>2. silent[o] < 3 <=> w[i] = 1 \/ w[Before(i)] = 1 \/ w[After(i)] = 1
    BY <1>1 DEF WindowInv, Remembers
<1>3. silent[o] < 3 <=> w[0] = 1 \/ w[1] = 1 \/ w[2] = 1
    <2> HIDE DEF i, w
    <2>1. 0 \in Index /\ 1 \in Index /\ 2 \in Index
        BY DEF Index
    <2> QED
        BY <1>1, <1>2, <2>1, Circle
<1>4. w[0] \in {0, 1} /\ w[1] \in {0, 1} /\ w[2] \in {0, 1}
    BY <1>1 DEF Index
<1> QED
    BY <1>3, <1>4 DEF Answered

\* The three bits NeighborP keeps of a node say whether it has answered in this round
\* or the two before it, however late its answers are and whichever timer is first.
THEOREM WindowAlways == Spec => []Window
<1> QED
    BY InvInit, InvNext, InvWindow, PTL DEF Spec

-----------------------------------------------------------------------------
(* The array of neighbors *)

\* A set of naturals has a least element.
LEMMA Least ==
    ASSUME NEW S \in SUBSET Nat, S # {}
    PROVE  \E x \in S : \A y \in S : x <= y
<1>1. IsWellFoundedOn(OpToRel(<, Nat), Nat)
    BY NatLessThanWellFounded
<1>2. PICK x \in S : \A y \in S : ~(<<y, x>> \in OpToRel(<, Nat))
    BY <1>1, WFMin
<1>3. ASSUME NEW y \in S, y < x PROVE <<y, x>> \in OpToRel(<, Nat)
    BY <1>3 DEF OpToRel
<1>4. \A y \in S : x \in Nat /\ y \in Nat /\ ~(y < x)
    BY <1>2, <1>3
<1> QED
    BY <1>4

\* The array and its index after the first n keys.
IsFill(filled, n, flags) ==
    filled = [i \in 0 .. n |-> IF i = 0 THEN [array |-> finalizedNeighbors, y |-> 0]
                                        ELSE Write(filled[i - 1], flags, known[i])]

LEMMA FillExists ==
    ASSUME NEW flags, NEW n \in Nat
    PROVE  \E filled : IsFill(filled, n, flags)
<1> DEFINE Without == {k \in Nat : ~ \E filled : IsFill(filled, k, flags)}
<1> SUFFICES ASSUME Without # {} PROVE FALSE
    OBVIOUS
<1>1. PICK k \in Without : \A m \in Without : k <= m
    BY Least
<1>2. k \in Nat /\ ~ \E filled : IsFill(filled, k, flags)
    OBVIOUS
<1>3. CASE k = 0
    <2> DEFINE r == [i \in 0 .. 0 |-> [array |-> finalizedNeighbors, y |-> 0]]
    <2>1. IsFill(r, 0, flags)
        BY DEF IsFill
    <2> QED
        BY <1>2, <1>3, <2>1
<1>4. CASE k # 0
    <2>1. k - 1 \in Nat /\ ~(k <= k - 1)
        BY <1>2, <1>4
    <2>2. PICK g : IsFill(g, k - 1, flags)
        BY <1>1, <2>1
    <2> DEFINE r == [i \in 0 .. k |-> IF i < k THEN g[i] ELSE Write(g[k - 1], flags, known[k])]
    <2>3. \A i \in 0 .. k - 1 : g[i] = IF i = 0 THEN [array |-> finalizedNeighbors, y |-> 0]
                                               ELSE Write(g[i - 1], flags, known[i])
        BY <2>2 DEF IsFill
    <2>4. \A i \in 0 .. k : r[i] = IF i < k THEN g[i] ELSE Write(g[k - 1], flags, known[k])
        OBVIOUS
    <2>5. r = [i \in 0 .. k |-> r[i]]
        OBVIOUS
    <2> HIDE DEF r
    <2>6. ASSUME NEW i \in 0 .. k
          PROVE  r[i] = IF i = 0 THEN [array |-> finalizedNeighbors, y |-> 0]
                                 ELSE Write(r[i - 1], flags, known[i])
        <3>1. CASE i = 0
            BY <1>2, <1>4, <2>3, <2>4, <3>1
        <3>2. CASE i # 0 /\ i < k
            <4>1. i \in 0 .. k - 1 /\ i - 1 \in 0 .. k /\ i - 1 < k
                BY <1>2, <3>2
            <4>2. r[i] = g[i] /\ r[i - 1] = g[i - 1]
                BY <2>4, <3>2, <4>1
            <4> QED
                BY <2>3, <3>2, <4>1, <4>2
        <3>3. CASE i = k
            <4>1. k - 1 \in 0 .. k /\ k - 1 < k /\ ~(k < k) /\ k \in 0 .. k
                BY <1>2, <1>4
            <4>2. r[k] = Write(g[k - 1], flags, known[k]) /\ r[k - 1] = g[k - 1]
                BY <2>4, <4>1
            <4> QED
                BY <1>4, <3>3, <4>2
        <3> QED
            BY <1>2, <3>1, <3>2, <3>3
    <2>7. IsFill(r, k, flags)
        BY <2>5, <2>6 DEF IsFill
    <2> QED
        BY <1>2, <2>7
<1> QED
    BY <1>3, <1>4

\* Each known node is one of those around, and known once.
KnownOnce ==
    /\ known \in Seq(Others) /\ IsInjective(known)
    /\ Cardinality(ToSet(known)) = Len(known)

Array == [1 .. Cardinality(Others) -> Others \cup {Nothing}]

LEMMA RoomForAll ==
    ASSUME KnownOnce
    PROVE  Cardinality(Others) \in Nat /\ Len(known) \in Nat /\ Len(known) <= Cardinality(Others)
<1>1. ToSet(known) \in SUBSET Others
    BY KnownIsOthers DEF KnownOnce
<1>2. IsFiniteSet(Others)
    BY DiscoveryAssumption
<1>3. Cardinality(ToSet(known)) <= Cardinality(Others)
    BY <1>1, <1>2, FS_Subset
<1> QED
    BY <1>2, <1>3, FS_CardinalityType DEF KnownOnce

\* After i keys, those of them that are neighbors are in the array.
Filled(r, i, flags) ==
    /\ r.array \in Array /\ r.y \in 0 .. i
    /\ \A j \in 1 .. i : flags[known[j]] => \E l \in 1 .. r.y : r.array[l] = known[j]

LEMMA WriteFills ==
    ASSUME KnownOnce, NEW flags, NEW i \in 1 .. Len(known),
           NEW r, Filled(r, i - 1, flags), NEW s, s = Write(r, flags, known[i])
    PROVE  Filled(s, i, flags)
<1>0. /\ Cardinality(Others) \in Nat /\ Len(known) \in Nat /\ Len(known) <= Cardinality(Others)
      /\ i \in Nat /\ known[i] \in Others
    BY RoomForAll DEF KnownOnce
<1>1. /\ r.array \in Array /\ r.y \in 0 .. i - 1
      /\ \A j \in 1 .. i - 1 : flags[known[j]] => \E l \in 1 .. r.y : r.array[l] = known[j]
    BY DEF Filled
<1>2. \A j \in 1 .. i : j = i \/ j \in 1 .. i - 1
    BY <1>0
<1>3. CASE ~flags[known[i]]
    <2>1. s = r
        BY <1>3 DEF Write
    <2>2. r.y \in 0 .. i
        BY <1>0, <1>1
    <2> QED
        BY <1>1, <1>2, <1>3, <2>1, <2>2 DEF Filled
<1>4. CASE flags[known[i]]
    <2> DEFINE next == [r.array EXCEPT ![r.y + 1] = known[i]]
    <2>1. s.array = next /\ s.y = r.y + 1
        BY <1>4 DEF Write
    <2>2. r.y + 1 \in 1 .. Cardinality(Others) /\ r.y + 1 \in 0 .. i
        BY <1>0, <1>1
    <2>3. next \in Array /\ next[r.y + 1] = known[i]
        BY <1>0, <1>1, <2>2 DEF Array
    <2>4. \A l \in 1 .. r.y : next[l] = r.array[l]
        <3>1. \A l \in 1 .. r.y : l \in 1 .. Cardinality(Others) /\ l # r.y + 1
            BY <1>0, <1>1
        <3> QED
            BY <1>1, <3>1 DEF Array
    <2>5. \A l \in 1 .. r.y : l \in 1 .. r.y + 1
        BY <1>1
    <2>6. r.y + 1 \in 1 .. r.y + 1
        BY <1>1
    <2> HIDE DEF next
    <2>7. ASSUME NEW j \in 1 .. i, flags[known[j]]
          PROVE  \E l \in 1 .. r.y + 1 : next[l] = known[j]
        <3>1. CASE j = i
            BY <2>3, <2>6, <3>1
        <3>2. CASE j \in 1 .. i - 1
            <4>1. PICK l \in 1 .. r.y : r.array[l] = known[j]
                BY <1>1, <2>7, <3>2
            <4> QED
                BY <2>4, <2>5, <4>1
        <3> QED
            BY <1>2, <3>1, <3>2
    <2> QED
        BY <2>1, <2>2, <2>3, <2>7 DEF Filled
<1> QED
    BY <1>3, <1>4

\* getNeighborArray returns every confirmed neighbor, whatever the array held.
LEMMA RefilledArray ==
    ASSUME KnownOnce, finalizedNeighbors \in Array, NEW flags
    PROVE  /\ Refilled(flags) \in Array
           /\ \A o \in ToSet(known) : flags[o] => o \in ToSet(Refilled(flags))
<1> DEFINE n == Len(known)
           r == CHOOSE g : IsFill(g, n, flags)
           Wrong == {i \in 0 .. n : ~Filled(r[i], i, flags)}
<1>0. n \in Nat
    BY RoomForAll
<1>1. IsFill(r, n, flags)
    BY <1>0, FillExists
<1>2. Refilled(flags) = r[n].array
    BY DEF Refilled, IsFill
<1> HIDE DEF r
<1>3. CASE Wrong # {}
    <2>1. PICK i \in Wrong : \A j \in Wrong : i <= j
        <3>1. Wrong \in SUBSET Nat
            BY <1>0
        <3> HIDE DEF Wrong
        <3> QED
            BY <1>3, <3>1, Least
    <2>2. i \in 0 .. n /\ ~Filled(r[i], i, flags)
        BY <2>1
    <2>3. r[i] = IF i = 0 THEN [array |-> finalizedNeighbors, y |-> 0]
                          ELSE Write(r[i - 1], flags, known[i])
        BY <1>1, <2>2 DEF IsFill
    <2>4. CASE i = 0
        <3>1. r[0].array = finalizedNeighbors /\ r[0].y = 0
            BY <2>3, <2>4
        <3>2. Filled(r[0], 0, flags)
            BY <3>1 DEF Filled
        <3> QED
            BY <2>2, <2>4, <3>2
    <2>5. CASE i # 0
        <3>1. i \in 1 .. n /\ i - 1 \in 0 .. n /\ ~(i <= i - 1)
            BY <1>0, <2>2, <2>5
        <3>2. Filled(r[i - 1], i - 1, flags)
            BY <2>1, <3>1
        <3> QED
            BY <2>2, <2>3, <2>5, <3>1, <3>2, WriteFills
    <2> QED
        BY <2>4, <2>5
<1>4. CASE Wrong = {}
    <2>1. Filled(r[n], n, flags)
        BY <1>0, <1>4
    <2>2. r[n].array \in Array /\ r[n].y \in 0 .. n /\ n <= Cardinality(Others)
          /\ Cardinality(Others) \in Nat
        BY <2>1, RoomForAll DEF Filled
    <2>3. ASSUME NEW o \in ToSet(known), flags[o]
          PROVE  o \in ToSet(r[n].array)
        <3>1. PICK j \in 1 .. n : known[j] = o
            BY DEF ToSet, KnownOnce
        <3>2. PICK l \in 1 .. r[n].y : r[n].array[l] = o
            BY <2>1, <2>3, <3>1 DEF Filled
        <3>3. l \in 1 .. Cardinality(Others)
            BY <1>0, <2>2
        <3>4. DOMAIN r[n].array = 1 .. Cardinality(Others)
            BY <2>2 DEF Array
        <3> QED
            BY <3>2, <3>3, <3>4 DEF ToSet
    <2> QED
        BY <1>2, <2>2, <2>3
<1> QED
    BY <1>3, <1>4

-----------------------------------------------------------------------------
(* What is signalled *)

DiscoveryInv ==
    /\ WindowInv /\ KnownOnce
    /\ confirmedNeighbor \in [Others -> BOOLEAN]
    /\ finalizedNeighbors \in Array
    /\ settle \in BOOLEAN /\ recheck \in BOOLEAN /\ booted \in BOOLEAN /\ deaf \in BOOLEAN
    /\ signalled \subseteq Others /\ byAccident \subseteq Others
    /\ Announced

LEMMA DiscoveryInit == Init => DiscoveryInv
<1> SUFFICES ASSUME Init PROVE DiscoveryInv
    OBVIOUS
<1>1. known = << >> /\ ToSet(known) = {}
    BY DEF Init, ToSet
<1>2. KnownOnce
    <2>1. Cardinality({}) = 0
        BY FS_EmptySet
    <2>2. << >> \in Seq(Others) /\ Len(<< >>) = 0 /\ IsInjective(<< >>)
        BY DEF IsInjective
    <2> QED
        BY <1>1, <2>1, <2>2 DEF KnownOnce
<1>3. finalizedNeighbors \in Array /\ confirmedNeighbor \in [Others -> BOOLEAN]
    BY DEF Init, Array
<1>4. Announced
    BY <1>1 DEF Init, Announced, Confirmed
<1> QED
    BY <1>2, <1>3, <1>4, InvInit DEF Init, DiscoveryInv

\* The neighbors that were signalled stay in an array that is filled again with at least
\* those.
LEMMA SignalledStay ==
    ASSUME DiscoveryInv, NEW flags, finalizedNeighbors' = Refilled(flags),
           \A o \in signalled' : o \in ToSet(known) /\ flags[o]
    PROVE  finalizedNeighbors' \in Array /\ signalled' \subseteq ToSet(finalizedNeighbors')
BY RefilledArray DEF DiscoveryInv

LEMMA DiscoveryAnswer ==
    ASSUME DiscoveryInv, NEW n \in Others, ProcessNeighborResponse(n)
    PROVE  DiscoveryInv'
<1>0. WindowInv'
    BY InvAnswer DEF DiscoveryInv
<1>1. /\ settle' \in BOOLEAN
      /\ UNCHANGED <<finalizedNeighbors, recheck, booted, signalled, deaf>>
    BY DEF ProcessNeighborResponse
<1>2. CASE UNCHANGED <<known, confirmedNeighbor, byAccident>>
    <2>1. KnownOnce' /\ Announced'
        BY <1>1, <1>2 DEF DiscoveryInv, KnownOnce, Announced, Confirmed
    <2> QED
        BY <1>0, <1>1, <1>2, <2>1 DEF DiscoveryInv, Array
<1>3. CASE n \notin ToSet(known)
    <2>1. PICK b \in BOOLEAN :
            /\ confirmedNeighbor' = [confirmedNeighbor EXCEPT ![n] = b]
            /\ byAccident' = IF b THEN byAccident \cup {n} ELSE byAccident
        BY <1>3 DEF ProcessNeighborResponse
    <2>2. known' = Append(known, n)
        BY <1>3 DEF ProcessNeighborResponse
    <2>3. known' \in Seq(Others) /\ ToSet(known') = ToSet(known) \cup {n}
        BY <2>2, AppendToSet DEF DiscoveryInv, KnownOnce
    <2>4. Len(known') = Len(known) + 1 /\ Len(known) \in Nat
          /\ \A j \in 1 .. Len(known') :
                \/ j \in 1 .. Len(known) /\ known'[j] = known[j] /\ known[j] \in ToSet(known)
                \/ j = Len(known) + 1 /\ known'[j] = n
        <3>1. known \in Seq(Others)
            BY DEF DiscoveryInv, KnownOnce
        <3>2. \A j \in 1 .. Len(known) : known[j] \in ToSet(known)
            BY <3>1 DEF ToSet
        <3> QED
            BY <2>2, <3>1, <3>2
    <2>5. IsInjective(known')
        <3>1. \A i, j \in 1 .. Len(known) : known[i] = known[j] => i = j
            BY DEF DiscoveryInv, KnownOnce, IsInjective
        <3>2. ASSUME NEW i \in 1 .. Len(known'), NEW j \in 1 .. Len(known'), known'[i] = known'[j]
              PROVE  i = j
            BY <1>3, <2>4, <3>1, <3>2
        <3>3. DOMAIN known' = 1 .. Len(known')
            BY <2>3
        <3> QED
            BY <3>2, <3>3 DEF IsInjective
    <2>6. Cardinality(ToSet(known')) = Len(known')
        <3>1. IsFiniteSet(ToSet(known))
            <4>1. ToSet(known) \in SUBSET Others /\ IsFiniteSet(Others)
                BY KnownIsOthers, DiscoveryAssumption DEF DiscoveryInv, KnownOnce
            <4> QED
                BY <4>1, FS_Subset
        <3>2. Cardinality(ToSet(known) \cup {n}) = Cardinality(ToSet(known)) + 1
            BY <1>3, <3>1, FS_AddElement
        <3> QED
            BY <2>3, <2>4, <3>2 DEF DiscoveryInv, KnownOnce
    <2>7. confirmedNeighbor' \in [Others -> BOOLEAN] /\ byAccident' \subseteq Others
        BY <2>1 DEF DiscoveryInv
    <2>8. Announced'
        <3>1. ASSUME NEW o \in ToSet(known)
              PROVE  confirmedNeighbor'[o] = confirmedNeighbor[o]
            BY <1>3, <2>1, KnownIsOthers DEF DiscoveryInv, KnownOnce
        <3>2. confirmedNeighbor'[n] => n \in byAccident'
            BY <2>1 DEF DiscoveryInv
        <3>3. byAccident \subseteq byAccident'
            BY <2>1
        <3>4. Confirmed' \ byAccident' \subseteq signalled'
            BY <1>1, <2>3, <3>1, <3>2, <3>3 DEF DiscoveryInv, Announced, Confirmed
        <3>5. signalled' \subseteq Confirmed'
            BY <1>1, <2>3, <3>1 DEF DiscoveryInv, Announced, Confirmed
        <3> QED
            BY <1>1, <3>4, <3>5 DEF DiscoveryInv, Announced
    <2> QED
        BY <1>0, <1>1, <2>3, <2>5, <2>6, <2>7, <2>8 DEF DiscoveryInv, KnownOnce, Array
<1> QED
    BY <1>2, <1>3 DEF ProcessNeighborResponse

LEMMA DiscoveryCheck ==
    ASSUME DiscoveryInv, WindowInv', CheckNeighborsSettledFired
    PROVE  DiscoveryInv'
<1> DEFINE flags == [o \in Others |-> o \in ToSet(known) /\ Answered(o)]
<1>1. /\ settle' \in BOOLEAN /\ recheck' \in BOOLEAN /\ confirmedNeighbor' = flags
      /\ IF Changed(flags)
         THEN /\ finalizedNeighbors' = Refilled(flags)
              /\ signalled' = {o \in ToSet(known) : flags[o]}
         ELSE UNCHANGED <<finalizedNeighbors, signalled>>
      /\ UNCHANGED <<known, booted, byAccident, deaf>>
    BY DEF CheckNeighborsSettledFired, CheckNeighbors
<1>2. KnownOnce'
    BY <1>1 DEF DiscoveryInv, KnownOnce
<1>3. flags \in [Others -> BOOLEAN]
    OBVIOUS
<1> HIDE DEF flags
<1>4. CASE Changed(flags)
    <2>1. signalled' = {o \in ToSet(known) : flags[o]} /\ signalled' \subseteq Others
        BY <1>1, <1>4, KnownIsOthers DEF DiscoveryInv, KnownOnce
    <2>2. finalizedNeighbors' \in Array /\ signalled' \subseteq ToSet(finalizedNeighbors')
        BY <1>1, <1>4, <2>1, SignalledStay
    <2>3. Announced'
        BY <1>1, <2>1, <2>2 DEF Announced, Confirmed
    <2> QED
        BY <1>1, <1>2, <1>3, <2>1, <2>2, <2>3 DEF DiscoveryInv, Array
<1>5. CASE ~Changed(flags)
    <2>1. \A o \in ToSet(known) : flags[o] = confirmedNeighbor[o]
        BY <1>5 DEF Changed
    <2>2. UNCHANGED <<finalizedNeighbors, signalled>>
        BY <1>1, <1>5
    <2>3. Announced'
        BY <1>1, <2>1, <2>2 DEF DiscoveryInv, Announced, Confirmed
    <2> QED
        BY <1>1, <1>2, <1>3, <2>2, <2>3 DEF DiscoveryInv, Array
<1> QED
    BY <1>4, <1>5

LEMMA DiscoveryNext == DiscoveryInv /\ [Next]_vars => DiscoveryInv'
<1> SUFFICES ASSUME DiscoveryInv, [Next]_vars PROVE DiscoveryInv'
    OBVIOUS
<1>0. WindowInv'
    BY InvNext DEF DiscoveryInv
<1>1. ASSUME NEW heard \in SUBSET on, Booted(heard) \/ RecheckNeighborsFired(heard)
      PROVE  DiscoveryInv'
    <2>1. /\ UNCHANGED <<known, confirmedNeighbor, finalizedNeighbors, signalled, byAccident>>
          /\ settle' \in BOOLEAN /\ recheck' \in BOOLEAN /\ booted' \in BOOLEAN
          /\ deaf' \in BOOLEAN
        BY <1>1 DEF Booted, RecheckNeighborsFired, StartNeighborDiscovery, DiscoveryInv
    <2>2. KnownOnce' /\ Announced'
        BY <2>1 DEF DiscoveryInv, KnownOnce, Announced, Confirmed
    <2> QED
        BY <1>0, <2>1, <2>2 DEF DiscoveryInv, Array
<1>2. ASSUME NEW o \in Others, ProcessNeighborResponse(o) PROVE DiscoveryInv'
    BY <1>2, DiscoveryAnswer
<1>3. CASE CheckNeighborsSettledFired
    BY <1>0, <1>3, DiscoveryCheck
<1>4. CASE GetNeighborArray
    <2>1. /\ UNCHANGED <<known, confirmedNeighbor, timers, history>>
          /\ finalizedNeighbors' = Refilled(confirmedNeighbor)
        BY <1>4 DEF GetNeighborArray
    <2>2. signalled' = signalled /\ \A o \in signalled : o \in ToSet(known) /\ confirmedNeighbor[o]
        BY <2>1 DEF history, DiscoveryInv, Announced, Confirmed
    <2>3. finalizedNeighbors' \in Array /\ signalled' \subseteq ToSet(finalizedNeighbors')
        BY <2>1, <2>2, SignalledStay
    <2>4. KnownOnce' /\ Announced'
        BY <2>1, <2>3 DEF DiscoveryInv, KnownOnce, Announced, Confirmed, history
    <2> QED
        BY <1>0, <2>1, <2>3, <2>4 DEF DiscoveryInv, Array, timers, history
<1>5. ASSUME UNCHANGED <<known, confirmedNeighbor, finalizedNeighbors, timers, history>>
      PROVE  DiscoveryInv'
    <2>1. KnownOnce' /\ Announced'
        BY <1>5 DEF DiscoveryInv, KnownOnce, Announced, Confirmed, history
    <2> QED
        BY <1>0, <1>5, <2>1 DEF DiscoveryInv, Array, timers, history
<1>6. ASSUME NEW o \in Others, Turn(o) PROVE DiscoveryInv'
    BY <1>5, <1>6 DEF Turn
<1>7. CASE UNCHANGED vars
    BY <1>5, <1>7 DEF vars
<1> QED
    BY <1>1, <1>2, <1>3, <1>4, <1>6, <1>7 DEF Next

\* Every variable of NeighborP keeps its type: a node is in the map of neighbors once,
\* and the array never needs more entries than there are nodes around.
THEOREM DiscoveryTypeCorrect == Spec => []TypeOK
<1>1. DiscoveryInv => TypeOK
    BY DEF DiscoveryInv, WindowInv, WindowTypes, KnownOnce, Array, TypeOK
<1> QED
    BY <1>1, DiscoveryInit, DiscoveryNext, PTL DEF Spec

\* Every change of the neighborhood has been signalled, but for nodes that were confirmed
\* from the start by what the stack held, and the array other components read has all
\* neighbors that were signalled, whenever it is filled again.
THEOREM AnnouncedAlways == Spec => []Announced
<1>1. DiscoveryInv => Announced
    BY DEF DiscoveryInv
<1> QED
    BY <1>1, DiscoveryInit, DiscoveryNext, PTL DEF Spec
=============================================================================

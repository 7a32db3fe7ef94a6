----------------------------- MODULE HashmapProof -----------------------------
(***************************************************************************)
(* Theorems about Hashmap, for any number of places, any keys and any      *)
(* values: the types, that the list of keys and the map stay in step, and  *)
(* that each call does to what get, contains and size show what the call   *)
(* of a Dictionary does.                                                   *)
(***************************************************************************)
EXTENDS Hashmap, FiniteSetTheorems, SequenceTheorems, TLAPS

-----------------------------------------------------------------------------
(* The probe sequence *)

\* A set of naturals has a least element, and First is it.
LEMMA FirstIsLeast ==
    ASSUME NEW S \in SUBSET Nat, S # {}
    PROVE  First(S) \in S /\ \A j \in S : First(S) <= j
<1>1. IsWellFoundedOn(OpToRel(<, Nat), Nat)
    BY NatLessThanWellFounded
<1>2. \E x \in S : \A y \in S : ~(<<y, x>> \in OpToRel(<, Nat))
    BY <1>1, WFMin
<1>3. PICK x \in S : \A y \in S : ~(<<y, x>> \in OpToRel(<, Nat))
    BY <1>2
<1>4. \A y \in S : x <= y
    <2>1. ASSUME NEW y \in S, y < x PROVE <<y, x>> \in OpToRel(<, Nat)
        BY <2>1 DEF OpToRel
    <2>2. \A y \in S : x \in Nat /\ y \in Nat /\ ~(y < x)
        BY <1>3, <2>1
    <2> QED
        BY <2>2
<1> QED
    BY <1>4 DEF First

LEMMA PlacesType == Places \subseteq Nat /\ 0 \in Places
    BY HashAssumption DEF Places

\* Every probe of a key is a place of the table.
LEMMA HashType ==
    ASSUME NEW k \in Nat, NEW i \in Nat
    PROVE  Hash(k, i) \in Places
<1>1. k % 13 \in Nat /\ 1 + (k % 11) \in Nat
    OBVIOUS
<1>2. \A a, b \in Nat : a * b \in Nat
    OBVIOUS
<1>3. (k % 13) + i * (1 + (k % 11)) \in Nat
    <2> DEFINE a == k % 13
               b == 1 + (k % 11)
    <2>1. a \in Nat /\ i * b \in Nat
        BY <1>1, <1>2
    <2> HIDE DEF a, b
    <2>2. a + i * b \in Nat
        BY <2>1
    <2> QED
        BY <2>2 DEF a, b
<1>4. \A x \in Nat : x % HASH_MAX_SIZE \in Places
    BY HashAssumption DEF Places
<1> QED
    BY <1>3, <1>4 DEF Hash

\* The search of a key among the entries Stop ends at the first of its probes that
\* is one of them.
LEMMA EndsFirst ==
    ASSUME NEW t, NEW k \in Nat, NEW Stop, Ends(t, k, Stop) # {}
    PROVE  LET i == First(Ends(t, k, Stop)) IN
           /\ i \in Places /\ Hash(k, i) \in Places /\ t.key[Hash(k, i)] \in Stop
           /\ \A m \in Places : m < i => t.key[Hash(k, m)] \notin Stop
<1> DEFINE E == Ends(t, k, Stop)
           i == First(E)
<1>1. E \in SUBSET Nat
    BY PlacesType DEF Ends
<1>2. i \in E /\ \A m \in E : i <= m
    BY <1>1, FirstIsLeast
<1>3. i \in Places /\ i \in Nat /\ t.key[Hash(k, i)] \in Stop
    BY <1>1, <1>2 DEF Ends
<1>4. \A m \in Places : m < i => m \notin E
    BY <1>2, <1>3, PlacesType
<1>5. \A m \in Places : m < i => t.key[Hash(k, m)] \notin Stop
    BY <1>4 DEF Ends
<1>6. Hash(k, i) \in Places
    BY <1>3, HashType
<1> HIDE DEF i
<1> QED
    BY <1>3, <1>5, <1>6 DEF i

-----------------------------------------------------------------------------
(* The table *)

Table == [key   : [Places -> Keys \cup {EMPTY_KEY}],
          value : [Places -> Values \cup {None}],
          keys  : Seq(Keys)]

\* A key lies at one place at most.
OnePlaceEach(t) ==
    \A i, j \in Places : t.key[i] = t.key[j] /\ t.key[i] # EMPTY_KEY => i = j

\* A search of a key that is there comes by its place.
Reachable(t) ==
    \A j \in Places : t.key[j] # EMPTY_KEY => \E i \in Places : Hash(t.key[j], i) = j

\* It comes by it before it comes by a hole.
FoundBeforeHole(t) ==
    \A j \in Places : t.key[j] # EMPTY_KEY =>
        \E i \in Places : /\ Hash(t.key[j], i) = j
                          /\ \A m \in Places : m < i => t.key[Hash(t.key[j], m)] # EMPTY_KEY

\* The list of keys, and what it shows.
ListedOnce(keys) == \A i, j \in 1 .. Len(keys) : keys[i] = keys[j] => i = j
Listed(keys)     == {keys[i] : i \in 1 .. Len(keys)}

Shows(t, k) == IF HasKey(t, k) THEN Get(t, k) ELSE None

LEMMA KeyType == \A k \in Keys : k \in Nat /\ k # EMPTY_KEY
    BY HashmapAssumption

\* What the search of a key has found holds the key.
LEMMA PlaceFound ==
    ASSUME NEW t, NEW k \in Nat, HasKey(t, k)
    PROVE  Place(t, k) \in Places /\ t.key[Place(t, k)] = k
<1> DEFINE i == First(Ends(t, k, {k}))
<1>1. Ends(t, k, {k}) # {}
    BY DEF HasKey
<1>2. Hash(k, i) \in Places /\ t.key[Hash(k, i)] \in {k}
    BY <1>1, EndsFirst
<1>3. Place(t, k) = Hash(k, i)
    BY DEF Place
<1> HIDE DEF i
<1> QED
    BY <1>2, <1>3

\* A key is found, at its only place, exactly when it is in the table.
LEMMA PlaceOfKey ==
    ASSUME NEW t, OnePlaceEach(t), Reachable(t), NEW k \in Keys
    PROVE  /\ HasKey(t, k) <=> \E j \in Places : t.key[j] = k
           /\ HasKey(t, k) => Place(t, k) \in Places /\ t.key[Place(t, k)] = k
           /\ \A j \in Places : t.key[j] = k => HasKey(t, k) /\ Place(t, k) = j
<1>1. k \in Nat /\ k # EMPTY_KEY
    BY KeyType
<1>2. ASSUME HasKey(t, k) PROVE Place(t, k) \in Places /\ t.key[Place(t, k)] = k
    BY <1>1, <1>2, PlaceFound
<1>3. ASSUME NEW j \in Places, t.key[j] = k PROVE HasKey(t, k)
    <2>1. PICK i \in Places : Hash(k, i) = j
        BY <1>1, <1>3 DEF Reachable
    <2>2. i \in Ends(t, k, {k})
        BY <1>3, <2>1 DEF Ends
    <2> QED
        BY <2>2 DEF HasKey
<1>4. ASSUME NEW j \in Places, t.key[j] = k PROVE Place(t, k) = j
    BY <1>1, <1>2, <1>3, <1>4 DEF OnePlaceEach
<1> QED
    BY <1>2, <1>3, <1>4

\* So a table shows the value next to the key, and nothing for a key that is not there.
LEMMA ShownAt ==
    ASSUME NEW t, OnePlaceEach(t), Reachable(t), NEW k \in Keys
    PROVE  /\ \A j \in Places : t.key[j] = k => Shows(t, k) = t.value[j]
           /\ (\A j \in Places : t.key[j] # k) => Shows(t, k) = None
    BY PlaceOfKey DEF Shows, Get

\* The table after an insert: as it was, or with k at a place that was its own, or
\* that was free when k was nowhere.
InsertedAt(t, new, j, k, v) ==
    /\ new \in Table
    /\ new.key = [t.key EXCEPT ![j] = k] /\ new.value = [t.value EXCEPT ![j] = v]
    /\ \/ t.key[j] = k /\ new.keys = t.keys
       \/ /\ t.key[j] = EMPTY_KEY /\ \A i \in Places : t.key[i] # k
          /\ new.keys = Append(t.keys, k)
    /\ \E i \in Places : /\ Hash(k, i) = j
                         /\ \A m \in Places : m < i => t.key[Hash(k, m)] # EMPTY_KEY

LEMMA InsertEffect ==
    ASSUME NEW t \in Table, OnePlaceEach(t), Reachable(t), NEW k \in Keys, NEW v \in Values,
           FoundBeforeHole(t) \/ ~HasKey(t, k) \/ t.key[Hash(k, 0)] = k,
           Ends(t, k, {EMPTY_KEY, k}) # {}, NEW new, new = InsertKey(t, k, v)
    PROVE  \E j \in Places : InsertedAt(t, new, j, k, v)
<1> DEFINE E == Ends(t, k, {EMPTY_KEY, k})
           f == First(E)
           j == Hash(k, f)
<1>1. k \in Nat /\ k # EMPTY_KEY
    BY KeyType
<1>2. E # {}
    OBVIOUS
<1>3. /\ f \in Places /\ j \in Places /\ t.key[j] \in {EMPTY_KEY, k}
      /\ \A m \in Places : m < f => t.key[Hash(k, m)] \notin {EMPTY_KEY, k}
    BY <1>1, <1>2, EndsFirst
<1>4. /\ new = [key   |-> [t.key EXCEPT ![j] = k],
                value |-> [t.value EXCEPT ![j] = v],
                keys  |-> IF t.key[j] = EMPTY_KEY THEN Append(t.keys, k) ELSE t.keys]
    BY <1>1, <1>2 DEF InsertKey
<1> HIDE DEF f
<1>5. ASSUME t.key[j] = EMPTY_KEY, NEW p \in Places, t.key[p] = k PROVE FALSE
    <2>1. HasKey(t, k)
        BY <1>5, PlaceOfKey
    <2>2. CASE FoundBeforeHole(t)
        <3>1. PICK i \in Places : /\ Hash(k, i) = p
                    /\ \A m \in Places : m < i => t.key[Hash(k, m)] # EMPTY_KEY
            BY <1>1, <1>5, <2>2 DEF FoundBeforeHole
        <3>2. ~(f < i) /\ ~(i < f)
            BY <1>3, <1>5, <3>1
        <3>3. f = i
            BY <1>3, <3>2, PlacesType
        <3> QED
            BY <1>1, <1>5, <3>1, <3>3
    <2>3. CASE t.key[Hash(k, 0)] = k
        <3>1. ~(0 < f)
            BY <1>3, <2>3, PlacesType
        <3>2. f = 0
            BY <1>3, <3>1, PlacesType
        <3> QED
            BY <1>1, <1>5, <2>3, <3>2
    <2> QED
        BY <2>1, <2>2, <2>3
<1>6. new \in Table
    <2>1. t.keys \in Seq(Keys) /\ Append(t.keys, k) \in Seq(Keys)
        BY DEF Table
    <2>2. t.key \in [Places -> Keys \cup {EMPTY_KEY}] /\ t.value \in [Places -> Values \cup {None}]
        BY DEF Table
    <2>3. [t.key EXCEPT ![j] = k] \in [Places -> Keys \cup {EMPTY_KEY}]
        BY <2>2
    <2>4. [t.value EXCEPT ![j] = v] \in [Places -> Values \cup {None}]
        BY <2>2
    <2> HIDE DEF j
    <2> QED
        BY <1>4, <2>1, <2>3, <2>4 DEF Table
<1>7. InsertedAt(t, new, j, k, v)
    <2> HIDE DEF E
    <2> QED
        BY <1>1, <1>3, <1>4, <1>5, <1>6 DEF InsertedAt
<1> QED
    BY <1>3, <1>7

\* An insert that is refused: every probe of the key meets another one.
LEMMA RefusedEffect ==
    ASSUME NEW t, NEW k, NEW v, k # EMPTY_KEY => Ends(t, k, {EMPTY_KEY, k}) = {}
    PROVE  /\ InsertKey(t, k, v) = t
           /\ k # EMPTY_KEY => \A i \in Places : t.key[Hash(k, i)] \notin {EMPTY_KEY, k}
    BY DEF InsertKey, Ends

\* The key 0 is found at the first empty place, and the probes of 0 come by every place.
LEMMA PlaceOfNoKey ==
    ASSUME NEW t
    PROVE  /\ HasKey(t, EMPTY_KEY) => /\ Place(t, EMPTY_KEY) \in Places
                                      /\ t.key[Place(t, EMPTY_KEY)] = EMPTY_KEY
           /\ ~HasKey(t, EMPTY_KEY) => \A j \in Places : t.key[j] # EMPTY_KEY
<1>1. EMPTY_KEY \in Nat
    BY DEF EMPTY_KEY
<1>2. ASSUME HasKey(t, EMPTY_KEY)
      PROVE  Place(t, EMPTY_KEY) \in Places /\ t.key[Place(t, EMPTY_KEY)] = EMPTY_KEY
    BY <1>1, <1>2, PlaceFound
<1>3. ASSUME NEW j \in Places PROVE Hash(EMPTY_KEY, j) = j
    <2>1. j \in Nat /\ j < HASH_MAX_SIZE
        BY HashAssumption DEF Places
    <2>2. EMPTY_KEY % 13 = 0 /\ EMPTY_KEY % 11 = 0
        BY DEF EMPTY_KEY
    <2>3. (EMPTY_KEY % 13) + j * (1 + (EMPTY_KEY % 11)) = j
        BY <2>1, <2>2
    <2>4. j % HASH_MAX_SIZE = j
        BY <2>1, HashAssumption
    <2> QED
        BY <2>3, <2>4 DEF Hash
<1>4. ASSUME ~HasKey(t, EMPTY_KEY), NEW j \in Places PROVE t.key[j] # EMPTY_KEY
    BY <1>3, <1>4 DEF HasKey, Ends
<1> QED
    BY <1>2, <1>4

\* An assignment through getPointer writes the value at the place of its key, or at
\* place 0 when the key is not there.
LEMMA AssignEffect ==
    ASSUME NEW t \in Table, OnePlaceEach(t), Reachable(t), NEW k \in Keys \cup {EMPTY_KEY},
           NEW v \in Values, NEW new, new = SetAt(t, k, v)
    PROVE  /\ Place(t, k) \in Places /\ new \in Table
           /\ new.key = t.key /\ new.keys = t.keys
           /\ new.value = [t.value EXCEPT ![Place(t, k)] = v]
           /\ HasKey(t, k) => t.key[Place(t, k)] = k
           /\ ~HasKey(t, k) => Place(t, k) = 0 /\ \A j \in Places : t.key[j] # k
<1>1. /\ Place(t, k) \in Places
      /\ HasKey(t, k) => t.key[Place(t, k)] = k
      /\ ~HasKey(t, k) => Place(t, k) = 0 /\ \A j \in Places : t.key[j] # k
    <2>1. Place(t, k) \in Places
        BY PlaceOfKey, PlaceOfNoKey, PlacesType DEF Place
    <2>2. HasKey(t, k) => t.key[Place(t, k)] = k
        BY PlaceOfKey, PlaceOfNoKey
    <2>3. ~HasKey(t, k) => Place(t, k) = 0
        BY DEF Place
    <2>4. ~HasKey(t, k) => \A j \in Places : t.key[j] # k
        <3>1. CASE k \in Keys
            BY <3>1, PlaceOfKey
        <3>2. CASE k = EMPTY_KEY
            BY <3>2, PlaceOfNoKey
        <3> QED
            BY <3>1, <3>2
    <2> QED
        BY <2>1, <2>2, <2>3, <2>4
<1>2. new.key = t.key /\ new.keys = t.keys /\ new.value = [t.value EXCEPT ![Place(t, k)] = v]
    BY DEF SetAt, Table
<1>3. new \in Table
    <2>1. /\ t.key \in [Places -> Keys \cup {EMPTY_KEY}] /\ t.keys \in Seq(Keys)
          /\ [t.value EXCEPT ![Place(t, k)] = v] \in [Places -> Values \cup {None}]
        BY DEF Table
    <2>2. new = [key |-> new.key, value |-> new.value, keys |-> new.keys]
        BY DEF SetAt, Table
    <2> QED
        BY <1>2, <2>1, <2>2 DEF Table
<1> QED
    BY <1>1, <1>2, <1>3

\* A list without one of its keys: the others, each once.
LEMMA WithoutKeyEffect ==
    ASSUME NEW keys \in Seq(Keys), ListedOnce(keys), NEW k
    PROVE  /\ WithoutKey(keys, k) \in Seq(Keys)
           /\ ListedOnce(WithoutKey(keys, k))
           /\ Listed(WithoutKey(keys, k)) = Listed(keys) \ {k}
<1> DEFINE found == {i \in 1 .. Len(keys) : keys[i] = k}
           w == WithoutKey(keys, k)
<1>0. Len(keys) \in Nat
    OBVIOUS
<1>1. CASE found = {}
    <2>1. w = keys
        BY <1>1 DEF WithoutKey
    <2>2. k \notin Listed(keys)
        BY <1>1 DEF Listed
    <2> QED
        BY <2>1, <2>2
<1>2. CASE found # {}
    <2> DEFINE f == First(found)
               s == SubSeq(keys, 1, f - 1)
               u == SubSeq(keys, f + 1, Len(keys))
    <2>1. f \in found
        <3>1. found \in SUBSET Nat
            OBVIOUS
        <3> HIDE DEF found
        <3> QED
            BY <1>2, <3>1, FirstIsLeast
    <2>2. f \in 1 .. Len(keys) /\ keys[f] = k
        BY <2>1
    <2>3. w = s \o u
        BY <1>2 DEF WithoutKey
    <2> HIDE DEF f, w
    <2>4. /\ s \in Seq(Keys) /\ Len(s) = f - 1
          /\ \A i \in 1 .. f - 1 : s[i] = keys[i]
        <3>1. \A i \in 1 .. f - 1 : keys[i] \in Keys
            BY <1>0, <2>2, ElementOfSeq
        <3> QED
            BY <1>0, <2>2, <3>1, SubSeqProperties
    <2>5. /\ u \in Seq(Keys) /\ Len(u) = Len(keys) - f
          /\ \A i \in 1 .. Len(keys) - f : u[i] = keys[f + i]
        <3>1. \A i \in f + 1 .. Len(keys) : keys[i] \in Keys
            BY <1>0, <2>2, ElementOfSeq
        <3>2. /\ u \in Seq(Keys)
              /\ Len(u) = IF f + 1 <= Len(keys) THEN Len(keys) - (f + 1) + 1 ELSE 0
              /\ \A i \in 1 .. Len(keys) - (f + 1) + 1 : u[i] = keys[f + 1 + i - 1]
            BY <1>0, <2>2, <3>1, SubSeqProperties
        <3> QED
            BY <1>0, <2>2, <3>2
    <2> HIDE DEF s, u
    <2>6. /\ w \in Seq(Keys) /\ Len(w) = Len(keys) - 1
          /\ \A i \in 1 .. Len(keys) - 1 : w[i] = IF i < f THEN keys[i] ELSE keys[i + 1]
        <3>1. /\ w \in Seq(Keys) /\ Len(w) = Len(s) + Len(u)
              /\ \A i \in 1 .. Len(s) + Len(u) :
                    w[i] = IF i <= Len(s) THEN s[i] ELSE u[i - Len(s)]
            BY <2>3, <2>4, <2>5, ConcatProperties
        <3>2. Len(w) = Len(keys) - 1
            BY <1>0, <2>2, <2>4, <2>5, <3>1
        <3>3. ASSUME NEW i \in 1 .. Len(keys) - 1
              PROVE  w[i] = IF i < f THEN keys[i] ELSE keys[i + 1]
            <4>1. w[i] = IF i <= f - 1 THEN s[i] ELSE u[i - (f - 1)]
                BY <1>0, <2>2, <2>4, <2>5, <3>1
            <4>2. CASE i < f
                BY <2>2, <2>4, <4>1, <4>2
            <4>3. CASE ~(i < f)
                <5>1. i - (f - 1) \in 1 .. Len(keys) - f
                    BY <1>0, <2>2, <4>3
                <5>2. u[i - (f - 1)] = keys[f + (i - (f - 1))]
                    BY <2>5, <5>1
                <5>3. f + (i - (f - 1)) = i + 1
                    BY <2>2
                <5> QED
                    BY <2>2, <4>1, <4>3, <5>2, <5>3
            <4> QED
                BY <4>2, <4>3
        <3> QED
            BY <3>1, <3>2, <3>3
    <2>7. ListedOnce(w)
        BY <1>0, <2>2, <2>6 DEF ListedOnce
    <2>8. ASSUME NEW x \in Listed(w) PROVE x \in Listed(keys) /\ x # k
        <3>1. PICK i \in 1 .. Len(keys) - 1 : x = w[i]
            BY <2>6, <2>8 DEF Listed
        <3>2. PICK m \in 1 .. Len(keys) : x = keys[m] /\ m # f
            BY <1>0, <2>2, <2>6, <3>1
        <3> QED
            BY <2>2, <3>2 DEF Listed, ListedOnce
    <2>9. ASSUME NEW x \in Listed(keys), x # k PROVE x \in Listed(w)
        <3>1. PICK m \in 1 .. Len(keys) : x = keys[m]
            BY <2>9 DEF Listed
        <3>2. m # f
            BY <2>2, <2>9, <3>1
        <3>3. CASE m < f
            <4>1. m \in 1 .. Len(keys) - 1 /\ w[m] = x
                BY <1>0, <2>2, <2>6, <3>1, <3>3
            <4> QED
                BY <2>6, <4>1 DEF Listed
        <3>4. CASE m > f
            <4>1. m - 1 \in 1 .. Len(keys) - 1 /\ w[m - 1] = x
                <5>1. m - 1 \in 1 .. Len(keys) - 1 /\ ~(m - 1 < f) /\ (m - 1) + 1 = m
                    BY <1>0, <2>2, <3>4
                <5> QED
                    BY <2>6, <3>1, <5>1
            <4> QED
                BY <2>6, <4>1 DEF Listed
        <3> QED
            BY <2>2, <3>2, <3>3, <3>4
    <2>10. Listed(w) = Listed(keys) \ {k}
        BY <2>8, <2>9
    <2> QED
        BY <2>6, <2>7, <2>10 DEF w
<1> QED
    BY <1>1, <1>2

\* The table after a remove of a key that is there: the key has left its only place
\* and the list.
LEMMA RemoveEffect ==
    ASSUME NEW t \in Table, OnePlaceEach(t), Reachable(t), ListedOnce(t.keys), NEW k \in Keys,
           HasKey(t, k), NEW new, new = RemoveKey(t, k)
    PROVE  /\ new \in Table
           /\ Place(t, k) \in Places /\ t.key[Place(t, k)] = k
           /\ new.key = [t.key EXCEPT ![Place(t, k)] = EMPTY_KEY] /\ new.value = t.value
           /\ ListedOnce(new.keys) /\ Listed(new.keys) = Listed(t.keys) \ {k}
<1> DEFINE w == WithoutKey(t.keys, k)
<1>1. Place(t, k) \in Places /\ t.key[Place(t, k)] = k
    BY PlaceOfKey
<1>2. w \in Seq(Keys) /\ ListedOnce(w) /\ Listed(w) = Listed(t.keys) \ {k}
    <2>1. t.keys \in Seq(Keys)
        BY DEF Table
    <2> QED
        BY <2>1, WithoutKeyEffect
<1>3. new = [[t EXCEPT !.key[Place(t, k)] = EMPTY_KEY] EXCEPT !.keys = w]
    BY DEF RemoveKey
<1> HIDE DEF w
<1>4. new.key = [t.key EXCEPT ![Place(t, k)] = EMPTY_KEY] /\ new.value = t.value /\ new.keys = w
    BY <1>3 DEF Table
<1>5. new \in Table
    <2>1. /\ [t.key EXCEPT ![Place(t, k)] = EMPTY_KEY] \in [Places -> Keys \cup {EMPTY_KEY}]
          /\ t.value \in [Places -> Values \cup {None}]
        BY DEF Table
    <2>2. new = [key |-> new.key, value |-> new.value, keys |-> new.keys]
        BY <1>3 DEF Table
    <2> QED
        BY <1>2, <1>4, <2>1, <2>2 DEF Table
<1> QED
    BY <1>1, <1>2, <1>4, <1>5

-----------------------------------------------------------------------------
(* The invariant *)

\* What holds of the map alone, of the map and the list, and of each way of using it:
\* only a table that grows needs, and has, no hole in front of a key; only clear
\* leaves keys in the map that the list does not show.
MapInv(t) == OnePlaceEach(t) /\ Reachable(t)

HashmapInv ==
    /\ usage \in Uses /\ table \in Table /\ leftover \in SUBSET Keys
    /\ MapInv(table)
    /\ ListedOnce(table.keys)
    /\ Occupied(table) = Listed(table.keys) \cup leftover
    /\ Listed(table.keys) \cap leftover = {}
    /\ usage = "grows" => FoundBeforeHole(table)
    /\ usage # "clears" => leftover = {}
    /\ usage # "grows" => Cardinality(Occupied(table)) < HASH_MAX_SIZE

\* There are no more keys in the map than places.
LEMMA OccupiedFinite ==
    ASSUME NEW t
    PROVE  /\ IsFiniteSet(Occupied(t)) /\ Cardinality(Occupied(t)) \in Nat
           /\ Cardinality(Occupied(t)) <= HASH_MAX_SIZE
<1> DEFINE S == {t.key[j] : j \in Places}
<1>1. IsFiniteSet(Places) /\ Cardinality(Places) = HASH_MAX_SIZE
    BY HashAssumption, FS_Interval DEF Places
<1>2. IsFiniteSet(S) /\ Cardinality(S) <= Cardinality(Places)
    <2> DEFINE f == [j \in Places |-> t.key[j]]
    <2>1. f \in Surjection(Places, S)
        BY DEF Surjection
    <2> HIDE DEF f, S
    <2> QED
        BY <1>1, <2>1, FS_Surjection
<1>3. Occupied(t) \subseteq S
    BY DEF Occupied
<1> HIDE DEF S
<1>4. IsFiniteSet(Occupied(t)) /\ Cardinality(Occupied(t)) <= Cardinality(S)
    BY <1>2, <1>3, FS_Subset
<1>5. Cardinality(S) \in Nat /\ Cardinality(Occupied(t)) \in Nat
    BY <1>2, <1>4, FS_CardinalityType
<1> QED
    BY <1>1, <1>2, <1>4, <1>5, HashAssumption

\* A map with some of another's keys has as few as that one.
LEMMA FewerOccupied ==
    ASSUME NEW t, NEW S, IsFiniteSet(S), Cardinality(S) < HASH_MAX_SIZE, Occupied(t) \subseteq S
    PROVE  Cardinality(Occupied(t)) < HASH_MAX_SIZE
<1>1. Cardinality(Occupied(t)) <= Cardinality(S)
    BY FS_Subset
<1>2. Cardinality(S) \in Nat /\ Cardinality(Occupied(t)) \in Nat
    BY OccupiedFinite, FS_CardinalityType
<1> QED
    BY <1>1, <1>2, HashAssumption

LEMMA InvInit == Init => HashmapInv
<1> SUFFICES ASSUME Init PROVE HashmapInv
    OBVIOUS
<1>1. /\ table.key = [j \in Places |-> EMPTY_KEY] /\ table.value = [j \in Places |-> None]
      /\ table.keys = << >>
    BY DEF Init, EmptyTable
<1>2. table \in Table
    BY DEF Init, EmptyTable, Table
<1>3. MapInv(table) /\ FoundBeforeHole(table)
    BY <1>1 DEF MapInv, OnePlaceEach, Reachable, FoundBeforeHole
<1>4. ListedOnce(table.keys) /\ Listed(table.keys) = {}
    BY <1>1 DEF ListedOnce, Listed
<1>5. Occupied(table) = {}
    BY <1>1 DEF Occupied
<1>6. Cardinality(Occupied(table)) < HASH_MAX_SIZE
    BY <1>5, FS_EmptySet, HashAssumption
<1> QED
    BY <1>2, <1>3, <1>4, <1>5, <1>6 DEF Init, HashmapInv

\* The list after a new key.
LEMMA AppendListed ==
    ASSUME NEW keys \in Seq(Keys), ListedOnce(keys), NEW k \in Keys, k \notin Listed(keys)
    PROVE  /\ ListedOnce(Append(keys, k))
           /\ Listed(Append(keys, k)) = Listed(keys) \cup {k}
<1> DEFINE a == Append(keys, k)
<1>1. /\ Len(keys) \in Nat /\ Len(a) = Len(keys) + 1 /\ a[Len(keys) + 1] = k
      /\ \A i \in 1 .. Len(keys) : a[i] = keys[i]
    BY AppendProperties
<1> HIDE DEF a
<1>2. \A i \in 1 .. Len(a) : i \in 1 .. Len(keys) \/ i = Len(keys) + 1
    BY <1>1
<1>3. ListedOnce(a)
    BY <1>1, <1>2 DEF ListedOnce, Listed
<1>4. \A x : x \in Listed(a) <=> x \in Listed(keys) \/ x = k
    <2>1. Len(keys) + 1 \in 1 .. Len(a) /\ \A i \in 1 .. Len(keys) : i \in 1 .. Len(a)
        BY <1>1
    <2>2. ASSUME NEW x \in Listed(a) PROVE x \in Listed(keys) \/ x = k
        BY <1>1, <1>2 DEF Listed
    <2>3. Listed(keys) \subseteq Listed(a) /\ k \in Listed(a)
        BY <1>1, <2>1 DEF Listed
    <2> QED
        BY <2>2, <2>3
<1>5. Listed(a) = Listed(keys) \cup {k}
    BY <1>4
<1> QED
    BY <1>3, <1>5 DEF a

LEMMA InvInsert ==
    ASSUME HashmapInv, NEW k \in Keys \cup {EMPTY_KEY}, NEW v \in Values, Insert(k, v)
    PROVE  HashmapInv'
<1>1. table' = InsertKey(table, k, v) /\ usage' = usage /\ leftover' = leftover
    BY DEF Insert
<1>2. table \in Table /\ OnePlaceEach(table) /\ Reachable(table)
    BY DEF HashmapInv, MapInv
<1>3. CASE k # EMPTY_KEY => Ends(table, k, {EMPTY_KEY, k}) = {}
    <2>1. table' = table
        BY <1>1, <1>3, RefusedEffect
    <2> QED
        BY <1>1, <2>1
        DEF HashmapInv, MapInv, OnePlaceEach, Reachable, FoundBeforeHole, Occupied
<1>4. CASE k # EMPTY_KEY /\ Ends(table, k, {EMPTY_KEY, k}) # {}
    <2>1. FoundBeforeHole(table) \/ ~HasKey(table, k) \/ table.key[Hash(k, 0)] = k
        BY DEF Insert, NodeInserted, HashmapInv, AtFirstPlace
    <2>2. PICK j \in Places : InsertedAt(table, table', j, k, v)
        BY <1>1, <1>2, <1>4, <2>1, InsertEffect
    <2>0. table.keys \in Seq(Keys) /\ table.key \in [Places -> Keys \cup {EMPTY_KEY}]
        BY <1>2 DEF Table
    <2>3. /\ k # EMPTY_KEY /\ k \in Nat /\ table' \in Table
          /\ table'.key[j] = k
          /\ \A i \in Places : i # j => table'.key[i] = table.key[i]
          /\ \A i \in Places : table.key[i] = k => i = j
        <3>0. k \in Keys /\ k \in Nat /\ k # EMPTY_KEY
            BY <1>4, KeyType
        <3>1. \A i \in Places : table.key[i] = k => i = j
            BY <1>2, <2>2, <3>0 DEF InsertedAt, OnePlaceEach
        <3> QED
            BY <2>0, <2>2, <3>0, <3>1 DEF InsertedAt
    <2>4. OnePlaceEach(table')
        BY <1>2, <2>3 DEF OnePlaceEach
    <2>5. Reachable(table')
        BY <1>2, <2>2, <2>3 DEF Reachable, InsertedAt
    <2>6. ASSUME FoundBeforeHole(table) PROVE FoundBeforeHole(table')
        <3>1. ASSUME NEW p \in Places, table.key[p] # EMPTY_KEY
              PROVE  table'.key[p] # EMPTY_KEY
            BY <2>3, <3>1
        <3>2. ASSUME NEW p \in Places, table'.key[p] # EMPTY_KEY
              PROVE  \E i \in Places :
                        /\ Hash(table'.key[p], i) = p
                        /\ \A m \in Places :
                            m < i => table'.key[Hash(table'.key[p], m)] # EMPTY_KEY
            <4>1. PICK i \in Places :
                        /\ Hash(table'.key[p], i) = p
                        /\ \A m \in Places :
                            m < i => table.key[Hash(table'.key[p], m)] # EMPTY_KEY
                BY <2>2, <2>3, <2>6, <3>2 DEF FoundBeforeHole, InsertedAt
            <4>2. table'.key[p] \in Nat
                BY <2>3, <3>2, KeyType DEF Table
            <4>3. \A m \in Places : Hash(table'.key[p], m) \in Places
                BY <4>2, HashType, PlacesType
            <4> QED
                BY <3>1, <4>1, <4>3
        <3> QED
            BY <3>2 DEF FoundBeforeHole
    <2>7. /\ ListedOnce(table'.keys)
          /\ Occupied(table') = Listed(table'.keys) \cup leftover
          /\ Listed(table'.keys) \cap leftover = {}
        <3>1. CASE table.key[j] = k /\ table'.keys = table.keys
            <4>1. Occupied(table') = Occupied(table)
                BY <2>3, <3>1 DEF Occupied
            <4> QED
                BY <3>1, <4>1 DEF HashmapInv
        <3>2. CASE /\ table.key[j] = EMPTY_KEY /\ \A i \in Places : table.key[i] # k
                   /\ table'.keys = Append(table.keys, k)
            <4>1. \A x : x \in Occupied(table') <=> x \in Occupied(table) \/ x = k
                BY <2>3, <3>2 DEF Occupied
            <4>2. Occupied(table') = Occupied(table) \cup {k}
                BY <4>1
            <4>3. k \notin Occupied(table)
                BY <3>2 DEF Occupied
            <4>4. k \notin Listed(table.keys) /\ k \notin leftover
                BY <4>3 DEF HashmapInv
            <4>5. /\ ListedOnce(table'.keys)
                  /\ Listed(table'.keys) = Listed(table.keys) \cup {k}
                BY <2>0, <3>2, <4>4, AppendListed DEF HashmapInv
            <4> QED
                BY <4>2, <4>4, <4>5 DEF HashmapInv
        <3> QED
            BY <2>2, <3>1, <3>2 DEF InsertedAt
    <2>8. ASSUME usage # "grows" PROVE Cardinality(Occupied(table')) < HASH_MAX_SIZE
        <3> DEFINE S == Occupied(table) \cup {k}
        <3>1. IsFiniteSet(S) /\ Cardinality(S) < HASH_MAX_SIZE
            BY <2>8, OccupiedFinite, FS_AddElement DEF Insert, NodeInserted
        <3>2. Occupied(table') \subseteq S
            BY <2>3 DEF Occupied
        <3> HIDE DEF S
        <3> QED
            BY <3>1, <3>2, FewerOccupied
    <2> QED
        BY <1>1, <2>3, <2>4, <2>5, <2>6, <2>7, <2>8 DEF HashmapInv, MapInv
<1> QED
    BY <1>3, <1>4

LEMMA InvAssign ==
    ASSUME HashmapInv, NEW k \in Keys \cup {EMPTY_KEY}, NEW v \in Values, Assign(k, v)
    PROVE  HashmapInv'
<1>1. /\ table' \in Table /\ table'.key = table.key /\ table'.keys = table.keys
      /\ table'.value = [table.value EXCEPT ![Place(table, k)] = v]
    <2>1. table \in Table /\ OnePlaceEach(table) /\ Reachable(table)
        BY DEF HashmapInv, MapInv
    <2>2. table' = SetAt(table, k, v)
        BY DEF Assign
    <2> QED
        BY <2>1, <2>2, AssignEffect
<1>2. usage' = usage /\ leftover' = leftover
    BY DEF Assign
<1>3. /\ OnePlaceEach(table)' <=> OnePlaceEach(table)
      /\ Reachable(table)' <=> Reachable(table)
      /\ FoundBeforeHole(table)' <=> FoundBeforeHole(table)
      /\ Occupied(table)' = Occupied(table)
    BY <1>1 DEF OnePlaceEach, Reachable, FoundBeforeHole, Occupied
<1> QED
    BY <1>1, <1>2, <1>3 DEF HashmapInv, MapInv

LEMMA InvRemove ==
    ASSUME HashmapInv, NEW k \in Keys, Remove(k)
    PROVE  HashmapInv'
<1>1. table' = RemoveKey(table, k) /\ usage' = usage /\ leftover' = leftover
    BY DEF Remove
<1>2. table \in Table /\ OnePlaceEach(table) /\ Reachable(table) /\ ListedOnce(table.keys)
    BY DEF HashmapInv, MapInv
<1>3. usage = "removes" /\ leftover = {}
    BY DEF Remove, HashmapInv
<1>4. CASE ~HasKey(table, k)
    <2>1. table' = table
        BY <1>1, <1>4 DEF RemoveKey
    <2> QED
        BY <1>1, <2>1 DEF HashmapInv
<1>5. CASE HasKey(table, k)
    <2> DEFINE p == Place(table, k)
    <2>1. /\ table' \in Table
          /\ p \in Places /\ table.key[p] = k
          /\ table'.key = [table.key EXCEPT ![p] = EMPTY_KEY]
          /\ ListedOnce(table'.keys) /\ Listed(table'.keys) = Listed(table.keys) \ {k}
        BY <1>1, <1>2, <1>5, RemoveEffect
    <2> HIDE DEF p
    <2>2. /\ table'.key[p] = EMPTY_KEY
          /\ \A i \in Places : i # p => table'.key[i] = table.key[i]
          /\ \A i \in Places : table.key[i] = k => i = p
        BY <1>2, <2>1, KeyType DEF Table, OnePlaceEach
    <2>3. OnePlaceEach(table') /\ Reachable(table')
        BY <1>2, <2>2 DEF OnePlaceEach, Reachable
    <2>4. \A x : x \in Occupied(table') <=> x \in Occupied(table) /\ x # k
        BY <2>1, <2>2 DEF Occupied
    <2>5. Occupied(table') = Listed(table'.keys)
        BY <1>3, <2>1, <2>4 DEF HashmapInv
    <2>6. Cardinality(Occupied(table')) < HASH_MAX_SIZE
        BY <1>3, <2>4, OccupiedFinite, FewerOccupied DEF HashmapInv
    <2> QED
        BY <1>1, <1>3, <2>1, <2>3, <2>5, <2>6 DEF HashmapInv, MapInv
<1> QED
    BY <1>4, <1>5

\* clear empties the places from 1 to the length of the list, and the list.
LEMMA ClearEffect ==
    ASSUME NEW t \in Table, NEW new, new = ClearTable(t)
    PROVE  /\ new \in Table /\ new.keys = << >> /\ new.value = t.value
           /\ \A j \in Places : new.key[j] = IF j \in 1 .. Len(t.keys) THEN EMPTY_KEY ELSE t.key[j]
<1>1. /\ new.keys = << >> /\ new.value = t.value
      /\ new.key = [j \in Places |-> IF j \in 1 .. Len(t.keys) THEN EMPTY_KEY ELSE t.key[j]]
    BY DEF ClearTable, Table
<1>2. new = [key |-> new.key, value |-> new.value, keys |-> new.keys]
    BY DEF ClearTable, Table
<1>3. new.key \in [Places -> Keys \cup {EMPTY_KEY}]
    BY <1>1 DEF Table
<1>4. new.value \in [Places -> Values \cup {None}] /\ new.keys \in Seq(Keys)
    BY <1>1 DEF Table
<1> QED
    BY <1>1, <1>2, <1>3, <1>4 DEF Table

LEMMA InvClear == HashmapInv /\ Clear => HashmapInv'
<1> SUFFICES ASSUME HashmapInv, Clear PROVE HashmapInv'
    OBVIOUS
<1>1. /\ usage' = usage /\ usage = "clears"
      /\ leftover' = Occupied(table')
    BY DEF Clear
<1>2. table \in Table /\ OnePlaceEach(table) /\ Reachable(table)
    BY DEF HashmapInv, MapInv
<1>3. /\ table' \in Table /\ table'.keys = << >>
      /\ \A j \in Places : table'.key[j] = table.key[j] \/ table'.key[j] = EMPTY_KEY
    BY <1>2, ClearEffect DEF Clear
<1>7. Cardinality(Occupied(table')) < HASH_MAX_SIZE
    <2>1. Occupied(table') \subseteq Occupied(table)
        BY <1>3 DEF Occupied
    <2> QED
        BY <1>1, <2>1, OccupiedFinite, FewerOccupied DEF HashmapInv
<1>4. OnePlaceEach(table') /\ Reachable(table')
    BY <1>2, <1>3 DEF OnePlaceEach, Reachable
<1>5. ListedOnce(table'.keys) /\ Listed(table'.keys) = {}
    BY <1>3 DEF ListedOnce, Listed
<1>6. Occupied(table') \subseteq Keys
    BY <1>3 DEF Occupied, Table
<1> QED
    BY <1>1, <1>3, <1>4, <1>5, <1>6, <1>7 DEF HashmapInv, MapInv

LEMMA InvNext == HashmapInv /\ [Next]_vars => HashmapInv'
<1> SUFFICES ASSUME HashmapInv, [Next]_vars PROVE HashmapInv'
    OBVIOUS
<1>1. ASSUME NEW k \in Keys \cup {EMPTY_KEY}, NEW v \in Values, Insert(k, v) PROVE HashmapInv'
    BY <1>1, InvInsert
<1>2. ASSUME NEW k \in Keys \cup {EMPTY_KEY}, NEW v \in Values, Assign(k, v) PROVE HashmapInv'
    BY <1>2, InvAssign
<1>3. ASSUME NEW k \in Keys, Remove(k) PROVE HashmapInv'
    BY <1>3, InvRemove
<1>4. CASE Clear
    BY <1>4, InvClear
<1>5. CASE UNCHANGED vars
    BY <1>5 DEF vars, HashmapInv
<1> QED
    BY <1>1, <1>2, <1>3, <1>4, <1>5 DEF Next

LEMMA InvAlways == Spec => []HashmapInv
    BY InvInit, InvNext, PTL DEF Spec

-----------------------------------------------------------------------------
(* Types, and the list and the map in step *)

\* A list that shows every key once is as long as the set of the keys it shows.
LEMMA ListedLength ==
    ASSUME NEW keys \in Seq(Keys), ListedOnce(keys)
    PROVE  IsFiniteSet(Listed(keys)) /\ Cardinality(Listed(keys)) = Len(keys)
<1>1. /\ Len(keys) \in Nat /\ keys \in [1 .. Len(keys) -> Keys]
    OBVIOUS
<1>2. keys \in Bijection(1 .. Len(keys), Listed(keys))
    <2>1. keys \in [1 .. Len(keys) -> Listed(keys)]
        BY <1>1 DEF Listed
    <2>2. keys \in Injection(1 .. Len(keys), Listed(keys))
        BY <2>1 DEF Injection, IsInjective, ListedOnce
    <2>3. keys \in Surjection(1 .. Len(keys), Listed(keys))
        BY <2>1 DEF Surjection, Listed
    <2> QED
        BY <2>2, <2>3 DEF Bijection
<1> QED
    BY <1>1, <1>2, FS_CountingElements, FS_NatSurjection DEF ExistsBijection, Bijection, ExistsSurjection

LEMMA InvGivesTypeOK == HashmapInv => TypeOK
<1> SUFFICES ASSUME HashmapInv PROVE TypeOK
    OBVIOUS
<1>1. table.keys \in Seq(Keys) /\ ListedOnce(table.keys)
    BY DEF HashmapInv, Table
<1>2. /\ Len(table.keys) <= HASH_MAX_SIZE
      /\ usage # "grows" => Len(table.keys) < HASH_MAX_SIZE
    <2>1. /\ Len(table.keys) \in Nat /\ Cardinality(Listed(table.keys)) = Len(table.keys)
          /\ Listed(table.keys) \subseteq Occupied(table)
        BY <1>1, ListedLength DEF HashmapInv
    <2>2. Len(table.keys) <= Cardinality(Occupied(table))
        BY <2>1, OccupiedFinite, FS_Subset
    <2>3. /\ Cardinality(Occupied(table)) \in Nat
          /\ Cardinality(Occupied(table)) <= HASH_MAX_SIZE
          /\ usage # "grows" => Cardinality(Occupied(table)) < HASH_MAX_SIZE
        BY OccupiedFinite DEF HashmapInv
    <2> QED
        BY <2>1, <2>2, <2>3, HashAssumption
<1> QED
    BY <1>2 DEF HashmapInv, Table, TypeOK

LEMMA InvGivesKeysListed == HashmapInv => KeysListed
<1> SUFFICES ASSUME HashmapInv PROVE KeysListed
    OBVIOUS
<1>1. table.keys \in Seq(Keys) /\ ListedOnce(table.keys) /\ DOMAIN table.keys = 1 .. Len(table.keys)
    BY DEF HashmapInv, Table
<1>2. {table.keys[i] : i \in DOMAIN table.keys} = Listed(table.keys)
    BY <1>1 DEF Listed
<1>3. Cardinality(Listed(table.keys)) = Len(table.keys)
    BY <1>1, ListedLength
<1>4. \A i, j \in Places : table.key[i] = table.key[j] /\ i # j => table.key[i] = EMPTY_KEY
    BY DEF HashmapInv, MapInv, OnePlaceEach
<1> QED
    BY <1>2, <1>3, <1>4 DEF HashmapInv, KeysListed

\* A table keeps its types: in particular numofVals never exceeds the number of places,
\* and stays below it where remove and clear would write behind the arrays.
THEOREM HashmapTypeCorrect == Spec => []TypeOK
    BY InvAlways, InvGivesTypeOK, PTL

\* The list of keys that getKeys and size show and the map that get reads stay in step,
\* up to what a clear has left behind, and no key comes to lie at two places.
THEOREM KeysListedAlways == Spec => []KeysListed
    BY InvAlways, InvGivesKeysListed, PTL

-----------------------------------------------------------------------------
(* The table is a dictionary *)

\* Where a table has a key.
Lies(t, k) == IF HasKey(t, k) THEN Place(t, k) ELSE NoPlace

LEMMA NoPlaceType == NoPlace \notin Places
    BY HashAssumption DEF NoPlace, Places

LEMMA LiesAt ==
    ASSUME NEW t, OnePlaceEach(t), Reachable(t), NEW k \in Keys
    PROVE  /\ \A j \in Places : Lies(t, k) = j <=> t.key[j] = k
           /\ Lies(t, k) = NoPlace <=> \A j \in Places : t.key[j] # k
           /\ Lies(t, k) \in Places \cup {NoPlace}
    BY PlaceOfKey, NoPlaceType DEF Lies

\* The state of the dictionary, read off the table: a key lies at the place that holds
\* it and shows the value there, the others show nothing; the places taken are those
\* that are not empty.
LEMMA Abstraction ==
    ASSUME HashmapInv
    PROVE  /\ View = [k \in Keys |-> Shows(table, k)]
           /\ At = [k \in Keys |-> Lies(table, k)]
           /\ \A k \in Keys : k \in Dict!Present <=> \E j \in Places : table.key[j] = k
           /\ Dict!Taken = {j \in Places : table.key[j] # EMPTY_KEY}
<1>1. table \in Table /\ OnePlaceEach(table) /\ Reachable(table)
    BY DEF HashmapInv, MapInv
<1>2. View = [k \in Keys |-> Shows(table, k)] /\ At = [k \in Keys |-> Lies(table, k)]
    BY DEF View, At, Shows, Lies
<1>3. \A k \in Keys : k \in Dict!Present <=> \E j \in Places : table.key[j] = k
    BY <1>1, <1>2, LiesAt, NoPlaceType DEF Dict!Present
<1>4. ASSUME NEW p \in Dict!Taken PROVE p \in Places /\ table.key[p] # EMPTY_KEY
    <2>1. PICK k \in Keys : At[k] = p /\ p \in Places
        BY <1>4 DEF Dict!Taken, Dict!Present
    <2>2. table.key[p] = k
        BY <1>1, <1>2, <2>1, LiesAt
    <2> QED
        BY <2>1, <2>2, KeyType
<1>5. ASSUME NEW p \in Places, table.key[p] # EMPTY_KEY PROVE p \in Dict!Taken
    <2>1. table.key[p] \in Keys
        BY <1>1, <1>5 DEF Table
    <2>2. At[table.key[p]] = p
        BY <1>1, <1>2, <2>1, LiesAt
    <2> QED
        BY <2>1, <2>2 DEF Dict!Taken, Dict!Present
<1>6. Dict!Taken = {j \in Places : table.key[j] # EMPTY_KEY}
    BY <1>4, <1>5
<1> QED
    BY <1>2, <1>3, <1>6

LEMMA AbstractionNext ==
    /\ View' = [k \in Keys |-> Shows(table', k)]
    /\ At' = [k \in Keys |-> Lies(table', k)]
    BY DEF View, At, Shows, Lies, HasKey, Get, Place, Ends

\* A key that lies where it lay, with the same value next to it, shows the same.
LEMMA SameShown ==
    ASSUME NEW t, NEW new, OnePlaceEach(t), Reachable(t), OnePlaceEach(new), Reachable(new),
           NEW k \in Keys,
           \A j \in Places : (new.key[j] = k) <=> (t.key[j] = k),
           \A j \in Places : t.key[j] = k => new.value[j] = t.value[j]
    PROVE  Shows(new, k) = Shows(t, k) /\ Lies(new, k) = Lies(t, k)
<1>1. CASE \E j \in Places : t.key[j] = k
    <2>1. PICK j \in Places : t.key[j] = k
        BY <1>1
    <2>2. Shows(t, k) = t.value[j] /\ Shows(new, k) = new.value[j]
        BY <2>1, ShownAt
    <2>3. Lies(t, k) = j /\ Lies(new, k) = j
        BY <2>1, LiesAt
    <2> QED
        BY <2>1, <2>2, <2>3
<1>2. CASE \A j \in Places : t.key[j] # k
    <2>1. Shows(t, k) = None /\ Shows(new, k) = None
        BY <1>2, ShownAt
    <2>2. Lies(t, k) = NoPlace /\ Lies(new, k) = NoPlace
        BY <1>2, LiesAt
    <2> QED
        BY <2>1, <2>2
<1> QED
    BY <1>1, <1>2

\* A change of one key, as the dictionary says it.
LEMMA OneChanged ==
    ASSUME HashmapInv, NEW k \in Keys, NEW v, NEW p, Shows(table', k) = v, Lies(table', k) = p,
           \A q \in Keys : q # k =>
                Shows(table', q) = Shows(table, q) /\ Lies(table', q) = Lies(table, q)
    PROVE  View' = [View EXCEPT ![k] = v] /\ At' = [At EXCEPT ![k] = p]
<1>1. View' = [q \in Keys |-> IF q = k THEN v ELSE Shows(table, q)]
    BY AbstractionNext
<1>2. At' = [q \in Keys |-> IF q = k THEN p ELSE Lies(table, q)]
    BY AbstractionNext
<1>3. View = [q \in Keys |-> Shows(table, q)] /\ At = [q \in Keys |-> Lies(table, q)]
    BY Abstraction
<1>4. /\ [View EXCEPT ![k] = v] = [q \in Keys |-> IF q = k THEN v ELSE Shows(table, q)]
      /\ [At EXCEPT ![k] = p] = [q \in Keys |-> IF q = k THEN p ELSE Lies(table, q)]
    BY <1>3
<1> QED
    BY <1>1, <1>2, <1>4

\* A table that has not changed shows the same.
LEMMA SameTable ==
    ASSUME HashmapInv, table' = table
    PROVE  View' = View /\ At' = At /\ Len(table'.keys) = Len(table.keys)
    BY Abstraction, AbstractionNext

LEMMA RefinesInit == Init => Dict!Init
<1> SUFFICES ASSUME Init PROVE Dict!Init
    OBVIOUS
<1>1. HashmapInv
    BY InvInit
<1>2. /\ \A j \in Places : table.key[j] = EMPTY_KEY
      /\ Len(table.keys) = 0 /\ call = << >>
    BY DEF Init, EmptyTable
<1>3. ASSUME NEW k \in Keys PROVE Shows(table, k) = None /\ Lies(table, k) = NoPlace
    <2>1. \A j \in Places : table.key[j] # k
        BY <1>2, KeyType
    <2> QED
        BY <1>1, <2>1, ShownAt, LiesAt DEF HashmapInv, MapInv
<1>4. View = [k \in Keys |-> None] /\ At = [k \in Keys |-> NoPlace]
    BY <1>1, <1>3, Abstraction
<1> QED
    BY <1>2, <1>4 DEF Dict!Init

\* An insert that is carried out is one of the dictionary, at the place it has found.
LEMMA InsertedRefines ==
    ASSUME HashmapInv, HashmapInv', NEW k \in Keys, NEW v \in Values, NEW j \in Places,
           InsertedAt(table, table', j, k, v)
    PROVE  Dict!InsertOld(k, v) \/ Dict!InsertNew(k, v)
<1>1. /\ table \in Table /\ OnePlaceEach(table) /\ Reachable(table)
      /\ OnePlaceEach(table') /\ Reachable(table')
    BY DEF HashmapInv, MapInv
<1>2. /\ table'.key[j] = k /\ table'.value[j] = v
      /\ table.key[j] \in {EMPTY_KEY, k}
      /\ \A i \in Places : i # j => /\ table'.key[i] = table.key[i]
                                    /\ table'.value[i] = table.value[i]
    BY <1>1 DEF InsertedAt, Table
<1>3. Shows(table', k) = v /\ Lies(table', k) = j
    BY <1>1, <1>2, ShownAt, LiesAt
<1>4. ASSUME NEW q \in Keys, q # k
      PROVE  Shows(table', q) = Shows(table, q) /\ Lies(table', q) = Lies(table, q)
    <2>1. \A i \in Places : (table'.key[i] = q) <=> (table.key[i] = q)
        BY <1>2, <1>4, KeyType
    <2>2. \A i \in Places : table.key[i] = q => table'.value[i] = table.value[i]
        BY <1>2, <1>4, KeyType
    <2> QED
        BY <1>1, <2>1, <2>2, SameShown
<1>5. View' = [View EXCEPT ![k] = v] /\ At' = [At EXCEPT ![k] = j]
    BY <1>3, <1>4, OneChanged
<1>6. CASE table.key[j] = k /\ table'.keys = table.keys
    <2>1. k \in Dict!Present
        BY <1>6, Abstraction
    <2>2. Lies(table, k) = j
        BY <1>1, <1>6, LiesAt
    <2>3. At' = At
        BY <1>5, <2>2, Abstraction
    <2> QED
        BY <1>5, <1>6, <2>1, <2>3 DEF Dict!InsertOld
<1>7. CASE /\ table.key[j] = EMPTY_KEY /\ \A i \in Places : table.key[i] # k
           /\ table'.keys = Append(table.keys, k)
    <2>1. k \notin Dict!Present /\ j \notin Dict!Taken
        BY <1>7, Abstraction
    <2>2. j \in [q \in Keys |-> {Hash(q, i) : i \in Places}][k]
        BY DEF InsertedAt
    <2>3. Len(table'.keys) = Len(table.keys) + 1
        <3>1. table.keys \in Seq(Keys)
            BY <1>1 DEF Table
        <3> QED
            BY <1>7, <3>1, AppendProperties
    <2> QED
        BY <1>5, <2>1, <2>2, <2>3 DEF Dict!InsertNew
<1> QED
    BY <1>6, <1>7 DEF InsertedAt

LEMMA InsertRefines ==
    ASSUME HashmapInv, HashmapInv', NEW k \in Keys, NEW v \in Values, Insert(k, v)
    PROVE  Dict!Insert(k, v)
<1>1. table' = InsertKey(table, k, v) /\ call' = <<"insert", k, v>>
    BY DEF Insert
<1>2. table \in Table /\ OnePlaceEach(table) /\ Reachable(table) /\ k # EMPTY_KEY
    BY KeyType DEF HashmapInv, MapInv
<1>3. CASE Ends(table, k, {EMPTY_KEY, k}) = {}
    <2>1. /\ table' = table
          /\ \A i \in Places : table.key[Hash(k, i)] \notin {EMPTY_KEY, k}
        BY <1>1, <1>2, <1>3, RefusedEffect
    <2>2. \A i \in Places : Hash(k, i) \in Places
        BY HashType, KeyType, PlacesType
    <2>3. k \notin Dict!Present
        BY <1>2, <2>1, Abstraction DEF Reachable
    <2>4. [q \in Keys |-> {Hash(q, i) : i \in Places}][k] \subseteq Dict!Taken
        BY <2>1, <2>2, Abstraction
    <2>5. Dict!Refuse(k)
        BY <2>1, <2>3, <2>4, SameTable DEF Dict!Refuse
    <2> QED
        BY <1>1, <2>5 DEF Dict!Insert
<1>4. CASE Ends(table, k, {EMPTY_KEY, k}) # {}
    <2>1. FoundBeforeHole(table) \/ ~HasKey(table, k) \/ table.key[Hash(k, 0)] = k
        BY DEF Insert, NodeInserted, HashmapInv, AtFirstPlace
    <2>2. PICK j \in Places : InsertedAt(table, table', j, k, v)
        BY <1>1, <1>2, <1>4, <2>1, InsertEffect
    <2> QED
        BY <1>1, <2>2, InsertedRefines DEF Dict!Insert
<1> QED
    BY <1>3, <1>4

\* An insert of the key 0 does nothing.
LEMMA InsertNoKeyRefines ==
    ASSUME HashmapInv, NEW v \in Values, Insert(EMPTY_KEY, v)
    PROVE  Dict!InsertNoKey(v)
<1>1. table' = table
    BY RefusedEffect DEF Insert
<1> QED
    BY <1>1, SameTable DEF Insert, Dict!InsertNoKey

\* What writing v to the value at one place of the map does to what is seen: the key
\* there, if any, shows v.
LEMMA WrittenAt ==
    ASSUME HashmapInv, HashmapInv', NEW v, NEW p \in Places,
           table'.key = table.key, table'.keys = table.keys,
           table'.value = [table.value EXCEPT ![p] = v]
    PROVE  /\ View' = Dict!WithValueAt(p, v) /\ At' = At
           /\ Len(table'.keys) = Len(table.keys)
<1>1. /\ table \in Table /\ OnePlaceEach(table) /\ Reachable(table)
      /\ OnePlaceEach(table') /\ Reachable(table')
    BY DEF HashmapInv, MapInv
<1>2. /\ table'.value[p] = v
      /\ \A j \in Places : j # p => table'.value[j] = table.value[j]
    BY <1>1 DEF Table
<1>3. ASSUME NEW q \in Keys
      PROVE  /\ Shows(table', q) = IF Lies(table, q) = p THEN v ELSE Shows(table, q)
             /\ Lies(table', q) = Lies(table, q)
    <2>1. CASE table.key[p] = q
        <3>1. Shows(table', q) = v
            <4>1. table'.key[p] = q
                BY <2>1
            <4>2. Shows(table', q) = table'.value[p]
                BY <1>1, <4>1, ShownAt
            <4> QED
                BY <1>2, <4>2
        <3>2. Lies(table', q) = p /\ Lies(table, q) = p
            BY <1>1, <2>1, LiesAt
        <3> QED
            BY <3>1, <3>2
    <2>2. CASE table.key[p] # q
        <3>1. Lies(table, q) # p
            BY <1>1, <2>2, LiesAt
        <3>2. \A j \in Places : table.key[j] = q => table'.value[j] = table.value[j]
            BY <1>2, <2>2
        <3>3. \A j \in Places : (table'.key[j] = q) <=> (table.key[j] = q)
            OBVIOUS
        <3>4. Shows(table', q) = Shows(table, q) /\ Lies(table', q) = Lies(table, q)
            BY <1>1, <3>2, <3>3, SameShown
        <3> QED
            BY <3>1, <3>4
    <2> QED
        BY <2>1, <2>2
<1>4. /\ View' = [q \in Keys |-> IF Lies(table, q) = p THEN v ELSE Shows(table, q)]
      /\ At' = [q \in Keys |-> Lies(table, q)]
    BY <1>3, AbstractionNext
<1> QED
    BY <1>4, Abstraction DEF Dict!WithValueAt

LEMMA AssignRefines ==
    ASSUME HashmapInv, HashmapInv', NEW k \in Keys, NEW v \in Values, Assign(k, v)
    PROVE  Dict!Assign(k, v)
<1> DEFINE p == Place(table, k)
<1>1. /\ table \in Table /\ OnePlaceEach(table) /\ Reachable(table)
      /\ table' = SetAt(table, k, v) /\ call' = <<"assign", k, v>>
    BY DEF HashmapInv, MapInv, Assign
<1>2. /\ p \in Places /\ table'.key = table.key /\ table'.keys = table.keys
      /\ table'.value = [table.value EXCEPT ![p] = v]
      /\ ~HasKey(table, k) => p = 0
    BY <1>1, AssignEffect
<1>3. p = IF k \in Dict!Present THEN At[k] ELSE 0
    <2>1. k \in Dict!Present <=> HasKey(table, k)
        BY <1>1, PlaceOfKey, Abstraction
    <2>2. At[k] = Lies(table, k)
        BY Abstraction
    <2> QED
        BY <1>2, <2>1, <2>2 DEF Lies
<1> HIDE DEF p
<1>4. /\ View' = Dict!WithValueAt(p, v) /\ At' = At
      /\ Len(table'.keys) = Len(table.keys)
    BY <1>2, WrittenAt
<1> QED
    BY <1>1, <1>3, <1>4 DEF Dict!Assign

\* The pointer for the key 0 is that of an empty place, whose value nobody sees, and in
\* a full map that of place 0.
LEMMA AssignNoKeyRefines ==
    ASSUME HashmapInv, HashmapInv', NEW v \in Values, Assign(EMPTY_KEY, v)
    PROVE  Dict!AssignNoKey(v)
<1> DEFINE p == Place(table, EMPTY_KEY)
<1>1. /\ table \in Table /\ OnePlaceEach(table) /\ Reachable(table)
      /\ table' = SetAt(table, EMPTY_KEY, v) /\ call' = <<"assign", EMPTY_KEY, v>>
    BY DEF HashmapInv, MapInv, Assign
<1>2. /\ p \in Places /\ table'.key = table.key /\ table'.keys = table.keys
      /\ table'.value = [table.value EXCEPT ![p] = v]
      /\ HasKey(table, EMPTY_KEY) => table.key[p] = EMPTY_KEY
      /\ ~HasKey(table, EMPTY_KEY) => p = 0 /\ \A j \in Places : table.key[j] # EMPTY_KEY
    BY <1>1, AssignEffect
<1> HIDE DEF p
<1>3. /\ View' = Dict!WithValueAt(p, v) /\ At' = At
      /\ Len(table'.keys) = Len(table.keys)
    BY <1>2, WrittenAt
<1>4. CASE HasKey(table, EMPTY_KEY)
    <2>1. ~(Places \subseteq Dict!Taken)
        BY <1>2, <1>4, Abstraction
    <2>2. \A q \in Keys : At[q] # p
        BY <1>1, <1>2, <1>4, LiesAt, KeyType, Abstraction
    <2>3. Dict!WithValueAt(p, v) = View
        BY <2>2, Abstraction DEF Dict!WithValueAt
    <2> QED
        BY <1>1, <1>3, <2>1, <2>3 DEF Dict!AssignNoKey
<1>5. CASE ~HasKey(table, EMPTY_KEY)
    <2>1. Places \subseteq Dict!Taken
        BY <1>2, <1>5, Abstraction
    <2> QED
        BY <1>1, <1>2, <1>3, <1>5, <2>1 DEF Dict!AssignNoKey
<1> QED
    BY <1>4, <1>5

LEMMA RemoveRefines ==
    ASSUME HashmapInv, HashmapInv', NEW k \in Keys, Remove(k)
    PROVE  Dict!Remove(k)
<1>1. /\ table' = RemoveKey(table, k) /\ call' = <<"remove", k>>
      /\ leftover = {} /\ table.keys \in Seq(Keys) /\ table'.keys \in Seq(Keys)
    BY DEF Remove, HashmapInv, Table
<1>2. /\ table \in Table /\ OnePlaceEach(table) /\ Reachable(table) /\ ListedOnce(table.keys)
      /\ OnePlaceEach(table') /\ Reachable(table')
    BY DEF HashmapInv, MapInv
<1>3. CASE ~HasKey(table, k)
    <2>1. table' = table
        BY <1>1, <1>3 DEF RemoveKey
    <2>2. \A j \in Places : table.key[j] # k
        BY <1>2, <1>3, PlaceOfKey
    <2>3. k \notin Dict!Present /\ View[k] = None /\ At[k] = NoPlace
        BY <1>2, <2>2, ShownAt, LiesAt, Abstraction
    <2>4. View = [View EXCEPT ![k] = None] /\ At = [At EXCEPT ![k] = NoPlace]
        BY <2>3, Abstraction
    <2> QED
        BY <1>1, <2>1, <2>3, <2>4, SameTable DEF Dict!Remove
<1>4. CASE HasKey(table, k)
    <2> DEFINE p == Place(table, k)
    <2>0. table' = RemoveKey(table, k)
        BY <1>1
    <2>1. /\ p \in Places /\ table.key[p] = k /\ table'.value = table.value
          /\ table'.key = [table.key EXCEPT ![p] = EMPTY_KEY]
          /\ ListedOnce(table'.keys) /\ Listed(table'.keys) = Listed(table.keys) \ {k}
        BY <1>2, <1>4, <2>0, RemoveEffect
    <2> HIDE DEF p
    <2>2. /\ table'.key[p] = EMPTY_KEY
          /\ \A i \in Places : i # p => table'.key[i] = table.key[i]
          /\ \A i \in Places : table.key[i] = k => i = p
        BY <1>2, <2>1, KeyType DEF Table, OnePlaceEach
    <2>3. Shows(table', k) = None /\ Lies(table', k) = NoPlace
        <3>1. \A i \in Places : table'.key[i] # k
            BY <2>2, KeyType
        <3> QED
            BY <1>2, <3>1, ShownAt, LiesAt
    <2>4. ASSUME NEW q \in Keys, q # k
          PROVE  Shows(table', q) = Shows(table, q) /\ Lies(table', q) = Lies(table, q)
        <3>1. \A i \in Places : (table'.key[i] = q) <=> (table.key[i] = q)
            BY <2>1, <2>2, <2>4, KeyType
        <3> QED
            BY <1>2, <2>1, <3>1, SameShown
    <2>5. View' = [View EXCEPT ![k] = None] /\ At' = [At EXCEPT ![k] = NoPlace]
        BY <2>3, <2>4, OneChanged
    <2>6. Len(table'.keys) = Len(table.keys) - 1
        <3>1. k \in Listed(table.keys)
            <4>1. k \in Occupied(table)
                BY <2>1, KeyType DEF Occupied
            <4> QED
                BY <1>1, <4>1 DEF HashmapInv
        <3>2. /\ IsFiniteSet(Listed(table.keys))
              /\ Cardinality(Listed(table.keys)) = Len(table.keys)
              /\ Cardinality(Listed(table'.keys)) = Len(table'.keys)
            BY <1>1, <1>2, <2>1, ListedLength
        <3> QED
            BY <2>1, <3>1, <3>2, FS_RemoveElement
    <2>7. k \in Dict!Present
        BY <2>1, Abstraction
    <2> QED
        BY <1>1, <2>5, <2>6, <2>7 DEF Dict!Remove
<1> QED
    BY <1>3, <1>4

LEMMA ClearRefines ==
    ASSUME HashmapInv, HashmapInv', Clear
    PROVE  Dict!Clear
<1>1. /\ table \in Table /\ OnePlaceEach(table) /\ Reachable(table)
      /\ OnePlaceEach(table') /\ Reachable(table')
    BY DEF HashmapInv, MapInv
<1> DEFINE cleared == 1 .. Len(table.keys)
<1>2. /\ table'.keys = << >> /\ table'.value = table.value
      /\ \A j \in Places : table'.key[j] = IF j \in cleared THEN EMPTY_KEY ELSE table.key[j]
      /\ call' = <<"clear">>
    BY <1>1, ClearEffect DEF Clear
<1>0. NoPlace \notin cleared
    <2>1. Len(table.keys) < HASH_MAX_SIZE /\ Len(table.keys) \in Nat
        BY <1>1, InvGivesTypeOK DEF TypeOK, Clear, Table
    <2> QED
        BY <2>1, HashAssumption DEF NoPlace
<1> HIDE DEF cleared
<1>3. ASSUME NEW k \in Keys
      PROVE  /\ Shows(table', k) = IF Lies(table, k) \in cleared THEN None ELSE Shows(table, k)
             /\ Lies(table', k) = IF Lies(table, k) \in cleared THEN NoPlace ELSE Lies(table, k)
    <2>1. CASE Lies(table, k) \in cleared
        <3>1. \A j \in Places : table.key[j] = k => j \in cleared
            BY <1>1, <2>1, LiesAt
        <3>2. \A j \in Places : table'.key[j] # k
            BY <1>2, <3>1, KeyType
        <3> QED
            BY <1>1, <2>1, <3>2, ShownAt, LiesAt
    <2>2. CASE Lies(table, k) \notin cleared
        <3>1. \A j \in Places : table.key[j] = k => j \notin cleared
            BY <1>1, <2>2, LiesAt
        <3>2. \A j \in Places : (table'.key[j] = k) <=> (table.key[j] = k)
            BY <1>2, <3>1, KeyType
        <3> QED
            BY <1>1, <1>2, <2>2, <3>2, SameShown
    <2> QED
        BY <2>1, <2>2
<1>4. /\ View' = [k \in Keys |-> IF At[k] \in cleared THEN None ELSE View[k]]
      /\ At' = [k \in Keys |-> IF At[k] \in cleared THEN NoPlace ELSE At[k]]
    BY <1>3, Abstraction, AbstractionNext
<1>5. Len(table'.keys) = 0
    BY <1>2
<1> QED
    BY <1>2, <1>4, <1>5 DEF Dict!Clear, cleared

LEMMA RefinesNext == HashmapInv /\ HashmapInv' /\ [Next]_vars => [Dict!Next]_(Dict!vars)
<1> SUFFICES ASSUME HashmapInv, HashmapInv', [Next]_vars
             PROVE  Dict!Next \/ UNCHANGED Dict!vars
    OBVIOUS
<1>1. ASSUME NEW k \in Keys, NEW v \in Values, Insert(k, v) PROVE Dict!Next
    BY <1>1, InsertRefines DEF Dict!Next
<1>2. ASSUME NEW v \in Values, Insert(EMPTY_KEY, v) PROVE Dict!Next
    BY <1>2, InsertNoKeyRefines DEF Dict!Next
<1>3. ASSUME NEW k \in Keys, NEW v \in Values, Assign(k, v) PROVE Dict!Next
    BY <1>3, AssignRefines DEF Dict!Next
<1>4. ASSUME NEW v \in Values, Assign(EMPTY_KEY, v) PROVE Dict!Next
    BY <1>4, AssignNoKeyRefines DEF Dict!Next
<1>5. ASSUME NEW k \in Keys, Remove(k) PROVE Dict!Next
    BY <1>5, RemoveRefines DEF Dict!Next
<1>6. CASE Clear
    BY <1>6, ClearRefines DEF Dict!Next
<1>7. CASE UNCHANGED vars
    BY <1>7, SameTable DEF vars, Dict!vars
<1> QED
    BY <1>1, <1>2, <1>3, <1>4, <1>5, <1>6, <1>7 DEF Next

\* Each call of the open addressing table, for each of the three ways the code uses one,
\* does to what get, contains and size show exactly what the dictionary's call of that
\* name does: no hole left in a probe sequence ever hides, doubles or changes a key.
THEOREM HashmapRefinesDictionary == Spec => ImplementsDictionary
<1>1. Spec => Dict!Init /\ [][Dict!Next]_(Dict!vars)
    BY RefinesInit, RefinesNext, InvAlways, PTL DEF Spec
<1> QED
    BY <1>1 DEF ImplementsDictionary, Dict!Spec
=============================================================================

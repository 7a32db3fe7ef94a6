----------------------------- MODULE IpNetProof -----------------------------
(***************************************************************************)
(* Theorems about IpNet, for any nodes, networks and packets, any size of  *)
(* the maps and of the lists of waiting packets: the types, in spite of a  *)
(* table that cannot hold all nodes, and that a packet is in one place;    *)
(* and, when the maps have room for all nodes, that findShortestPath finds *)
(* shortest paths, so that routes, backups and travel are what they should *)
(* be.                                                                     *)
(***************************************************************************)
EXTENDS IpNet, FiniteSetTheorems, SequenceTheorems, TLAPS

-----------------------------------------------------------------------------
(* Numbers *)

\* A set of naturals has a least element, and First is it.
LEMMA FirstIsLeast ==
    ASSUME NEW S \in SUBSET Nat, S # {}
    PROVE  First(S) \in S /\ \A j \in S : First(S) <= j
<1>1. IsWellFoundedOn(OpToRel(<, Nat), Nat)
    BY NatLessThanWellFounded
<1>2. \E x \in S : \A y \in S : ~(<<y, x>> \in OpToRel(<, Nat))
    BY <1>1, WFMin
<1>3. PICK x \in S : \A y \in S : ~(<<y, x>> \in OpToRel(<, Nat))
    BY <1>2
<1>4. \A y \in S : x <= y
    <2>1. ASSUME NEW y \in S, y < x PROVE <<y, x>> \in OpToRel(<, Nat)
        BY <2>1 DEF OpToRel
    <2>2. \A y \in S : x \in Nat /\ y \in Nat /\ ~(y < x)
        BY <1>3, <2>1
    <2> QED
        BY <2>2
<1> QED
    BY <1>4 DEF First

\* What holds of 0 and passes from each number to the next holds up to n.
LEMMA Climb ==
    ASSUME NEW n \in Nat, NEW Good, 0 \in Good,
           \A i \in 1 .. n : i - 1 \in Good => i \in Good
    PROVE  0 .. n \subseteq Good
<1> DEFINE Bad == {i \in 0 .. n : i \notin Good}
<1> SUFFICES ASSUME Bad # {} PROVE FALSE
    OBVIOUS
<1>1. Bad \in SUBSET Nat
    OBVIOUS
<1> DEFINE k == First(Bad)
<1>2. k \in Bad /\ \A j \in Bad : k <= j
    <2> HIDE DEF Bad
    <2> QED
        BY <1>1, FirstIsLeast
<1> HIDE DEF k
<1>3. k \in 1 .. n /\ k - 1 \in 0 .. n /\ ~(k <= k - 1)
    BY <1>2
<1>4. k - 1 \in Good
    BY <1>2, <1>3
<1> QED
    BY <1>2, <1>3, <1>4

\* The function that starts with base and goes on with step.
Recursion(r, n, S, base, step) ==
    /\ r \in [0 .. n -> S]
    /\ r[0] = base /\ \A i \in 1 .. n : r[i] = step[i][r[i - 1]]

\* A function that is computed step by step exists.
LEMMA RecursionExists ==
    ASSUME NEW n \in Nat, NEW S, NEW base \in S, NEW step \in [1 .. n -> [S -> S]]
    PROVE  \E r : Recursion(r, n, S, base, step)
<1> DEFINE Upto(k) == \E r \in [0 .. k -> S] :
                         r[0] = base /\ \A i \in 1 .. k : r[i] = step[i][r[i - 1]]
           Good == {k \in 0 .. n : Upto(k)}
<1>1. 0 \in Good
    <2> DEFINE r == [i \in 0 .. 0 |-> base]
    <2>1. r \in [0 .. 0 -> S] /\ r[0] = base /\ \A i \in 1 .. 0 : r[i] = step[i][r[i - 1]]
        OBVIOUS
    <2> HIDE DEF r
    <2> QED
        BY <2>1
<1>2. ASSUME NEW k \in 1 .. n, k - 1 \in Good PROVE k \in Good
    <2>1. PICK g \in [0 .. k - 1 -> S] :
              g[0] = base /\ \A i \in 1 .. k - 1 : g[i] = step[i][g[i - 1]]
        BY <1>2
    <2> DEFINE r == [i \in 0 .. k |-> IF i = k THEN step[k][g[k - 1]] ELSE g[i]]
    <2>2. /\ k \in Nat /\ k - 1 \in 0 .. k - 1 /\ k \in 0 .. n /\ k # 0
          /\ \A i \in 0 .. k : i # k => i \in 0 .. k - 1
          /\ \A i \in 1 .. k : i \in 0 .. k /\ i - 1 \in 0 .. k /\ i - 1 # k
                               /\ (i # k => i \in 1 .. k - 1)
        OBVIOUS
    <2>3. step[k][g[k - 1]] \in S
        BY <2>1, <2>2
    <2>4. r \in [0 .. k -> S]
        BY <2>1, <2>2, <2>3
    <2>5. \A i \in 0 .. k : r[i] = IF i = k THEN step[k][g[k - 1]] ELSE g[i]
        OBVIOUS
    <2> HIDE DEF r
    <2>6. r[0] = base
        BY <2>1, <2>2, <2>5
    <2>7. ASSUME NEW i \in 1 .. k PROVE r[i] = step[i][r[i - 1]]
        <3>1. r[i - 1] = g[i - 1]
            BY <2>2, <2>5
        <3>2. CASE i = k
            BY <2>2, <2>5, <3>1, <3>2
        <3>3. CASE i # k
            BY <2>1, <2>2, <2>5, <3>1, <3>3
        <3> QED
            BY <3>2, <3>3
    <2> QED
        BY <2>2, <2>4, <2>6, <2>7
<1> HIDE DEF Good
<1>3. 0 .. n \subseteq Good
    BY <1>1, <1>2, Climb
<1>4. n \in Good
    BY <1>3
<1> QED
    BY <1>4 DEF Good, Recursion

-----------------------------------------------------------------------------
(* Tables of routes *)

Pairs  == [node : Nat, weight : Nat, nextHop : Nat, backupNextHop : Nat, backupWeight : Nat]
Routes == [key   : [Places -> Nodes \cup {EMPTY_KEY}],
           value : [Places -> Pairs],
           keys  : Seq(Nodes)]
Maps   == [confirmed : Routes, tentative : Routes]

\* The places of a map are naturals, 0 one of them.
LEMMA PlacesType == Places \subseteq Nat /\ 0 \in Places
    BY HashAssumption DEF Places

\* No address of a node is the mark of an empty place.
LEMMA NodesType == \A n \in Nodes : n \in Nat /\ n # EMPTY_KEY
    BY IpAssumption

\* Every probe of a key is a place of the table.
LEMMA HashType ==
    ASSUME NEW k \in Nat, NEW i \in Nat
    PROVE  Hash(k, i) \in Places
<1>1. k % 13 \in Nat /\ 1 + (k % 11) \in Nat
    OBVIOUS
<1>2. \A a, b \in Nat : a * b \in Nat
    OBVIOUS
<1>3. (k % 13) + i * (1 + (k % 11)) \in Nat
    <2> DEFINE a == k % 13
               b == 1 + (k % 11)
    <2>1. a \in Nat /\ i * b \in Nat
        BY <1>1, <1>2
    <2> HIDE DEF a, b
    <2>2. a + i * b \in Nat
        BY <2>1
    <2> QED
        BY <2>2 DEF a, b
<1>4. \A x \in Nat : x % HASH_MAX_SIZE \in Places
    BY HashAssumption DEF Places
<1> QED
    BY <1>3, <1>4 DEF Hash

\* A search that ends ends at a place.
LEMMA EndsAtPlace ==
    ASSUME NEW t, NEW k \in Nat, NEW Stop, Ends(t, k, Stop) # {}
    PROVE  Hash(k, First(Ends(t, k, Stop))) \in Places
<1> DEFINE E == Ends(t, k, Stop)
<1>1. E \in SUBSET Nat /\ E \in SUBSET Places
    BY PlacesType DEF Ends
<1> HIDE DEF E
<1>2. First(E) \in E
    BY <1>1, FirstIsLeast DEF E
<1>3. First(E) \in Nat
    BY <1>1, <1>2
<1> QED
    BY <1>3, HashType DEF E

\* Where get looks is a place.
LEMMA PlaceType ==
    ASSUME NEW t, NEW k \in Nodes
    PROVE  Place(t, k) \in Places
<1>1. k \in Nat
    BY NodesType
<1>2. CASE HasKey(t, k)
    BY <1>1, <1>2, EndsAtPlace DEF Place, HasKey
<1>3. CASE ~HasKey(t, k)
    BY <1>3, PlacesType DEF Place
<1> QED
    BY <1>2, <1>3

\* What get returns is a pair.
LEMMA GetType ==
    ASSUME NEW t \in Routes, NEW k \in Nodes
    PROVE  Get(t, k) \in Pairs
    BY PlaceType DEF Get, Routes

\* A map with a pair in one of its places is a map.
LEMMA SetAtType ==
    ASSUME NEW t \in Routes, NEW k \in Nodes, NEW v \in Pairs
    PROVE  SetAt(t, k, v) \in Routes
<1>1. /\ Place(t, k) \in Places /\ t.key \in [Places -> Nodes \cup {EMPTY_KEY}]
      /\ t.value \in [Places -> Pairs] /\ t.keys \in Seq(Nodes)
      /\ t = [key |-> t.key, value |-> t.value, keys |-> t.keys]
    BY PlaceType DEF Routes
<1>2. SetAt(t, k, v) = [key |-> t.key, value |-> [t.value EXCEPT ![Place(t, k)] = v],
                        keys |-> t.keys]
    BY <1>1 DEF SetAt
<1>3. [t.value EXCEPT ![Place(t, k)] = v] \in [Places -> Pairs]
    BY <1>1
<1> QED
    BY <1>1, <1>2, <1>3 DEF Routes

\* insert leaves a map.
LEMMA InsertType ==
    ASSUME NEW t \in Routes, NEW k \in Nodes, NEW v \in Pairs
    PROVE  InsertKey(t, k, v) \in Routes
<1> DEFINE ends == Ends(t, k, {EMPTY_KEY, k})
           j    == Hash(k, First(ends))
<1>1. CASE ends = {}
    BY <1>1 DEF InsertKey
<1>2. CASE ends # {}
    <2>1. j \in Places
        BY <1>2, NodesType, EndsAtPlace
    <2>2. InsertKey(t, k, v) =
              [key   |-> [t.key EXCEPT ![j] = k], value |-> [t.value EXCEPT ![j] = v],
               keys  |-> IF t.key[j] = EMPTY_KEY THEN Append(t.keys, k) ELSE t.keys]
        BY <1>2, NodesType DEF InsertKey
    <2> HIDE DEF j
    <2>3. [t.key EXCEPT ![j] = k] \in [Places -> Nodes \cup {EMPTY_KEY}]
        BY <2>1 DEF Routes
    <2>4. [t.value EXCEPT ![j] = v] \in [Places -> Pairs]
        BY <2>1 DEF Routes
    <2>5. t.keys \in Seq(Nodes) /\ Append(t.keys, k) \in Seq(Nodes)
        BY DEF Routes
    <2> QED
        BY <2>2, <2>3, <2>4, <2>5 DEF Routes
<1> QED
    BY <1>1, <1>2

\* A list of nodes without one of them is a list of nodes.
LEMMA WithoutKeyType ==
    ASSUME NEW keys \in Seq(Nodes), NEW k
    PROVE  WithoutKey(keys, k) \in Seq(Nodes)
<1> DEFINE found == {i \in 1 .. Len(keys) : keys[i] = k}
           f == First(found)
           s == SubSeq(keys, 1, f - 1)
           u == SubSeq(keys, f + 1, Len(keys))
<1>1. CASE found = {}
    BY <1>1 DEF WithoutKey
<1>2. CASE found # {}
    <2>1. found \in SUBSET Nat
        OBVIOUS
    <2>2. f \in found
        <3> HIDE DEF found
        <3> QED
            BY <1>2, <2>1, FirstIsLeast
    <2>3. f \in 1 .. Len(keys) /\ Len(keys) \in Nat
        BY <2>2
    <2>4. WithoutKey(keys, k) = s \o u
        BY <1>2 DEF WithoutKey
    <2> HIDE DEF f
    <2>5. s \in Seq(Nodes)
        <3>1. \A i \in 1 .. f - 1 : keys[i] \in Nodes
            BY <2>3, ElementOfSeq
        <3> QED
            BY <2>3, <3>1, SubSeqProperties
    <2>6. u \in Seq(Nodes)
        <3>1. \A i \in f + 1 .. Len(keys) : keys[i] \in Nodes
            BY <2>3, ElementOfSeq
        <3> QED
            BY <2>3, <3>1, SubSeqProperties
    <2> QED
        BY <2>4, <2>5, <2>6, ConcatProperties
<1> QED
    BY <1>1, <1>2

\* remove leaves a map.
LEMMA RemoveType ==
    ASSUME NEW t \in Routes, NEW k \in Nodes
    PROVE  RemoveKey(t, k) \in Routes
<1> DEFINE w == WithoutKey(t.keys, k)
<1>1. CASE ~HasKey(t, k)
    BY <1>1 DEF RemoveKey
<1>2. CASE HasKey(t, k)
    <2>1. w \in Seq(Nodes)
        BY WithoutKeyType DEF Routes
    <2>2. /\ Place(t, k) \in Places /\ t.key \in [Places -> Nodes \cup {EMPTY_KEY}]
          /\ t.value \in [Places -> Pairs]
          /\ t = [key |-> t.key, value |-> t.value, keys |-> t.keys]
        BY PlaceType DEF Routes
    <2>3. RemoveKey(t, k) = [t EXCEPT !.key[Place(t, k)] = EMPTY_KEY, !.keys = w]
        BY <1>2 DEF RemoveKey
    <2> HIDE DEF w
    <2>4. RemoveKey(t, k) = [key |-> [t.key EXCEPT ![Place(t, k)] = EMPTY_KEY],
                             value |-> t.value, keys |-> w]
        BY <2>2, <2>3
    <2>5. [t.key EXCEPT ![Place(t, k)] = EMPTY_KEY] \in [Places -> Nodes \cup {EMPTY_KEY}]
        BY <2>2
    <2> QED
        BY <2>1, <2>2, <2>4, <2>5 DEF Routes
<1> QED
    BY <1>1, <1>2

\* clear leaves a map.
LEMMA ClearType ==
    ASSUME NEW t \in Routes
    PROVE  ClearTable(t) \in Routes
<1> DEFINE key == [j \in Places |-> IF j \in 1 .. Len(t.keys) THEN EMPTY_KEY ELSE t.key[j]]
<1>1. key \in [Places -> Nodes \cup {EMPTY_KEY}]
    BY DEF Routes
<1>2. t.value \in [Places -> Pairs] /\ << >> \in Seq(Nodes)
    BY DEF Routes
<1>3. ClearTable(t) = [t EXCEPT !.key = key, !.keys = << >>]
    BY DEF ClearTable
<1>4. t = [key |-> t.key, value |-> t.value, keys |-> t.keys]
    BY DEF Routes
<1> HIDE DEF key
<1>5. ClearTable(t) = [key |-> key, value |-> t.value, keys |-> << >>]
    BY <1>3, <1>4
<1> QED
    BY <1>1, <1>2, <1>5 DEF Routes

\* The map at boot.
LEMMA NoRoutesType == NoRoutes \in Routes
<1>1. NoPair \in Pairs
    BY DEF NoPair, Pairs
<1>2. << >> \in Seq(Nodes)
    OBVIOUS
<1> QED
    BY <1>1, <1>2 DEF NoRoutes, EmptyTable, Routes

-----------------------------------------------------------------------------
(* The computation *)

\* The key that is taken next has the smallest weight.
LEMMA SmallestIs ==
    ASSUME NEW t \in Routes, t.keys # << >>
    PROVE  \E i \in 1 .. Len(t.keys) :
              /\ FindSmallestWeight(t) = t.keys[i]
              /\ \A j \in 1 .. Len(t.keys) : Get(t, t.keys[i]).weight <= Get(t, t.keys[j]).weight
<1> DEFINE weight(i) == Get(t, t.keys[i]).weight
           n == Len(t.keys)
           best == {i \in 1 .. n : \A j \in 1 .. n : weight(i) <= weight(j)}
<1>1. n \in Nat /\ DOMAIN t.keys = 1 .. n /\ 1 \in 1 .. n /\ \A i \in 1 .. n : t.keys[i] \in Nodes
    BY ElementOfSeq, LenProperties, EmptySeq DEF Routes
<1>2. \A i \in 1 .. n : weight(i) \in Nat
    BY <1>1, GetType DEF Pairs
<1> HIDE DEF n
<1>3. FindSmallestWeight(t) = t.keys[First(best)]
    BY <1>1 DEF FindSmallestWeight
<1>4. best # {}
    <2> DEFINE W == {weight(i) : i \in 1 .. n}
    <2>1. W \in SUBSET Nat /\ W # {}
        BY <1>1, <1>2
    <2> HIDE DEF W
    <2>2. First(W) \in W /\ \A w \in W : First(W) <= w
        BY <2>1, FirstIsLeast
    <2>3. PICK i \in 1 .. n : weight(i) = First(W)
        BY <2>2 DEF W
    <2>4. \A j \in 1 .. n : weight(j) \in W
        BY DEF W
    <2> QED
        BY <2>2, <2>3, <2>4
<1>5. best \in SUBSET Nat /\ \A i \in best : i \in 1 .. n /\ \A j \in 1 .. n : weight(i) <= weight(j)
    BY <1>1
<1> HIDE DEF best
<1>6. First(best) \in best
    BY <1>4, <1>5, FirstIsLeast
<1> QED
    BY <1>3, <1>5, <1>6 DEF n

\* findSmallestWeight returns a node when one is listed.
LEMMA SmallestType ==
    ASSUME NEW t \in Routes, t.keys # << >>
    PROVE  FindSmallestWeight(t) \in Nodes
    BY SmallestIs, ElementOfSeq DEF Routes

\* The fields of a pair, and the pairs that differ in one.
LEMMA PairTypes ==
    /\ \A x, w, h \in Nat : Pair(x, w, h) \in Pairs
    /\ \A v \in Pairs : v.weight \in Nat /\ v.nextHop \in Nat /\ v.backupWeight \in Nat
    /\ \A v \in Pairs : \A h, w \in Nat : WithBackup(v, h, w) \in Pairs
<1>1. INFINITE \in Nat
    BY DEF INFINITE
<1> QED
    BY <1>1 DEF Pair, Pairs, WithBackup

\* Looking at one neighbor gives tables again.
LEMMA RelaxType ==
    ASSUME NEW maps \in Maps, NEW me \in Nodes, NEW curr \in Nodes, NEW hop \in Nat,
           NEW x \in Nodes
    PROVE  Relax(maps, me, curr, hop, x) \in Maps
<1> DEFINE c == maps.confirmed
           t == maps.tentative
           new  == Pair(x, Get(c, curr).weight + 1, IF curr = me THEN x ELSE hop)
           done == Get(c, x)
           seen == Get(t, x)
           back == IF seen.nextHop # new.nextHop
                   THEN WithBackup(new, seen.nextHop, seen.weight) ELSE new
           r == Relax(maps, me, curr, hop, x)
<1>1. c \in Routes /\ t \in Routes /\ maps = [confirmed |-> c, tentative |-> t]
    BY DEF Maps
<1>2. done \in Pairs /\ seen \in Pairs /\ Get(c, curr) \in Pairs
    BY <1>1, GetType
<1>3. new \in Pairs
    <2>1. x \in Nat /\ (IF curr = me THEN x ELSE hop) \in Nat
        BY NodesType
    <2>2. Get(c, curr).weight \in Nat
        BY <1>2, PairTypes
    <2>3. Get(c, curr).weight + 1 \in Nat
        BY <2>2
    <2> QED
        BY <2>1, <2>3, PairTypes
<1> HIDE DEF new, done, seen
<1>4. back \in Pairs
    BY <1>2, <1>3, PairTypes
<1>5. WithBackup(done, new.nextHop, new.weight) \in Pairs
      /\ WithBackup(seen, new.nextHop, new.weight) \in Pairs
    BY <1>2, <1>3, PairTypes
<1>6. \/ r = maps
      \/ r = [maps EXCEPT !.confirmed = SetAt(c, x, WithBackup(done, new.nextHop, new.weight))]
      \/ r = [maps EXCEPT !.tentative = InsertKey(t, x, new)]
      \/ r = [maps EXCEPT !.tentative = InsertKey(RemoveKey(t, curr), x, back)]
      \/ r = [maps EXCEPT !.tentative = SetAt(t, x, WithBackup(seen, new.nextHop, new.weight))]
    BY DEF Relax, new, done, seen
<1> HIDE DEF c, t, back, r
<1>7. \A v \in Routes : [maps EXCEPT !.confirmed = v] \in Maps /\ [maps EXCEPT !.tentative = v] \in Maps
    BY DEF Maps
<1>8. SetAt(c, x, WithBackup(done, new.nextHop, new.weight)) \in Routes
      /\ SetAt(t, x, WithBackup(seen, new.nextHop, new.weight)) \in Routes
    BY <1>1, <1>5, SetAtType
<1>9. InsertKey(t, x, new) \in Routes /\ InsertKey(RemoveKey(t, curr), x, back) \in Routes
    BY <1>1, <1>3, <1>4, InsertType, RemoveType
<1>10. r \in Maps
    BY <1>6, <1>7, <1>8, <1>9
<1> QED
    BY <1>10 DEF r

\* The rows a table is computed from.
Rows == [Nodes -> Seq(Nodes)]

\* What is in the maps after each neighbor in an iteration.
LoopRun(maps, me, rws, run) ==
    LET curr == FindSmallestWeight(maps.tentative)
        pair == Get(maps.tentative, curr)
        row  == rws[curr]
    IN  /\ run \in [0 .. Len(row) -> Maps]
        /\ run[0] = [confirmed |-> InsertKey(maps.confirmed, curr, pair),
                     tentative |-> RemoveKey(maps.tentative, curr)]
        /\ \A i \in 1 .. Len(row) : run[i] = Relax(run[i - 1], me, curr, pair.nextHop, row[i])
        /\ DijkstraLoop(maps, me, rws) = run[Len(row)]

\* The loop over the neighbors is what its steps make of the maps.
LEMMA LoopRuns ==
    ASSUME NEW maps \in Maps, NEW me \in Nodes, NEW rws \in Rows, maps.tentative.keys # << >>
    PROVE  \E run : LoopRun(maps, me, rws, run)
<1> DEFINE curr  == FindSmallestWeight(maps.tentative)
           pair  == Get(maps.tentative, curr)
           moved == [confirmed |-> InsertKey(maps.confirmed, curr, pair),
                     tentative |-> RemoveKey(maps.tentative, curr)]
           row   == rws[curr]
           n     == Len(row)
           IsRun(r) == r = [i \in 0 .. n |->
                              IF i = 0 THEN moved
                              ELSE Relax(r[i - 1], me, curr, pair.nextHop, row[i])]
           run   == CHOOSE r : IsRun(r)
<1>1. maps.confirmed \in Routes /\ maps.tentative \in Routes
    BY DEF Maps
<1>2. curr \in Nodes
    BY <1>1, SmallestType
<1>3. DijkstraLoop(maps, me, rws) = run[n]
    BY DEF DijkstraLoop
<1> HIDE DEF curr
<1>4. pair \in Pairs /\ pair.nextHop \in Nat
    BY <1>1, <1>2, GetType, PairTypes
<1>5. moved \in Maps
    BY <1>1, <1>2, <1>4, InsertType, RemoveType DEF Maps
<1>6. n \in Nat /\ \A i \in 1 .. n : row[i] \in Nodes
    BY <1>2, ElementOfSeq, LenProperties DEF Rows
<1> HIDE DEF pair, moved, row, n
<1>7. ASSUME NEW m \in Maps, NEW i \in 1 .. n
      PROVE  Relax(m, me, curr, pair.nextHop, row[i]) \in Maps
    BY <1>2, <1>4, <1>6, RelaxType
<1> DEFINE step == [i \in 1 .. n |->
                       [m \in Maps |-> Relax(m, me, curr, pair.nextHop, row[i])]]
<1>8. step \in [1 .. n -> [Maps -> Maps]]
    BY <1>7
<1>9. \A i \in 1 .. n, m \in Maps : step[i][m] = Relax(m, me, curr, pair.nextHop, row[i])
    OBVIOUS
<1> HIDE DEF step
<1>10. PICK g \in [0 .. n -> Maps] : g[0] = moved /\ \A i \in 1 .. n : g[i] = step[i][g[i - 1]]
    <2>1. \E r : Recursion(r, n, Maps, moved, step)
        BY <1>5, <1>6, <1>8, RecursionExists
    <2> QED
        BY <2>1 DEF Recursion
<1>11. \A i \in 1 .. n : /\ i \in 0 .. n /\ i - 1 \in 0 .. n /\ i # 0
                         /\ g[i] = Relax(g[i - 1], me, curr, pair.nextHop, row[i])
    <2>1. \A i \in 1 .. n : i \in 0 .. n /\ i - 1 \in 0 .. n /\ i # 0
        BY <1>6
    <2> QED
        BY <1>9, <1>10, <2>1
<1>12. \A i \in 0 .. n : i # 0 => i \in 1 .. n
    BY <1>6
<1>13. IsRun(g)
    BY <1>10, <1>11, <1>12
<1>14. IsRun(run)
    BY <1>13
<1> HIDE DEF run
<1> DEFINE Good == {i \in 0 .. n : run[i] \in Maps}
<1>15. 0 \in Good
    BY <1>5, <1>6, <1>14
<1>16. ASSUME NEW i \in 1 .. n, i - 1 \in Good PROVE i \in Good
    <2>1. run[i] = Relax(run[i - 1], me, curr, pair.nextHop, row[i])
        BY <1>11, <1>14
    <2> QED
        BY <1>7, <1>11, <1>16, <2>1
<1> HIDE DEF Good
<1>17. 0 .. n \subseteq Good
    BY <1>6, <1>15, <1>16, Climb
<1>18. run \in [0 .. n -> Maps]
    <2>1. run = [i \in 0 .. n |-> run[i]]
        BY <1>14
    <2> QED
        BY <1>17, <2>1 DEF Good
<1>19. LoopRun(maps, me, rws, run)
    <2>1. run[0] = moved
        BY <1>6, <1>14
    <2>2. \A i \in 1 .. n : run[i] = Relax(run[i - 1], me, curr, pair.nextHop, row[i])
        BY <1>11, <1>14
    <2> QED
        BY <1>3, <1>18, <2>1, <2>2 DEF LoopRun, curr, pair, moved, row, n
<1> QED
    BY <1>19

Once(m, me, rws) == IF m.tentative.keys = << >> THEN m ELSE DijkstraLoop(m, me, rws)

\* An iteration leaves two maps.
LEMMA OnceType ==
    ASSUME NEW m \in Maps, NEW me \in Nodes, NEW rws \in Rows
    PROVE  Once(m, me, rws) \in Maps
<1>1. CASE m.tentative.keys = << >>
    BY <1>1 DEF Once
<1>2. CASE m.tentative.keys # << >>
    <2> DEFINE n == Len(rws[FindSmallestWeight(m.tentative)])
    <2>1. PICK run : LoopRun(m, me, rws, run)
        BY <1>2, LoopRuns
    <2>2. run \in [0 .. n -> Maps] /\ DijkstraLoop(m, me, rws) = run[n]
        BY <2>1 DEF LoopRun
    <2>3. n \in Nat
        <3>1. rws[FindSmallestWeight(m.tentative)] \in Seq(Nodes)
            BY <1>2, SmallestType DEF Maps, Rows
        <3> QED
            BY <3>1, LenProperties
    <2> QED
        BY <1>2, <2>2, <2>3 DEF Once
<1> QED
    BY <1>1, <1>2

\* What is in the maps after each iteration.
ShortestRun(before, me, rws, run) ==
    /\ run \in [0 .. HASH_MAX_SIZE -> Maps]
    /\ run[0] = [confirmed |-> before, tentative |-> InsertKey(NoRoutes, me, Pair(me, 0, me))]
    /\ \A i \in 1 .. HASH_MAX_SIZE : run[i] = Once(run[i - 1], me, rws)
    /\ FindShortestPath(before, me, rws) = run[HASH_MAX_SIZE].confirmed

\* The computation is what its iterations make of the maps.
LEMMA ShortestRuns ==
    ASSUME NEW before \in Routes, NEW me \in Nodes, NEW rws \in Rows
    PROVE  \E run : ShortestRun(before, me, rws, run)
<1> DEFINE start == [confirmed |-> before,
                     tentative |-> InsertKey(NoRoutes, me, Pair(me, 0, me))]
           n == HASH_MAX_SIZE
           IsRun(r) == r = [i \in 0 .. n |-> IF i = 0 THEN start ELSE Once(r[i - 1], me, rws)]
           run == CHOOSE r : IsRun(r)
<1>1. FindShortestPath(before, me, rws) = run[n].confirmed
    BY DEF FindShortestPath, Once
<1>2. start \in Maps
    <2>1. Pair(me, 0, me) \in Pairs
        BY NodesType, PairTypes
    <2>2. InsertKey(NoRoutes, me, Pair(me, 0, me)) \in Routes
        BY <2>1, NoRoutesType, InsertType
    <2> QED
        BY <2>2 DEF Maps
<1>3. n \in Nat
    BY HashAssumption
<1>4. ASSUME NEW m \in Maps PROVE Once(m, me, rws) \in Maps
    BY OnceType
<1> HIDE DEF start, n
<1> DEFINE step == [i \in 1 .. n |-> [m \in Maps |-> Once(m, me, rws)]]
<1>5. step \in [1 .. n -> [Maps -> Maps]]
    BY <1>4
<1>6. \A i \in 1 .. n, m \in Maps : step[i][m] = Once(m, me, rws)
    OBVIOUS
<1> HIDE DEF step
<1>7. PICK g \in [0 .. n -> Maps] : g[0] = start /\ \A i \in 1 .. n : g[i] = step[i][g[i - 1]]
    <2>1. \E r : Recursion(r, n, Maps, start, step)
        BY <1>2, <1>3, <1>5, RecursionExists
    <2> QED
        BY <2>1 DEF Recursion
<1>8. \A i \in 1 .. n : /\ i \in 0 .. n /\ i - 1 \in 0 .. n /\ i # 0
                        /\ g[i] = Once(g[i - 1], me, rws)
    <2>1. \A i \in 1 .. n : i \in 0 .. n /\ i - 1 \in 0 .. n /\ i # 0
        BY <1>3
    <2> QED
        BY <1>6, <1>7, <2>1
<1>9. \A i \in 0 .. n : i # 0 => i \in 1 .. n
    BY <1>3
<1>10. IsRun(g)
    BY <1>7, <1>8, <1>9
<1>11. IsRun(run)
    BY <1>10
<1> HIDE DEF run
<1> DEFINE Good == {i \in 0 .. n : run[i] \in Maps}
<1>12. 0 \in Good
    BY <1>2, <1>3, <1>11
<1>13. ASSUME NEW i \in 1 .. n, i - 1 \in Good PROVE i \in Good
    <2>1. run[i] = Once(run[i - 1], me, rws)
        BY <1>8, <1>11
    <2> QED
        BY <1>4, <1>8, <1>13, <2>1
<1> HIDE DEF Good
<1>14. 0 .. n \subseteq Good
    BY <1>3, <1>12, <1>13, Climb
<1>15. run \in [0 .. n -> Maps]
    <2>1. run = [i \in 0 .. n |-> run[i]]
        BY <1>11
    <2> QED
        BY <1>14, <2>1 DEF Good
<1>16. ShortestRun(before, me, rws, run)
    <2>1. run[0] = start
        BY <1>3, <1>11
    <2>2. \A i \in 1 .. n : run[i] = Once(run[i - 1], me, rws)
        BY <1>8, <1>11
    <2> QED
        BY <1>1, <1>15, <2>1, <2>2 DEF ShortestRun, start, n
<1> QED
    BY <1>16

\* findShortestPath leaves a map, whatever it starts from.
LEMMA ShortestType ==
    ASSUME NEW before \in Routes, NEW me \in Nodes, NEW rws \in Rows
    PROVE  FindShortestPath(before, me, rws) \in Routes
<1>1. PICK run : ShortestRun(before, me, rws, run)
    BY ShortestRuns
<1>2. run[HASH_MAX_SIZE] \in Maps
    BY <1>1, HashAssumption DEF ShortestRun
<1> QED
    BY <1>1, <1>2 DEF ShortestRun, Maps

-----------------------------------------------------------------------------
(* Distances *)

\* The nodes a link from B leads to.
Around(r, B) == {b \in Nodes : \E c \in B : Linked(r, c, b)}

\* The balls around a up to radius d.
Balls(r, a, d, ball) ==
    /\ ball \in [0 .. d -> SUBSET Nodes]
    /\ ball[0] = {a} /\ \A i \in 1 .. d : ball[i] = ball[i - 1] \cup Around(r, ball[i - 1])

\* Within is computed ball by ball.
LEMMA BallsExist ==
    ASSUME NEW r \in Rows, NEW a \in Nodes, NEW d \in Nat
    PROVE  \E ball : Balls(r, a, d, ball) /\ Within(r, a, d) = ball[d]
<1> DEFINE IsRun(b) == b = [i \in 0 .. d |->
                              IF i = 0 THEN {a}
                              ELSE b[i - 1] \cup
                                   {x \in DOMAIN r : \E c \in b[i - 1] : Linked(r, c, x)}]
           run == CHOOSE b : IsRun(b)
<1>1. Within(r, a, d) = run[d]
    BY DEF Within
<1>2. DOMAIN r = Nodes
    BY DEF Rows
<1> DEFINE step == [i \in 1 .. d |-> [B \in SUBSET Nodes |-> B \cup Around(r, B)]]
<1>3. step \in [1 .. d -> [SUBSET Nodes -> SUBSET Nodes]]
    BY DEF Around
<1>4. \A i \in 1 .. d, B \in SUBSET Nodes : step[i][B] = B \cup Around(r, B)
    OBVIOUS
<1> HIDE DEF step
<1>5. PICK g \in [0 .. d -> SUBSET Nodes] : g[0] = {a} /\ \A i \in 1 .. d : g[i] = step[i][g[i - 1]]
    <2>1. \E q : Recursion(q, d, SUBSET Nodes, {a}, step)
        BY <1>3, RecursionExists
    <2> QED
        BY <2>1 DEF Recursion
<1>6. \A i \in 1 .. d : /\ i \in 0 .. d /\ i - 1 \in 0 .. d /\ i # 0
    OBVIOUS
<1>7. \A i \in 1 .. d : g[i] = g[i - 1] \cup Around(r, g[i - 1])
    BY <1>4, <1>5, <1>6
<1>8. \A i \in 0 .. d : i # 0 => i \in 1 .. d
    OBVIOUS
<1>9. IsRun(g)
    <2>1. \A i \in 0 .. d : g[i] =
              IF i = 0 THEN {a} ELSE g[i - 1] \cup {x \in DOMAIN r : \E c \in g[i - 1] : Linked(r, c, x)}
        BY <1>2, <1>5, <1>7, <1>8 DEF Around
    <2> QED
        BY <1>5, <2>1
<1>10. IsRun(run)
    BY <1>9
<1> HIDE DEF run
<1>11. run[0] = {a} /\ \A i \in 1 .. d : run[i] = run[i - 1] \cup Around(r, run[i - 1])
    <2>1. run[0] = {a}
        BY <1>10
    <2>2. ASSUME NEW i \in 1 .. d PROVE run[i] = run[i - 1] \cup Around(r, run[i - 1])
        <3>1. run[i] = run[i - 1] \cup {x \in DOMAIN r : \E c \in run[i - 1] : Linked(r, c, x)}
            BY <1>6, <1>10
        <3> QED
            BY <1>2, <3>1 DEF Around
    <2> QED
        BY <2>1, <2>2
<1> DEFINE Good == {i \in 0 .. d : run[i] = g[i]}
<1>12. 0 \in Good
    <2>1. 0 \in 0 .. d /\ run[0] = g[0]
        BY <1>5, <1>11
    <2> QED
        BY <2>1
<1>13. \A i \in 1 .. d : i - 1 \in Good => i \in Good
    BY <1>6, <1>7, <1>11
<1> HIDE DEF Good
<1>14. d \in Good
    <2>1. 0 .. d \subseteq Good
        BY <1>12, <1>13, Climb
    <2> QED
        BY <2>1
<1>15. run[d] = g[d]
    BY <1>14 DEF Good
<1> QED
    BY <1>1, <1>5, <1>7, <1>15 DEF Balls

\* The ball of radius 0, and the next one.
LEMMA WithinBalls ==
    ASSUME NEW r \in Rows, NEW a \in Nodes
    PROVE  /\ Within(r, a, 0) = {a}
           /\ \A d \in Nat : Within(r, a, d) \subseteq Nodes
           /\ \A d \in Nat : Within(r, a, d + 1) = Within(r, a, d) \cup Around(r, Within(r, a, d))
<1>1. Within(r, a, 0) = {a}
    <2>1. PICK b : Balls(r, a, 0, b) /\ Within(r, a, 0) = b[0]
        BY BallsExist
    <2> QED
        BY <2>1 DEF Balls
<1>2. \A d \in Nat : Within(r, a, d) \subseteq Nodes
    <2> TAKE d \in Nat
    <2>1. PICK b : Balls(r, a, d, b) /\ Within(r, a, d) = b[d]
        BY BallsExist
    <2> QED
        BY <2>1 DEF Balls
<1>3. ASSUME NEW d \in Nat
      PROVE  Within(r, a, d + 1) = Within(r, a, d) \cup Around(r, Within(r, a, d))
    <2>0. d + 1 \in Nat
        OBVIOUS
    <2>1. PICK g : Balls(r, a, d, g) /\ Within(r, a, d) = g[d]
        BY BallsExist
    <2>2. PICK h : Balls(r, a, d + 1, h) /\ Within(r, a, d + 1) = h[d + 1]
        BY <2>0, BallsExist
    <2> DEFINE Good == {i \in 0 .. d : h[i] = g[i]}
    <2>3. 0 \in Good
        <3>1. 0 \in 0 .. d /\ h[0] = g[0]
            BY <2>1, <2>2 DEF Balls
        <3> QED
            BY <3>1
    <2>4. \A i \in 1 .. d : i - 1 \in Good => i \in Good
        <3>1. \A i \in 1 .. d : i \in 0 .. d /\ i \in 1 .. d + 1
            OBVIOUS
        <3> QED
            BY <2>1, <2>2, <3>1 DEF Balls
    <2> HIDE DEF Good
    <2>5. d \in Good
        <3>1. 0 .. d \subseteq Good
            BY <2>3, <2>4, Climb
        <3> QED
            BY <3>1
    <2>6. h[d] = g[d]
        BY <2>5 DEF Good
    <2>7. d + 1 \in 1 .. d + 1 /\ d + 1 - 1 = d
        OBVIOUS
    <2> QED
        BY <2>1, <2>2, <2>6, <2>7 DEF Balls
<1> QED
    BY <1>1, <1>2, <1>3

\* A larger ball holds a smaller one.
LEMMA WithinGrows ==
    ASSUME NEW r \in Rows, NEW a \in Nodes, NEW d \in Nat, NEW e \in Nat, d <= e
    PROVE  Within(r, a, d) \subseteq Within(r, a, e)
<1> DEFINE Good == {k \in 0 .. e : d <= k => Within(r, a, d) \subseteq Within(r, a, k)}
<1>1. 0 \in Good
    <2>1. d <= 0 => d = 0
        OBVIOUS
    <2> QED
        BY <2>1
<1>2. ASSUME NEW k \in 1 .. e, k - 1 \in Good PROVE k \in Good
    <2>1. k - 1 \in Nat /\ k = (k - 1) + 1 /\ k \in 0 .. e
        OBVIOUS
    <2>2. Within(r, a, k - 1) \subseteq Within(r, a, k)
        BY <2>1, WithinBalls
    <2>3. CASE d <= k - 1
        BY <1>2, <2>1, <2>2, <2>3
    <2>4. CASE ~(d <= k - 1)
        <3>1. d <= k => d = k
            BY <2>4
        <3> QED
            BY <2>1, <3>1
    <2> QED
        BY <2>3, <2>4
<1> HIDE DEF Good
<1>3. e \in Good
    <2>1. 0 .. e \subseteq Good
        BY <1>1, <1>2, Climb
    <2> QED
        BY <2>1
<1> QED
    BY <1>3 DEF Good

\* What is near a neighbor is one link farther from the node itself.
LEMMA WithinThrough ==
    ASSUME NEW r \in Rows, NEW a \in Nodes, NEW h \in Nodes, Linked(r, a, h), NEW d \in Nat
    PROVE  Within(r, h, d) \subseteq Within(r, a, d + 1)
<1> DEFINE Good == {k \in 0 .. d : Within(r, h, k) \subseteq Within(r, a, k + 1)}
<1>1. 0 \in Good
    <2>1. Within(r, a, 0) = {a} /\ Within(r, a, 0 + 1) = Within(r, a, 0) \cup Around(r, Within(r, a, 0))
        BY WithinBalls
    <2>2. Within(r, h, 0) = {h}
        BY WithinBalls
    <2> QED
        BY <2>1, <2>2 DEF Around
<1>2. ASSUME NEW k \in 1 .. d, k - 1 \in Good PROVE k \in Good
    <2>1. k - 1 \in Nat /\ k = (k - 1) + 1 /\ k \in 0 .. d /\ k \in Nat
        OBVIOUS
    <2>2. Within(r, h, k) = Within(r, h, k - 1) \cup Around(r, Within(r, h, k - 1))
        BY <2>1, WithinBalls
    <2>3. Within(r, a, k + 1) = Within(r, a, k) \cup Around(r, Within(r, a, k))
        BY <2>1, WithinBalls
    <2>4. Within(r, h, k - 1) \subseteq Within(r, a, k)
        BY <1>2, <2>1
    <2> QED
        BY <2>1, <2>2, <2>3, <2>4 DEF Around
<1> HIDE DEF Good
<1>3. d \in Good
    <2>1. 0 .. d \subseteq Good
        BY <1>1, <1>2, Climb
    <2> QED
        BY <2>1
<1> QED
    BY <1>3 DEF Good

\* Dist is the radius of the least ball that holds the node.
LEMMA DistIs ==
    ASSUME NEW r \in Rows, NEW a \in Nodes, NEW b, NEW d \in 0 .. HASH_MAX_SIZE,
           b \in Within(r, a, d), d > 0 => b \notin Within(r, a, d - 1)
    PROVE  Dist(r, a, b) = d
<1> DEFINE Is(e) == b \in Within(r, a, e) /\ (e > 0 => b \notin Within(r, a, e - 1))
<1>1. ASSUME NEW e \in 0 .. HASH_MAX_SIZE, Is(e) PROVE e = d
    <2>0. HASH_MAX_SIZE \in Nat /\ d \in Nat /\ e \in Nat
        BY HashAssumption
    <2>1. ASSUME d < e PROVE FALSE
        <3>1. e > 0 /\ e - 1 \in Nat /\ d <= e - 1
            BY <2>0, <2>1
        <3> QED
            BY <1>1, <2>0, <3>1, WithinGrows
    <2>2. ASSUME e < d PROVE FALSE
        <3>1. d > 0 /\ d - 1 \in Nat /\ e <= d - 1
            BY <2>0, <2>2
        <3> QED
            BY <1>1, <2>0, <3>1, WithinGrows
    <2> QED
        BY <2>0, <2>1, <2>2
<1>2. Is(d)
    OBVIOUS
<1>3. Dist(r, a, b) = CHOOSE e \in 0 .. HASH_MAX_SIZE : Is(e)
    BY DEF Dist
<1> HIDE DEF Is
<1> QED
    BY <1>1, <1>2, <1>3

\* The distance is the radius of the first ball a node is in.
LEMMA DistLeast ==
    ASSUME NEW r \in Rows, NEW a \in Nodes, NEW d \in 0 .. HASH_MAX_SIZE, NEW b \in Within(r, a, d)
    PROVE  /\ Dist(r, a, b) \in 0 .. d
           /\ b \in Within(r, a, Dist(r, a, b))
           /\ Dist(r, a, b) > 0 => b \notin Within(r, a, Dist(r, a, b) - 1)
<1> DEFINE S == {e \in 0 .. d : b \in Within(r, a, e)}
           f == First(S)
<1>0. HASH_MAX_SIZE \in Nat /\ d \in Nat
    BY HashAssumption
<1>1. S \in SUBSET Nat /\ S # {}
    BY <1>0
<1>2. f \in S /\ \A e \in S : f <= e
    <2> HIDE DEF S
    <2> QED
        BY <1>1, FirstIsLeast
<1> HIDE DEF f
<1>3. f \in 0 .. d /\ f \in 0 .. HASH_MAX_SIZE /\ b \in Within(r, a, f)
    BY <1>0, <1>2
<1>4. ASSUME f > 0 PROVE b \notin Within(r, a, f - 1)
    <2>1. f - 1 \in 0 .. d /\ ~(f <= f - 1)
        BY <1>0, <1>3, <1>4
    <2> QED
        BY <1>2, <2>1
<1>5. Dist(r, a, b) = f
    BY <1>3, <1>4, DistIs
<1> QED
    BY <1>3, <1>4, <1>5

\* The levels of a search are distances.
LEMMA Levels ==
    ASSUME NEW r \in Rows, NEW a \in Nodes, NEW C \in SUBSET Nodes,
           NEW w \in [C -> 0 .. HASH_MAX_SIZE], a \in C, w[a] = 0,
           \A x \in C : x # a => \E c \in C : Linked(r, c, x) /\ w[x] = w[c] + 1,
           \A c \in C, x \in Nodes : Linked(r, c, x) => x \in C /\ w[x] <= w[c] + 1
    PROVE  /\ C = Reached(r, a)
           /\ \A x \in C : Dist(r, a, x) = w[x]
           /\ \A x \in C, d \in Nat : x \in Within(r, a, d) => w[x] <= d
<1>0. HASH_MAX_SIZE \in Nat /\ \A x \in C : w[x] \in Nat /\ w[x] <= HASH_MAX_SIZE
    BY HashAssumption
<1>1. ASSUME NEW n \in Nat PROVE Within(r, a, n) = {x \in C : w[x] <= n}
    <2> DEFINE Ball(d) == {x \in C : w[x] <= d}
               Good == {d \in 0 .. n : Within(r, a, d) = Ball(d)}
    <2>1. 0 \in Good
        <3>1. Ball(0) = {a}
            BY <1>0
        <3> QED
            BY <3>1, WithinBalls
    <2>2. ASSUME NEW d \in 1 .. n, d - 1 \in Good PROVE d \in Good
        <3>1. d - 1 \in Nat /\ d = (d - 1) + 1 /\ d \in 0 .. n
            OBVIOUS
        <3>2. Within(r, a, d) = Ball(d - 1) \cup Around(r, Ball(d - 1))
            <4>1. Within(r, a, (d - 1) + 1) =
                      Within(r, a, d - 1) \cup Around(r, Within(r, a, d - 1))
                BY <3>1, WithinBalls
            <4> QED
                BY <2>2, <3>1, <4>1
        <3>3. ASSUME NEW x \in Ball(d - 1) PROVE x \in Ball(d)
            BY <1>0, <3>1
        <3>4. ASSUME NEW x \in Around(r, Ball(d - 1)) PROVE x \in Ball(d)
            <4>1. PICK c \in C : w[c] <= d - 1 /\ Linked(r, c, x) /\ x \in Nodes
                BY DEF Around
            <4>2. x \in C /\ w[x] <= w[c] + 1
                BY <4>1
            <4> QED
                BY <1>0, <3>1, <4>1, <4>2
        <3>5. ASSUME NEW x \in Ball(d), x \notin Ball(d - 1) PROVE x \in Around(r, Ball(d - 1))
            <4>1. w[x] = d /\ x # a
                BY <1>0, <3>1, <3>5
            <4>2. PICK c \in C : Linked(r, c, x) /\ w[x] = w[c] + 1
                BY <4>1
            <4>3. c \in Ball(d - 1)
                BY <1>0, <3>1, <4>1, <4>2
            <4> QED
                BY <4>2, <4>3 DEF Around
        <3> HIDE DEF Ball
        <3>6. Within(r, a, d) = Ball(d)
            BY <3>2, <3>3, <3>4, <3>5
        <3> QED
            BY <3>1, <3>6
    <2> HIDE DEF Good
    <2>3. n \in Good
        <3>1. 0 .. n \subseteq Good
            BY <2>1, <2>2, Climb
        <3> QED
            BY <3>1
    <2> QED
        BY <2>3 DEF Good
<1>2. C = Reached(r, a)
    BY <1>0, <1>1 DEF Reached
<1>3. ASSUME NEW x \in C PROVE Dist(r, a, x) = w[x]
    <2>1. w[x] \in 0 .. HASH_MAX_SIZE /\ x \in Within(r, a, w[x])
        BY <1>0, <1>1
    <2>2. ASSUME w[x] > 0 PROVE x \notin Within(r, a, w[x] - 1)
        <3>1. w[x] - 1 \in Nat /\ ~(w[x] <= w[x] - 1)
            BY <1>0, <2>2
        <3> QED
            BY <1>1, <3>1
    <2> QED
        BY <2>1, <2>2, DistIs
<1>4. \A x \in C, d \in Nat : x \in Within(r, a, d) => w[x] <= d
    BY <1>1
<1> QED
    BY <1>2, <1>3, <1>4

-----------------------------------------------------------------------------
(* Maps that lose nothing *)

Holds(a) == {a[j] : j \in Places} \ {EMPTY_KEY}

\* Places in which the nodes can be kept: emptying one gives such places again, and a
\* node that is not there finds a free one, the first of its search.
Roomy(Arrays) ==
    /\ Arrays \subseteq [Places -> Nodes \cup {EMPTY_KEY}]
    /\ [j \in Places |-> EMPTY_KEY] \in Arrays
    /\ \A a \in Arrays, j \in Places : [a EXCEPT ![j] = EMPTY_KEY] \in Arrays
    /\ \A a \in Arrays : \A k \in Nodes \ Holds(a) :
          LET free == {i \in Places : a[Hash(k, i)] = EMPTY_KEY}
          IN  free # {} /\ [a EXCEPT ![Hash(k, First(free))] = k] \in Arrays

\* A map every key of which is in one place, is found there and is listed once.
Sound(t, Arrays) ==
    /\ t \in Routes /\ t.key \in Arrays
    /\ \A j, l \in Places : t.key[j] = t.key[l] /\ t.key[j] # EMPTY_KEY => j = l
    /\ \A k \in Occupied(t) : HasKey(t, k)
    /\ \A i, j \in 1 .. Len(t.keys) : t.keys[i] = t.keys[j] => i = j
    /\ Occupied(t) = {t.keys[i] : i \in 1 .. Len(t.keys)}

\* The keys of a sound map are those contains finds.
LEMMA KeysAre ==
    ASSUME NEW Arrays, NEW t, Sound(t, Arrays)
    PROVE  Occupied(t) \subseteq Nodes /\ \A k \in Nodes : HasKey(t, k) <=> k \in Occupied(t)
<1>1. t.key \in [Places -> Nodes \cup {EMPTY_KEY}]
    BY DEF Sound, Routes
<1>2. Occupied(t) \subseteq Nodes
    BY <1>1 DEF Occupied
<1>3. ASSUME NEW k \in Nodes, HasKey(t, k) PROVE k \in Occupied(t)
    <2>1. PICK i \in Places : t.key[Hash(k, i)] = k
        BY <1>3 DEF HasKey, Ends
    <2>2. Hash(k, i) \in Places /\ k # EMPTY_KEY
        BY NodesType, PlacesType, HashType
    <2> QED
        BY <2>1, <2>2 DEF Occupied
<1> QED
    BY <1>2, <1>3 DEF Sound

\* A key is looked up at its place.
LEMMA PlaceIs ==
    ASSUME NEW Arrays, NEW t, Sound(t, Arrays), NEW k \in Occupied(t)
    PROVE  /\ Place(t, k) \in Places /\ t.key[Place(t, k)] = k
           /\ \A j \in Places : t.key[j] = k => j = Place(t, k)
<1> DEFINE E == Ends(t, k, {k})
<1>1. k \in Nodes /\ k # EMPTY_KEY /\ HasKey(t, k)
    BY KeysAre, NodesType DEF Sound
<1>2. E \in SUBSET Nat /\ E # {} /\ \A i \in E : t.key[Hash(k, i)] = k
    BY <1>1, PlacesType DEF Ends, HasKey
<1>3. Place(t, k) = Hash(k, First(E))
    BY <1>1 DEF Place
<1> HIDE DEF E
<1>4. First(E) \in E
    BY <1>2, FirstIsLeast
<1>5. t.key[Place(t, k)] = k
    BY <1>2, <1>3, <1>4
<1>6. Place(t, k) \in Places
    BY <1>1, PlaceType
<1> QED
    BY <1>1, <1>5, <1>6 DEF Sound

\* The map a computation starts with loses nothing.
LEMMA EmptyIsSound ==
    ASSUME NEW Arrays, Roomy(Arrays), NEW t \in Routes, Occupied(t) = {}, t.keys = << >>
    PROVE  Sound(t, Arrays)
<1>1. t.key = [j \in Places |-> EMPTY_KEY]
    <2>1. \A j \in Places : t.key[j] = EMPTY_KEY
        BY DEF Occupied
    <2> QED
        BY <2>1 DEF Routes
<1>2. t.key \in Arrays
    BY <1>1 DEF Roomy
<1>3. \A j \in Places : t.key[j] = EMPTY_KEY
    BY <1>1
<1>4. 1 .. Len(t.keys) = {}
    BY EmptySeq
<1> QED
    BY <1>2, <1>3, <1>4 DEF Sound

\* The place of a new key.
Filled(t) == {j \in Places : t.key[j] # EMPTY_KEY}

\* A key that was not there is inserted and disturbs nothing.
LEMMA InsertSound ==
    ASSUME NEW Arrays, Roomy(Arrays), NEW t, Sound(t, Arrays), NEW k \in Nodes \ Occupied(t),
           NEW v \in Pairs
    PROVE  LET u == InsertKey(t, k, v) IN
           /\ Sound(u, Arrays) /\ Occupied(u) = Occupied(t) \cup {k}
           /\ Get(u, k) = v /\ \A x \in Occupied(t) : Get(u, x) = Get(t, x)
           /\ \E j \in Places \ Filled(t) : Filled(u) = Filled(t) \cup {j}
<1> DEFINE u == InsertKey(t, k, v)
           free == {i \in Places : t.key[Hash(k, i)] = EMPTY_KEY}
           f == First(free)
           j == Hash(k, f)
<1>1. /\ t.key \in Arrays /\ Occupied(t) = Holds(t.key) /\ k \in Nat /\ k # EMPTY_KEY /\ k \in Nodes
      /\ t.key \in [Places -> Nodes \cup {EMPTY_KEY}] /\ t.value \in [Places -> Pairs]
      /\ t.keys \in Seq(Nodes) /\ t \in Routes
    BY NodesType DEF Sound, Occupied, Holds, Routes
<1>2. free # {} /\ [t.key EXCEPT ![j] = k] \in Arrays
    BY <1>1 DEF Roomy
<1>3. Ends(t, k, {EMPTY_KEY, k}) = free
    <2>1. \A i \in Places : Hash(k, i) \in Places
        BY <1>1, HashType, PlacesType
    <2>2. \A l \in Places : t.key[l] # k
        BY <1>1 DEF Occupied
    <2> QED
        BY <2>1, <2>2 DEF Ends
<1>4. f \in free /\ free \in SUBSET Nat
    <2>1. free \in SUBSET Nat
        BY PlacesType
    <2> HIDE DEF free
    <2> QED
        BY <1>2, <2>1, FirstIsLeast
<1>5. j \in Places /\ t.key[j] = EMPTY_KEY /\ f \in Places
    BY <1>1, <1>4, HashType
<1>6. u = [key |-> [t.key EXCEPT ![j] = k], value |-> [t.value EXCEPT ![j] = v],
           keys |-> Append(t.keys, k)]
    BY <1>1, <1>2, <1>3, <1>5 DEF InsertKey
<1> HIDE DEF j
<1>7. u \in Routes
    BY <1>1, InsertType
<1> HIDE DEF u, f, free
<1>8. /\ \A l \in Places : u.key[l] = IF l = j THEN k ELSE t.key[l]
      /\ \A l \in Places : u.value[l] = IF l = j THEN v ELSE t.value[l]
      /\ u.keys = Append(t.keys, k) /\ u.key \in Arrays
    BY <1>1, <1>2, <1>5, <1>6
<1>9. Occupied(u) = Occupied(t) \cup {k}
    BY <1>1, <1>5, <1>8 DEF Occupied
<1>10. \A l \in Places : t.key[l] # k
    BY <1>1 DEF Occupied
<1>11. \A l, m \in Places : u.key[l] = u.key[m] /\ u.key[l] # EMPTY_KEY => l = m
    BY <1>8, <1>10 DEF Sound
<1>12. ASSUME NEW x \in Occupied(u) PROVE HasKey(u, x)
    <2>1. CASE x = k
        <3>1. Hash(x, f) = j
            BY <2>1 DEF j
        <3>2. u.key[Hash(x, f)] = x
            BY <1>5, <1>8, <2>1, <3>1
        <3>3. f \in Ends(u, x, {x})
            BY <1>5, <3>2 DEF Ends
        <3> QED
            BY <3>3 DEF HasKey
    <2>2. CASE x # k
        <3>1. x \in Occupied(t) /\ x # EMPTY_KEY
            BY <1>9, <2>2 DEF Occupied
        <3>2. HasKey(t, x) /\ x \in Nodes
            BY <3>1, KeysAre DEF Sound
        <3>3. PICK i \in Places : t.key[Hash(x, i)] = x
            BY <3>2 DEF HasKey, Ends
        <3>4. Hash(x, i) \in Places
            BY <3>2, HashType, PlacesType, NodesType
        <3>5. u.key[Hash(x, i)] = x
            BY <1>5, <1>8, <3>1, <3>3, <3>4
        <3> QED
            BY <3>5 DEF HasKey, Ends
    <2> QED
        BY <2>1, <2>2
<1>13. Len(t.keys) \in Nat /\ Len(u.keys) = Len(t.keys) + 1
       /\ \A i \in 1 .. Len(u.keys) :
             u.keys[i] = IF i = Len(t.keys) + 1 THEN k ELSE t.keys[i]
    BY <1>1, <1>8, LenProperties, AppendProperties
<1>14. \A i \in 1 .. Len(t.keys) : t.keys[i] \in Occupied(t)
    BY DEF Sound
<1>15. \A i \in 1 .. Len(u.keys) : i # Len(t.keys) + 1 => i \in 1 .. Len(t.keys)
    BY <1>13
<1>16. \A i, l \in 1 .. Len(u.keys) : u.keys[i] = u.keys[l] => i = l
    BY <1>13, <1>14, <1>15 DEF Sound
<1>17. Occupied(u) = {u.keys[i] : i \in 1 .. Len(u.keys)}
    <2>1. Len(t.keys) + 1 \in 1 .. Len(u.keys)
          /\ \A i \in 1 .. Len(t.keys) : i \in 1 .. Len(u.keys) /\ i # Len(t.keys) + 1
        BY <1>13
    <2>2. Occupied(t) = {t.keys[i] : i \in 1 .. Len(t.keys)}
        BY DEF Sound
    <2> QED
        BY <1>9, <1>13, <1>15, <2>1, <2>2
<1>18. Sound(u, Arrays)
    BY <1>7, <1>8, <1>11, <1>12, <1>16, <1>17 DEF Sound
<1>19. Get(u, k) = v
    <2>1. k \in Occupied(u) /\ u.key[j] = k
        BY <1>5, <1>8, <1>9
    <2>2. Place(u, k) = j
        BY <1>5, <1>18, <2>1, PlaceIs
    <2> QED
        BY <1>5, <1>8, <2>2 DEF Get
<1>20. ASSUME NEW x \in Occupied(t) PROVE Get(u, x) = Get(t, x)
    <2>1. Place(t, x) \in Places /\ t.key[Place(t, x)] = x /\ x # EMPTY_KEY
        BY PlaceIs DEF Occupied
    <2>2. Place(t, x) # j
        BY <1>5, <2>1
    <2>3. u.key[Place(t, x)] = x /\ x \in Occupied(u)
        BY <1>8, <1>9, <2>1, <2>2
    <2>4. Place(u, x) = Place(t, x)
        BY <1>18, <2>1, <2>3, PlaceIs
    <2> QED
        BY <1>8, <2>1, <2>2, <2>4 DEF Get
<1>21. j \in Places \ Filled(t) /\ Filled(u) = Filled(t) \cup {j}
    BY <1>1, <1>5, <1>8 DEF Filled
<1>22. \E l \in Places \ Filled(t) : Filled(u) = Filled(t) \cup {l}
    BY <1>21
<1> QED
    BY <1>9, <1>18, <1>19, <1>20, <1>22 DEF u

\* A key gets another value.
LEMMA SetAtSound ==
    ASSUME NEW Arrays, NEW t, Sound(t, Arrays), NEW k \in Occupied(t), NEW v \in Pairs
    PROVE  LET u == SetAt(t, k, v) IN
           /\ Sound(u, Arrays) /\ Occupied(u) = Occupied(t) /\ Filled(u) = Filled(t)
           /\ Get(u, k) = v /\ \A x \in Occupied(t) \ {k} : Get(u, x) = Get(t, x)
<1> DEFINE u == SetAt(t, k, v)
           j == Place(t, k)
<1>1. t \in Routes /\ k \in Nodes /\ j \in Places /\ t.key[j] = k
    BY KeysAre, PlaceIs DEF Sound
<1>2. u \in Routes
    BY <1>1, SetAtType
<1> HIDE DEF j
<1>3. u = [t EXCEPT !.value[j] = v]
    BY DEF SetAt, j
<1> HIDE DEF u
<1>4. u.key = t.key /\ u.keys = t.keys /\ u.value = [t.value EXCEPT ![j] = v]
    BY <1>1, <1>3 DEF Routes
<1>5. Occupied(u) = Occupied(t) /\ Filled(u) = Filled(t)
    BY <1>4 DEF Occupied, Filled
<1>6. \A x : HasKey(u, x) = HasKey(t, x) /\ Place(u, x) = Place(t, x)
    BY <1>4 DEF HasKey, Ends, Place
<1>7. Sound(u, Arrays)
    BY <1>2, <1>4, <1>5, <1>6 DEF Sound
<1>8. t.value \in [Places -> Pairs]
    BY <1>1 DEF Routes
<1>9. Get(u, k) = v
    BY <1>1, <1>4, <1>6, <1>8 DEF Get, j
<1>10. ASSUME NEW x \in Occupied(t) \ {k} PROVE Get(u, x) = Get(t, x)
    <2>1. Place(t, x) \in Places /\ Place(t, x) # j
        BY <1>1, PlaceIs
    <2> QED
        BY <1>1, <1>4, <1>6, <1>8, <2>1 DEF Get
<1> QED
    BY <1>5, <1>7, <1>9, <1>10 DEF u

\* A sequence without one of its elements.
LEMMA WithoutKeyIs ==
    ASSUME NEW keys \in Seq(Nodes), NEW p \in 1 .. Len(keys),
           \A i, j \in 1 .. Len(keys) : keys[i] = keys[j] => i = j
    PROVE  LET u == WithoutKey(keys, keys[p]) IN
           /\ Len(u) = Len(keys) - 1 /\ Len(keys) \in Nat
           /\ \A i \in 1 .. Len(u) : u[i] = IF i < p THEN keys[i] ELSE keys[i + 1]
<1> DEFINE n == Len(keys)
           found == {i \in 1 .. n : keys[i] = keys[p]}
           s1 == SubSeq(keys, 1, p - 1)
           s2 == SubSeq(keys, p + 1, n)
<1>1. n \in Nat /\ p \in 1 .. n
    BY LenProperties
<1>2. found = {p}
    OBVIOUS
<1>3. First(found) = p
    <2>1. found \in SUBSET Nat /\ found # {}
        BY <1>1, <1>2
    <2>2. First(found) \in found
        BY <2>1, FirstIsLeast
    <2> QED
        BY <1>2, <2>2
<1>4. WithoutKey(keys, keys[p]) = s1 \o s2
    BY <1>2, <1>3 DEF WithoutKey
<1>5. \A i \in 1 .. n : keys[i] \in Nodes
    BY ElementOfSeq
<1>6. s1 \in Seq(Nodes) /\ Len(s1) = p - 1 /\ \A i \in 1 .. p - 1 : s1[i] = keys[i]
    <2>1. \A i \in 1 .. p - 1 : keys[i] \in Nodes
        BY <1>1, <1>5
    <2>2. 1 \in Int /\ p - 1 \in Int
        BY <1>1
    <2>3. s1 \in Seq(Nodes) /\ Len(s1) = IF 1 <= p - 1 THEN (p - 1) - 1 + 1 ELSE 0
        BY <2>1, <2>2, SubSeqProperties
    <2>4. \A i \in 1 .. (p - 1) - 1 + 1 : s1[i] = keys[1 + i - 1]
        BY <2>1, <2>2, SubSeqProperties
    <2>5. (p - 1) - 1 + 1 = p - 1 /\ (~(1 <= p - 1) => p - 1 = 0) /\ \A i \in 1 .. p - 1 : 1 + i - 1 = i
        BY <1>1
    <2> QED
        BY <2>3, <2>4, <2>5
<1>7. s2 \in Seq(Nodes) /\ Len(s2) = n - p /\ \A i \in 1 .. n - p : s2[i] = keys[p + i]
    <2>1. \A i \in p + 1 .. n : keys[i] \in Nodes
        BY <1>1, <1>5
    <2>2. p + 1 \in Int /\ n \in Int
        BY <1>1
    <2>3. s2 \in Seq(Nodes) /\ Len(s2) = IF p + 1 <= n THEN n - (p + 1) + 1 ELSE 0
        BY <2>1, <2>2, SubSeqProperties
    <2>4. \A i \in 1 .. n - (p + 1) + 1 : s2[i] = keys[p + 1 + i - 1]
        BY <2>1, <2>2, SubSeqProperties
    <2>5. n - (p + 1) + 1 = n - p /\ (~(p + 1 <= n) => n - p = 0)
          /\ \A i \in 1 .. n - p : p + 1 + i - 1 = p + i
        BY <1>1
    <2> QED
        BY <2>3, <2>4, <2>5
<1> DEFINE u == WithoutKey(keys, keys[p])
<1> HIDE DEF n, s1, s2, found
<1>8. Len(u) = (p - 1) + (n - p) /\ \A i \in 1 .. (p - 1) + (n - p) :
          u[i] = IF i <= p - 1 THEN s1[i] ELSE s2[i - (p - 1)]
    BY <1>4, <1>6, <1>7, ConcatProperties
<1>9. (p - 1) + (n - p) = n - 1
    BY <1>1
<1>10. ASSUME NEW i \in 1 .. n - 1 PROVE u[i] = IF i < p THEN keys[i] ELSE keys[i + 1]
    <2>1. CASE i < p
        <3>1. i <= p - 1 /\ i \in 1 .. p - 1
            BY <1>1, <2>1
        <3> QED
            BY <1>6, <1>8, <1>9, <2>1, <3>1
    <2>2. CASE ~(i < p)
        <3>1. ~(i <= p - 1) /\ i - (p - 1) \in 1 .. n - p /\ p + (i - (p - 1)) = i + 1
            BY <1>1, <2>2
        <3> QED
            BY <1>7, <1>8, <1>9, <2>2, <3>1
    <2> QED
        BY <2>1, <2>2
<1>11. Len(u) = n - 1
    BY <1>8, <1>9
<1> HIDE DEF u
<1>12. Len(u) = Len(keys) - 1 /\ Len(keys) \in Nat
       /\ \A i \in 1 .. Len(u) : u[i] = IF i < p THEN keys[i] ELSE keys[i + 1]
    BY <1>1, <1>10, <1>11 DEF n
<1> QED
    BY <1>12 DEF u

\* A key that is removed leaves the others as they are.
LEMMA RemoveSound ==
    ASSUME NEW Arrays, Roomy(Arrays), NEW t, Sound(t, Arrays), NEW k \in Occupied(t)
    PROVE  LET u == RemoveKey(t, k) IN
           /\ Sound(u, Arrays) /\ Occupied(u) = Occupied(t) \ {k}
           /\ \A x \in Occupied(u) : Get(u, x) = Get(t, x)
<1> DEFINE u == RemoveKey(t, k)
           j == Place(t, k)
           w == WithoutKey(t.keys, k)
<1>1. t \in Routes /\ k \in Nodes /\ j \in Places /\ t.key[j] = k /\ k # EMPTY_KEY
      /\ HasKey(t, k) /\ \A l \in Places : t.key[l] = k => l = j
    BY KeysAre, PlaceIs, NodesType DEF Sound
<1>2. /\ t.key \in Arrays /\ t.key \in [Places -> Nodes \cup {EMPTY_KEY}]
      /\ t.value \in [Places -> Pairs] /\ t.keys \in Seq(Nodes)
    BY DEF Sound, Routes
<1>3. u \in Routes
    BY <1>1, RemoveType
<1> HIDE DEF j
<1>4. u = [t EXCEPT !.key[j] = EMPTY_KEY, !.keys = w]
    BY <1>1 DEF RemoveKey, j
<1> HIDE DEF u, w
<1>5. /\ u.key = [t.key EXCEPT ![j] = EMPTY_KEY] /\ u.value = t.value /\ u.keys = w
    BY <1>1, <1>4 DEF Routes
<1>6. u.key \in Arrays /\ \A l \in Places : u.key[l] = IF l = j THEN EMPTY_KEY ELSE t.key[l]
    BY <1>1, <1>2, <1>5 DEF Roomy
<1>7. Occupied(u) = Occupied(t) \ {k}
    BY <1>1, <1>2, <1>6 DEF Occupied
<1>8. \A l, m \in Places : u.key[l] = u.key[m] /\ u.key[l] # EMPTY_KEY => l = m
    BY <1>6 DEF Sound
<1>9. ASSUME NEW x \in Occupied(u) PROVE HasKey(u, x)
    <2>1. x \in Occupied(t) /\ x # k /\ x # EMPTY_KEY
        BY <1>7 DEF Occupied
    <2>2. HasKey(t, x) /\ x \in Nodes
        BY <2>1, KeysAre DEF Sound
    <2>3. PICK i \in Places : t.key[Hash(x, i)] = x
        BY <2>2 DEF HasKey, Ends
    <2>4. Hash(x, i) \in Places
        BY <2>2, HashType, PlacesType, NodesType
    <2>5. Hash(x, i) # j
        BY <1>1, <2>1, <2>3
    <2>6. u.key[Hash(x, i)] = x
        BY <1>6, <2>3, <2>4, <2>5
    <2> QED
        BY <2>6 DEF HasKey, Ends
<1>10. \A i, l \in 1 .. Len(t.keys) : t.keys[i] = t.keys[l] => i = l
    BY DEF Sound
<1>11. Occupied(t) = {t.keys[i] : i \in 1 .. Len(t.keys)}
    BY DEF Sound
<1>12. PICK p \in 1 .. Len(t.keys) : t.keys[p] = k
    BY <1>11
<1>13. /\ Len(w) = Len(t.keys) - 1 /\ Len(t.keys) \in Nat
       /\ \A i \in 1 .. Len(w) : w[i] = IF i < p THEN t.keys[i] ELSE t.keys[i + 1]
    BY <1>2, <1>10, <1>12, WithoutKeyIs DEF w
<1>14. \A i \in 1 .. Len(w) : /\ i \in 1 .. Len(t.keys) /\ i + 1 \in 1 .. Len(t.keys)
                              /\ (IF i < p THEN i ELSE i + 1) # p
    BY <1>13
<1>15. \A i, l \in 1 .. Len(w) : w[i] = w[l] => i = l
    <2> SUFFICES ASSUME NEW i \in 1 .. Len(w), NEW l \in 1 .. Len(w), w[i] = w[l] PROVE i = l
        OBVIOUS
    <2> DEFINE from(m) == IF m < p THEN m ELSE m + 1
    <2>1. from(i) \in 1 .. Len(t.keys) /\ from(l) \in 1 .. Len(t.keys)
        BY <1>14
    <2>2. t.keys[from(i)] = t.keys[from(l)]
        BY <1>13
    <2>3. from(i) = from(l)
        BY <1>10, <2>1, <2>2
    <2> QED
        BY <1>13, <2>3
<1>16. Occupied(u) = {w[i] : i \in 1 .. Len(w)}
    <2>1. ASSUME NEW x \in Occupied(u) PROVE \E i \in 1 .. Len(w) : w[i] = x
        <3>1. PICK i \in 1 .. Len(t.keys) : t.keys[i] = x /\ i # p
            BY <1>7, <1>11, <1>12
        <3>2. CASE i < p
            <4>1. i \in 1 .. Len(w)
                BY <1>13, <3>1, <3>2
            <4> QED
                BY <1>13, <3>1, <3>2, <4>1
        <3>3. CASE ~(i < p)
            <4>1. i - 1 \in 1 .. Len(w) /\ ~(i - 1 < p) /\ i - 1 + 1 = i
                BY <1>13, <3>1, <3>3
            <4> QED
                BY <1>13, <3>1, <4>1
        <3> QED
            BY <3>2, <3>3
    <2>2. ASSUME NEW i \in 1 .. Len(w) PROVE w[i] \in Occupied(u)
        <3> DEFINE m == IF i < p THEN i ELSE i + 1
        <3>1. m \in 1 .. Len(t.keys) /\ m # p /\ w[i] = t.keys[m]
            BY <1>13, <1>14
        <3>2. t.keys[m] # k
            BY <1>10, <1>12, <3>1
        <3> QED
            BY <1>7, <1>11, <3>1, <3>2
    <2> QED
        BY <2>1, <2>2
<1>17. Sound(u, Arrays)
    BY <1>3, <1>5, <1>6, <1>8, <1>9, <1>15, <1>16 DEF Sound
<1>18. ASSUME NEW x \in Occupied(u) PROVE Get(u, x) = Get(t, x)
    <2>1. x \in Occupied(t) /\ x # k
        BY <1>7
    <2>2. Place(t, x) \in Places /\ t.key[Place(t, x)] = x
        BY <2>1, PlaceIs
    <2>3. u.key[Place(t, x)] = x
        BY <1>1, <1>6, <2>1, <2>2
    <2>4. Place(u, x) = Place(t, x)
        BY <1>17, <2>2, <2>3, PlaceIs
    <2> QED
        BY <1>5, <2>4 DEF Get
<1> QED
    BY <1>7, <1>17, <1>18 DEF u

\* So it is one of those that are there.
LEMMA SmallestHeld ==
    ASSUME NEW Arrays, NEW t, Sound(t, Arrays), t.keys # << >>
    PROVE  LET m == FindSmallestWeight(t) IN
           m \in Occupied(t) /\ \A x \in Occupied(t) : Get(t, m).weight <= Get(t, x).weight
<1>1. t \in Routes /\ Occupied(t) = {t.keys[i] : i \in 1 .. Len(t.keys)}
    BY DEF Sound
<1>2. PICK i \in 1 .. Len(t.keys) :
              /\ FindSmallestWeight(t) = t.keys[i]
              /\ \A j \in 1 .. Len(t.keys) : Get(t, t.keys[i]).weight <= Get(t, t.keys[j]).weight
    BY <1>1, SmallestIs
<1> QED
    BY <1>1, <1>2

-----------------------------------------------------------------------------
(* The search *)

Conf(m) == Occupied(m.confirmed)
Tent(m) == Occupied(m.tentative)
Seen(m) == Conf(m) \cup Tent(m)
PairOf(m, x) == IF x \in Conf(m) THEN Get(m.confirmed, x) ELSE Get(m.tentative, x)
Weight(m, x) == PairOf(m, x).weight

\* The maps are sound and share no key.
Tables(m, Arrays) ==
    /\ m \in Maps /\ Sound(m.confirmed, Arrays) /\ Sound(m.tentative, Arrays)
    /\ Conf(m) \cap Tent(m) = {}

\* x is reached from me in w links, the first of which is the one to h.
Through(r, me, x, h, w) ==
    /\ h \in Nodes /\ Linked(r, me, h)
    /\ w \in 1 .. HASH_MAX_SIZE /\ x \in Within(r, h, w - 1)

\* What a pair says of the node x is true.
Route(r, me, x, v) ==
    /\ v \in Pairs /\ v.node = x
    /\ x = me => v.weight = 0 /\ v.backupNextHop = 0
    /\ x # me => Through(r, me, x, v.nextHop, v.weight)
    /\ v.backupNextHop # 0 => /\ v.backupNextHop # v.nextHop
                              /\ Through(r, me, x, v.backupNextHop, v.backupWeight)

\* The types of what the search keeps.
LEMMA TablesTypes ==
    ASSUME NEW Arrays, NEW m, Tables(m, Arrays)
    PROVE  /\ m = [confirmed |-> m.confirmed, tentative |-> m.tentative]
           /\ m.confirmed \in Routes /\ m.tentative \in Routes /\ Seen(m) \subseteq Nodes
           /\ \A x \in Seen(m) : PairOf(m, x) \in Pairs /\ Weight(m, x) \in Nat
<1>1. /\ m = [confirmed |-> m.confirmed, tentative |-> m.tentative]
      /\ m.confirmed \in Routes /\ m.tentative \in Routes
    BY DEF Tables, Maps
<1>2. Seen(m) \subseteq Nodes
    BY KeysAre DEF Tables, Seen, Conf, Tent
<1>3. \A x \in Seen(m) : PairOf(m, x) \in Pairs
    BY <1>1, <1>2, GetType DEF PairOf
<1> QED
    BY <1>1, <1>2, <1>3, PairTypes DEF Weight

\* Looking at a neighbor x of curr: x gets into tentative if it is new; else its pair is
\* left alone, or gets a backup that is not its next hop.
LEMMA RelaxEffect ==
    ASSUME NEW Arrays, Roomy(Arrays), NEW m, Tables(m, Arrays), NEW me \in Conf(m),
           NEW curr \in Conf(m), NEW hop \in Nat, NEW x \in Nodes,
           x \in Tent(m) => Weight(m, x) <= Weight(m, curr) + 1,
           x \in Conf(m) => PairOf(m, x).node = x
    PROVE  LET u   == Relax(m, me, curr, hop, x)
               new == Pair(x, Weight(m, curr) + 1, IF curr = me THEN x ELSE hop)
           IN  /\ Tables(u, Arrays) /\ Conf(u) = Conf(m) /\ Filled(u.confirmed) = Filled(m.confirmed)
               /\ Tent(u) = Tent(m) \cup ({x} \ Conf(m))
               /\ \A y \in Seen(m) : y # x => PairOf(u, y) = PairOf(m, y)
               /\ x \notin Seen(m) => PairOf(u, x) = new
               /\ x \in Seen(m) =>
                     \/ PairOf(u, x) = PairOf(m, x)
                     \/ /\ x # me /\ new.nextHop # PairOf(m, x).nextHop
                        /\ PairOf(u, x) = WithBackup(PairOf(m, x), new.nextHop, new.weight)
<1> DEFINE c == m.confirmed
           t == m.tentative
           new == Pair(x, Weight(m, curr) + 1, IF curr = me THEN x ELSE hop)
           u == Relax(m, me, curr, hop, x)
           back(v) == WithBackup(v, new.nextHop, new.weight)
<1>1. /\ m = [confirmed |-> c, tentative |-> t] /\ c \in Routes /\ t \in Routes
      /\ Seen(m) \subseteq Nodes /\ \A y \in Seen(m) : PairOf(m, y) \in Pairs /\ Weight(m, y) \in Nat
    BY TablesTypes
<1>2. /\ Sound(c, Arrays) /\ Sound(t, Arrays) /\ Occupied(c) \cap Occupied(t) = {}
      /\ Conf(m) = Occupied(c) /\ Tent(m) = Occupied(t) /\ Seen(m) = Occupied(c) \cup Occupied(t)
    BY DEF Tables, Conf, Tent, Seen
<1>3. curr \in Nodes /\ me \in Nodes /\ Weight(m, curr) = Get(c, curr).weight
    BY <1>1, <1>2 DEF PairOf, Weight
<1>4. u \in Maps
    BY <1>3, RelaxType DEF Tables
<1>5. new \in Pairs /\ new.weight = Weight(m, curr) + 1 /\ new.nextHop \in Nat /\ new.weight \in Nat
    <2>1. x \in Nat /\ (IF curr = me THEN x ELSE hop) \in Nat
        BY NodesType
    <2>2. Weight(m, curr) + 1 \in Nat
        BY <1>1, <1>2
    <2> QED
        BY <2>1, <2>2, PairTypes DEF Pair
<1>6. \A v \in Pairs : back(v) \in Pairs
    <2> HIDE DEF new
    <2> QED
        BY <1>5, PairTypes
<1>7. /\ HasKey(c, x) <=> x \in Occupied(c)
      /\ HasKey(t, x) <=> x \in Occupied(t)
    BY <1>2, KeysAre
<1>8. Get(c, curr).weight + 1 = Weight(m, curr) + 1
    BY <1>3
<1> HIDE DEF u
<1>9. CASE x \in Occupied(c)
    <2> DEFINE done == Get(c, x)
    <2>1. done \in Pairs /\ PairOf(m, x) = done /\ done.node = x
        BY <1>1, <1>2, <1>9 DEF PairOf
    <2>2. CASE /\ done.node # me /\ done.nextHop # new.nextHop /\ done.backupWeight > new.weight
        <3> DEFINE s == SetAt(c, x, back(done))
        <3>1. u = [m EXCEPT !.confirmed = s]
            BY <1>7, <1>8, <1>9, <2>2 DEF Relax, u
        <3> HIDE DEF new, done
        <3>2. /\ Sound(s, Arrays) /\ Occupied(s) = Occupied(c) /\ Filled(s) = Filled(c)
              /\ Get(s, x) = back(done) /\ \A y \in Occupied(c) \ {x} : Get(s, y) = Get(c, y)
            BY <1>2, <1>6, <1>9, <2>1, SetAtSound
        <3> HIDE DEF s, back
        <3>3. u.confirmed = s /\ u.tentative = t
            BY <1>1, <3>1
        <3>4. Tables(u, Arrays) /\ Conf(u) = Conf(m) /\ Filled(u.confirmed) = Filled(c) /\ Tent(u) = Tent(m)
            BY <1>2, <1>4, <3>2, <3>3 DEF Tables, Conf, Tent
        <3>5. \A y \in Seen(m) : y # x => PairOf(u, y) = PairOf(m, y)
            BY <1>2, <3>2, <3>3, <3>4 DEF PairOf
        <3>6. PairOf(u, x) = back(PairOf(m, x))
            BY <1>2, <1>9, <2>1, <3>2, <3>3, <3>4 DEF PairOf
        <3>7. Tent(m) = Tent(m) \cup ({x} \ Conf(m)) /\ x \in Seen(m)
            BY <1>2, <1>9
        <3>8. x # me /\ new.nextHop # PairOf(m, x).nextHop
            BY <2>1, <2>2
        <3> QED
            BY <3>4, <3>5, <3>6, <3>7, <3>8 DEF u, new, back
    <2>3. CASE ~(/\ done.node # me /\ done.nextHop # new.nextHop /\ done.backupWeight > new.weight)
        <3>1. u = m
            BY <1>7, <1>8, <1>9, <2>3 DEF Relax, u
        <3>2. Tent(m) = Tent(m) \cup ({x} \ Conf(m)) /\ x \in Seen(m)
            BY <1>2, <1>9
        <3> QED
            BY <3>1, <3>2 DEF u
    <2> QED
        BY <2>2, <2>3
<1>10. CASE x \notin Occupied(c) /\ x \notin Occupied(t)
    <2> DEFINE s == InsertKey(t, x, new)
    <2>1. u = [m EXCEPT !.tentative = s]
        BY <1>7, <1>8, <1>10 DEF Relax, u
    <2> HIDE DEF new
    <2>2. /\ Sound(s, Arrays) /\ Occupied(s) = Occupied(t) \cup {x}
          /\ Get(s, x) = new /\ \A y \in Occupied(t) : Get(s, y) = Get(t, y)
        BY <1>2, <1>5, <1>10, InsertSound
    <2> HIDE DEF s
    <2>3. u.confirmed = c /\ u.tentative = s
        BY <1>1, <2>1
    <2>4. /\ Tables(u, Arrays) /\ Conf(u) = Conf(m) /\ Filled(u.confirmed) = Filled(c)
          /\ Tent(u) = Tent(m) \cup {x}
        BY <1>2, <1>4, <1>10, <2>2, <2>3 DEF Tables, Conf, Tent
    <2>5. \A y \in Seen(m) : y # x => PairOf(u, y) = PairOf(m, y)
        BY <1>2, <2>2, <2>3, <2>4 DEF PairOf
    <2>6. PairOf(u, x) = new
        BY <1>2, <1>10, <2>2, <2>3, <2>4 DEF PairOf
    <2>7. Tent(m) \cup {x} = Tent(m) \cup ({x} \ Conf(m)) /\ x \notin Seen(m)
        BY <1>2, <1>10
    <2> QED
        BY <2>4, <2>5, <2>6, <2>7 DEF u, new
<1>11. CASE x \notin Occupied(c) /\ x \in Occupied(t)
    <2> DEFINE seen == Get(t, x)
    <2>1. seen \in Pairs /\ PairOf(m, x) = seen /\ x # me /\ x \in Seen(m)
        BY <1>1, <1>2, <1>11 DEF PairOf
    <2>2. ~(seen.weight > new.weight)
        <3>1. seen.weight \in Nat /\ seen.weight <= Weight(m, curr) + 1
            BY <1>1, <1>2, <1>11, <2>1 DEF Weight
        <3> HIDE DEF new, seen
        <3> QED
            BY <1>5, <3>1
    <2>3. CASE seen.nextHop # new.nextHop
        <3> DEFINE s == SetAt(t, x, back(seen))
        <3>1. u = [m EXCEPT !.tentative = s]
            BY <1>7, <1>8, <1>11, <2>2, <2>3 DEF Relax, u
        <3> HIDE DEF new, seen
        <3>2. /\ Sound(s, Arrays) /\ Occupied(s) = Occupied(t)
              /\ Get(s, x) = back(seen) /\ \A y \in Occupied(t) \ {x} : Get(s, y) = Get(t, y)
            BY <1>2, <1>6, <1>11, <2>1, SetAtSound
        <3> HIDE DEF s, back
        <3>3. u.confirmed = c /\ u.tentative = s
            BY <1>1, <3>1
        <3>4. /\ Tables(u, Arrays) /\ Conf(u) = Conf(m) /\ Filled(u.confirmed) = Filled(c)
              /\ Tent(u) = Tent(m)
            BY <1>2, <1>4, <3>2, <3>3 DEF Tables, Conf, Tent
        <3>5. \A y \in Seen(m) : y # x => PairOf(u, y) = PairOf(m, y)
            BY <1>2, <3>2, <3>3, <3>4 DEF PairOf
        <3>6. PairOf(u, x) = back(PairOf(m, x))
            BY <1>2, <1>11, <2>1, <3>2, <3>3, <3>4 DEF PairOf
        <3>7. Tent(m) = Tent(m) \cup ({x} \ Conf(m))
            BY <1>2, <1>11
        <3> QED
            BY <2>1, <2>3, <3>4, <3>5, <3>6, <3>7 DEF u, new, back
    <2>4. CASE seen.nextHop = new.nextHop
        <3>1. u = m
            BY <1>7, <1>8, <1>11, <2>2, <2>4 DEF Relax, u
        <3>2. Tent(m) = Tent(m) \cup ({x} \ Conf(m))
            BY <1>2, <1>11
        <3> QED
            BY <2>1, <3>1, <3>2 DEF u
    <2> QED
        BY <2>3, <2>4
<1> QED
    BY <1>9, <1>10, <1>11

\* Every node that was seen has a true pair, the one who found it is confirmed.
Paths(m, r, me) ==
    /\ me \in Seen(m)
    /\ \A x \in Seen(m) : Route(r, me, x, PairOf(m, x))
    /\ \A x \in Seen(m) : x # me =>
          \E c \in Conf(m) : Linked(r, c, x) /\ Weight(m, x) = Weight(m, c) + 1

\* The neighbors of c were seen, no more than one link farther.
Explored(m, c, x) == x \in Seen(m) /\ Weight(m, x) <= Weight(m, c) + 1

\* Before an iteration: num nodes are confirmed and explored, and none of them is
\* farther than the tentative ones, which are of two neighboring levels.
Between(m, r, me, num, Arrays) ==
    /\ Tables(m, Arrays) /\ Paths(m, r, me)
    /\ Cardinality(Filled(m.confirmed)) = num
    /\ me \in Conf(m) \/ (Conf(m) = {} /\ Tent(m) = {me})
    /\ \A c \in Conf(m), x \in Nodes : Linked(r, c, x) => Explored(m, c, x)
    /\ \A c \in Conf(m), t \in Tent(m) : Weight(m, c) <= Weight(m, t)
    /\ \A s, t \in Tent(m) : Weight(m, s) <= Weight(m, t) + 1
    /\ \A x \in Seen(m) : Weight(m, x) <= num

\* In an iteration: the first k neighbors of curr, the num-th node that was confirmed,
\* are explored.
During(m, r, me, num, curr, k, Arrays) ==
    /\ Tables(m, Arrays) /\ Paths(m, r, me)
    /\ Cardinality(Filled(m.confirmed)) = num
    /\ me \in Conf(m) /\ curr \in Conf(m) /\ Weight(m, curr) < num
    /\ \A c \in Conf(m), x \in Nodes : c # curr /\ Linked(r, c, x) => Explored(m, c, x)
    /\ \A i \in 1 .. k : Explored(m, curr, r[curr][i])
    /\ \A c \in Conf(m) : Weight(m, c) <= Weight(m, curr)
    /\ \A t \in Tent(m) : Weight(m, curr) <= Weight(m, t) /\ Weight(m, t) <= Weight(m, curr) + 1

\* What was explored stays explored when no weight changes.
LEMMA WeightsAre ==
    ASSUME NEW m, NEW u, NEW r, NEW me, \A y \in Seen(m) : Weight(u, y) = Weight(m, y),
           Seen(m) \subseteq Seen(u)
    PROVE  \A c \in Seen(m), x \in Nodes : Explored(m, c, x) => Explored(u, c, x)
    BY DEF Explored

\* A way to curr through h goes on to its neighbors.
LEMMA ThroughNext ==
    ASSUME NEW r \in Rows, NEW me \in Nodes, NEW curr \in Nodes, NEW h, NEW w, NEW x \in Nodes,
           Through(r, me, curr, h, w), Linked(r, curr, x), w + 1 <= HASH_MAX_SIZE
    PROVE  Through(r, me, x, h, w + 1)
<1>1. h \in Nodes /\ w - 1 \in Nat /\ w + 1 \in 1 .. HASH_MAX_SIZE /\ w + 1 - 1 = (w - 1) + 1
    BY HashAssumption DEF Through
<1>2. Within(r, h, (w - 1) + 1) = Within(r, h, w - 1) \cup Around(r, Within(r, h, w - 1))
    BY <1>1, WithinBalls
<1>3. x \in Within(r, h, w + 1 - 1)
    BY <1>1, <1>2 DEF Through, Around
<1> QED
    BY <1>1, <1>3 DEF Through

\* The pair a neighbor of curr is offered is true.
LEMMA OfferedRoute ==
    ASSUME NEW r \in Rows, NEW me \in Nodes, NEW curr \in Nodes, NEW x \in Nodes, NEW v,
           Route(r, me, curr, v), Linked(r, curr, x), v.weight + 1 <= HASH_MAX_SIZE
    PROVE  Through(r, me, x, IF curr = me THEN x ELSE v.nextHop, v.weight + 1)
<1>1. CASE curr = me
    <2>1. v.weight + 1 = 1
        BY <1>1 DEF Route
    <2>2. Within(r, x, 1 - 1) = {x} /\ 1 \in 1 .. HASH_MAX_SIZE
        BY WithinBalls, HashAssumption
    <2> QED
        BY <1>1, <2>1, <2>2 DEF Through
<1>2. CASE curr # me
    BY <1>2, ThroughNext DEF Route
<1> QED
    BY <1>1, <1>2

\* One more neighbor of curr.
LEMMA DuringNext ==
    ASSUME NEW Arrays, Roomy(Arrays), NEW r \in Rows, NEW me \in Nodes,
           NEW num \in 1 .. HASH_MAX_SIZE, NEW curr \in Nodes, NEW k \in 1 .. Len(r[curr]),
           NEW m, During(m, r, me, num, curr, k - 1, Arrays)
    PROVE  LET u == Relax(m, me, curr, PairOf(m, curr).nextHop, r[curr][k]) IN
           During(u, r, me, num, curr, k, Arrays) /\ PairOf(u, curr).nextHop = PairOf(m, curr).nextHop
<1> DEFINE x == r[curr][k]
           hop == PairOf(m, curr).nextHop
           far == Weight(m, curr) + 1
           next == IF curr = me THEN x ELSE hop
           new == Pair(x, far, next)
           u == Relax(m, me, curr, hop, x)
<1>1. /\ Tables(m, Arrays) /\ Paths(m, r, me) /\ Cardinality(Filled(m.confirmed)) = num
      /\ me \in Conf(m) /\ curr \in Conf(m) /\ Weight(m, curr) < num
      /\ curr \in Seen(m) /\ me \in Seen(m) /\ Conf(m) \cap Tent(m) = {}
    BY DEF During, Tables, Seen
<1>2. Seen(m) \subseteq Nodes /\ \A y \in Seen(m) : PairOf(m, y) \in Pairs /\ Weight(m, y) \in Nat
    BY <1>1, TablesTypes
<1>3. x \in Nodes /\ Linked(r, curr, x)
    <2>1. r[curr] \in Seq(Nodes) /\ DOMAIN r[curr] = 1 .. Len(r[curr])
        BY LenProperties DEF Rows
    <2> QED
        BY <2>1, ElementOfSeq DEF Linked
<1>4. hop \in Nat /\ far \in Nat /\ far <= HASH_MAX_SIZE
    <2>1. hop \in Nat
        BY <1>1, <1>2, PairTypes
    <2>2. Weight(m, curr) \in Nat /\ num \in Nat /\ HASH_MAX_SIZE \in Nat /\ num <= HASH_MAX_SIZE
        BY <1>1, <1>2, HashAssumption
    <2> QED
        BY <1>1, <2>1, <2>2
<1>5. Route(r, me, curr, PairOf(m, curr))
    BY <1>1 DEF Paths
<1>6. Through(r, me, x, next, far)
    <2>1. Weight(m, curr) = PairOf(m, curr).weight
        BY DEF Weight
    <2> QED
        BY <1>1, <1>2, <1>3, <1>4, <1>5, <2>1, OfferedRoute
<1>7. new \in Pairs /\ new.weight = far /\ new.nextHop = next /\ new.node = x /\ new.backupNextHop = 0
    <2>1. x \in Nat /\ next \in Nat
        BY <1>3, <1>4, NodesType
    <2> QED
        BY <1>4, <2>1, PairTypes DEF Pair
<1> HIDE DEF x, next, far, new, hop
<1>8. /\ Tables(u, Arrays) /\ Conf(u) = Conf(m) /\ Filled(u.confirmed) = Filled(m.confirmed)
      /\ Tent(u) = Tent(m) \cup ({x} \ Conf(m))
      /\ \A y \in Seen(m) : y # x => PairOf(u, y) = PairOf(m, y)
      /\ x \notin Seen(m) => PairOf(u, x) = new
      /\ x \in Seen(m) =>
            \/ PairOf(u, x) = PairOf(m, x)
            \/ /\ x # me /\ next # PairOf(m, x).nextHop
               /\ PairOf(u, x) = WithBackup(PairOf(m, x), next, far)
    <2>1. x \in Tent(m) => Weight(m, x) <= Weight(m, curr) + 1
        BY DEF During
    <2>2. x \in Conf(m) => PairOf(m, x).node = x
        BY <1>1 DEF Paths, Route, Seen
    <2>3. new = Pair(x, Weight(m, curr) + 1, IF curr = me THEN x ELSE hop)
        BY DEF new, next, far
    <2> QED
        BY <1>1, <1>3, <1>4, <1>7, <2>1, <2>2, <2>3, RelaxEffect
<1> HIDE DEF u
<1>9. Seen(u) = Seen(m) \cup {x} /\ Seen(m) \subseteq Seen(u) /\ x \in Seen(u)
    BY <1>8 DEF Seen
<1>10. \A y \in Seen(m) : Weight(u, y) = Weight(m, y)
    <2>1. \A v \in Pairs : WithBackup(v, next, far).weight = v.weight
        BY DEF WithBackup, Pairs
    <2> QED
        BY <1>2, <1>8, <2>1 DEF Weight
<1>11. x \notin Seen(m) => Weight(u, x) = far
    BY <1>7, <1>8 DEF Weight
<1>12. ASSUME NEW y \in Seen(u) PROVE Route(r, me, y, PairOf(u, y))
    <2>1. CASE y \in Seen(m) /\ PairOf(u, y) = PairOf(m, y)
        BY <1>1, <2>1 DEF Paths
    <2>2. CASE y = x /\ x \notin Seen(m)
        <3>1. y # me /\ PairOf(u, y) = new
            BY <1>1, <1>8, <2>2
        <3> QED
            BY <1>6, <1>7, <2>2, <3>1 DEF Route
    <2>3. CASE y = x /\ x \in Seen(m) /\ PairOf(u, x) # PairOf(m, x)
        <3> DEFINE v == PairOf(m, x)
                   b == WithBackup(v, next, far)
        <3>1. Route(r, me, x, v) /\ v \in Pairs
            BY <1>1, <1>2, <2>3 DEF Paths
        <3>2. PairOf(u, y) = b /\ x # me /\ next # v.nextHop
            BY <1>8, <2>3
        <3>3. next \in Nat /\ far \in Nat
            BY <1>4, <1>6, NodesType DEF Through
        <3> HIDE DEF v
        <3>4. /\ b \in Pairs /\ b.node = v.node /\ b.weight = v.weight /\ b.nextHop = v.nextHop
              /\ b.backupNextHop = next /\ b.backupWeight = far
            BY <3>1, <3>3, PairTypes DEF WithBackup, Pairs
        <3> HIDE DEF b
        <3> QED
            BY <1>6, <2>3, <3>1, <3>2, <3>4 DEF Route
    <2> QED
        BY <1>8, <1>9, <2>1, <2>2, <2>3
<1>13. ASSUME NEW y \in Seen(u), y # me
       PROVE  \E c \in Conf(u) : Linked(r, c, y) /\ Weight(u, y) = Weight(u, c) + 1
    <2>1. CASE y \in Seen(m)
        <3>1. PICK c \in Conf(m) : Linked(r, c, y) /\ Weight(m, y) = Weight(m, c) + 1
            BY <1>1, <1>13, <2>1 DEF Paths
        <3>2. c \in Seen(m)
            BY DEF Seen
        <3> QED
            BY <1>8, <1>10, <2>1, <3>1, <3>2
    <2>2. CASE y \notin Seen(m)
        <3>1. y = x /\ Weight(u, y) = far /\ curr \in Conf(u)
            BY <1>1, <1>8, <1>9, <1>11, <2>2
        <3>2. far = Weight(u, curr) + 1
            BY <1>1, <1>10 DEF far
        <3> QED
            BY <1>3, <3>1, <3>2
    <2> QED
        BY <2>1, <2>2
<1>14. Paths(u, r, me)
    BY <1>1, <1>9, <1>12, <1>13 DEF Paths
<1>15. \A c \in Seen(m), y \in Nodes : Explored(m, c, y) => Explored(u, c, y)
    BY <1>9, <1>10, WeightsAre
<1>16. \A c \in Conf(u), y \in Nodes : c # curr /\ Linked(r, c, y) => Explored(u, c, y)
    <2>1. \A c \in Conf(m) : c \in Seen(m)
        BY DEF Seen
    <2> QED
        BY <1>8, <1>15, <2>1 DEF During
<1>17. Weight(u, x) <= far
    <2>1. CASE x \notin Seen(m)
        BY <1>4, <1>11, <2>1
    <2>2. CASE x \in Tent(m)
        BY <1>10, <2>2 DEF During, Seen, far
    <2>3. CASE x \in Conf(m)
        <3>1. Weight(u, x) = Weight(m, x) /\ Weight(m, x) <= Weight(m, curr)
            BY <1>10, <2>3 DEF During, Seen
        <3>2. Weight(m, x) \in Nat /\ Weight(m, curr) \in Nat
            BY <1>1, <1>2, <2>3 DEF Seen
        <3> QED
            BY <3>1, <3>2 DEF far
    <2> QED
        BY <2>1, <2>2, <2>3 DEF Seen
<1>18. Weight(u, curr) = Weight(m, curr) /\ far = Weight(u, curr) + 1
    BY <1>1, <1>10 DEF far
<1>19. Explored(u, curr, x)
    BY <1>9, <1>17, <1>18 DEF Explored
<1>20. ASSUME NEW i \in 1 .. k PROVE Explored(u, curr, r[curr][i])
    <2>1. CASE i = k
        BY <1>19, <2>1 DEF x
    <2>2. CASE i # k
        <3>1. i \in 1 .. k - 1 /\ i \in 1 .. Len(r[curr])
            BY <2>2
        <3>2. Explored(m, curr, r[curr][i])
            BY <3>1 DEF During
        <3>3. r[curr][i] \in Nodes
            BY <1>2, <3>2 DEF Explored
        <3> QED
            BY <1>1, <1>15, <3>2, <3>3
    <2> QED
        BY <2>1, <2>2
<1>21. \A c \in Conf(u) : Weight(u, c) <= Weight(u, curr)
    BY <1>8, <1>10, <1>18 DEF During, Seen
<1>22. ASSUME NEW t \in Tent(u)
       PROVE  Weight(u, curr) <= Weight(u, t) /\ Weight(u, t) <= Weight(u, curr) + 1
    <2>1. CASE t \in Tent(m)
        BY <1>10, <1>18, <2>1 DEF During, Seen
    <2>2. CASE t \notin Tent(m)
        <3>1. t = x /\ x \notin Seen(m)
            BY <1>8, <2>2 DEF Seen
        <3>2. Weight(u, t) = Weight(u, curr) + 1 /\ Weight(u, curr) \in Nat
            BY <1>1, <1>2, <1>11, <1>18, <3>1
        <3> QED
            BY <3>2
    <2> QED
        BY <2>1, <2>2
<1>23. During(u, r, me, num, curr, k, Arrays)
    BY <1>1, <1>8, <1>14, <1>16, <1>18, <1>20, <1>21, <1>22 DEF During
<1>24. PairOf(u, curr).nextHop = PairOf(m, curr).nextHop
    <2>1. \A v \in Pairs : WithBackup(v, next, far).nextHop = v.nextHop
        BY DEF WithBackup, Pairs
    <2> QED
        BY <1>1, <1>2, <1>8, <2>1
<1> QED
    BY <1>23, <1>24 DEF u, hop, x

\* When all neighbors of curr were looked at, the iteration is over.
LEMMA DuringOver ==
    ASSUME NEW Arrays, NEW r \in Rows, NEW me, NEW num \in Nat, NEW curr \in Nodes, NEW m,
           During(m, r, me, num, curr, Len(r[curr]), Arrays)
    PROVE  Between(m, r, me, num, Arrays)
<1>1. /\ Tables(m, Arrays) /\ Paths(m, r, me) /\ Cardinality(Filled(m.confirmed)) = num
      /\ me \in Conf(m) /\ curr \in Conf(m) /\ Weight(m, curr) < num
    BY DEF During
<1>2. \A y \in Seen(m) : Weight(m, y) \in Nat
    BY <1>1, TablesTypes
<1>3. ASSUME NEW c \in Conf(m), NEW x \in Nodes, Linked(r, c, x) PROVE Explored(m, c, x)
    <2>1. CASE c = curr
        <3>1. r[curr] \in Seq(Nodes) /\ DOMAIN r[curr] = 1 .. Len(r[curr])
            BY LenProperties DEF Rows
        <3> QED
            BY <1>3, <2>1, <3>1 DEF Linked, During
    <2>2. CASE c # curr
        BY <1>3, <2>2 DEF During
    <2> QED
        BY <2>1, <2>2
<1>4. curr \in Seen(m) /\ \A c \in Conf(m) : c \in Seen(m)
    BY <1>1 DEF Seen
<1>5. ASSUME NEW t \in Tent(m)
      PROVE  t \in Seen(m) /\ Weight(m, curr) <= Weight(m, t) /\ Weight(m, t) <= Weight(m, curr) + 1
    BY DEF During, Seen
<1>6. \A c \in Conf(m) : Weight(m, c) <= Weight(m, curr)
    BY DEF During
<1>7. \A c \in Conf(m), t \in Tent(m) : Weight(m, c) <= Weight(m, t)
    BY <1>2, <1>4, <1>5, <1>6
<1>8. \A s, t \in Tent(m) : Weight(m, s) <= Weight(m, t) + 1
    BY <1>2, <1>4, <1>5
<1>9. \A x \in Seen(m) : Weight(m, x) <= num
    <2>1. \A x \in Conf(m) : Weight(m, x) <= num
        BY <1>1, <1>2, <1>4, <1>6
    <2>2. \A x \in Tent(m) : Weight(m, x) <= num
        BY <1>1, <1>2, <1>4, <1>5
    <2> QED
        BY <2>1, <2>2 DEF Seen
<1> QED
    BY <1>1, <1>3, <1>7, <1>8, <1>9 DEF Between

\* A map has finitely many filled places.
LEMMA FilledIsFinite ==
    ASSUME NEW t
    PROVE  /\ IsFiniteSet(Filled(t)) /\ Cardinality(Filled(t)) \in Nat
           /\ Cardinality(Filled(t)) = HASH_MAX_SIZE => Filled(t) = Places
<1>1. 0 \in Int /\ HASH_MAX_SIZE - 1 \in Int /\ ~(0 > HASH_MAX_SIZE - 1)
      /\ HASH_MAX_SIZE - 1 - 0 + 1 = HASH_MAX_SIZE
    BY HashAssumption
<1>2. IsFiniteSet(Places) /\ Cardinality(Places) = HASH_MAX_SIZE
    BY <1>1, FS_Interval DEF Places
<1>3. Filled(t) \in SUBSET Places
    BY DEF Filled
<1> QED
    BY <1>2, <1>3, FS_Subset, FS_CardinalityType

\* The nearest tentative node is confirmed.
LEMMA DuringFirst ==
    ASSUME NEW Arrays, Roomy(Arrays), NEW r \in Rows, NEW me \in Nodes, NEW num \in Nat, NEW m,
           Between(m, r, me, num, Arrays), m.tentative.keys # << >>
    PROVE  LET curr == FindSmallestWeight(m.tentative)
               pair == Get(m.tentative, curr)
               u == [confirmed |-> InsertKey(m.confirmed, curr, pair),
                     tentative |-> RemoveKey(m.tentative, curr)]
           IN  During(u, r, me, num + 1, curr, 0, Arrays) /\ pair = PairOf(u, curr) /\ curr \in Nodes
<1> DEFINE c == m.confirmed
           t == m.tentative
           curr == FindSmallestWeight(t)
           pair == Get(t, curr)
           d == InsertKey(c, curr, pair)
           s == RemoveKey(t, curr)
           u == [confirmed |-> d, tentative |-> s]
<1>1. /\ Tables(m, Arrays) /\ Paths(m, r, me) /\ Cardinality(Filled(c)) = num
      /\ Sound(c, Arrays) /\ Sound(t, Arrays) /\ Conf(m) = Occupied(c) /\ Tent(m) = Occupied(t)
      /\ Occupied(c) \cap Occupied(t) = {} /\ Seen(m) = Occupied(c) \cup Occupied(t)
    BY DEF Between, Tables, Conf, Tent, Seen
<1>2. /\ m \in Maps /\ c \in Routes /\ t \in Routes /\ Seen(m) \subseteq Nodes
      /\ \A x \in Seen(m) : PairOf(m, x) \in Pairs /\ Weight(m, x) \in Nat
    BY <1>1, TablesTypes DEF Tables
<1>3. curr \in Occupied(t) /\ \A x \in Occupied(t) : Get(t, curr).weight <= Get(t, x).weight
    BY <1>1, SmallestHeld
<1> HIDE DEF curr
<1>4. curr \in Nodes /\ curr \in Seen(m) /\ curr \notin Occupied(c)
    BY <1>1, <1>2, <1>3
<1>5. \A x \in Occupied(t) : PairOf(m, x) = Get(t, x) /\ Weight(m, x) = Get(t, x).weight
    BY <1>1 DEF PairOf, Weight
<1>6. pair \in Pairs /\ pair = PairOf(m, curr)
    BY <1>2, <1>3, <1>4, <1>5
<1> HIDE DEF pair
<1>7. /\ Sound(d, Arrays) /\ Occupied(d) = Occupied(c) \cup {curr}
      /\ Get(d, curr) = pair /\ \A x \in Occupied(c) : Get(d, x) = Get(c, x)
      /\ \E j \in Places \ Filled(c) : Filled(d) = Filled(c) \cup {j}
    BY <1>1, <1>4, <1>6, InsertSound
<1>8. /\ Sound(s, Arrays) /\ Occupied(s) = Occupied(t) \ {curr}
      /\ \A x \in Occupied(s) : Get(s, x) = Get(t, x)
    BY <1>1, <1>3, RemoveSound
<1>9. d \in Routes /\ s \in Routes
    BY <1>7, <1>8 DEF Sound
<1> HIDE DEF d, s
<1>10. u.confirmed = d /\ u.tentative = s /\ u \in Maps
    BY <1>9 DEF Maps
<1> HIDE DEF u
<1>11. Conf(u) = Conf(m) \cup {curr} /\ Tent(u) = Tent(m) \ {curr} /\ Seen(u) = Seen(m)
    BY <1>1, <1>3, <1>7, <1>8, <1>10 DEF Conf, Tent, Seen
<1>12. Tables(u, Arrays)
    BY <1>1, <1>4, <1>7, <1>8, <1>10, <1>11 DEF Tables
<1>13. ASSUME NEW x \in Seen(m) PROVE PairOf(u, x) = PairOf(m, x)
    <2>1. CASE x = curr
        <3>1. x \in Conf(u)
            BY <1>11, <2>1
        <3> QED
            BY <1>6, <1>7, <1>10, <2>1, <3>1 DEF PairOf
    <2>2. CASE x # curr /\ x \in Occupied(c)
        <3>1. x \in Conf(u) /\ x \in Conf(m)
            BY <1>1, <1>11, <2>2
        <3> QED
            BY <1>7, <1>10, <2>2, <3>1 DEF PairOf
    <2>3. CASE x # curr /\ x \notin Occupied(c)
        <3>1. x \notin Conf(u) /\ x \notin Conf(m) /\ x \in Occupied(s)
            BY <1>1, <1>8, <1>11, <2>3
        <3> QED
            BY <1>8, <1>10, <3>1 DEF PairOf
    <2> QED
        BY <2>1, <2>2, <2>3
<1>14. \A x \in Seen(m) : Weight(u, x) = Weight(m, x)
    BY <1>13 DEF Weight
<1>15. \A x \in Conf(m) : x \in Seen(m) /\ x \in Conf(u)
    BY <1>11 DEF Seen
<1>16. Paths(u, r, me)
    <2>1. me \in Seen(u) /\ \A x \in Seen(u) : Route(r, me, x, PairOf(u, x))
        BY <1>1, <1>11, <1>13 DEF Paths
    <2>2. ASSUME NEW x \in Seen(u), x # me
          PROVE  \E e \in Conf(u) : Linked(r, e, x) /\ Weight(u, x) = Weight(u, e) + 1
        <3>1. PICK e \in Conf(m) : Linked(r, e, x) /\ Weight(m, x) = Weight(m, e) + 1
            BY <1>1, <1>11, <2>2 DEF Paths
        <3> QED
            BY <1>11, <1>14, <1>15, <3>1
    <2> QED
        BY <2>1, <2>2 DEF Paths
<1>17. Cardinality(Filled(u.confirmed)) = num + 1
    <2>1. PICK j \in Places \ Filled(c) : Filled(d) = Filled(c) \cup {j}
        BY <1>7
    <2> QED
        BY <1>1, <1>10, <2>1, FilledIsFinite, FS_AddElement
<1>18. me \in Conf(u) /\ curr \in Conf(u)
    <2>1. me \in Conf(m) \/ me = curr
        BY <1>1, <1>3 DEF Between
    <2> QED
        BY <1>11, <2>1
<1>19. Weight(u, curr) < num + 1
    <2>1. Weight(m, curr) <= num
        BY <1>4 DEF Between
    <2>2. Weight(m, curr) \in Nat
        BY <1>2, <1>4
    <2> QED
        BY <1>4, <1>14, <2>1, <2>2
<1>20. ASSUME NEW e \in Conf(u), NEW x \in Nodes, e # curr, Linked(r, e, x) PROVE Explored(u, e, x)
    <2>1. e \in Conf(m) /\ e \in Seen(m)
        BY <1>11, <1>15, <1>20
    <2>2. Explored(m, e, x)
        BY <1>20, <2>1 DEF Between
    <2> QED
        BY <1>11, <1>14, <2>1, <2>2, WeightsAre
<1>21. ASSUME NEW e \in Conf(u) PROVE Weight(u, e) <= Weight(u, curr)
    <2>1. CASE e = curr
        BY <1>2, <1>4, <1>14, <2>1
    <2>2. CASE e # curr
        <3>1. e \in Conf(m)
            BY <1>11, <2>2
        <3>2. Weight(m, e) <= Weight(m, curr)
            BY <1>1, <1>3, <3>1 DEF Between
        <3> QED
            BY <1>4, <1>14, <1>15, <3>1, <3>2
    <2> QED
        BY <2>1, <2>2
<1>22. ASSUME NEW x \in Tent(u)
       PROVE  Weight(u, curr) <= Weight(u, x) /\ Weight(u, x) <= Weight(u, curr) + 1
    <2>1. x \in Tent(m) /\ curr \in Tent(m) /\ x \in Seen(m)
        BY <1>1, <1>3, <1>11
    <2>2. Weight(m, curr) <= Weight(m, x)
        BY <1>1, <1>3, <1>5, <2>1
    <2>3. Weight(m, x) <= Weight(m, curr) + 1
        BY <2>1 DEF Between
    <2> QED
        BY <1>4, <1>14, <2>1, <2>2, <2>3
<1>23. \A i \in 1 .. 0 : Explored(u, curr, r[curr][i])
    OBVIOUS
<1>24. During(u, r, me, num + 1, curr, 0, Arrays)
    BY <1>12, <1>16, <1>17, <1>18, <1>19, <1>20, <1>21, <1>22, <1>23 DEF During
<1>25. pair = PairOf(u, curr)
    BY <1>4, <1>6, <1>13
<1> QED
    BY <1>4, <1>24, <1>25 DEF u, d, s, pair, curr

\* An iteration confirms one more node.
LEMMA LoopFinds ==
    ASSUME NEW Arrays, Roomy(Arrays), NEW r \in Rows, NEW me \in Nodes, NEW num \in Nat,
           num < HASH_MAX_SIZE, NEW m, Between(m, r, me, num, Arrays), m.tentative.keys # << >>
    PROVE  Between(DijkstraLoop(m, me, r), r, me, num + 1, Arrays)
<1> DEFINE curr == FindSmallestWeight(m.tentative)
           pair == Get(m.tentative, curr)
           u    == [confirmed |-> InsertKey(m.confirmed, curr, pair),
                    tentative |-> RemoveKey(m.tentative, curr)]
           n    == Len(r[curr])
<1>1. m \in Maps
    BY DEF Between, Tables
<1>2. During(u, r, me, num + 1, curr, 0, Arrays) /\ pair = PairOf(u, curr) /\ curr \in Nodes
    BY DuringFirst
<1>3. PICK run : LoopRun(m, me, r, run)
    BY <1>1, LoopRuns
<1>4. /\ run[0] = u /\ DijkstraLoop(m, me, r) = run[n]
      /\ \A i \in 1 .. n : run[i] = Relax(run[i - 1], me, curr, pair.nextHop, r[curr][i])
    BY <1>3 DEF LoopRun
<1> HIDE DEF u, pair, curr
<1>5. n \in Nat
    <2>1. r[curr] \in Seq(Nodes)
        BY <1>2 DEF Rows
    <2> QED
        BY <2>1, LenProperties
<1>6. num + 1 \in 1 .. HASH_MAX_SIZE /\ num + 1 \in Nat
    BY HashAssumption
<1> HIDE DEF n
<1> DEFINE Good == {i \in 0 .. n : /\ During(run[i], r, me, num + 1, curr, i, Arrays)
                                   /\ PairOf(run[i], curr).nextHop = pair.nextHop}
<1>7. 0 \in Good
    BY <1>2, <1>4, <1>5
<1>8. ASSUME NEW i \in 1 .. n, i - 1 \in Good PROVE i \in Good
    <2> DEFINE v == run[i - 1]
               w == run[i]
    <2>1. During(v, r, me, num + 1, curr, i - 1, Arrays) /\ PairOf(v, curr).nextHop = pair.nextHop
        BY <1>8
    <2>2. w = Relax(v, me, curr, PairOf(v, curr).nextHop, r[curr][i])
        BY <1>4, <2>1
    <2> HIDE DEF v, w
    <2>3. i \in 1 .. Len(r[curr]) /\ i \in 0 .. n
        BY DEF n
    <2>4. During(w, r, me, num + 1, curr, i, Arrays) /\ PairOf(w, curr).nextHop = PairOf(v, curr).nextHop
        BY <1>2, <1>6, <2>1, <2>2, <2>3, DuringNext
    <2> QED
        BY <2>1, <2>3, <2>4 DEF w
<1> HIDE DEF Good
<1>9. n \in Good
    <2>1. 0 .. n \subseteq Good
        BY <1>5, <1>7, <1>8, Climb
    <2> QED
        BY <1>5, <2>1
<1>10. During(run[n], r, me, num + 1, curr, n, Arrays)
    BY <1>9 DEF Good
<1> QED
    BY <1>2, <1>4, <1>6, <1>10, DuringOver DEF n

\* Before the first iteration.
LEMMA BetweenFirst ==
    ASSUME NEW Arrays, Roomy(Arrays), NEW r \in Rows, NEW me \in Nodes,
           NEW before \in Routes, Occupied(before) = {}, before.keys = << >>
    PROVE  Between([confirmed |-> before, tentative |-> InsertKey(NoRoutes, me, Pair(me, 0, me))],
                   r, me, 0, Arrays)
<1> DEFINE t == InsertKey(NoRoutes, me, Pair(me, 0, me))
           m == [confirmed |-> before, tentative |-> t]
<1>1. /\ Pair(me, 0, me) \in Pairs /\ Pair(me, 0, me).node = me /\ Pair(me, 0, me).weight = 0
      /\ Pair(me, 0, me).backupNextHop = 0
    BY NodesType, PairTypes DEF Pair
<1>2. NoRoutes \in Routes /\ Occupied(NoRoutes) = {} /\ NoRoutes.keys = << >>
    BY NoRoutesType DEF NoRoutes, EmptyTable, Occupied
<1>3. Sound(before, Arrays) /\ Sound(NoRoutes, Arrays)
    BY <1>2, EmptyIsSound
<1>4. me \in Nodes \ Occupied(NoRoutes)
    BY <1>2
<1>5. Sound(t, Arrays) /\ Occupied(t) = Occupied(NoRoutes) \cup {me} /\ Get(t, me) = Pair(me, 0, me)
    BY <1>1, <1>3, <1>4, InsertSound
<1> HIDE DEF t
<1>6. m.confirmed = before /\ m.tentative = t /\ m \in Maps
    BY <1>5 DEF Maps, Sound
<1> HIDE DEF m
<1>7. Conf(m) = {} /\ Tent(m) = {me} /\ Seen(m) = {me}
    BY <1>2, <1>5, <1>6 DEF Conf, Tent, Seen
<1>8. Tables(m, Arrays)
    BY <1>3, <1>5, <1>6, <1>7 DEF Tables
<1>9. PairOf(m, me) = Pair(me, 0, me) /\ Weight(m, me) = 0
    BY <1>1, <1>5, <1>6, <1>7 DEF PairOf, Weight
<1>10. Paths(m, r, me)
    BY <1>1, <1>7, <1>9 DEF Paths, Route
<1>11. Cardinality(Filled(m.confirmed)) = 0
    <2>1. Filled(before) = {}
        BY DEF Filled, Occupied
    <2> QED
        BY <1>6, <2>1, FS_EmptySet
<1>12. Between(m, r, me, 0, Arrays)
    BY <1>7, <1>8, <1>9, <1>10, <1>11 DEF Between
<1> QED
    BY <1>12 DEF m, t

\* What is in the maps when the search has found the table t.
Found(m, t, r, me, Arrays) ==
    /\ \E num \in 0 .. HASH_MAX_SIZE : Between(m, r, me, num, Arrays)
    /\ Tent(m) = {} /\ t = m.confirmed

\* The search ends with nothing in tentative: the map would be full before.
LEMMA SearchEnds ==
    ASSUME NEW Arrays, Roomy(Arrays), NEW r \in Rows, NEW me \in Nodes,
           NEW before \in Routes, Occupied(before) = {}, before.keys = << >>
    PROVE  \E m : Found(m, FindShortestPath(before, me, r), r, me, Arrays)
<1> DEFINE n == HASH_MAX_SIZE
<1>1. n \in Nat
    BY HashAssumption
<1>2. PICK run : ShortestRun(before, me, r, run)
    BY ShortestRuns
<1>3. /\ run[0] = [confirmed |-> before, tentative |-> InsertKey(NoRoutes, me, Pair(me, 0, me))]
      /\ \A i \in 1 .. n : run[i] = Once(run[i - 1], me, r)
      /\ FindShortestPath(before, me, r) = run[n].confirmed
    BY <1>2 DEF ShortestRun
<1> HIDE DEF n
<1> DEFINE At(i) == \E num \in 0 .. i : /\ Between(run[i], r, me, num, Arrays)
                                        /\ run[i].tentative.keys = << >> \/ num = i
           Good == {i \in 0 .. n : At(i)}
<1>4. 0 \in Good
    <2>1. Between(run[0], r, me, 0, Arrays)
        BY <1>3, BetweenFirst
    <2>2. 0 \in 0 .. 0 /\ 0 \in 0 .. n
        BY <1>1
    <2> QED
        BY <2>1, <2>2
<1>5. ASSUME NEW i \in 1 .. n, i - 1 \in Good PROVE i \in Good
    <2>1. PICK num \in 0 .. i - 1 : /\ Between(run[i - 1], r, me, num, Arrays)
                                    /\ run[i - 1].tentative.keys = << >> \/ num = i - 1
        BY <1>5
    <2>2. run[i] = Once(run[i - 1], me, r) /\ i \in 0 .. n /\ i \in Nat
        BY <1>1, <1>3
    <2>3. CASE run[i - 1].tentative.keys = << >>
        <3>1. run[i] = run[i - 1] /\ num \in 0 .. i
            BY <2>2, <2>3 DEF Once
        <3> QED
            BY <2>1, <2>2, <2>3, <3>1
    <2>4. CASE run[i - 1].tentative.keys # << >>
        <3>1. run[i] = DijkstraLoop(run[i - 1], me, r)
            BY <2>2, <2>4 DEF Once
        <3>2. num = i - 1 /\ num \in Nat /\ num < HASH_MAX_SIZE /\ num + 1 = i /\ i \in 0 .. i
            BY <1>1, <2>1, <2>2, <2>4 DEF n
        <3>3. Between(run[i], r, me, i, Arrays)
            BY <2>1, <2>4, <3>1, <3>2, LoopFinds
        <3> QED
            BY <2>2, <3>2, <3>3
    <2> QED
        BY <2>3, <2>4
<1> HIDE DEF Good
<1>6. n \in Good
    <2>1. 0 .. n \subseteq Good
        BY <1>1, <1>4, <1>5, Climb
    <2> QED
        BY <1>1, <2>1
<1>7. PICK num \in 0 .. n : /\ Between(run[n], r, me, num, Arrays)
                            /\ run[n].tentative.keys = << >> \/ num = n
    BY <1>6 DEF Good
<1> DEFINE m == run[n]
<1> HIDE DEF m
<1>8. Between(m, r, me, num, Arrays) /\ Tables(m, Arrays) /\ (m.tentative.keys = << >> \/ num = n)
    BY <1>7 DEF m, Between
<1>9. Tent(m) = {}
    <2>1. CASE m.tentative.keys = << >>
        <3>1. Tent(m) = {m.tentative.keys[i] : i \in 1 .. Len(m.tentative.keys)}
            BY <1>8 DEF Tables, Sound, Tent
        <3>2. 1 .. Len(m.tentative.keys) = {}
            BY <2>1, EmptySeq
        <3> QED
            BY <3>1, <3>2
    <2>2. CASE num = n
        <3> SUFFICES ASSUME NEW x \in Tent(m) PROVE FALSE
            OBVIOUS
        <3> DEFINE a == m.confirmed.key
        <3>1. Filled(m.confirmed) = Places
            BY <1>8, <2>2, FilledIsFinite DEF Between, n
        <3>2. a \in Arrays /\ x \in Nodes \ Holds(a)
            <4>1. x \in Nodes
                BY <1>8, TablesTypes DEF Seen
            <4>2. a \in Arrays /\ x \notin Conf(m)
                BY <1>8 DEF Tables, Sound
            <4> QED
                BY <4>1, <4>2 DEF Holds, Occupied, Conf
        <3>3. \E i \in Places : a[Hash(x, i)] = EMPTY_KEY
            BY <3>2 DEF Roomy
        <3>4. \A i \in Places : Hash(x, i) \in Places
            BY <3>2, NodesType, HashType, PlacesType
        <3> QED
            BY <3>1, <3>3, <3>4 DEF Filled
    <2> QED
        BY <1>8, <2>1, <2>2
<1>10. Found(m, FindShortestPath(before, me, r), r, me, Arrays)
    BY <1>3, <1>8, <1>9 DEF m, n, Found
<1> QED
    BY <1>10

\* A table that lists what me reaches by the rows r, with its distances, the first nodes
\* of shortest paths, and backups that are another way.
RightTable(t, r, me) ==
    /\ ToSet(t.keys) = Reached(r, me)
    /\ \A x \in Reached(r, me) :
        LET pair == Get(t, x) IN
        /\ pair.node = x /\ pair.weight = Dist(r, me, x)
        /\ x # me => /\ Linked(r, me, pair.nextHop) /\ x \in Reached(r, pair.nextHop)
                     /\ Dist(r, pair.nextHop, x) = pair.weight - 1
        /\ pair.backupNextHop # 0 =>
              /\ pair.backupNextHop # pair.nextHop /\ Linked(r, me, pair.backupNextHop)
              /\ Dist(r, pair.backupNextHop, x) < pair.backupWeight

\* findShortestPath is correct: from an empty map, if the maps have room for all nodes, it
\* computes the shortest paths.
THEOREM FindsShortestPaths ==
    ASSUME NEW Arrays, Roomy(Arrays), NEW r \in Rows, NEW me \in Nodes,
           NEW before \in Routes, Occupied(before) = {}, before.keys = << >>
    PROVE  LET t == FindShortestPath(before, me, r) IN
           Sound(t, Arrays) /\ Occupied(t) = Reached(r, me) /\ RightTable(t, r, me)
<1> DEFINE t == FindShortestPath(before, me, r)
<1>1. PICK m : Found(m, t, r, me, Arrays)
    BY SearchEnds
<1>2. PICK num \in 0 .. HASH_MAX_SIZE : Between(m, r, me, num, Arrays)
    BY <1>1 DEF Found
<1>0. t = m.confirmed /\ Tent(m) = {}
    BY <1>1 DEF Found
<1> HIDE DEF t
<1>3. /\ Tables(m, Arrays) /\ Paths(m, r, me) /\ Sound(t, Arrays) /\ Seen(m) = Conf(m)
      /\ Conf(m) = Occupied(t) /\ \A x \in Conf(m) : PairOf(m, x) = Get(t, x)
    BY <1>0, <1>2 DEF Between, Tables, Seen, Conf, PairOf
<1> DEFINE C == Conf(m)
           w == [x \in C |-> Get(t, x).weight]
<1>4. HASH_MAX_SIZE \in Nat /\ num \in Nat /\ num <= HASH_MAX_SIZE
    BY HashAssumption
<1>5. C \in SUBSET Nodes /\ me \in C
    BY <1>3, TablesTypes DEF Paths
<1>6. \A x \in C : w[x] = Weight(m, x) /\ w[x] = Get(t, x).weight
    BY <1>3 DEF Weight
<1>7. \A x \in C : Weight(m, x) \in 0 .. HASH_MAX_SIZE
    <2>1. \A x \in C : Weight(m, x) \in Nat /\ Weight(m, x) <= num
        BY <1>2, <1>3, TablesTypes DEF Between
    <2> QED
        BY <1>4, <2>1
<1>8. w \in [C -> 0 .. HASH_MAX_SIZE]
    <2>1. \A x \in C : Get(t, x).weight \in 0 .. HASH_MAX_SIZE
        BY <1>6, <1>7
    <2> QED
        BY <2>1
<1> HIDE DEF w
<1>9. w[me] = 0
    BY <1>3, <1>5, <1>6 DEF Paths, Route
<1>10. \A x \in C : x # me => \E c \in C : Linked(r, c, x) /\ w[x] = w[c] + 1
    BY <1>3, <1>6 DEF Paths
<1>11. \A c \in C, x \in Nodes : Linked(r, c, x) => x \in C /\ w[x] <= w[c] + 1
    BY <1>2, <1>3, <1>6 DEF Between, Explored
<1> HIDE DEF C
<1>12. /\ C = Reached(r, me) /\ \A x \in C : Dist(r, me, x) = w[x]
       /\ \A x \in C, d \in Nat : x \in Within(r, me, d) => w[x] <= d
    BY <1>5, <1>8, <1>9, <1>10, <1>11, Levels
<1>13. ToSet(t.keys) = C
    <2>1. t.keys \in Seq(Nodes) /\ DOMAIN t.keys = 1 .. Len(t.keys)
        BY <1>3, LenProperties DEF Sound, Routes
    <2> QED
        BY <1>3, <2>1 DEF Sound, ToSet, C
<1>14. ASSUME NEW x \in C
       PROVE  LET pair == Get(t, x) IN
              /\ pair.node = x /\ pair.weight = Dist(r, me, x)
              /\ x # me => /\ Linked(r, me, pair.nextHop) /\ x \in Reached(r, pair.nextHop)
                           /\ Dist(r, pair.nextHop, x) = pair.weight - 1
              /\ pair.backupNextHop # 0 =>
                    /\ pair.backupNextHop # pair.nextHop /\ Linked(r, me, pair.backupNextHop)
                    /\ Dist(r, pair.backupNextHop, x) < pair.backupWeight
    <2> DEFINE pair == Get(t, x)
    <2>1. Route(r, me, x, pair)
        BY <1>3 DEF Paths, C
    <2>2. w[x] = pair.weight /\ pair.weight = Dist(r, me, x)
        BY <1>6, <1>12 DEF C
    <2> HIDE DEF pair
    <2>3. pair.node = x
        BY <2>1 DEF Route
    <2>4. ASSUME NEW h, NEW d, Through(r, me, x, h, d)
          PROVE  /\ Linked(r, me, h) /\ h \in Nodes /\ d \in Nat /\ x \in Reached(r, h) /\ Dist(r, h, x) \in 0 .. d - 1
                 /\ w[x] <= Dist(r, h, x) + 1
        <3>1. /\ h \in Nodes /\ Linked(r, me, h) /\ d \in Nat /\ d - 1 \in 0 .. HASH_MAX_SIZE
              /\ x \in Within(r, h, d - 1)
            BY <1>4, <2>4 DEF Through
        <3>2. Dist(r, h, x) \in 0 .. d - 1 /\ x \in Within(r, h, Dist(r, h, x))
            BY <3>1, DistLeast
        <3>3. Dist(r, h, x) \in Nat /\ Dist(r, h, x) + 1 \in Nat
            BY <3>2
        <3>4. x \in Within(r, me, Dist(r, h, x) + 1)
            BY <1>5, <3>1, <3>2, <3>3, WithinThrough
        <3>5. x \in Reached(r, h)
            <4>1. d - 1 \in Nat /\ d - 1 <= HASH_MAX_SIZE
                BY <1>4, <3>1
            <4> QED
                BY <1>4, <3>1, <4>1, WithinGrows DEF Reached
        <3> QED
            BY <1>12, <3>1, <3>2, <3>3, <3>4, <3>5
    <2>5. ASSUME x # me
          PROVE  /\ Linked(r, me, pair.nextHop) /\ x \in Reached(r, pair.nextHop)
                 /\ Dist(r, pair.nextHop, x) = pair.weight - 1
        <3> DEFINE d == Dist(r, pair.nextHop, x)
        <3>1. Through(r, me, x, pair.nextHop, pair.weight)
            BY <2>1, <2>5 DEF Route
        <3>2. Linked(r, me, pair.nextHop) /\ x \in Reached(r, pair.nextHop) /\ pair.weight \in Nat /\ d \in 0 .. pair.weight - 1
              /\ pair.weight <= d + 1
            BY <2>2, <2>4, <3>1
        <3> HIDE DEF d
        <3>3. d = pair.weight - 1
            BY <3>2
        <3> QED
            BY <3>2, <3>3 DEF d
    <2>6. ASSUME pair.backupNextHop # 0
          PROVE  /\ pair.backupNextHop # pair.nextHop /\ Linked(r, me, pair.backupNextHop)
                 /\ Dist(r, pair.backupNextHop, x) < pair.backupWeight
        <3>1. pair.backupNextHop # pair.nextHop
              /\ Through(r, me, x, pair.backupNextHop, pair.backupWeight)
            BY <2>1, <2>6 DEF Route
        <3>2. Linked(r, me, pair.backupNextHop) /\ pair.backupWeight \in Nat
              /\ Dist(r, pair.backupNextHop, x) \in 0 .. pair.backupWeight - 1
            BY <2>4, <3>1
        <3> QED
            BY <3>1, <3>2
    <2> QED
        BY <2>2, <2>3, <2>5, <2>6 DEF pair
<1>15. RightTable(t, r, me)
    BY <1>12, <1>13, <1>14 DEF RightTable
<1> QED
    BY <1>3, <1>12, <1>15 DEF t, C

-----------------------------------------------------------------------------
(* Lists of packets *)

Messages == [packet : Packet, to : Nodes]

Id(p)      == <<p.src, p.dest>>
Entries(s) == {s[k] : k \in 1 .. Len(s)}
Unique(s)  == \A j, k \in 1 .. Len(s) : Id(s[j]) = Id(s[k]) => j = k

\* The entries of a list are its elements.
LEMMA EntriesAre ==
    ASSUME NEW s \in Seq(Packet)
    PROVE  /\ Len(s) \in Nat /\ DOMAIN s = 1 .. Len(s) /\ ToSet(s) = Entries(s)
           /\ Entries(s) \subseteq Packet
<1>1. Len(s) \in Nat /\ DOMAIN s = 1 .. Len(s) /\ \A k \in 1 .. Len(s) : s[k] \in Packet
    BY LenProperties, ElementOfSeq
<1> QED
    BY <1>1 DEF ToSet, Entries

\* The empty list.
LEMMA NoEntries == << >> \in Seq(Packet) /\ Len(<< >>) = 0 /\ Entries(<< >>) = {} /\ Unique(<< >>)
    BY DEF Entries, Unique

\* A list of one packet.
LEMMA OneEntry ==
    ASSUME NEW p \in Packet
    PROVE  <<p>> \in Seq(Packet) /\ Len(<<p>>) = 1 /\ Entries(<<p>>) = {p} /\ Unique(<<p>>)
<1>1. <<p>> \in Seq(Packet) /\ Len(<<p>>) = 1 /\ <<p>>[1] = p
    OBVIOUS
<1>2. 1 .. 1 = {1}
    OBVIOUS
<1> QED
    BY <1>1, <1>2 DEF Entries, Unique

\* A packet more at the end of a list.
LEMMA AppendEntry ==
    ASSUME NEW s \in Seq(Packet), NEW p \in Packet
    PROVE  /\ Append(s, p) \in Seq(Packet) /\ Entries(Append(s, p)) = Entries(s) \cup {p}
           /\ Unique(s) /\ (\A q \in Entries(s) : Id(q) # Id(p)) => Unique(Append(s, p))
<1> DEFINE a == Append(s, p)
           n == Len(s)
<1>1. /\ n \in Nat /\ a \in Seq(Packet) /\ Len(a) = n + 1 /\ a[n + 1] = p
      /\ \A k \in 1 .. n : a[k] = s[k]
    OBVIOUS
<1>2. /\ \A k \in 1 .. n : k \in 1 .. n + 1
      /\ n + 1 \in 1 .. n + 1
      /\ \A k \in 1 .. n + 1 : k \in 1 .. n \/ k = n + 1
    BY <1>1
<1> HIDE DEF a, n
<1>3. Entries(a) = Entries(s) \cup {p}
    <2>1. Entries(s) = {s[k] : k \in 1 .. n} /\ Entries(a) = {a[k] : k \in 1 .. n + 1}
        BY <1>1 DEF Entries, n
    <2> QED
        BY <1>1, <1>2, <2>1
<1>4. ASSUME Unique(s), \A q \in Entries(s) : Id(q) # Id(p) PROVE Unique(a)
    <2>1. \A k \in 1 .. n : Id(a[k]) # Id(p)
        BY <1>1, <1>4 DEF Entries, n
    <2>2. \A j, k \in 1 .. n : Id(a[j]) = Id(a[k]) => j = k
        BY <1>1, <1>4 DEF Unique, n
    <2> QED
        BY <1>1, <1>2, <2>1, <2>2 DEF Unique
<1> QED
    BY <1>1, <1>3, <1>4 DEF a

\* A list behind another one.
LEMMA ConcatEntries ==
    ASSUME NEW s \in Seq(Packet), NEW t \in Seq(Packet)
    PROVE  /\ s \o t \in Seq(Packet) /\ Len(s \o t) = Len(s) + Len(t)
           /\ Entries(s \o t) = Entries(s) \cup Entries(t)
           /\ Unique(s) /\ Unique(t) /\ (\A p \in Entries(s), q \in Entries(t) : Id(p) # Id(q))
                => Unique(s \o t)
<1> DEFINE c == s \o t
           m == Len(s)
           n == Len(t)
<1>1. /\ m \in Nat /\ n \in Nat /\ c \in Seq(Packet) /\ Len(c) = m + n
      /\ \A k \in 1 .. m + n : c[k] = IF k <= m THEN s[k] ELSE t[k - m]
    BY ConcatProperties, LenProperties
<1>2. /\ \A k \in 1 .. m : k \in 1 .. m + n /\ k <= m
      /\ \A k \in 1 .. n : k + m \in 1 .. m + n /\ ~(k + m <= m) /\ (k + m) - m = k
      /\ \A k \in 1 .. m + n : k <= m => k \in 1 .. m
      /\ \A k \in 1 .. m + n : ~(k <= m) => k - m \in 1 .. n
      /\ \A j, k \in 1 .. m + n : j - m = k - m => j = k
    BY <1>1
<1> HIDE DEF c, m, n
<1>3. /\ Entries(s) = {s[k] : k \in 1 .. m} /\ Entries(t) = {t[k] : k \in 1 .. n}
      /\ Entries(c) = {c[k] : k \in 1 .. m + n}
    BY <1>1 DEF Entries, m, n
<1>4. Entries(c) = Entries(s) \cup Entries(t)
    <2>1. ASSUME NEW p \in Entries(c) PROVE p \in Entries(s) \cup Entries(t)
        <3>1. PICK k \in 1 .. m + n : p = c[k]
            BY <1>3
        <3>2. CASE k <= m
            BY <1>1, <1>2, <1>3, <3>1, <3>2
        <3>3. CASE ~(k <= m)
            BY <1>1, <1>2, <1>3, <3>1, <3>3
        <3> QED
            BY <3>2, <3>3
    <2>2. ASSUME NEW p \in Entries(s) PROVE p \in Entries(c)
        <3>1. PICK k \in 1 .. m : p = s[k]
            BY <1>3
        <3> QED
            BY <1>1, <1>2, <1>3, <3>1
    <2>3. ASSUME NEW p \in Entries(t) PROVE p \in Entries(c)
        <3>1. PICK k \in 1 .. n : p = t[k]
            BY <1>3
        <3>2. c[k + m] = t[k] /\ k + m \in 1 .. m + n
            BY <1>1, <1>2
        <3> QED
            BY <1>3, <3>1, <3>2
    <2> QED
        BY <2>1, <2>2, <2>3
<1>5. ASSUME Unique(s), Unique(t), \A p \in Entries(s), q \in Entries(t) : Id(p) # Id(q)
      PROVE  Unique(c)
    <2>1. SUFFICES ASSUME NEW j \in 1 .. m + n, NEW k \in 1 .. m + n, Id(c[j]) = Id(c[k])
                   PROVE  j = k
        BY <1>1 DEF Unique
    <2>2. CASE j <= m /\ k <= m
        <3>1. j \in 1 .. m /\ k \in 1 .. m /\ c[j] = s[j] /\ c[k] = s[k]
            BY <1>1, <1>2, <2>2
        <3> QED
            BY <1>5, <2>1, <3>1 DEF Unique, m
    <2>3. CASE ~(j <= m) /\ ~(k <= m)
        <3>1. j - m \in 1 .. n /\ k - m \in 1 .. n /\ c[j] = t[j - m] /\ c[k] = t[k - m]
            BY <1>1, <1>2, <2>3
        <3>2. j - m = k - m
            BY <1>5, <2>1, <3>1 DEF Unique, n
        <3> QED
            BY <1>2, <3>2
    <2>4. CASE j <= m /\ ~(k <= m)
        <3>1. c[j] \in Entries(s) /\ c[k] \in Entries(t)
            BY <1>1, <1>2, <1>3, <2>4
        <3> QED
            BY <1>5, <2>1, <3>1
    <2>5. CASE ~(j <= m) /\ k <= m
        <3>1. c[k] \in Entries(s) /\ c[j] \in Entries(t)
            BY <1>1, <1>2, <1>3, <2>5
        <3> QED
            BY <1>5, <2>1, <3>1
    <2> QED
        BY <2>2, <2>3, <2>4, <2>5
<1> QED
    BY <1>1, <1>4, <1>5 DEF c, m, n

\* What finds room in a list.
LEMMA KeptEffect ==
    ASSUME NEW w \in Seq(Packet), Len(w) <= CACHE, NEW h \in Seq(Packet),
           NEW kept, kept = Kept(w, h)
    PROVE  /\ kept \in Seq(Packet) /\ Len(w) + Len(kept) <= CACHE
           /\ Entries(kept) \subseteq Entries(h)
           /\ Unique(h) => Unique(kept)
<1> DEFINE room == CACHE - Len(w)
           s == SubSeq(h, 1, room)
<1>0. /\ CACHE \in Nat /\ Len(w) \in Nat /\ Len(h) \in Nat /\ room \in Nat
      /\ Len(w) + room = CACHE
    BY IpAssumption, LenProperties
<1>1. CASE Len(h) <= room
    <2>1. kept = h
        BY <1>1 DEF Kept
    <2> QED
        BY <1>0, <1>1, <2>1
<1>2. CASE ~(Len(h) <= room)
    <2>1. kept = s
        BY <1>2 DEF Kept
    <2> HIDE DEF room
    <2>2. \A i \in 1 .. room : i \in 1 .. Len(h) /\ h[i] \in Packet /\ room - 1 + 1 = room
                               /\ 1 + i - 1 = i
        BY <1>0, <1>2, ElementOfSeq
    <2>3. /\ s \in Seq(Packet) /\ Len(s) = room /\ \A i \in 1 .. room : s[i] = h[i]
        <3>1. /\ s \in Seq(Packet)
              /\ Len(s) = IF 1 <= room THEN room - 1 + 1 ELSE 0
              /\ \A i \in 1 .. room - 1 + 1 : s[i] = h[1 + i - 1]
            BY <1>0, <2>2, SubSeqProperties
        <3> HIDE DEF s
        <3> QED
            BY <1>0, <2>2, <3>1
    <2> HIDE DEF s
    <2>4. Entries(s) \subseteq Entries(h)
        BY <2>2, <2>3 DEF Entries
    <2>5. Unique(h) => Unique(s)
        BY <2>2, <2>3 DEF Unique
    <2> QED
        BY <1>0, <2>1, <2>3, <2>4, <2>5
<1> QED
    BY <1>1, <1>2

\* The packets without a next hop, one after the other.
LEMMA HoplessEffect ==
    ASSUME NEW n, NEW packets \in Seq(Packet), NEW h, h = Hopless(n, packets)
    PROVE  /\ h \in Seq(Packet)
           /\ Entries(h) = {p \in Entries(packets) : HopTo(n, p) = 0}
           /\ Unique(packets) => Unique(h)
<1> DEFINE l == Len(packets)
           Lists == Seq(Packet)
           Put(s, i) == IF HopTo(n, packets[i]) = 0 THEN Append(s, packets[i]) ELSE s
           IsRun(r) == r = [i \in 0 .. l |-> IF i = 0 THEN << >> ELSE Put(r[i - 1], i)]
           run == CHOOSE r : IsRun(r)
<1>1. h = run[l]
    <2>1. Hopless(n, packets) = run[l]
        BY DEF Hopless
    <2> QED
        BY <2>1
<1>2. l \in Nat /\ \A i \in 1 .. l : packets[i] \in Packet
    BY LenProperties, ElementOfSeq
<1>3. << >> \in Lists
    BY NoEntries
<1>4. ASSUME NEW s \in Lists, NEW i \in 1 .. l PROVE Put(s, i) \in Lists
    BY <1>2, AppendEntry
<1> HIDE DEF l, Lists, Put
<1> DEFINE step == [i \in 1 .. l |-> [s \in Lists |-> Put(s, i)]]
<1>5. step \in [1 .. l -> [Lists -> Lists]]
    BY <1>4
<1>6. \A i \in 1 .. l, s \in Lists : step[i][s] = Put(s, i)
    OBVIOUS
<1> HIDE DEF step
<1>7. PICK g \in [0 .. l -> Lists] : g[0] = << >> /\ \A i \in 1 .. l : g[i] = step[i][g[i - 1]]
    <2>1. \E r : Recursion(r, l, Lists, << >>, step)
        BY <1>2, <1>3, <1>5, RecursionExists
    <2> QED
        BY <2>1 DEF Recursion
<1>8. \A i \in 1 .. l : i \in 0 .. l /\ i - 1 \in 0 .. l /\ i # 0 /\ g[i] = Put(g[i - 1], i)
    <2>1. \A i \in 1 .. l : i \in 0 .. l /\ i - 1 \in 0 .. l /\ i # 0
        BY <1>2
    <2> QED
        BY <1>6, <1>7, <2>1
<1>9. \A i \in 0 .. l : i # 0 => i \in 1 .. l
    BY <1>2
<1>10. IsRun(g)
    BY <1>7, <1>8, <1>9
<1>11. IsRun(run)
    BY <1>10
<1> HIDE DEF run
<1> DEFINE Works(i) == /\ run[i] \in Lists
                       /\ Entries(run[i]) = {packets[j] : j \in
                                               {k \in 1 .. i : HopTo(n, packets[k]) = 0}}
                       /\ Unique(packets) => Unique(run[i])
           Good == {i \in 0 .. l : Works(i)}
<1>12. 0 \in Good
    BY <1>2, <1>3, <1>11, NoEntries
<1>13. ASSUME NEW i \in 1 .. l, i - 1 \in Good PROVE i \in Good
    <2> DEFINE s == run[i - 1]
               p == packets[i]
               Before == {k \in 1 .. i - 1 : HopTo(n, packets[k]) = 0}
               Upto   == {k \in 1 .. i : HopTo(n, packets[k]) = 0}
    <2>1. run[i] = Put(s, i) /\ p \in Packet
        BY <1>2, <1>8, <1>11
    <2>2. /\ s \in Seq(Packet) /\ Entries(s) = {packets[j] : j \in Before}
          /\ Unique(packets) => Unique(s)
        BY <1>13 DEF Lists
    <2>3. \A k \in 1 .. i : k \in 1 .. i - 1 \/ k = i
        BY <1>2
    <2>4. /\ i \in 1 .. i /\ i \in 0 .. l
          /\ \A k \in 1 .. i - 1 : k \in 1 .. i /\ k # i /\ k \in 1 .. l
        BY <1>2
    <2>5. CASE HopTo(n, p) = 0
        <3>1. run[i] = Append(s, p)
            BY <2>1, <2>5 DEF Put
        <3>2. Upto = Before \cup {i}
            BY <2>3, <2>4, <2>5
        <3> HIDE DEF s, Before, Upto
        <3>3. run[i] \in Lists /\ Entries(run[i]) = {packets[j] : j \in Upto}
            <4>1. run[i] \in Seq(Packet) /\ Entries(run[i]) = Entries(s) \cup {p}
                BY <2>1, <2>2, <3>1, AppendEntry
            <4> QED
                BY <2>2, <3>2, <4>1 DEF Lists
        <3>4. ASSUME Unique(packets) PROVE Unique(run[i])
            <4>1. ASSUME NEW q \in Entries(s) PROVE Id(q) # Id(p)
                <5>1. PICK j \in Before : q = packets[j]
                    BY <2>2
                <5>2. j \in 1 .. l /\ i \in 1 .. l /\ j # i
                    BY <2>4 DEF Before
                <5> QED
                    BY <3>4, <5>1, <5>2 DEF Unique, l
            <4> QED
                BY <2>1, <2>2, <3>1, <3>4, <4>1, AppendEntry
        <3> QED
            BY <2>4, <3>3, <3>4 DEF Upto
    <2>6. CASE HopTo(n, p) # 0
        <3>1. run[i] = s
            BY <2>1, <2>6 DEF Put
        <3>2. Upto = Before
            BY <2>3, <2>4, <2>6
        <3> HIDE DEF s, Before
        <3> QED
            BY <2>2, <2>4, <3>1, <3>2 DEF Lists
    <2> QED
        BY <2>5, <2>6
<1> HIDE DEF Good
<1>14. 0 .. l \subseteq Good
    BY <1>2, <1>12, <1>13, Climb
<1>15. Works(l)
    BY <1>2, <1>14 DEF Good
<1>16. {packets[j] : j \in {k \in 1 .. l : HopTo(n, packets[k]) = 0}}
            = {p \in Entries(packets) : HopTo(n, p) = 0}
    BY DEF Entries, l
<1> QED
    BY <1>1, <1>15, <1>16 DEF Lists

-----------------------------------------------------------------------------
(* Where the packets are *)

\* No packet is in two places of a network N and lists C.
Separate(N, C) ==
    /\ \A a, b \in N : Id(a.packet) = Id(b.packet) => a = b
    /\ \A n \in Nodes : Unique(C[n])
    /\ \A n, m \in Nodes : \A p \in Entries(C[n]), q \in Entries(C[m]) : Id(p) = Id(q) => n = m
    /\ \A a \in N, n \in Nodes : \A p \in Entries(C[n]) : Id(p) # Id(a.packet)

Somewhere(N, C, i) ==
    \/ \E a \in N : Id(a.packet) = i
    \/ \E n \in Nodes : \E p \in Entries(C[n]) : Id(p) = i

\* The packets that are in no place are those that have ended or were never sent,
\* but for those a node is just looking at (packets).
Accounted(N, C, packets) ==
    /\ Separate(N, C)
    /\ Unique(packets)
    /\ \A p \in Entries(packets) : ~Somewhere(N, C, Id(p))
    /\ \A i \in Pings : (\A p \in Entries(packets) : Id(p) # i) =>
          (fate[i] = "travelling" <=> Somewhere(N, C, i))

Placed ==
    /\ Separate(net, cache)
    /\ \A i \in Pings : fate[i] = "travelling" <=> Somewhere(net, cache, i)

\* What Ip.ping leaves of the packets it looks at: those on the air (sent), and those
\* in the list (kept) behind the ones that were there.
Stay(n, packets) == {p \in Entries(packets) : HopTo(n, p) = 0}
Go(n, packets)   == {p \in Entries(packets) : HopTo(n, p) # 0}

Left(n, w, packets, N, kept, sent) ==
    /\ kept \in Seq(Packet) /\ sent \in SUBSET Messages
    /\ cache' = [cache EXCEPT ![n] = w \o kept] /\ Len(w) + Len(kept) <= CACHE
    /\ Entries(kept) \subseteq Stay(n, packets)
    /\ Unique(packets) => Unique(kept)
    /\ net' = N \cup sent
    /\ \A a, b \in sent : a.packet = b.packet => a = b
    /\ \A a \in sent : a.packet \in Go(n, packets) /\ a.to = HopTo(n, a.packet)
    /\ fate' = [i \in Pings |-> fate'[i]]
    /\ \A i \in Pings :
          fate'[i] = IF \E p \in Go(n, packets) : Id(p) = i /\ \A a \in sent : a.packet # p
                     THEN "lost"
                     ELSE IF \E p \in Stay(n, packets) \ Entries(kept) : Id(p) = i
                     THEN "dropped"
                     ELSE IF \E p \in Entries(packets) : Id(p) = i THEN "travelling"
                     ELSE fate[i]
    /\ checkCache' = [checkCache EXCEPT ![n] = checkCache'[n]]
    /\ checkCache \in [Nodes -> BOOLEAN] => checkCache'[n] \in BOOLEAN

\* What Ip.ping changes.
LEMMA IpPingEffect ==
    ASSUME rows \in Topologies, cache \in [Nodes -> Seq(Packet)], NEW n \in Nodes,
           NEW w \in Seq(Packet), Len(w) <= CACHE, NEW packets \in Seq(Packet),
           NEW N \in SUBSET Messages, NEW running \in BOOLEAN,
           IpPing(n, w, packets, N, running)
    PROVE  \E kept, sent : Left(n, w, packets, N, kept, sent)
<1> DEFINE h      == Hopless(n, packets)
           kept   == Kept(w, h)
           routed == {p \in ToSet(packets) : HopTo(n, p) # 0}
           heard  == {p \in routed : HopTo(n, p) \in ToSet(rows[n])}
           sent   == {[packet |-> p, to |-> HopTo(n, p)] : p \in heard}
           stay   == Stay(n, packets)
           go     == Go(n, packets)
           ended(i) == IF i \in Ids(routed \ heard) THEN "lost"
                       ELSE IF i \in Ids(ToSet(h) \ ToSet(kept)) THEN "dropped"
                       ELSE IF i \in Ids(ToSet(packets)) THEN "travelling"
                       ELSE fate[i]
<1>1. /\ cache' = [cache EXCEPT ![n] = w \o kept]
      /\ checkCache' = [checkCache EXCEPT ![n] = running \/ h # << >>]
      /\ net' = N \cup sent
      /\ fate' = [i \in Pings |-> ended(i)]
    BY DEF IpPing
<1>2. h \in Seq(Packet) /\ Entries(h) = stay /\ (Unique(packets) => Unique(h))
    BY HoplessEffect DEF Stay
<1>3. ToSet(packets) = Entries(packets) /\ Entries(packets) \subseteq Packet
    BY EntriesAre
<1>4. routed = go
    BY <1>3 DEF Go
<1> HIDE DEF h, routed, go, stay
<1>5. /\ kept \in Seq(Packet) /\ Len(w) + Len(kept) <= CACHE
      /\ Entries(kept) \subseteq stay /\ (Unique(packets) => Unique(kept))
    BY <1>2, KeptEffect
<1> HIDE DEF kept
<1>6. ToSet(h) = stay /\ ToSet(kept) = Entries(kept)
    BY <1>2, <1>5, EntriesAre
<1>7. rows[n] \in Seq(Nodes) /\ ToSet(rows[n]) \subseteq Nodes
    <2>1. rows[n] \in Seq(Nodes)
        BY IpAssumption
    <2>2. DOMAIN rows[n] = 1 .. Len(rows[n]) /\ \A i \in 1 .. Len(rows[n]) : rows[n][i] \in Nodes
        BY <2>1, LenProperties, ElementOfSeq
    <2> QED
        BY <2>1, <2>2 DEF ToSet
<1>8. heard \subseteq go /\ go \subseteq Packet
    BY <1>3, <1>4 DEF go, Go
<1>9. sent \in SUBSET Messages
    BY <1>7, <1>8 DEF Messages
<1>10. /\ \A a, b \in sent : a.packet = b.packet => a = b
       /\ \A a \in sent : a.packet \in go /\ a.to = HopTo(n, a.packet)
       /\ \A p \in go : p \notin heard <=> \A a \in sent : a.packet # p
    <2> HIDE DEF heard
    <2>1. ASSUME NEW a \in sent
          PROVE  a.packet \in heard /\ a = [packet |-> a.packet, to |-> HopTo(n, a.packet)]
        <3>1. PICK p \in heard : a = [packet |-> p, to |-> HopTo(n, p)]
            OBVIOUS
        <3> QED
            BY <3>1
    <2>2. ASSUME NEW p \in heard PROVE \E a \in sent : a.packet = p
        <3>1. [packet |-> p, to |-> HopTo(n, p)] \in sent
            OBVIOUS
        <3>2. [packet |-> p, to |-> HopTo(n, p)].packet = p
            OBVIOUS
        <3> HIDE DEF sent
        <3> QED
            BY <3>1, <3>2
    <2> HIDE DEF sent
    <2> QED
        BY <1>8, <2>1, <2>2
<1>11. \A i : ended(i) = IF \E p \in go : Id(p) = i /\ \A a \in sent : a.packet # p
                         THEN "lost"
                         ELSE IF \E p \in stay \ Entries(kept) : Id(p) = i THEN "dropped"
                         ELSE IF \E p \in Entries(packets) : Id(p) = i THEN "travelling"
                         ELSE fate[i]
    <2> SUFFICES ASSUME NEW i
                 PROVE  /\ i \in Ids(routed \ heard)
                              <=> \E p \in go : Id(p) = i /\ \A a \in sent : a.packet # p
                        /\ i \in Ids(ToSet(h) \ ToSet(kept))
                              <=> \E p \in stay \ Entries(kept) : Id(p) = i
                        /\ i \in Ids(ToSet(packets)) <=> \E p \in Entries(packets) : Id(p) = i
        OBVIOUS
    <2>1. \A P : i \in Ids(P) <=> \E p \in P : Id(p) = i
        BY DEF Ids, Id
    <2> HIDE DEF heard, sent
    <2>2. i \in Ids(routed \ heard) <=> \E p \in go : Id(p) = i /\ \A a \in sent : a.packet # p
        BY <1>4, <1>10, <2>1
    <2> QED
        BY <1>3, <1>6, <2>1, <2>2
<1> HIDE DEF sent, ended, heard
<1>12. fate' = [i \in Pings |-> fate'[i]] /\ \A i \in Pings : fate'[i] = ended(i)
    BY <1>1
<1>13. /\ checkCache' = [checkCache EXCEPT ![n] = checkCache'[n]]
       /\ checkCache \in [Nodes -> BOOLEAN] => checkCache'[n] \in BOOLEAN
    <2> DEFINE b == running \/ h # << >>
    <2>1. b \in BOOLEAN /\ checkCache' = [checkCache EXCEPT ![n] = b]
        BY <1>1
    <2> HIDE DEF b
    <2> QED
        BY <2>1
<1> QED
    <2>1. Left(n, w, packets, N, kept, sent)
        BY <1>1, <1>5, <1>9, <1>10, <1>11, <1>12, <1>13 DEF stay, go, Left
    <2> QED
        BY <2>1

\* Every packet is in one place again when Ip.ping has looked at some.
LEMMA IpPingPlaced ==
    ASSUME cache \in [Nodes -> Seq(Packet)], NEW n \in Nodes,
           NEW w \in Seq(Packet), NEW packets \in Seq(Packet), NEW N,
           NEW C, C = [cache EXCEPT ![n] = w], Accounted(N, C, packets),
           NEW kept, NEW sent, Left(n, w, packets, N, kept, sent)
    PROVE  Placed'
<1> DEFINE hand == Entries(packets)
           stay == Stay(n, packets)
           go   == Go(n, packets)
           Here(k, p) == p \in Entries(C[k]) \/ (k = n /\ p \in Entries(kept))
<1>1. /\ stay \subseteq hand /\ go \subseteq hand
      /\ \A p \in hand : p \in go <=> p \notin stay
    BY DEF Stay, Go
<1>2. /\ kept \in Seq(Packet) /\ Entries(kept) \subseteq stay /\ Unique(kept)
      /\ net' = N \cup sent
      /\ \A a, b \in sent : a.packet = b.packet => a = b
      /\ \A a \in sent : a.packet \in go
    BY DEF Left, Accounted
<1>3. \A p, q \in hand : Id(p) = Id(q) => p = q
    BY DEF Accounted, Unique, Entries
<1>4. /\ \A p \in hand : \A a \in N : Id(a.packet) # Id(p)
      /\ \A p \in hand : \A k \in Nodes : \A q \in Entries(C[k]) : Id(q) # Id(p)
    BY DEF Accounted, Somewhere
<1>5. /\ \A a, b \in N : Id(a.packet) = Id(b.packet) => a = b
      /\ \A k \in Nodes : Unique(C[k])
      /\ \A k, m \in Nodes : \A p \in Entries(C[k]), q \in Entries(C[m]) : Id(p) = Id(q) => k = m
      /\ \A a \in N, k \in Nodes : \A p \in Entries(C[k]) : Id(p) # Id(a.packet)
    BY DEF Accounted, Separate
<1>6. /\ C[n] = w /\ cache'[n] = w \o kept
      /\ \A k \in Nodes : k # n => cache'[k] = C[k]
    BY DEF Left
<1>7. \A k \in Nodes : \A p : p \in Entries(cache'[k]) <=> Here(k, p)
    <2>1. Entries(cache'[n]) = Entries(C[n]) \cup Entries(kept)
        BY <1>2, <1>6, ConcatEntries
    <2> QED
        BY <1>6, <2>1
<1>8. \A k \in Nodes : Unique(cache'[k])
    <2>1. Unique(w) /\ \A p \in Entries(w), q \in Entries(kept) : Id(p) # Id(q)
        BY <1>1, <1>2, <1>4, <1>5, <1>6
    <2>2. Unique(w \o kept)
        BY <1>2, <2>1, ConcatEntries
    <2> QED
        BY <1>5, <1>6, <2>2
<1> HIDE DEF hand, stay, go
<1>9. \A a, b \in net' : Id(a.packet) = Id(b.packet) => a = b
    BY <1>1, <1>2, <1>3, <1>4, <1>5
<1>10. ASSUME NEW k \in Nodes, NEW m \in Nodes, NEW p, NEW q, Here(k, p), Here(m, q), Id(p) = Id(q)
       PROVE  k = m
    BY <1>1, <1>2, <1>4, <1>5, <1>10
<1>11. ASSUME NEW a \in net', NEW k \in Nodes, NEW p, Here(k, p), Id(p) = Id(a.packet)
       PROVE  FALSE
    <2>1. CASE a \in N
        BY <1>1, <1>2, <1>4, <1>5, <1>11, <2>1
    <2>2. CASE a \in sent
        <3>1. a.packet \in go /\ a.packet \in hand
            BY <1>1, <1>2, <2>2
        <3>2. p \notin Entries(C[k])
            BY <1>4, <1>11, <3>1
        <3>3. p \in stay /\ p \in hand
            BY <1>1, <1>2, <1>11, <3>2
        <3>4. p = a.packet
            BY <1>3, <1>11, <3>1, <3>3
        <3> QED
            BY <1>1, <3>1, <3>3, <3>4
    <2> QED
        BY <1>2, <1>11, <2>1, <2>2
<1>12. Separate(net, cache)'
    BY <1>7, <1>8, <1>9, <1>10, <1>11 DEF Separate
<1>13. ASSUME NEW i \in Pings
       PROVE  fate'[i] = "travelling" <=> Somewhere(net', cache', i)
    <2>1. Somewhere(net', cache', i) <=> \/ Somewhere(N, C, i)
                                         \/ \E a \in sent : Id(a.packet) = i
                                         \/ \E p \in Entries(kept) : Id(p) = i
        BY <1>2, <1>7 DEF Somewhere
    <2>2. fate'[i] = IF \E p \in go : Id(p) = i /\ \A a \in sent : a.packet # p THEN "lost"
                     ELSE IF \E p \in stay \ Entries(kept) : Id(p) = i THEN "dropped"
                     ELSE IF \E p \in hand : Id(p) = i THEN "travelling"
                     ELSE fate[i]
        BY DEF Left, hand, stay, go
    <2>3. CASE \A p \in hand : Id(p) # i
        <3>1. fate'[i] = fate[i]
            BY <1>1, <2>2, <2>3
        <3>2. fate[i] = "travelling" <=> Somewhere(N, C, i)
            BY <2>3 DEF Accounted, hand
        <3>3. ~(\E a \in sent : Id(a.packet) = i) /\ ~(\E p \in Entries(kept) : Id(p) = i)
            BY <1>1, <1>2, <2>3
        <3> QED
            BY <2>1, <3>1, <3>2, <3>3
    <2>4. ASSUME NEW p \in hand, Id(p) = i PROVE fate'[i] = "travelling" <=> Somewhere(net', cache', i)
        <3>1. ~Somewhere(N, C, i)
            BY <2>4 DEF Accounted, hand
        <3>2. \A q \in hand : Id(q) = i => q = p
            BY <1>3, <2>4
        <3>3. CASE p \in go
            <4>1. ~(\E q \in stay : Id(q) = i)
                BY <1>1, <3>2, <3>3
            <4>2. (\E a \in sent : Id(a.packet) = i) <=> (\E a \in sent : a.packet = p)
                BY <1>1, <1>2, <2>4, <3>2
            <4>3. (\E q \in go : Id(q) = i /\ \A a \in sent : a.packet # q)
                      <=> ~(\E a \in sent : a.packet = p)
                BY <1>1, <2>4, <3>2, <3>3
            <4> QED
                BY <1>2, <2>1, <2>2, <2>4, <3>1, <4>1, <4>2, <4>3
        <3>4. CASE p \in stay
            <4>1. ~(\E q \in go : Id(q) = i)
                BY <1>1, <3>2, <3>4
            <4>2. ~(\E a \in sent : Id(a.packet) = i)
                BY <1>2, <4>1
            <4>3. (\E q \in Entries(kept) : Id(q) = i) <=> p \in Entries(kept)
                BY <1>1, <1>2, <2>4, <3>2
            <4>4. (\E q \in stay \ Entries(kept) : Id(q) = i) <=> p \notin Entries(kept)
                BY <1>1, <2>4, <3>2, <3>4
            <4> QED
                BY <2>1, <2>2, <2>4, <3>1, <4>1, <4>2, <4>3, <4>4
        <3> QED
            BY <1>1, <3>3, <3>4
    <2> QED
        BY <2>3, <2>4
<1> QED
    BY <1>12, <1>13 DEF Placed

-----------------------------------------------------------------------------
(* The types *)

IpTypes == TypeOK /\ confirmed \in [Nodes -> Routes]

\* The networks are rows of nodes.
LEMMA TopologyType == \A t \in Topologies : t \in Rows
    BY IpAssumption DEF Rows

\* What is under way, and the list of the node it goes to.
LEMMA MessageType ==
    ASSUME TypeOK, NEW m \in net
    PROVE  /\ m.to \in Nodes /\ m.packet \in Packet /\ m.packet.src \in Nodes
           /\ m.packet.dest \in Nodes /\ m.packet.TTL \in 0 .. MOD - 1
           /\ cache[m.to] \in Seq(Packet) /\ Len(cache[m.to]) <= CACHE
           /\ checkCache[m.to] \in BOOLEAN /\ net \in SUBSET Messages
           /\ net \ {m} \in SUBSET Messages
    BY DEF TypeOK, Messages, Packet

LEMMA TypesInit == Init => IpTypes
<1> SUFFICES ASSUME Init PROVE IpTypes
    OBVIOUS
<1>1. NoRoutes \in Routes
    BY NoRoutesType
<1>2. \A n \in Nodes : Occupied(confirmed[n]) \subseteq Nodes
    <2>1. ASSUME NEW n \in Nodes PROVE Occupied(confirmed[n]) \subseteq Nodes
        <3>1. confirmed[n] = NoRoutes
            BY DEF Init
        <3> QED
            BY <1>1, <3>1 DEF Occupied, Routes
    <2> QED
        BY <2>1
<1>3. rows \in Rows /\ rows \in Topologies
    BY TopologyType DEF Init
<1>4. \A n \in Nodes : cache[n] = << >> /\ Len(cache[n]) <= CACHE
    <2>1. Len(<< >>) = 0 /\ 0 <= CACHE
        BY IpAssumption, NoEntries
    <2> QED
        BY <2>1 DEF Init
<1>5. changes \in 0 .. CHANGES /\ refreshes \in 0 .. REFRESHES
    BY IpAssumption DEF Init
<1>6. cache \in [Nodes -> Seq(Packet)]
    BY NoEntries DEF Init
<1> QED
    BY <1>1, <1>2, <1>3, <1>4, <1>5, <1>6 DEF Init, IpTypes, TypeOK, Rows, Fates

\* The types of what Ip.ping changes.
Forwarded ==
    /\ cache \in [Nodes -> Seq(Packet)] /\ \A n \in Nodes : Len(cache[n]) <= CACHE
    /\ checkCache \in [Nodes -> BOOLEAN]
    /\ net \subseteq Messages
    /\ fate \in [Pings -> Fates]

\* Ip.ping keeps the types.
LEMMA IpPingTypes ==
    ASSUME TypeOK, NEW n \in Nodes, NEW w \in Seq(Packet), NEW packets \in Seq(Packet),
           NEW N \in SUBSET Messages, NEW kept, NEW sent, Left(n, w, packets, N, kept, sent)
    PROVE  Forwarded'
<1>1. /\ kept \in Seq(Packet) /\ sent \in SUBSET Messages
      /\ cache' = [cache EXCEPT ![n] = w \o kept] /\ Len(w) + Len(kept) <= CACHE
      /\ net' = N \cup sent /\ fate' = [i \in Pings |-> fate'[i]]
      /\ checkCache' = [checkCache EXCEPT ![n] = checkCache'[n]]
      /\ checkCache'[n] \in BOOLEAN
    BY DEF Left, TypeOK
<1>2. \A i \in Pings : fate'[i] \in {"lost", "dropped", "travelling", fate[i]}
    BY DEF Left
<1>3. w \o kept \in Seq(Packet) /\ Len(w \o kept) = Len(w) + Len(kept)
    BY <1>1, ConcatEntries
<1>4. cache' \in [Nodes -> Seq(Packet)] /\ \A k \in Nodes : Len(cache'[k]) <= CACHE
    BY <1>1, <1>3 DEF TypeOK
<1>5. \A i \in Pings : fate'[i] \in Fates
    BY <1>2 DEF TypeOK, Fates
<1>6. fate' \in [Pings -> Fates]
    <2> DEFINE f == fate'
    <2>1. f = [i \in Pings |-> f[i]] /\ \A i \in Pings : f[i] \in Fates
        BY <1>1, <1>5
    <2> HIDE DEF f
    <2>2. f \in [Pings -> Fates]
        BY <2>1
    <2> QED
        BY <2>2 DEF f
<1>7. checkCache' \in [Nodes -> BOOLEAN]
    <2> DEFINE b == checkCache'[n]
    <2>1. checkCache' = [checkCache EXCEPT ![n] = b] /\ b \in BOOLEAN
        BY <1>1
    <2> HIDE DEF b
    <2> QED
        BY <2>1 DEF TypeOK
<1> QED
    BY <1>1, <1>4, <1>6, <1>7 DEF Forwarded

\* An action that calls Ip.ping and leaves the routing alone, and what it called it with.
Pinged(n, w, packets, N) ==
    /\ n \in Nodes /\ w \in Seq(Packet) /\ Len(w) <= CACHE /\ packets \in Seq(Packet)
    /\ N \in SUBSET Messages
    /\ \E kept, sent : Left(n, w, packets, N, kept, sent)

\* The command sends one packet of the node, with a new TTL.
LEMMA PingedPing ==
    ASSUME TypeOK, NEW i \in Pings, Ping(i)
    PROVE  /\ UNCHANGED routing /\ fate[i] = "unsent" /\ i[1] \in Nodes
           /\ \E p \in Packet : Id(p) = i /\ p.TTL = TTL /\ Pinged(i[1], cache[i[1]], <<p>>, net)
<1> DEFINE p == [src |-> i[1], dest |-> i[2], TTL |-> TTL]
           n == i[1]
<1>1. n \in Nodes /\ i[2] \in Nodes /\ i = <<i[1], i[2]>>
    BY IpAssumption
<1>2. p \in Packet /\ Id(p) = i /\ p.TTL = TTL
    BY <1>1, IpAssumption DEF Packet, Id
<1>3. /\ UNCHANGED routing /\ fate[i] = "unsent"
      /\ IpPing(n, cache[n], <<p>>, net, checkCache[n])
    BY DEF Ping
<1>4. /\ cache[n] \in Seq(Packet) /\ Len(cache[n]) <= CACHE /\ checkCache[n] \in BOOLEAN
      /\ net \in SUBSET Messages /\ rows \in Topologies /\ cache \in [Nodes -> Seq(Packet)]
    BY <1>1 DEF TypeOK, Messages
<1> HIDE DEF p, n
<1>5. <<p>> \in Seq(Packet)
    BY <1>2
<1>6. \E kept, sent : Left(n, cache[n], <<p>>, net, kept, sent)
    BY <1>1, <1>3, <1>4, <1>5, IpPingEffect
<1>7. Pinged(n, cache[n], <<p>>, net)
    BY <1>1, <1>4, <1>5, <1>6 DEF Pinged
<1> QED
    BY <1>1, <1>2, <1>3, <1>7 DEF n

\* A packet of another node, its TTL decremented.
LEMMA PingedForward ==
    ASSUME TypeOK, NEW m \in net, Forward(m)
    PROVE  /\ UNCHANGED routing
           /\ \E p \in Packet : /\ Id(p) = Id(m.packet) /\ p.TTL = (m.packet.TTL - 1) % MOD
                                /\ Pinged(m.to, cache[m.to], <<p>>, net \ {m})
<1> DEFINE p == [m.packet EXCEPT !.TTL = (@ - 1) % MOD]
           n == m.to
           N == net \ {m}
<1>1. /\ n \in Nodes /\ m.packet \in Packet /\ m.packet.TTL \in 0 .. MOD - 1
      /\ cache[n] \in Seq(Packet) /\ Len(cache[n]) <= CACHE /\ checkCache[n] \in BOOLEAN
      /\ N \in SUBSET Messages /\ rows \in Topologies /\ cache \in [Nodes -> Seq(Packet)]
    BY MessageType DEF TypeOK
<1>2. (m.packet.TTL - 1) % MOD \in 0 .. MOD - 1
    BY <1>1, IpAssumption
<1>3. p \in Packet /\ Id(p) = Id(m.packet) /\ p.TTL = (m.packet.TTL - 1) % MOD
    BY <1>1, <1>2 DEF Packet, Id
<1>4. UNCHANGED routing /\ IpPing(n, cache[n], <<p>>, N, checkCache[n])
    BY DEF Forward
<1> HIDE DEF p, n, N
<1>5. <<p>> \in Seq(Packet)
    BY <1>3
<1>6. \E kept, sent : Left(n, cache[n], <<p>>, N, kept, sent)
    BY <1>1, <1>4, <1>5, IpPingEffect
<1>7. Pinged(n, cache[n], <<p>>, N)
    BY <1>1, <1>5, <1>6 DEF Pinged
<1> QED
    BY <1>3, <1>4, <1>7 DEF n, N

\* checkCache and routingTableReady look at the whole list.
LEMMA PingedList ==
    ASSUME TypeOK, NEW n \in Nodes, NEW b \in BOOLEAN, IpPing(n, << >>, cache[n], net, b)
    PROVE  Pinged(n, << >>, cache[n], net)
<1>1. /\ cache[n] \in Seq(Packet) /\ net \in SUBSET Messages /\ rows \in Topologies
      /\ cache \in [Nodes -> Seq(Packet)] /\ << >> \in Seq(Packet) /\ Len(<< >>) <= CACHE
    BY NoEntries, IpAssumption DEF TypeOK, Messages
<1>2. \E kept, sent : Left(n, << >>, cache[n], net, kept, sent)
    BY <1>1, IpPingEffect
<1> QED
    BY <1>1, <1>2 DEF Pinged

\* Ip.ping, with the routing unchanged.
LEMMA TypesPinged ==
    ASSUME IpTypes, UNCHANGED routing, NEW n, NEW w, NEW packets, NEW N, Pinged(n, w, packets, N)
    PROVE  IpTypes'
<1>1. PICK kept, sent : Left(n, w, packets, N, kept, sent)
    BY DEF Pinged
<1>2. Forwarded'
    BY <1>1, IpPingTypes DEF Pinged, IpTypes
<1> QED
    BY <1>2 DEF IpTypes, TypeOK, Forwarded, routing, Messages

\* Computing a table keeps the types.
LEMMA TypesMyTimerFired ==
    ASSUME IpTypes, NEW n \in Nodes, MyTimerFired(n)
    PROVE  IpTypes'
<1> DEFINE table == FindShortestPath(ClearTable(confirmed[n]), n, matrix[n])
<1>1. /\ timer' = [timer EXCEPT ![n] = FALSE]
      /\ confirmed' = [confirmed EXCEPT ![n] = table]
      /\ ready' = [ready EXCEPT ![n] = TRUE]
      /\ basis' = [basis EXCEPT ![n] = matrix[n]]
      /\ UNCHANGED <<rows, changes, refreshes, matrix>>
      /\ IpPing(n, << >>, cache[n], net, checkCache[n])
    BY DEF MyTimerFired
<1>2. table \in Routes
    <2>1. confirmed[n] \in Routes /\ matrix[n] \in Rows
        BY DEF IpTypes, TypeOK, Rows
    <2> QED
        BY <2>1, ClearType, ShortestType
<1> HIDE DEF table
<1>3. confirmed' \in [Nodes -> Routes]
    BY <1>1, <1>2 DEF IpTypes
<1>4. \A k \in Nodes : Occupied(confirmed'[k]) \subseteq Nodes
    BY <1>3 DEF Occupied, Routes
<1>5. PICK kept, sent : Left(n, << >>, cache[n], net, kept, sent)
    <2>1. checkCache[n] \in BOOLEAN
        BY DEF IpTypes, TypeOK
    <2> QED
        BY <1>1, <2>1, PingedList DEF Pinged, IpTypes
<1>6. Forwarded'
    <2>1. << >> \in Seq(Packet) /\ cache[n] \in Seq(Packet) /\ net \in SUBSET Messages
        BY NoEntries DEF IpTypes, TypeOK, Messages
    <2> QED
        BY <1>5, <2>1, IpPingTypes DEF IpTypes
<1>7. /\ timer' \in [Nodes -> BOOLEAN] /\ ready' \in [Nodes -> BOOLEAN]
      /\ basis' \in [Nodes -> [Nodes -> Seq(Nodes)]]
    BY <1>1 DEF IpTypes, TypeOK
<1> QED
    BY <1>1, <1>3, <1>4, <1>6, <1>7 DEF IpTypes, TypeOK, Forwarded, Messages

LEMMA TypesNext == IpTypes /\ [Next]_vars => IpTypes'
<1> SUFFICES ASSUME IpTypes, [Next]_vars PROVE IpTypes'
    OBVIOUS
<1>0. TypeOK
    BY DEF IpTypes
<1>1. ASSUME NEW i \in Pings, Ping(i) PROVE IpTypes'
    BY <1>0, <1>1, PingedPing, TypesPinged
<1>2. ASSUME NEW m \in net, Forward(m) PROVE IpTypes'
    BY <1>0, <1>2, PingedForward, TypesPinged
<1>3. ASSUME NEW m \in net, Arrive(m) PROVE IpTypes'
    <2>1. /\ net' = net \ {m} /\ UNCHANGED <<routing, cache, checkCache>>
          /\ fate' = [fate EXCEPT ![<<m.packet.src, m.packet.dest>>] = "arrived"]
        BY <1>3 DEF Arrive
    <2>2. fate' \in [Pings -> Fates]
        BY <2>1 DEF IpTypes, TypeOK, Fates
    <2> QED
        BY <2>1, <2>2 DEF IpTypes, TypeOK, routing
<1>4. ASSUME NEW n \in Nodes, CheckCacheFired(n) PROVE IpTypes'
    <2>1. UNCHANGED routing /\ IpPing(n, << >>, cache[n], net, FALSE)
        BY <1>4 DEF CheckCacheFired
    <2>2. Pinged(n, << >>, cache[n], net)
        BY <1>0, <2>1, PingedList
    <2> QED
        BY <2>1, <2>2, TypesPinged
<1>5. ASSUME NEW n \in Nodes, NEW m \in Nodes, AddLsp(n, m) PROVE IpTypes'
    <2>1. /\ matrix[n][m] = rows[m] => refreshes < REFRESHES
          /\ refreshes' = IF matrix[n][m] = rows[m] THEN refreshes + 1 ELSE refreshes
          /\ matrix' = [matrix EXCEPT ![n][m] = rows[m]]
          /\ timer' = [timer EXCEPT ![n] = TRUE]
          /\ UNCHANGED <<rows, changes, confirmed, ready, basis, forwarding>>
        BY <1>5 DEF AddLsp
    <2>2. rows[m] \in Seq(Nodes)
        BY TopologyType DEF IpTypes, TypeOK, Rows
    <2>3. matrix' \in [Nodes -> [Nodes -> Seq(Nodes)]]
        BY <2>1, <2>2 DEF IpTypes, TypeOK
    <2>4. refreshes' \in 0 .. REFRESHES
        BY <2>1, IpAssumption DEF IpTypes, TypeOK
    <2>5. timer' \in [Nodes -> BOOLEAN]
        BY <2>1 DEF IpTypes, TypeOK
    <2> QED
        BY <2>1, <2>3, <2>4, <2>5 DEF IpTypes, TypeOK, forwarding
<1>6. ASSUME NEW n \in Nodes, MyTimerFired(n) PROVE IpTypes'
    BY <1>6, TypesMyTimerFired
<1>7. CASE Change
    <2>1. changes' \in 0 .. CHANGES /\ rows' \in Topologies
          /\ UNCHANGED <<refreshes, matrix, timer, confirmed, ready, basis, forwarding>>
        BY <1>7, IpAssumption DEF Change, IpTypes, TypeOK
    <2> QED
        BY <2>1 DEF IpTypes, TypeOK, forwarding
<1>8. CASE UNCHANGED vars
    BY <1>8 DEF vars, routing, forwarding, IpTypes, TypeOK
<1> QED
    BY <1>1, <1>2, <1>3, <1>4, <1>5, <1>6, <1>7, <1>8 DEF Next

\* The tables keep their types: whatever the rows, however full or badly cleared the
\* maps, only addresses of nodes are listed; and no list is longer than its capacity.
THEOREM IpTypeCorrect == Spec => []TypeOK
<1>1. Init => IpTypes
    BY TypesInit
<1>2. IpTypes /\ [Next]_vars => IpTypes'
    BY TypesNext
<1>3. IpTypes => TypeOK
    BY DEF IpTypes
<1> QED
    BY <1>1, <1>2, <1>3, PTL DEF Spec

-----------------------------------------------------------------------------
(* The packets *)

\* A node looks at one packet that is nowhere.
LEMMA AccountedOne ==
    ASSUME Placed, NEW p \in Packet, fate[Id(p)] # "travelling", Id(p) \in Pings
    PROVE  Accounted(net, cache, <<p>>)
<1>1. Entries(<<p>>) = {p} /\ Unique(<<p>>)
    BY OneEntry
<1>2. ~Somewhere(net, cache, Id(p))
    BY DEF Placed
<1> QED
    BY <1>1, <1>2 DEF Placed, Accounted

\* What is left when a packet m has reached its next hop.
LEMMA TakenFromNet ==
    ASSUME Placed, NEW m \in net
    PROVE  /\ Separate(net \ {m}, cache)
           /\ ~Somewhere(net \ {m}, cache, Id(m.packet))
           /\ \A i \in Pings : i # Id(m.packet) =>
                 (fate[i] = "travelling" <=> Somewhere(net \ {m}, cache, i))
<1>1. Separate(net, cache)
    BY DEF Placed
<1>2. Separate(net \ {m}, cache)
    BY <1>1 DEF Separate
<1>3. ~Somewhere(net \ {m}, cache, Id(m.packet))
    BY <1>1 DEF Separate, Somewhere
<1>4. \A i : i # Id(m.packet) =>
          (Somewhere(net, cache, i) <=> Somewhere(net \ {m}, cache, i))
    BY DEF Somewhere
<1> QED
    BY <1>2, <1>3, <1>4 DEF Placed

\* A node takes all packets out of its list.
LEMMA TakenFromList ==
    ASSUME Placed, cache \in [Nodes -> Seq(Packet)], NEW n \in Nodes,
           NEW C, C = [cache EXCEPT ![n] = << >>]
    PROVE  Accounted(net, C, cache[n])
<1>1. Separate(net, cache)
    BY DEF Placed
<1>2. /\ Entries(C[n]) = {} /\ Unique(C[n])
      /\ \A k \in Nodes : k # n => C[k] = cache[k]
    BY NoEntries
<1>3. Separate(net, C)
    BY <1>1, <1>2 DEF Separate
<1>4. Unique(cache[n])
    BY <1>1 DEF Separate
<1>5. ASSUME NEW p \in Entries(cache[n]) PROVE ~Somewhere(net, C, Id(p))
    BY <1>1, <1>2 DEF Separate, Somewhere
<1>6. ASSUME NEW i, \A p \in Entries(cache[n]) : Id(p) # i
      PROVE  Somewhere(net, cache, i) <=> Somewhere(net, C, i)
    BY <1>2, <1>6 DEF Somewhere
<1> QED
    BY <1>3, <1>4, <1>5, <1>6 DEF Placed, Accounted

\* Nothing moves.
LEMMA PlacedUnchanged ==
    ASSUME Placed, UNCHANGED <<cache, net, fate>>
    PROVE  Placed'
    BY DEF Placed, Separate, Somewhere

LEMMA PlacedInit == Init => Placed
<1> SUFFICES ASSUME Init PROVE Placed
    OBVIOUS
<1>1. net = {} /\ \A n \in Nodes : cache[n] = << >>
    BY DEF Init
<1>2. \A n \in Nodes : Entries(cache[n]) = {} /\ Unique(cache[n])
    BY <1>1, NoEntries
<1>3. \A i \in Pings : fate[i] # "travelling"
    BY DEF Init
<1> QED
    BY <1>1, <1>2, <1>3 DEF Placed, Separate, Somewhere

\* Ip.ping of a single packet.
LEMMA PlacedPinged ==
    ASSUME TypeOK, NEW n, NEW p \in Packet, NEW N, Pinged(n, cache[n], <<p>>, N),
           Accounted(N, cache, <<p>>)
    PROVE  Placed'
<1>1. /\ n \in Nodes /\ cache \in [Nodes -> Seq(Packet)] /\ cache[n] \in Seq(Packet)
      /\ <<p>> \in Seq(Packet)
    BY DEF TypeOK, Pinged
<1>2. cache = [cache EXCEPT ![n] = cache[n]]
    BY <1>1
<1>3. PICK kept, sent : Left(n, cache[n], <<p>>, N, kept, sent)
    BY DEF Pinged
<1> QED
    BY <1>1, <1>2, <1>3, IpPingPlaced

\* Ip.ping of the whole list of a node.
LEMMA PlacedList ==
    ASSUME TypeOK, Placed, NEW n \in Nodes, NEW b \in BOOLEAN,
           IpPing(n, << >>, cache[n], net, b)
    PROVE  Placed'
<1>1. /\ cache \in [Nodes -> Seq(Packet)] /\ cache[n] \in Seq(Packet)
      /\ << >> \in Seq(Packet)
    BY NoEntries DEF TypeOK
<1> DEFINE C == [cache EXCEPT ![n] = << >>]
<1>2. Accounted(net, C, cache[n])
    BY <1>1, TakenFromList
<1>3. PICK kept, sent : Left(n, << >>, cache[n], net, kept, sent)
    BY PingedList DEF Pinged
<1> QED
    BY <1>1, <1>2, <1>3, IpPingPlaced

LEMMA PlacedNext == IpTypes /\ Placed /\ [Next]_vars => Placed'
<1> SUFFICES ASSUME IpTypes, Placed, [Next]_vars PROVE Placed'
    OBVIOUS
<1>0. TypeOK
    BY DEF IpTypes
<1>1. ASSUME NEW i \in Pings, Ping(i) PROVE Placed'
    <2>1. PICK p \in Packet : Id(p) = i /\ Pinged(i[1], cache[i[1]], <<p>>, net)
        BY <1>0, <1>1, PingedPing
    <2>2. fate[i] # "travelling"
        BY <1>0, <1>1, PingedPing
    <2>3. Accounted(net, cache, <<p>>)
        BY <2>1, <2>2, AccountedOne
    <2> QED
        BY <1>0, <2>1, <2>3, PlacedPinged
<1>2. ASSUME NEW m \in net, Forward(m) PROVE Placed'
    <2>1. PICK p \in Packet : Id(p) = Id(m.packet)
                              /\ Pinged(m.to, cache[m.to], <<p>>, net \ {m})
        BY <1>0, <1>2, PingedForward
    <2>2. Accounted(net \ {m}, cache, <<p>>)
        <3>1. Entries(<<p>>) = {p} /\ Unique(<<p>>)
            BY OneEntry
        <3> QED
            BY <2>1, <3>1, TakenFromNet DEF Accounted
    <2> QED
        BY <1>0, <2>1, <2>2, PlacedPinged
<1>3. ASSUME NEW m \in net, Arrive(m) PROVE Placed'
    <2>1. /\ net' = net \ {m} /\ cache' = cache
          /\ fate' = [fate EXCEPT ![Id(m.packet)] = "arrived"]
        BY <1>3 DEF Arrive, Id
    <2>2. \A i \in Pings : fate'[i] = IF i = Id(m.packet) THEN "arrived" ELSE fate[i]
        BY <1>0, <2>1 DEF TypeOK
    <2> QED
        BY <2>1, <2>2, TakenFromNet DEF Placed
<1>4. ASSUME NEW n \in Nodes, CheckCacheFired(n) PROVE Placed'
    <2>1. IpPing(n, << >>, cache[n], net, FALSE)
        BY <1>4 DEF CheckCacheFired
    <2> QED
        BY <1>0, <2>1, PlacedList
<1>5. ASSUME NEW n \in Nodes, NEW m \in Nodes, AddLsp(n, m) PROVE Placed'
    BY <1>5, PlacedUnchanged DEF AddLsp, forwarding
<1>6. ASSUME NEW n \in Nodes, MyTimerFired(n) PROVE Placed'
    <2>1. IpPing(n, << >>, cache[n], net, checkCache[n]) /\ checkCache[n] \in BOOLEAN
        BY <1>0, <1>6 DEF MyTimerFired, TypeOK
    <2> QED
        BY <1>0, <2>1, PlacedList
<1>7. CASE Change
    BY <1>7, PlacedUnchanged DEF Change, forwarding
<1>8. CASE UNCHANGED vars
    BY <1>8, PlacedUnchanged DEF vars, forwarding
<1> QED
    BY <1>1, <1>2, <1>3, <1>4, <1>5, <1>6, <1>7, <1>8 DEF Next

\* A set of places that has an element and no other.
LEMMA CountPlaces ==
    ASSUME NEW S, \A x, y \in S : x = y
    PROVE  Cardinality(S) = IF S # {} THEN 1 ELSE 0
<1>1. CASE S = {}
    BY <1>1, FS_EmptySet
<1>2. CASE S # {}
    <2>1. PICK x : S = {x}
        BY <1>2
    <2> QED
        BY <1>2, <2>1, FS_Singleton
<1> QED
    BY <1>1, <1>2

\* Counting the places of a packet.
LEMMA PlacedOnePlace == TypeOK /\ Placed => OnePlace
<1> SUFFICES ASSUME TypeOK, Placed, NEW i \in Pings
             PROVE  Cardinality({<<m.to, 0>> : m \in {x \in net : <<x.packet.src, x.packet.dest>> = i}}
                                \cup {x \in Nodes \X (1 .. CACHE) :
                                        /\ x[2] <= Len(cache[x[1]])
                                        /\ <<cache[x[1]][x[2]].src, cache[x[1]][x[2]].dest>> = i})
                        = IF fate[i] = "travelling" THEN 1 ELSE 0
    BY DEF OnePlace
<1> DEFINE U == {<<m.to, 0>> : m \in {x \in net : <<x.packet.src, x.packet.dest>> = i}}
           W == {x \in Nodes \X (1 .. CACHE) :
                    /\ x[2] <= Len(cache[x[1]])
                    /\ <<cache[x[1]][x[2]].src, cache[x[1]][x[2]].dest>> = i}
<1>1. \A u \in U : \E m \in net : u = <<m.to, 0>> /\ Id(m.packet) = i
    BY DEF Id
<1>2. \A m \in net : Id(m.packet) = i => <<m.to, 0>> \in U
    BY DEF Id
<1>3. ASSUME NEW x \in W
      PROVE  /\ x[1] \in Nodes /\ x[2] \in 1 .. Len(cache[x[1]]) /\ x = <<x[1], x[2]>>
             /\ Id(cache[x[1]][x[2]]) = i
    <2>1. x[1] \in Nodes /\ x[2] \in 1 .. CACHE /\ x = <<x[1], x[2]>>
          /\ x[2] <= Len(cache[x[1]])
          /\ <<cache[x[1]][x[2]].src, cache[x[1]][x[2]].dest>> = i
        OBVIOUS
    <2>2. cache[x[1]] \in Seq(Packet)
        BY <2>1 DEF TypeOK
    <2>3. Len(cache[x[1]]) \in Nat
        BY <2>2
    <2> QED
        BY <2>1, <2>3, IpAssumption DEF Id
<1>4. ASSUME NEW n \in Nodes, NEW k \in 1 .. Len(cache[n]), Id(cache[n][k]) = i
      PROVE  <<n, k>> \in W
    <2>1. cache[n] \in Seq(Packet) /\ Len(cache[n]) <= CACHE
        BY DEF TypeOK
    <2>2. k \in 1 .. CACHE /\ k <= Len(cache[n])
        BY <2>1, IpAssumption
    <2> QED
        BY <1>4, <2>2 DEF Id
<1> HIDE DEF U, W
<1>5. /\ \A a, b \in net : Id(a.packet) = Id(b.packet) => a = b
      /\ \A n \in Nodes : Unique(cache[n])
      /\ \A n, m \in Nodes : \A p \in Entries(cache[n]), q \in Entries(cache[m]) :
            Id(p) = Id(q) => n = m
      /\ \A a \in net, n \in Nodes : \A p \in Entries(cache[n]) : Id(p) # Id(a.packet)
    BY DEF Placed, Separate
<1>6. \A n \in Nodes : \A k \in 1 .. Len(cache[n]) : cache[n][k] \in Entries(cache[n])
    BY DEF Entries
<1>7. \A u, v \in U : u = v
    BY <1>1, <1>5
<1>8. ASSUME NEW u \in U, NEW x \in W PROVE FALSE
    <2>1. PICK a \in net : Id(a.packet) = i
        BY <1>1
    <2>2. x[1] \in Nodes /\ cache[x[1]][x[2]] \in Entries(cache[x[1]]) /\ Id(cache[x[1]][x[2]]) = i
        BY <1>3, <1>6
    <2> QED
        BY <1>5, <2>1, <2>2
<1>9. ASSUME NEW x \in W, NEW y \in W PROVE x = y
    <2>1. x[1] = y[1]
        BY <1>3, <1>5, <1>6
    <2>2. x[2] = y[2]
        BY <1>3, <1>5, <2>1 DEF Unique
    <2> QED
        BY <1>3, <2>1, <2>2
<1>10. U \cup W # {} <=> Somewhere(net, cache, i)
    <2>1. U # {} <=> \E m \in net : Id(m.packet) = i
        BY <1>1, <1>2
    <2>2. ASSUME W # {} PROVE \E n \in Nodes : \E p \in Entries(cache[n]) : Id(p) = i
        BY <1>3, <1>6, <2>2
    <2>3. ASSUME NEW n \in Nodes, NEW p \in Entries(cache[n]), Id(p) = i PROVE W # {}
        <3>1. PICK k \in 1 .. Len(cache[n]) : p = cache[n][k]
            BY DEF Entries
        <3> QED
            BY <1>4, <2>3, <3>1
    <2> QED
        BY <2>1, <2>2, <2>3 DEF Somewhere
<1>11. fate[i] = "travelling" <=> Somewhere(net, cache, i)
    BY DEF Placed
<1>12. \A x, y \in U \cup W : x = y
    BY <1>7, <1>8, <1>9
<1>13. Cardinality(U \cup W) = IF U \cup W # {} THEN 1 ELSE 0
    BY <1>12, CountPlaces
<1>14. Cardinality(U \cup W) = IF fate[i] = "travelling" THEN 1 ELSE 0
    BY <1>10, <1>11, <1>13
<1> QED
    BY <1>14 DEF U, W

\* A packet that was sent and has not ended is under way or waits in one node's list,
\* and only there: none is doubled or forgotten by a node that looks through its list
\* while the tables change, nor by a list that is full.
THEOREM OnePlaceAlways == Spec => []OnePlace
<1>1. Init => IpTypes /\ Placed
    BY TypesInit, PlacedInit
<1>2. IpTypes /\ Placed /\ [Next]_vars => IpTypes' /\ Placed'
    BY TypesNext, PlacedNext
<1>3. IpTypes /\ Placed => OnePlace
    BY PlacedOnePlace DEF IpTypes
<1> QED
    BY <1>1, <1>2, <1>3, PTL DEF Spec

-----------------------------------------------------------------------------
(* The routes *)

\* No two nodes have the same first place.
OwnPlaces == \A m, n \in Nodes : Hash(m, 0) = Hash(n, 0) => m = n

\* What makes sure that a table is computed in an empty map with room for all nodes:
\* it is computed only once, or clear empties it.
StartsEmpty ==
    \/ CHANGES = 0 /\ REFRESHES = 0 /\ \E Arrays : Roomy(Arrays)
    \/ Compact /\ Connected

\* Every node in its first place.
Homes == {a \in [Places -> Nodes \cup {EMPTY_KEY}] :
             \A j \in Places : a[j] # EMPTY_KEY => j = Hash(a[j], 0)}

\* If the nodes have places of their own there is always room.
LEMMA OwnPlacesRoomy == OwnPlaces => Roomy(Homes)
<1> SUFFICES ASSUME OwnPlaces PROVE Roomy(Homes)
    OBVIOUS
<1>1. Homes \subseteq [Places -> Nodes \cup {EMPTY_KEY}]
    BY DEF Homes
<1>2. [j \in Places |-> EMPTY_KEY] \in Homes
    BY DEF Homes
<1>3. \A a \in Homes, j \in Places : [a EXCEPT ![j] = EMPTY_KEY] \in Homes
    BY DEF Homes
<1>4. ASSUME NEW a \in Homes, NEW k \in Nodes \ Holds(a)
      PROVE  LET free == {i \in Places : a[Hash(k, i)] = EMPTY_KEY}
             IN  free # {} /\ [a EXCEPT ![Hash(k, First(free))] = k] \in Homes
    <2> DEFINE free == {i \in Places : a[Hash(k, i)] = EMPTY_KEY}
               h == Hash(k, 0)
    <2>1. /\ k \in Nat /\ k # EMPTY_KEY /\ h \in Places /\ a \in [Places -> Nodes \cup {EMPTY_KEY}]
          /\ \A j \in Places : a[j] # EMPTY_KEY => j = Hash(a[j], 0)
        BY NodesType, HashType DEF Homes
    <2>2. a[h] = EMPTY_KEY
        <3> SUFFICES ASSUME a[h] # EMPTY_KEY PROVE FALSE
            OBVIOUS
        <3>1. a[h] \in Nodes /\ Hash(a[h], 0) = Hash(k, 0)
            BY <2>1
        <3>2. a[h] = k
            BY <3>1 DEF OwnPlaces
        <3> QED
            BY <2>1, <3>2 DEF Holds
    <2>3. 0 \in free /\ free \in SUBSET Nat
        BY <2>2, PlacesType
    <2> HIDE DEF free
    <2>4. First(free) = 0
        <3>1. First(free) \in free /\ First(free) <= 0
            BY <2>3, FirstIsLeast
        <3>2. First(free) \in Nat
            BY <2>3, <3>1
        <3> QED
            BY <3>1, <3>2
    <2>5. [a EXCEPT ![h] = k] \in Homes
        <3> DEFINE b == [a EXCEPT ![h] = k]
        <3>1. b \in [Places -> Nodes \cup {EMPTY_KEY}] /\ b[h] = k
              /\ \A j \in Places : j # h => b[j] = a[j]
            BY <2>1
        <3> HIDE DEF b
        <3>2. \A j \in Places : b[j] # EMPTY_KEY => j = Hash(b[j], 0)
            BY <2>1, <3>1
        <3>3. b \in Homes
            BY <3>1, <3>2 DEF Homes
        <3> QED
            BY <3>3 DEF b
    <2> QED
        BY <2>3, <2>4, <2>5 DEF free
<1> QED
    BY <1>1, <1>2, <1>3, <1>4 DEF Roomy

\* A list that has every node once is as long as there are nodes.
LEMMA ListLength ==
    ASSUME NEW keys \in Seq(Nodes), \A i, j \in 1 .. Len(keys) : keys[i] = keys[j] => i = j,
           Nodes = {keys[i] : i \in 1 .. Len(keys)}
    PROVE  Len(keys) = Cardinality(Nodes)
<1>1. Len(keys) \in Nat /\ DOMAIN keys = 1 .. Len(keys) /\ \A i \in 1 .. Len(keys) : keys[i] \in Nodes
    BY LenProperties, ElementOfSeq
<1> DEFINE f == [i \in 1 .. Len(keys) |-> keys[i]]
<1>2. f \in Bijection(1 .. Len(keys), Nodes)
    <2>1. f \in [1 .. Len(keys) -> Nodes] /\ \A i \in 1 .. Len(keys) : f[i] = keys[i]
        BY <1>1
    <2> HIDE DEF f
    <2>2. DOMAIN f = 1 .. Len(keys)
        BY <2>1
    <2>3. IsInjective(f)
        BY <2>1, <2>2 DEF IsInjective
    <2>4. \A x \in Nodes : \E i \in 1 .. Len(keys) : f[i] = x
        BY <2>1
    <2> QED
        BY <2>1, <2>3, <2>4 DEF Bijection, Injection, Surjection
<1>3. ExistsBijection(1 .. Len(keys), Nodes)
    BY <1>2 DEF ExistsBijection
<1> QED
    BY <1>1, <1>3, FS_CountingElements

\* clear empties a table of all nodes.
LEMMA ClearEmpties ==
    ASSUME Compact, NEW t, Sound(t, Homes), Occupied(t) = Nodes
    PROVE  Occupied(ClearTable(t)) = {}
<1>1. t \in Routes /\ t.key \in Homes /\ t.keys \in Seq(Nodes)
    BY DEF Sound, Routes
<1>2. Len(t.keys) = Cardinality(Nodes)
    BY <1>1, ListLength DEF Sound
<1> DEFINE key == [j \in Places |-> IF j \in 1 .. Len(t.keys) THEN EMPTY_KEY ELSE t.key[j]]
<1>3. ClearTable(t).key = key
    BY <1>1 DEF ClearTable, Routes
<1>4. ASSUME NEW j \in Places PROVE key[j] = EMPTY_KEY
    <2>1. CASE t.key[j] = EMPTY_KEY
        BY <2>1
    <2>2. CASE t.key[j] # EMPTY_KEY
        <3>1. t.key[j] \in Nodes /\ j = Hash(t.key[j], 0)
            BY <1>1, <2>2 DEF Homes
        <3> QED
            BY <1>2, <3>1 DEF Compact
    <2> QED
        BY <2>1, <2>2
<1> QED
    BY <1>3, <1>4 DEF Occupied

\* The map a computation starts with.
LEMMA ClearedKeys ==
    ASSUME NEW t \in Routes
    PROVE  ClearTable(t) \in Routes /\ ClearTable(t).keys = << >>
    BY ClearType DEF ClearTable, Routes

\* The first computation starts with an empty map.
LEMMA NoRoutesClear == Occupied(ClearTable(NoRoutes)) = {}
    BY DEF ClearTable, NoRoutes, EmptyTable, Occupied

\* Rows that are each of some network.
LEMMA MixesAre ==
    ASSUME NEW r \in Rows, \A n \in Nodes : \E t \in Topologies : r[n] = t[n]
    PROVE  r \in Mixes
<1> DEFINE S == UNION {{t[n] : n \in Nodes} : t \in Topologies}
<1>1. ASSUME NEW n \in Nodes PROVE r[n] \in S
    <2>1. PICK t \in Topologies : r[n] = t[n]
        OBVIOUS
    <2> QED
        BY <2>1
<1> HIDE DEF S
<1>2. r \in [Nodes -> S]
    BY <1>1 DEF Rows
<1> QED
    BY <1>2 DEF Mixes, S

\* clear empties the map of n's table.
Clean(n) == Occupied(ClearTable(confirmed[n])) = {}

\* The tables are right for the rows they were computed from, and the map of a table
\* that will be computed is emptied by clear.
TablesInv ==
    /\ \A n \in Nodes : ready[n] => RightTable(confirmed[n], basis[n], n)
    /\ \A n \in Nodes : timer[n] \/ (Compact /\ Connected) => Clean(n)
    /\ \A n \in Nodes : matrix[n] \in Mixes
    /\ changes = 0 => \A n \in Nodes : matrix[n] = rows /\ basis[n] = rows

LEMMA TablesInit == Init => TablesInv
<1> SUFFICES ASSUME Init PROVE TablesInv
    OBVIOUS
<1>1. \A n \in Nodes : ~ready[n] /\ confirmed[n] = NoRoutes /\ matrix[n] = rows /\ basis[n] = rows
    BY DEF Init
<1>2. rows \in Topologies
    BY DEF Init
<1>3. rows \in Mixes
    BY <1>2, TopologyType, MixesAre
<1> QED
    BY <1>1, <1>2, <1>3, NoRoutesClear DEF TablesInv, Clean

\* A node computes its table.
LEMMA TablesFired ==
    ASSUME StartsEmpty, IpTypes, TablesInv, NEW n \in Nodes, MyTimerFired(n)
    PROVE  TablesInv'
<1> DEFINE before == ClearTable(confirmed[n])
           table  == FindShortestPath(before, n, matrix[n])
<1>1. /\ timer[n] /\ timer' = [timer EXCEPT ![n] = FALSE]
      /\ confirmed' = [confirmed EXCEPT ![n] = table]
      /\ ready' = [ready EXCEPT ![n] = TRUE]
      /\ basis' = [basis EXCEPT ![n] = matrix[n]]
      /\ UNCHANGED <<rows, changes, refreshes, matrix>>
    BY DEF MyTimerFired
<1>2. /\ confirmed \in [Nodes -> Routes] /\ timer \in [Nodes -> BOOLEAN] /\ ready \in [Nodes -> BOOLEAN]
      /\ matrix \in [Nodes -> Rows] /\ basis \in [Nodes -> Rows]
    BY DEF IpTypes, TypeOK, Rows
<1>3. before \in Routes /\ before.keys = << >> /\ Occupied(before) = {}
    BY <1>1, <1>2, ClearedKeys DEF TablesInv, Clean
<1>4. matrix[n] \in Mixes
    BY DEF TablesInv
<1>5. \A Arrays : Roomy(Arrays) => /\ Sound(table, Arrays) /\ Occupied(table) = Reached(matrix[n], n)
                                   /\ RightTable(table, matrix[n], n)
    BY <1>2, <1>3, FindsShortestPaths
<1> HIDE DEF before, table
<1>6. RightTable(table, matrix[n], n)
    BY <1>5, OwnPlacesRoomy DEF StartsEmpty, Compact, OwnPlaces
<1>7. ASSUME Compact, Connected PROVE Occupied(ClearTable(table)) = {}
    <2>1. Sound(table, Homes) /\ Occupied(table) = Reached(matrix[n], n)
        BY <1>5, <1>7, OwnPlacesRoomy DEF Compact, OwnPlaces
    <2>2. Occupied(table) = Nodes
        BY <1>2, <1>4, <1>7, <2>1 DEF Connected
    <2> QED
        BY <1>7, <2>1, <2>2, ClearEmpties
<1>8. \A k \in Nodes : /\ timer'[k] = (IF k = n THEN FALSE ELSE timer[k])
                       /\ confirmed'[k] = (IF k = n THEN table ELSE confirmed[k])
                       /\ ready'[k] = (IF k = n THEN TRUE ELSE ready[k])
                       /\ basis'[k] = (IF k = n THEN matrix[n] ELSE basis[k])
    BY <1>1, <1>2
<1>9. \A k \in Nodes : ready'[k] => RightTable(confirmed'[k], basis'[k], k)
    BY <1>6, <1>8 DEF TablesInv
<1>10. \A k \in Nodes : timer'[k] \/ (Compact /\ Connected) => Clean(k)'
    BY <1>7, <1>8 DEF TablesInv, Clean
<1>11. changes' = 0 => \A k \in Nodes : matrix'[k] = rows' /\ basis'[k] = rows'
    BY <1>1, <1>8 DEF TablesInv
<1> QED
    BY <1>1, <1>9, <1>10, <1>11 DEF TablesInv

\* A row arrives.
LEMMA TablesLsp ==
    ASSUME StartsEmpty, IpTypes, TablesInv, NEW n \in Nodes, NEW m \in Nodes, AddLsp(n, m)
    PROVE  TablesInv'
<1>1. /\ matrix[n][m] = rows[m] => refreshes < REFRESHES
      /\ matrix' = [matrix EXCEPT ![n][m] = rows[m]]
      /\ timer' = [timer EXCEPT ![n] = TRUE]
      /\ UNCHANGED <<rows, changes, confirmed, ready, basis>>
    BY DEF AddLsp
<1>2. /\ timer \in [Nodes -> BOOLEAN] /\ matrix \in [Nodes -> Rows] /\ rows \in Topologies
      /\ rows \in Rows /\ changes \in 0 .. CHANGES /\ refreshes \in 0 .. REFRESHES
    BY TopologyType DEF IpTypes, TypeOK, Rows
<1>3. Compact /\ Connected
    <2>1. CASE CHANGES = 0 /\ REFRESHES = 0
        <3>1. changes = 0 /\ refreshes = 0
            BY <1>2, <2>1
        <3>2. matrix[n] = rows
            BY <3>1 DEF TablesInv
        <3> QED
            BY <1>1, <2>1, <3>1, <3>2
    <2> QED
        BY <2>1 DEF StartsEmpty
<1>4. \A k \in Nodes : Clean(k)'
    BY <1>1, <1>3 DEF TablesInv, Clean
<1>5. \A k, l \in Nodes : matrix'[k][l] = (IF k = n /\ l = m THEN rows[m] ELSE matrix[k][l])
    BY <1>1, <1>2 DEF Rows
<1>6. ASSUME NEW k \in Nodes PROVE matrix'[k] \in Mixes
    <2>1. \A l \in Nodes : \E t \in Topologies : matrix[k][l] = t[l]
        BY DEF TablesInv, Mixes
    <2>2. \A l \in Nodes : \E t \in Topologies : matrix'[k][l] = t[l]
        BY <1>2, <1>5, <2>1
    <2>3. matrix'[k] \in Rows
        BY <1>1, <1>2 DEF Rows
    <2> QED
        BY <2>2, <2>3, MixesAre
<1>7. changes = 0 => matrix' = matrix
    <2> SUFFICES ASSUME changes = 0 PROVE matrix' = matrix
        OBVIOUS
    <2>1. matrix[n][m] = rows[m]
        BY DEF TablesInv
    <2> QED
        BY <1>1, <1>2, <2>1 DEF Rows
<1> QED
    BY <1>1, <1>4, <1>6, <1>7 DEF TablesInv

LEMMA TablesNext == StartsEmpty /\ IpTypes /\ TablesInv /\ [Next]_vars => TablesInv'
<1> SUFFICES ASSUME StartsEmpty, IpTypes, TablesInv, [Next]_vars PROVE TablesInv'
    OBVIOUS
<1>1. ASSUME UNCHANGED routing PROVE TablesInv'
    BY <1>1 DEF routing, TablesInv, Clean
<1>2. ASSUME NEW i \in Pings, Ping(i) PROVE TablesInv'
    BY <1>1, <1>2 DEF Ping
<1>3. ASSUME NEW m \in net, Forward(m) PROVE TablesInv'
    BY <1>1, <1>3 DEF Forward
<1>4. ASSUME NEW m \in net, Arrive(m) PROVE TablesInv'
    BY <1>1, <1>4 DEF Arrive
<1>5. ASSUME NEW n \in Nodes, CheckCacheFired(n) PROVE TablesInv'
    BY <1>1, <1>5 DEF CheckCacheFired
<1>6. ASSUME NEW n \in Nodes, NEW m \in Nodes, AddLsp(n, m) PROVE TablesInv'
    BY <1>6, TablesLsp
<1>7. ASSUME NEW n \in Nodes, MyTimerFired(n) PROVE TablesInv'
    BY <1>7, TablesFired
<1>8. CASE Change
    <2>1. UNCHANGED <<matrix, timer, confirmed, ready, basis>> /\ changes' # 0
        BY <1>8 DEF Change, IpTypes, TypeOK
    <2> QED
        BY <2>1 DEF TablesInv, Clean
<1>9. CASE UNCHANGED vars
    BY <1>1, <1>9 DEF vars
<1> QED
    BY <1>2, <1>3, <1>4, <1>5, <1>6, <1>7, <1>8, <1>9 DEF Next

LEMMA TablesAlways == StartsEmpty => (Spec => [](IpTypes /\ TablesInv))
<1> SUFFICES ASSUME StartsEmpty PROVE Spec => [](IpTypes /\ TablesInv)
    OBVIOUS
<1>1. Init => IpTypes /\ TablesInv
    BY TypesInit, TablesInit
<1>2. IpTypes /\ TablesInv /\ [Next]_vars => IpTypes' /\ TablesInv'
    BY TypesNext, TablesNext
<1> QED
    BY <1>1, <1>2, PTL DEF Spec

\* A node's table holds the nodes it reaches by the rows it was computed from, with their
\* distances and the first nodes of shortest paths, also when it is computed again in
\* the map of the last time.
THEOREM RoutesCorrectAlways ==
    ASSUME StartsEmpty
    PROVE  Spec => []RoutesCorrect
<1>1. TablesInv => RoutesCorrect
    BY DEF TablesInv, RoutesCorrect, RightTable
<1> QED
    BY <1>1, TablesAlways, PTL

\* A backup in a node's table is the first node of another way, of the weight it has.
THEOREM BackupsRealAlways ==
    ASSUME StartsEmpty
    PROVE  Spec => []BackupsReal
<1>1. TablesInv => BackupsReal
    BY DEF TablesInv, BackupsReal, RightTable
<1> QED
    BY <1>1, TablesAlways, PTL

-----------------------------------------------------------------------------
(* The travel *)

\* A packet at node n, when k more links are behind it than its TTL says, is on a shortest
\* path by the rows r.
OnWay(r, p, n, k) ==
    /\ Id(p) \in Pings /\ p.dest \in Reached(r, n)
    /\ (TTL - p.TTL) + k + Dist(r, n, p.dest) = Dist(r, p.src, p.dest)

Waits(r, p, n) == OnWay(r, p, n, 0) /\ p.dest # n

TravelInv ==
    changes = 0 => /\ \A m \in net : OnWay(rows, m.packet, m.to, 1)
                   /\ \A n \in Nodes : \A p \in Entries(cache[n]) : Waits(rows, p, n)

\* The distance to a node that is reached.
LEMMA DistanceType ==
    ASSUME NEW r \in Rows, NEW a \in Nodes, NEW b \in Reached(r, a)
    PROVE  Dist(r, a, b) \in Nat /\ (b # a => Dist(r, a, b) >= 1)
<1>1. HASH_MAX_SIZE \in Nat /\ HASH_MAX_SIZE \in 0 .. HASH_MAX_SIZE
    BY HashAssumption
<1>2. Dist(r, a, b) \in 0 .. HASH_MAX_SIZE /\ b \in Within(r, a, Dist(r, a, b))
    BY <1>1, DistLeast DEF Reached
<1>3. Dist(r, a, b) = 0 => b = a
    BY <1>2, WithinBalls
<1> QED
    BY <1>1, <1>2, <1>3

\* The next hop of a packet that waits is one link further on its way.
LEMMA HopOnWay ==
    ASSUME NEW r \in Rows, NEW n \in Nodes, NEW p \in Packet, Waits(r, p, n),
           NEW t, RightTable(t, r, n)
    PROVE  OnWay(r, p, GetNextHop(t, p.dest), 1)
<1> DEFINE x == p.dest
           pair == Get(t, x)
           hop == pair.nextHop
<1>1. Id(p) \in Pings /\ x \in Reached(r, n) /\ x # n
      /\ (TTL - p.TTL) + 0 + Dist(r, n, x) = Dist(r, p.src, x)
    BY DEF Waits, OnWay
<1>2. /\ pair.weight = Dist(r, n, x)
      /\ Linked(r, n, hop) /\ x \in Reached(r, hop) /\ Dist(r, hop, x) = pair.weight - 1
    BY <1>1 DEF RightTable
<1>3. hop \in Nodes
    <2>1. r[n] \in Seq(Nodes)
        BY DEF Rows
    <2>2. \A i \in DOMAIN r[n] : r[n][i] \in Nodes
        BY <2>1, LenProperties, ElementOfSeq
    <2> QED
        BY <1>2, <2>2 DEF Linked
<1>4. hop # 0
    BY <1>3, NodesType DEF EMPTY_KEY
<1>5. GetNextHop(t, p.dest) = hop
    BY <1>4 DEF GetNextHop
<1>6. Dist(r, n, x) \in Nat /\ TTL \in Nat /\ p.TTL \in Int
    BY <1>1, DistanceType, IpAssumption DEF Packet
<1> HIDE DEF pair, hop, x
<1>7. (TTL - p.TTL) + 1 + Dist(r, hop, x) = Dist(r, p.src, x)
    BY <1>1, <1>2, <1>6
<1> QED
    BY <1>1, <1>2, <1>5, <1>7 DEF OnWay, x

\* Ip.ping, on a list w and a network N, of packets that wait.
LEMMA TravelLeft ==
    ASSUME IpTypes, TablesInv', changes = 0, rows' = rows, changes' = changes,
           NEW n \in Nodes, NEW w \in Seq(Packet), NEW packets \in Seq(Packet), NEW N,
           NEW kept, NEW sent, Left(n, w, packets, N, kept, sent),
           \A m \in N : OnWay(rows, m.packet, m.to, 1),
           \A k \in Nodes : k # n => \A p \in Entries(cache[k]) : Waits(rows, p, k),
           \A p \in Entries(w) \cup Entries(packets) : Waits(rows, p, n)
    PROVE  TravelInv'
<1>1. /\ kept \in Seq(Packet) /\ Entries(kept) \subseteq Entries(packets)
      /\ net' = N \cup sent /\ cache' = [cache EXCEPT ![n] = w \o kept]
      /\ \A a \in sent : /\ a.packet \in Entries(packets)
                         /\ HopTo(n, a.packet) # 0 /\ a.to = HopTo(n, a.packet)
    BY DEF Left, Stay, Go
<1>2. rows \in Rows /\ cache \in [Nodes -> Seq(Packet)] /\ Entries(packets) \subseteq Packet
    BY TopologyType, EntriesAre DEF IpTypes, TypeOK
<1>3. ASSUME NEW a \in sent PROVE OnWay(rows, a.packet, a.to, 1)
    <2>1. ready'[n] /\ a.to = GetNextHop(confirmed'[n], a.packet.dest)
        BY <1>1 DEF HopTo
    <2>2. RightTable(confirmed'[n], rows, n)
        BY <2>1 DEF TablesInv
    <2>3. a.packet \in Packet /\ Waits(rows, a.packet, n)
        BY <1>1, <1>2
    <2> QED
        BY <1>2, <2>1, <2>2, <2>3, HopOnWay
<1>4. \A m \in net' : OnWay(rows, m.packet, m.to, 1)
    BY <1>1, <1>3
<1>5. ASSUME NEW k \in Nodes, NEW p \in Entries(cache'[k]) PROVE Waits(rows, p, k)
    <2>1. CASE k = n
        <3>1. cache'[k] = w \o kept
            BY <1>1, <1>2, <2>1
        <3>2. Entries(cache'[k]) = Entries(w) \cup Entries(kept)
            BY <1>1, <3>1, ConcatEntries
        <3> QED
            BY <1>1, <1>5, <2>1, <3>2
    <2>2. CASE k # n
        BY <1>1, <1>2, <1>5, <2>2
    <2> QED
        BY <2>1, <2>2
<1> QED
    BY <1>4, <1>5 DEF TravelInv

\* Ip.ping of a single packet that waits.
LEMMA TravelPinged ==
    ASSUME IpTypes, TablesInv', TravelInv, changes = 0, UNCHANGED routing,
           NEW n, NEW p \in Packet, NEW N \in SUBSET net, Pinged(n, cache[n], <<p>>, N),
           Waits(rows, p, n)
    PROVE  TravelInv'
<1>1. PICK kept, sent : Left(n, cache[n], <<p>>, N, kept, sent)
    BY DEF Pinged
<1>2. n \in Nodes /\ cache[n] \in Seq(Packet) /\ <<p>> \in Seq(Packet)
    BY DEF Pinged
<1>3. \A q \in Entries(cache[n]) \cup Entries(<<p>>) : Waits(rows, q, n)
    BY <1>2, OneEntry DEF TravelInv
<1>4. rows' = rows /\ changes' = changes
    BY DEF routing
<1> QED
    BY <1>1, <1>2, <1>3, <1>4, TravelLeft DEF TravelInv

\* Ip.ping of a node's list.
LEMMA TravelList ==
    ASSUME IpTypes, TablesInv', TravelInv, changes = 0, rows' = rows, changes' = changes,
           NEW n \in Nodes, NEW b \in BOOLEAN, IpPing(n, << >>, cache[n], net, b)
    PROVE  TravelInv'
<1>1. PICK kept, sent : Left(n, << >>, cache[n], net, kept, sent)
    BY PingedList DEF Pinged, IpTypes
<1>2. cache[n] \in Seq(Packet) /\ << >> \in Seq(Packet) /\ Entries(<< >>) = {}
    BY NoEntries DEF IpTypes, TypeOK
<1>3. \A q \in Entries(<< >>) \cup Entries(cache[n]) : Waits(rows, q, n)
    BY <1>2 DEF TravelInv
<1> QED
    BY <1>1, <1>2, <1>3, TravelLeft DEF TravelInv

LEMMA TravelInit == Init => TravelInv
<1> SUFFICES ASSUME Init PROVE TravelInv
    OBVIOUS
<1>1. net = {} /\ \A n \in Nodes : Entries(cache[n]) = {}
    BY NoEntries DEF Init
<1> QED
    BY <1>1 DEF TravelInv

\* A packet of the node's own.
LEMMA TravelPing ==
    ASSUME PingsReach, IpTypes, TablesInv', TravelInv, changes = 0, NEW i \in Pings, Ping(i)
    PROVE  TravelInv'
<1>1. UNCHANGED routing
    BY PingedPing DEF IpTypes
<1>2. PICK p \in Packet : Id(p) = i /\ p.TTL = TTL /\ Pinged(i[1], cache[i[1]], <<p>>, net)
    BY PingedPing DEF IpTypes
<1>3. p.src = i[1] /\ p.dest = i[2] /\ rows \in Topologies
    BY <1>2 DEF Id, IpTypes, TypeOK
<1>4. i[1] # i[2] /\ i[2] \in Reached(rows, i[1])
    BY <1>3 DEF PingsReach
<1>5. Dist(rows, i[1], i[2]) \in Nat /\ TTL \in Nat
    <2>1. i[1] \in Nodes /\ rows \in Rows
        BY <1>3, IpAssumption, TopologyType
    <2>2. Dist(rows, i[1], i[2]) \in Nat
        BY <1>4, <2>1, DistanceType
    <2> QED
        BY <2>2, IpAssumption
<1>6. (TTL - p.TTL) + 0 + Dist(rows, i[1], i[2]) = Dist(rows, p.src, i[2])
    BY <1>2, <1>3, <1>5
<1>7. Waits(rows, p, i[1])
    BY <1>2, <1>3, <1>4, <1>6 DEF Waits, OnWay
<1> QED
    BY <1>1, <1>2, <1>7, TravelPinged

\* A packet of another node, with a TTL that is not yet 0.
LEMMA TravelForward ==
    ASSUME PingsReach, IpTypes, TablesInv', TravelInv, changes = 0, NEW m \in net, Forward(m)
    PROVE  TravelInv'
<1> DEFINE n == m.to
           x == m.packet.dest
           D == Dist(rows, n, x)
<1>1. UNCHANGED routing
    BY PingedForward DEF IpTypes
<1>2. PICK p \in Packet : /\ Id(p) = Id(m.packet) /\ p.TTL = (m.packet.TTL - 1) % MOD
                          /\ Pinged(n, cache[n], <<p>>, net \ {m})
    BY PingedForward DEF IpTypes
<1>3. p.src = m.packet.src /\ p.dest = x /\ rows \in Topologies /\ rows \in Rows /\ n \in Nodes
    BY <1>2, TopologyType, MessageType DEF Id, IpTypes, TypeOK
<1>4. /\ Id(m.packet) \in Pings /\ x \in Reached(rows, n)
      /\ (TTL - m.packet.TTL) + 1 + D = Dist(rows, m.packet.src, x)
    BY DEF TravelInv, OnWay
<1>5. x # n
    BY DEF Forward
<1>6. Dist(rows, m.packet.src, x) <= TTL + 1
    <2>1. Id(m.packet)[1] = m.packet.src /\ Id(m.packet)[2] = x
        BY DEF Id
    <2> QED
        BY <1>3, <1>4, <2>1 DEF PingsReach
<1>7. D \in Nat /\ D >= 1 /\ TTL \in Nat /\ m.packet.TTL \in 0 .. MOD - 1 /\ MOD \in Nat \ {0}
    BY <1>3, <1>4, <1>5, DistanceType, IpAssumption, MessageType DEF IpTypes
<1> HIDE DEF n, x, D
<1>8. m.packet.TTL >= 1
    BY <1>4, <1>6, <1>7
<1>9. p.TTL = m.packet.TTL - 1
    <2>1. m.packet.TTL - 1 \in 0 .. MOD - 1
        BY <1>7, <1>8
    <2>2. (m.packet.TTL - 1) % MOD = m.packet.TTL - 1
        BY <1>7, <2>1
    <2> QED
        BY <1>2, <2>2
<1>10. (TTL - p.TTL) + 0 + D = Dist(rows, p.src, x)
    BY <1>3, <1>4, <1>7, <1>9
<1>11. Waits(rows, p, n)
    BY <1>2, <1>3, <1>4, <1>5, <1>10 DEF Waits, OnWay, D
<1> QED
    BY <1>1, <1>2, <1>11, TravelPinged

LEMMA TravelNext ==
    PingsReach /\ IpTypes /\ TablesInv' /\ TravelInv /\ [Next]_vars => TravelInv'
<1> SUFFICES ASSUME PingsReach, IpTypes, TablesInv', TravelInv, [Next]_vars, changes' = 0
             PROVE  TravelInv'
    BY DEF TravelInv
<1>0. changes = 0 /\ ~Change
    <2>1. changes \in Nat
        BY IpAssumption DEF IpTypes, TypeOK
    <2>2. ~Change
        BY <2>1 DEF Change
    <2>3. ASSUME UNCHANGED routing PROVE changes = 0
        BY <2>3 DEF routing
    <2> QED
        BY <2>2, <2>3 DEF Next, vars, Ping, Forward, Arrive, CheckCacheFired, AddLsp, MyTimerFired
<1>1. ASSUME NEW i \in Pings, Ping(i) PROVE TravelInv'
    BY <1>0, <1>1, TravelPing
<1>2. ASSUME NEW m \in net, Forward(m) PROVE TravelInv'
    BY <1>0, <1>2, TravelForward
<1>3. ASSUME NEW m \in net, Arrive(m) PROVE TravelInv'
    <2>1. net' = net \ {m} /\ cache' = cache /\ rows' = rows
        BY <1>3 DEF Arrive, routing
    <2> QED
        BY <1>0, <2>1 DEF TravelInv
<1>4. ASSUME NEW n \in Nodes, CheckCacheFired(n) PROVE TravelInv'
    <2>1. IpPing(n, << >>, cache[n], net, FALSE) /\ rows' = rows /\ changes' = changes
        BY <1>4 DEF CheckCacheFired, routing
    <2> QED
        BY <1>0, <2>1, TravelList
<1>5. ASSUME NEW n \in Nodes, NEW m \in Nodes, AddLsp(n, m) PROVE TravelInv'
    BY <1>0, <1>5 DEF AddLsp, forwarding, TravelInv
<1>6. ASSUME NEW n \in Nodes, MyTimerFired(n) PROVE TravelInv'
    <2>1. /\ IpPing(n, << >>, cache[n], net, checkCache[n]) /\ checkCache[n] \in BOOLEAN
          /\ rows' = rows /\ changes' = changes
        BY <1>6 DEF MyTimerFired, IpTypes, TypeOK
    <2> QED
        BY <1>0, <2>1, TravelList
<1>7. CASE UNCHANGED vars
    BY <1>0, <1>7 DEF vars, routing, forwarding, TravelInv
<1> QED
    BY <1>0, <1>1, <1>2, <1>3, <1>4, <1>5, <1>6, <1>7 DEF Next

\* While the network does not change a packet is on a shortest path at every node it comes
\* to, though each hop was looked up in the table of another node, computed at another
\* time, and by that its TTL never wraps.
THEOREM ShortestTravelAlways ==
    ASSUME StartsEmpty, PingsReach
    PROVE  Spec => []ShortestTravel
<1>1. Init => IpTypes /\ TablesInv /\ TravelInv
    BY TypesInit, TablesInit, TravelInit
<1>2. IpTypes /\ TablesInv /\ TravelInv /\ [Next]_vars => IpTypes' /\ TablesInv' /\ TravelInv'
    BY TypesNext, TablesNext, TravelNext
<1>3. TravelInv => ShortestTravel
    BY DEF TravelInv, OnWay, ShortestTravel
<1> QED
    BY <1>1, <1>2, <1>3, PTL DEF Spec

=============================================================================

------------------------ MODULE LinkStateFloodingProof ------------------------
(***************************************************************************)
(* Theorems about LinkStateFlooding, for any network, any neighborhoods a  *)
(* node may settle with and any capacities: the types, that an older row   *)
(* never takes the place of a newer one, and that while nothing fails a    *)
(* row gets from each node that has it to the neighbors of that node.      *)
(***************************************************************************)
EXTENDS LinkStateFlooding, FiniteSetTheorems, TLAPS

-----------------------------------------------------------------------------
(* A sequence of packets, one after the other *)

\* A set of naturals has a least element.
LEMMA Least ==
    ASSUME NEW S \in SUBSET Nat, S # {}
    PROVE  \E x \in S : \A y \in S : x <= y
<1>1. IsWellFoundedOn(OpToRel(<, Nat), Nat)
    BY NatLessThanWellFounded
<1>2. PICK x \in S : \A y \in S : ~(<<y, x>> \in OpToRel(<, Nat))
    BY <1>1, WFMin
<1>3. ASSUME NEW y \in S, y < x PROVE <<y, x>> \in OpToRel(<, Nat)
    BY <1>3 DEF OpToRel
<1>4. \A y \in S : x \in Nat /\ y \in Nat /\ ~(y < x)
    BY <1>2, <1>3
<1> QED
    BY <1>4

\* The results of checkCache for the first n of a sequence of packets.
IsRun(r, n, seen, packets) ==
    r = [i \in 0 .. n |-> IF i = 0 THEN [seen |-> seen, new |-> {}]
                                   ELSE CheckCache(r[i - 1], packets[i])]

LEMMA RunExists ==
    ASSUME NEW seen, NEW packets, NEW n \in Nat
    PROVE  \E r : IsRun(r, n, seen, packets)
<1> DEFINE Without == {k \in Nat : ~ \E r : IsRun(r, k, seen, packets)}
<1> SUFFICES ASSUME Without # {} PROVE FALSE
    OBVIOUS
<1>1. PICK k \in Without : \A m \in Without : k <= m
    BY Least
<1>2. k \in Nat /\ ~ \E r : IsRun(r, k, seen, packets)
    OBVIOUS
<1>3. CASE k = 0
    <2> DEFINE r == [i \in 0 .. 0 |-> [seen |-> seen, new |-> {}]]
    <2>1. IsRun(r, 0, seen, packets)
        BY DEF IsRun
    <2> QED
        BY <1>2, <1>3, <2>1
<1>4. CASE k # 0
    <2>1. k - 1 \in Nat /\ ~(k <= k - 1)
        BY <1>2, <1>4
    <2>2. PICK g : IsRun(g, k - 1, seen, packets)
        BY <1>1, <2>1
    <2> DEFINE r == [i \in 0 .. k |-> IF i < k THEN g[i] ELSE CheckCache(g[k - 1], packets[k])]
    <2>3. \A i \in 0 .. k - 1 : g[i] = IF i = 0 THEN [seen |-> seen, new |-> {}]
                                               ELSE CheckCache(g[i - 1], packets[i])
        BY <2>2 DEF IsRun
    <2>4. \A i \in 0 .. k : r[i] = IF i < k THEN g[i] ELSE CheckCache(g[k - 1], packets[k])
        OBVIOUS
    <2>5. r = [i \in 0 .. k |-> r[i]]
        OBVIOUS
    <2> HIDE DEF r
    <2>6. ASSUME NEW i \in 0 .. k
          PROVE  r[i] = IF i = 0 THEN [seen |-> seen, new |-> {}]
                                 ELSE CheckCache(r[i - 1], packets[i])
        <3>1. CASE i = 0
            BY <1>2, <1>4, <2>3, <2>4, <3>1
        <3>2. CASE i # 0 /\ i < k
            <4>1. i \in 0 .. k - 1 /\ i - 1 \in 0 .. k /\ i - 1 < k
                BY <1>2, <3>2
            <4>2. r[i] = g[i] /\ r[i - 1] = g[i - 1]
                BY <2>4, <3>2, <4>1
            <4> QED
                BY <2>3, <3>2, <4>1, <4>2
        <3>3. CASE i = k
            <4>1. k - 1 \in 0 .. k /\ k - 1 < k /\ ~(k < k) /\ k \in 0 .. k
                BY <1>2, <1>4
            <4>2. r[k] = CheckCache(g[k - 1], packets[k]) /\ r[k - 1] = g[k - 1]
                BY <2>4, <4>1
            <4> QED
                BY <1>4, <3>3, <4>2
        <3> QED
            BY <1>2, <3>1, <3>2, <3>3
    <2>7. IsRun(r, k, seen, packets)
        BY <2>5, <2>6 DEF IsRun
    <2> QED
        BY <1>2, <2>7
<1> QED
    BY <1>3, <1>4

\* Checked is the last result of such a run.
LEMMA CheckedRun ==
    ASSUME NEW seen, NEW packets, Len(packets) \in Nat
    PROVE  \E r : IsRun(r, Len(packets), seen, packets)
                    /\ Checked(seen, packets) = r[Len(packets)]
<1> DEFINE n == Len(packets)
           r == CHOOSE g : IsRun(g, n, seen, packets)
<1>1. IsRun(r, n, seen, packets)
    BY RunExists
<1>2. Checked(seen, packets) = r[n]
    BY DEF Checked, IsRun
<1> QED
    BY <1>1, <1>2

\* What checkCache remembers stays a bounded set for each source.
Seen == [Nodes -> SUBSET Nat]
Bounded(seen) == \A m \in Nodes : IsFiniteSet(seen[m]) /\ Cardinality(seen[m]) <= SEQS

LEMMA CheckCacheEffect ==
    ASSUME NEW r, r.seen \in Seen, Bounded(r.seen), NEW p \in Lsp,
           NEW s, s = CheckCache(r, p)
    PROVE  /\ s.seen \in Seen /\ Bounded(s.seen)
           /\ \A m \in Nodes : r.seen[m] \subseteq s.seen[m]
           /\ \A m \in Nodes : \A x \in s.seen[m] : x \in r.seen[m] \/ (p.src = m /\ p.seq = x)
           /\ \/ IsNew(r.seen, p) /\ s.new = r.new \cup {p}
              \/ ~IsNew(r.seen, p) /\ s.new = r.new
<1>0. p.src \in Nodes /\ p.seq \in Nat
    BY DEF Lsp
<1>1. CASE IsNew(r.seen, p)
    <2> DEFINE t == [r.seen EXCEPT ![p.src] = @ \cup {p.seq}]
    <2>1. s.seen = t /\ s.new = r.new \cup {p}
        BY <1>1 DEF CheckCache
    <2>2. /\ t \in Seen
          /\ \A m \in Nodes : t[m] = IF m = p.src THEN r.seen[m] \cup {p.seq} ELSE r.seen[m]
        BY <1>0 DEF Seen
    <2> HIDE DEF t
    <2>3. ASSUME NEW m \in Nodes PROVE IsFiniteSet(t[m]) /\ Cardinality(t[m]) <= SEQS
        <3>1. CASE m = p.src
            <4>1. IsFiniteSet(r.seen[m]) /\ p.seq \notin r.seen[m] /\ Cardinality(r.seen[m]) < SEQS
                BY <1>1, <3>1 DEF IsNew, Bounded
            <4>2. Cardinality(r.seen[m]) \in Nat /\ SEQS \in Nat
                BY <4>1, FS_CardinalityType, FloodingAssumption
            <4>3. /\ IsFiniteSet(r.seen[m] \cup {p.seq})
                  /\ Cardinality(r.seen[m] \cup {p.seq}) = Cardinality(r.seen[m]) + 1
                BY <4>1, FS_AddElement
            <4> QED
                BY <2>2, <3>1, <4>1, <4>2, <4>3
        <3>2. CASE m # p.src
            BY <2>2, <3>2 DEF Bounded
        <3> QED
            BY <3>1, <3>2
    <2> QED
        BY <1>1, <2>1, <2>2, <2>3 DEF Bounded
<1>2. CASE ~IsNew(r.seen, p)
    BY <1>2 DEF CheckCache
<1> QED
    BY <1>1, <1>2

\* A packet that checkCache is certain to let through: one of the first numbers of its
\* source, greater than all that were remembered and than those in front of it.
Passing(seen, packets, j) ==
    /\ 1 <= packets[j].seq /\ packets[j].seq <= SEQS
    /\ \A x \in seen[packets[j].src] : 1 <= x /\ x < packets[j].seq
    /\ \A l \in 1 .. j - 1 :
        packets[l].src = packets[j].src => 1 <= packets[l].seq /\ packets[l].seq < packets[j].seq

\* A set of numbers from 1 up to but not including n has less than n of them.
LEMMA NumbersBelow ==
    ASSUME NEW S \in SUBSET Nat, NEW n \in Nat, n # 0, \A x \in S : 1 <= x /\ x < n
    PROVE  Cardinality(S) < n
<1>1. S \in SUBSET (1 .. n - 1)
    OBVIOUS
<1>2. IsFiniteSet(1 .. n - 1) /\ Cardinality(1 .. n - 1) = n - 1
    <2>1. 1 \in Int /\ n - 1 \in Int /\ (IF 1 > n - 1 THEN 0 ELSE (n - 1) - 1 + 1) = n - 1
        OBVIOUS
    <2> QED
        BY <2>1, FS_Interval
<1>3. IsFiniteSet(S) /\ Cardinality(S) <= n - 1
    BY <1>1, <1>2, FS_Subset
<1>4. Cardinality(S) \in Nat
    BY <1>3, FS_CardinalityType
<1> QED
    BY <1>3, <1>4

\* After the first i packets.
RunInv(r, i, seen, packets) ==
    /\ r.seen \in Seen /\ Bounded(r.seen)
    /\ \A m \in Nodes : \A x \in r.seen[m] :
        x \in seen[m] \/ \E j \in 1 .. i : packets[j].src = m /\ packets[j].seq = x
    /\ \A p \in r.new : \E j \in 1 .. i : p = packets[j]
    /\ \A j \in 1 .. i : Passing(seen, packets, j) => packets[j] \in r.new

LEMMA RunStep ==
    ASSUME NEW seen \in Seen, NEW packets \in Seq(Lsp), NEW i \in 1 .. Len(packets),
           NEW r, RunInv(r, i - 1, seen, packets),
           NEW s, s = CheckCache(r, packets[i])
    PROVE  RunInv(s, i, seen, packets)
<1> DEFINE p == packets[i]
<1>0. /\ p \in Lsp /\ i \in Nat /\ i \in 1 .. i /\ Len(packets) \in Nat
      /\ \A j \in 1 .. i - 1 : j \in 1 .. i
      /\ \A j \in 1 .. i : j = i \/ j \in 1 .. i - 1
    OBVIOUS
<1>1. p.src \in Nodes /\ p.seq \in Nat
    BY <1>0 DEF Lsp
<1>2. /\ r.seen \in Seen /\ Bounded(r.seen)
      /\ \A m \in Nodes : \A x \in r.seen[m] :
            x \in seen[m] \/ \E j \in 1 .. i - 1 : packets[j].src = m /\ packets[j].seq = x
      /\ \A q \in r.new : \E j \in 1 .. i - 1 : q = packets[j]
      /\ \A j \in 1 .. i - 1 : Passing(seen, packets, j) => packets[j] \in r.new
    BY DEF RunInv
<1>3. /\ s.seen \in Seen /\ Bounded(s.seen)
      /\ \A m \in Nodes : r.seen[m] \subseteq s.seen[m]
      /\ \A m \in Nodes : \A x \in s.seen[m] : x \in r.seen[m] \/ (p.src = m /\ p.seq = x)
      /\ \/ IsNew(r.seen, p) /\ s.new = r.new \cup {p}
         \/ ~IsNew(r.seen, p) /\ s.new = r.new
    BY <1>0, <1>2, CheckCacheEffect
<1> HIDE DEF p
<1>4. ASSUME NEW m \in Nodes, NEW x \in s.seen[m]
      PROVE  x \in seen[m] \/ \E j \in 1 .. i : packets[j].src = m /\ packets[j].seq = x
    <2>1. CASE x \in r.seen[m]
        BY <1>0, <1>2, <2>1
    <2>2. CASE p.src = m /\ p.seq = x
        BY <1>0, <2>2 DEF p
    <2> QED
        BY <1>3, <2>1, <2>2
<1>5. ASSUME NEW q \in s.new PROVE \E j \in 1 .. i : q = packets[j]
    <2>1. CASE q \in r.new
        BY <1>0, <1>2, <2>1
    <2>2. CASE q = p
        BY <1>0, <2>2 DEF p
    <2> QED
        BY <1>3, <2>1, <2>2
<1>6. ASSUME Passing(seen, packets, i) PROVE IsNew(r.seen, p)
    <2>1. ASSUME NEW x \in r.seen[p.src] PROVE 1 <= x /\ x < p.seq
        <3>1. CASE x \in seen[p.src]
            BY <1>6, <3>1 DEF Passing, p
        <3>2. CASE \E j \in 1 .. i - 1 : packets[j].src = p.src /\ packets[j].seq = x
            BY <1>6, <3>2 DEF Passing, p
        <3> QED
            BY <1>1, <1>2, <3>1, <3>2
    <2>2. p.seq <= SEQS /\ SEQS \in Nat
        BY <1>6, FloodingAssumption DEF Passing, p
    <2>3. r.seen[p.src] \in SUBSET Nat
        BY <1>1, <1>2 DEF Seen
    <2>4. p.seq \notin r.seen[p.src]
        BY <1>1, <2>1
    <2>5. Cardinality(r.seen[p.src]) \in Nat /\ IsFiniteSet(r.seen[p.src])
        BY <1>1, <1>2, FS_CardinalityType DEF Bounded
    <2>6. Cardinality(r.seen[p.src]) < p.seq
        <3>1. p.seq # 0
            BY <1>1, <1>6 DEF Passing, p
        <3> QED
            BY <1>1, <2>1, <2>3, <3>1, NumbersBelow
    <2> QED
        BY <1>1, <2>2, <2>4, <2>5, <2>6 DEF IsNew
<1>7. ASSUME NEW j \in 1 .. i, Passing(seen, packets, j) PROVE packets[j] \in s.new
    <2>1. CASE j = i
        BY <1>3, <1>6, <1>7, <2>1 DEF p
    <2>2. CASE j \in 1 .. i - 1
        BY <1>2, <1>3, <1>7, <2>2
    <2> QED
        BY <1>0, <2>1, <2>2
<1> QED
    BY <1>3, <1>4, <1>5, <1>7 DEF RunInv

\* What checkCache makes of a sequence of packets.
LEMMA CheckedEffect ==
    ASSUME NEW seen \in Seen, Bounded(seen), NEW packets \in Seq(Lsp)
    PROVE  RunInv(Checked(seen, packets), Len(packets), seen, packets)
<1> DEFINE n == Len(packets)
<1>0. n \in Nat
    OBVIOUS
<1>1. PICK r : IsRun(r, n, seen, packets) /\ Checked(seen, packets) = r[n]
    BY <1>0, CheckedRun
<1> DEFINE Wrong == {i \in 0 .. n : ~RunInv(r[i], i, seen, packets)}
<1>2. CASE Wrong = {}
    BY <1>0, <1>1, <1>2
<1>3. CASE Wrong # {}
    <2>1. PICK i \in Wrong : \A j \in Wrong : i <= j
        <3>1. Wrong \in SUBSET Nat
            BY <1>0
        <3> HIDE DEF Wrong
        <3> QED
            BY <1>3, <3>1, Least
    <2>2. i \in 0 .. n /\ ~RunInv(r[i], i, seen, packets)
        BY <2>1
    <2>3. r[i] = IF i = 0 THEN [seen |-> seen, new |-> {}]
                          ELSE CheckCache(r[i - 1], packets[i])
        BY <1>1, <2>2 DEF IsRun
    <2>4. CASE i = 0
        <3>1. r[0].seen = seen /\ r[0].new = {}
            BY <2>3, <2>4
        <3>2. RunInv(r[0], 0, seen, packets)
            BY <3>1 DEF RunInv
        <3> QED
            BY <2>2, <2>4, <3>2
    <2>5. CASE i # 0
        <3>1. i \in 1 .. n /\ i - 1 \in 0 .. n /\ ~(i <= i - 1)
            BY <1>0, <2>2, <2>5
        <3>2. RunInv(r[i - 1], i - 1, seen, packets)
            BY <2>1, <3>1
        <3> QED
            BY <2>2, <2>3, <2>5, <3>1, <3>2, RunStep
    <2> QED
        BY <2>4, <2>5
<1> QED
    BY <1>2, <1>3

-----------------------------------------------------------------------------
(* Types *)

Packets == [to : Nodes, lsp : Lsp]

\* TypeOK, with what the set of remembered numbers needs to be counted.
FloodTypes ==
    /\ TypeOK
    /\ \A n, m \in Nodes : IsFiniteSet(seqNums[n][m])

\* What TypeOK says of one node's numbers.
LEMMA SeenTypes ==
    ASSUME FloodTypes, NEW n \in Nodes
    PROVE  seqNums[n] \in Seen /\ Bounded(seqNums[n])
    BY DEF FloodTypes, TypeOK, Seen, Bounded

\* What FloodSend leaves behind.
Flooded(n, nbrs, packets, under_way) ==
    /\ seqNums' \in [Nodes -> Seen] /\ \A k \in Nodes : Bounded(seqNums'[k])
    /\ \A k \in Nodes : k # n => seqNums'[k] = seqNums[k]
    /\ \A m \in Nodes : \A x \in seqNums'[n][m] :
        x \in seqNums[n][m]
        \/ \E j \in 1 .. Len(packets) : packets[j].src = m /\ packets[j].seq = x
    /\ net' \subseteq Packets /\ under_way \subseteq net'
    /\ \A p \in net' : \/ p \in under_way
                       \/ /\ p.to \in nbrs /\ p.to # p.lsp.src
                          /\ \E j \in 1 .. Len(packets) : p.lsp = packets[j]
    /\ \A j \in 1 .. Len(packets) : \A k \in nbrs \ {packets[j].src} :
        Passing(seqNums[n], packets, j) => [to |-> k, lsp |-> packets[j]] \in net'

LEMMA FloodSendEffect ==
    ASSUME FloodTypes, NEW n \in Nodes, NEW nbrs \in SUBSET Nodes, NEW packets \in Seq(Lsp),
           NEW under_way \in SUBSET Packets, FloodSend(n, nbrs, packets, under_way)
    PROVE  Flooded(n, nbrs, packets, under_way)
<1> DEFINE r == Checked(seqNums[n], packets)
<1>1. RunInv(r, Len(packets), seqNums[n], packets)
    BY SeenTypes, CheckedEffect
<1>2. /\ seqNums' = [seqNums EXCEPT ![n] = r.seen]
      /\ net' = under_way \cup {m \in [to : nbrs, lsp : r.new] : m.to # m.lsp.src}
    BY DEF FloodSend
<1> HIDE DEF r
<1>3. r.seen \in Seen /\ Bounded(r.seen)
    BY <1>1 DEF RunInv
<1>4. seqNums \in [Nodes -> Seen]
    BY DEF FloodTypes, TypeOK, Seen
<1>5. /\ seqNums' \in [Nodes -> Seen] /\ seqNums'[n] = r.seen
      /\ \A k \in Nodes : k # n => seqNums'[k] = seqNums[k]
    BY <1>2, <1>3, <1>4
<1>6. \A k \in Nodes : Bounded(seqNums'[k])
    BY <1>3, <1>5, SeenTypes
<1>7. \A m \in Nodes : \A x \in seqNums'[n][m] :
        x \in seqNums[n][m]
        \/ \E j \in 1 .. Len(packets) : packets[j].src = m /\ packets[j].seq = x
    BY <1>1, <1>5 DEF RunInv
<1>8. ASSUME NEW p \in net', p \notin under_way
      PROVE  /\ p \in Packets /\ p.to \in nbrs /\ p.to # p.lsp.src
             /\ \E j \in 1 .. Len(packets) : p.lsp = packets[j]
    <2>1. p \in [to : nbrs, lsp : r.new] /\ p.to # p.lsp.src
        BY <1>2, <1>8
    <2>2. PICK j \in 1 .. Len(packets) : p.lsp = packets[j]
        BY <1>1, <2>1 DEF RunInv
    <2>3. packets[j] \in Lsp
        OBVIOUS
    <2> QED
        BY <2>1, <2>2, <2>3 DEF Packets
<1>9. ASSUME NEW j \in 1 .. Len(packets), NEW k \in nbrs \ {packets[j].src},
             Passing(seqNums[n], packets, j)
      PROVE  [to |-> k, lsp |-> packets[j]] \in net'
    <2>1. packets[j] \in r.new
        BY <1>1, <1>9 DEF RunInv
    <2> DEFINE q == [to |-> k, lsp |-> packets[j]]
    <2>2. q \in [to : nbrs, lsp : r.new] /\ q.to # q.lsp.src
        BY <2>1
    <2> QED
        BY <1>2, <2>2
<1>10. net' \subseteq Packets /\ under_way \subseteq net'
    BY <1>2, <1>8
<1> QED
    BY <1>5, <1>6, <1>7, <1>8, <1>9, <1>10 DEF Flooded

LEMMA TypesInit == Init => FloodTypes
<1> SUFFICES ASSUME Init PROVE FloodTypes
    OBVIOUS
<1>1. \A n, m \in Nodes : IsFiniteSet(seqNums[n][m]) /\ Cardinality(seqNums[n][m]) <= SEQS
    <2>1. \A n, m \in Nodes : seqNums[n][m] = {}
        BY DEF Init
    <2>2. IsFiniteSet({}) /\ Cardinality({}) = 0 /\ 0 <= SEQS
        BY FS_EmptySet, FloodingAssumption
    <2> QED
        BY <2>1, <2>2
<1>2. cache \in [Nodes -> Seq(Lsp)] /\ \A n \in Nodes : Len(cache[n]) <= CACHE
    BY FloodingAssumption DEF Init
<1>3. seqNums \in [Nodes -> [Nodes -> SUBSET Nat]]
    BY DEF Init
<1>4. settles \in 0 .. SETTLES /\ faults \in 0 .. FAULTS
    BY FloodingAssumption DEF Init
<1> QED
    BY <1>1, <1>2, <1>3, <1>4 DEF Init, FloodTypes, TypeOK

\* The packet a node makes of its neighborhood.
Own(n, nbrs) == [src |-> n, seq |-> sequenceNum[n], row |-> nbrs]

LEMMA LearnTypes ==
    ASSUME TypeOK, NEW n \in Nodes, NEW p \in Lsp, Learn(n, p)
    PROVE  /\ seqNumCache' \in [Nodes -> [Nodes -> Nat]]
           /\ matrix' \in [Nodes -> [Nodes -> SUBSET Nodes]]
           /\ \A k, m \in Nodes :
                /\ seqNumCache'[k][m] =
                     IF k = n /\ m = p.src THEN p.seq ELSE seqNumCache[k][m]
                /\ matrix'[k][m] = IF k = n /\ m = p.src THEN p.row ELSE matrix[k][m]
<1>1. p.src \in Nodes /\ p.seq \in Nat /\ p.row \in SUBSET Nodes
    BY DEF Lsp
<1>2. /\ seqNumCache \in [Nodes -> [Nodes -> Nat]]
      /\ matrix \in [Nodes -> [Nodes -> SUBSET Nodes]]
    BY DEF TypeOK
<1>3. seqNumCache[n] \in [Nodes -> Nat] /\ matrix[n] \in [Nodes -> SUBSET Nodes]
    BY <1>2
<1>4. /\ seqNumCache' = [seqNumCache EXCEPT ![n] = [seqNumCache[n] EXCEPT ![p.src] = p.seq]]
      /\ matrix' = [matrix EXCEPT ![n] = [matrix[n] EXCEPT ![p.src] = p.row]]
    BY DEF Learn
<1>5. /\ [seqNumCache[n] EXCEPT ![p.src] = p.seq] \in [Nodes -> Nat]
      /\ [matrix[n] EXCEPT ![p.src] = p.row] \in [Nodes -> SUBSET Nodes]
    BY <1>1, <1>3
<1>6. /\ seqNumCache' \in [Nodes -> [Nodes -> Nat]]
      /\ matrix' \in [Nodes -> [Nodes -> SUBSET Nodes]]
    BY <1>2, <1>4, <1>5
<1>7. ASSUME NEW k \in Nodes, NEW m \in Nodes
      PROVE  /\ seqNumCache'[k][m] =
                  IF k = n /\ m = p.src THEN p.seq ELSE seqNumCache[k][m]
             /\ matrix'[k][m] = IF k = n /\ m = p.src THEN p.row ELSE matrix[k][m]
    BY <1>1, <1>2, <1>3, <1>4
<1> QED
    BY <1>6, <1>7

\* The entries of a list with one more at its end.
LEMMA AppendEntries ==
    ASSUME NEW s \in Seq(Lsp), NEW p \in Lsp
    PROVE  /\ Append(s, p) \in Seq(Lsp) /\ Len(Append(s, p)) = Len(s) + 1 /\ Len(s) \in Nat
           /\ Len(s) + 1 \in 1 .. Len(Append(s, p)) /\ Append(s, p)[Len(s) + 1] = p
           /\ \A j \in 1 .. Len(s) : j \in 1 .. Len(Append(s, p)) /\ Append(s, p)[j] = s[j]
           /\ \A j \in 1 .. Len(Append(s, p)) :
                \/ j \in 1 .. Len(s) /\ Append(s, p)[j] = s[j]
                \/ j = Len(s) + 1 /\ Append(s, p)[j] = p
<1>1. /\ Append(s, p) \in Seq(Lsp) /\ Len(Append(s, p)) = Len(s) + 1 /\ Len(s) \in Nat
      /\ Append(s, p)[Len(s) + 1] = p
      /\ \A j \in 1 .. Len(s) : Append(s, p)[j] = s[j]
    OBVIOUS
<1> DEFINE t == Append(s, p)
<1> HIDE DEF t
<1>2. Len(s) + 1 \in 1 .. Len(t) /\ \A j \in 1 .. Len(s) : j \in 1 .. Len(t)
    BY <1>1 DEF t
<1>3. \A j \in 1 .. Len(t) : j \in 1 .. Len(s) \/ j = Len(s) + 1
    BY <1>1 DEF t
<1> QED
    BY <1>1, <1>2, <1>3 DEF t

-----------------------------------------------------------------------------
(* The invariant of the rows *)

\* Packets under way were made by their source and are not sent back to it.
Real == \A p \in net : p.lsp \in advertised /\ p.to # p.lsp.src

\* Waiting packets were made too and are known, in the order of their numbers.
CacheBelow ==
    \A n \in Nodes : \A j \in 1 .. Len(cache[n]) :
        /\ cache[n][j] \in advertised
        /\ 1 <= cache[n][j].seq /\ cache[n][j].seq <= seqNumCache[n][cache[n][j].src]

Increasing ==
    \A n \in Nodes : \A j \in 1 .. Len(cache[n]) : \A l \in 1 .. j - 1 :
        cache[n][l].src = cache[n][j].src => cache[n][l].seq < cache[n][j].seq

\* Numbers start at 1, and a node's next one is greater than all it has used.
Positive ==
    /\ \A p \in advertised : 1 <= p.seq
    /\ \A n \in Nodes : seqNumCache[n][n] < sequenceNum[n] /\ 1 <= sequenceNum[n]
    /\ \A n, m \in Nodes : \A x \in seqNums[n][m] : 1 <= x

\* No packet waits at a settled node, and none has been flooded before.
Phases ==
    \A n \in Nodes : /\ haveNeighborsSettled[n] => cache[n] = << >>
                     /\ ~haveNeighborsSettled[n] => \A m \in Nodes : seqNums[n][m] = {}

SafeInv ==
    /\ FloodTypes
    /\ Real /\ CacheBelow /\ Increasing /\ Positive /\ Phases
    /\ RowsAreNewest

\* A packet that is learned is newer than what was known.
LEMMA LearnGrows ==
    ASSUME TypeOK, NEW n \in Nodes, NEW p \in Lsp, Learn(n, p), IsNewer(n, p)
    PROVE  /\ \A k, m \in Nodes : seqNumCache[k][m] <= seqNumCache'[k][m]
           /\ seqNumCache'[n][p.src] = p.seq /\ seqNumCache[n][p.src] < p.seq
<1>1. p.src \in Nodes /\ p.seq \in Nat
    BY DEF Lsp
<1>2. \A k, m \in Nodes : seqNumCache[k][m] \in Nat
    BY DEF TypeOK
<1>3. seqNumCache[n][p.src] < p.seq
    BY DEF IsNewer
<1>4. \A k, m \in Nodes :
        seqNumCache'[k][m] = IF k = n /\ m = p.src THEN p.seq ELSE seqNumCache[k][m]
    BY LearnTypes
<1> QED
    BY <1>1, <1>2, <1>3, <1>4

\* What is known stays right when a packet that was made is learned.
LEMMA LearnRows ==
    ASSUME TypeOK, NEW n \in Nodes, NEW p \in Lsp, Learn(n, p), IsNewer(n, p),
           RowsAreNewest, advertised \subseteq advertised', p \in advertised',
           \A k, m \in Nodes : \A x \in seqNums'[k][m] :
                x \in seqNums[k][m] \/ (x \in Nat /\ x <= seqNumCache'[k][m]),
           \A k, m \in Nodes : \A x \in seqNums[k][m] : x \in Nat
    PROVE  RowsAreNewest'
<1>1. \A k, m \in Nodes :
        /\ seqNumCache[k][m] \in Nat /\ seqNumCache'[k][m] \in Nat
        /\ seqNumCache'[k][m] = IF k = n /\ m = p.src THEN p.seq ELSE seqNumCache[k][m]
        /\ matrix'[k][m] = IF k = n /\ m = p.src THEN p.row ELSE matrix[k][m]
    <2>1. /\ seqNumCache \in [Nodes -> [Nodes -> Nat]]
          /\ seqNumCache' \in [Nodes -> [Nodes -> Nat]]
        BY LearnTypes DEF TypeOK
    <2>2. \A k, m \in Nodes : seqNumCache[k][m] \in Nat /\ seqNumCache'[k][m] \in Nat
        BY <2>1
    <2> QED
        BY <2>2, LearnTypes
<1>2. p = [src |-> p.src, seq |-> p.seq, row |-> p.row]
    BY DEF Lsp
<1>3. ASSUME NEW k \in Nodes, NEW m \in Nodes, seqNumCache'[k][m] # 0
      PROVE  [src |-> m, seq |-> seqNumCache'[k][m], row |-> matrix'[k][m]] \in advertised'
    <2>1. CASE k = n /\ m = p.src
        BY <1>1, <1>2, <2>1
    <2>2. CASE ~(k = n /\ m = p.src)
        BY <1>1, <1>3, <2>2 DEF RowsAreNewest
    <2> QED
        BY <2>1, <2>2
<1>4. ASSUME NEW k \in Nodes, NEW m \in Nodes, NEW x \in seqNums'[k][m]
      PROVE  x <= seqNumCache'[k][m]
    <2>1. seqNumCache[k][m] <= seqNumCache'[k][m]
        BY LearnGrows
    <2>2. CASE x \in seqNums[k][m]
        <3>1. x <= seqNumCache[k][m] /\ x \in Nat
            BY <2>2 DEF RowsAreNewest
        <3> QED
            BY <1>1, <2>1, <3>1
    <2> QED
        BY <2>2
<1> QED
    BY <1>3, <1>4 DEF RowsAreNewest

\* The packet received, its node and the conditions of the types.
LEMMA ReceivedTypes ==
    ASSUME FloodTypes, NEW m \in net
    PROVE  /\ m.to \in Nodes /\ m.lsp \in Lsp /\ m.lsp.src \in Nodes /\ m.lsp.seq \in Nat
           /\ net \ {m} \in SUBSET Packets
    BY DEF FloodTypes, TypeOK, Packets, Lsp

LEMMA SafeReceiveOld ==
    ASSUME SafeInv, NEW m \in net, net' = net \ {m},
           UNCHANGED <<neighbors, haveNeighborsSettled, sequenceNum, settles, faults,
                       advertised, late, seqNumCache, matrix, seqNums, cache, dropped>>
    PROVE  SafeInv'
<1>1. FloodTypes'
    BY DEF SafeInv, FloodTypes, TypeOK
<1>2. Real'
    BY DEF SafeInv, Real
<1>3. CacheBelow' /\ Increasing'
    BY DEF SafeInv, CacheBelow, Increasing
<1>4. Positive' /\ Phases' /\ RowsAreNewest'
    BY DEF SafeInv, Positive, Phases, RowsAreNewest
<1> QED
    BY <1>1, <1>2, <1>3, <1>4 DEF SafeInv

\* A new packet at a node that is not settled: it is known and waits, behind those
\* with smaller numbers.
LEMMA SafeReceiveWait ==
    ASSUME SafeInv, NEW m \in net, Receive(m), IsNewer(m.to, m.lsp),
           Learn(m.to, m.lsp), Wait(m.to, m.lsp, net \ {m}), ~haveNeighborsSettled[m.to]
    PROVE  SafeInv'
<1> DEFINE n == m.to
           p == m.lsp
<1>0. n \in Nodes /\ p \in Lsp /\ p.src \in Nodes /\ p.seq \in Nat /\ net \ {m} \in SUBSET Packets
    BY ReceivedTypes DEF SafeInv
<1>1. TypeOK /\ p \in advertised /\ n # p.src
    BY DEF SafeInv, FloodTypes, Real
<1>2. /\ cache' = [cache EXCEPT ![n] = IF Len(@) < CACHE THEN Append(@, p) ELSE @]
      /\ dropped' = (dropped \/ Len(cache[n]) = CACHE)
      /\ net' = net \ {m} /\ seqNums' = seqNums
    BY DEF Wait
<1>3. UNCHANGED <<neighbors, haveNeighborsSettled, sequenceNum, settles, faults, advertised, late>>
    BY DEF Receive
<1>4. /\ seqNumCache' \in [Nodes -> [Nodes -> Nat]]
      /\ matrix' \in [Nodes -> [Nodes -> SUBSET Nodes]]
      /\ \A k, l \in Nodes :
            seqNumCache'[k][l] = IF k = n /\ l = p.src THEN p.seq ELSE seqNumCache[k][l]
    BY <1>0, <1>1, LearnTypes
<1>5. /\ \A k, l \in Nodes : seqNumCache[k][l] <= seqNumCache'[k][l]
      /\ seqNumCache'[n][p.src] = p.seq /\ seqNumCache[n][p.src] < p.seq
    BY <1>0, <1>1, LearnGrows
<1>6. cache \in [Nodes -> Seq(Lsp)] /\ \A k \in Nodes : Len(cache[k]) \in Nat /\ Len(cache[k]) <= CACHE
    BY <1>1 DEF TypeOK
<1> HIDE DEF n, p
<1>7. /\ cache' \in [Nodes -> Seq(Lsp)]
      /\ \A k \in Nodes : k # n => cache'[k] = cache[k]
      /\ cache'[n] = cache[n] \/ (cache'[n] = Append(cache[n], p) /\ Len(cache[n]) < CACHE)
    <2>1. Append(cache[n], p) \in Seq(Lsp)
        BY <1>0, <1>6
    <2> QED
        BY <1>0, <1>2, <1>6, <2>1
<1>8. \A k \in Nodes : Len(cache'[k]) <= CACHE
    <2>1. CASE cache'[n] = cache[n]
        BY <1>6, <1>7, <2>1
    <2>2. CASE cache'[n] = Append(cache[n], p) /\ Len(cache[n]) < CACHE
        <3>1. Len(cache'[n]) = Len(cache[n]) + 1
            BY <1>0, <1>6, <2>2, AppendEntries
        <3>2. Len(cache'[n]) <= CACHE
            BY <1>0, <1>6, <2>2, <3>1, FloodingAssumption
        <3> QED
            BY <1>6, <1>7, <3>2
    <2> QED
        BY <1>7, <2>1, <2>2
<1>9. FloodTypes'
    BY <1>1, <1>2, <1>3, <1>4, <1>7, <1>8 DEF SafeInv, FloodTypes, TypeOK
<1>10. Real'
    BY <1>2, <1>3 DEF SafeInv, Real
<1>11. \A j \in 1 .. Len(cache'[n]) :
        \/ j \in 1 .. Len(cache[n]) /\ cache'[n][j] = cache[n][j]
           /\ \A l \in 1 .. j - 1 : l \in 1 .. Len(cache[n]) /\ cache'[n][l] = cache[n][l]
        \/ cache'[n][j] = p
           /\ \A l \in 1 .. j - 1 : l \in 1 .. Len(cache[n]) /\ cache'[n][l] = cache[n][l]
    <2>1. CASE cache'[n] = cache[n]
        BY <1>0, <1>6, <2>1
    <2>2. CASE cache'[n] = Append(cache[n], p)
        <3>1. /\ Len(cache[n]) \in Nat
              /\ \A j \in 1 .. Len(cache[n]) : cache'[n][j] = cache[n][j]
              /\ \A j \in 1 .. Len(cache'[n]) :
                    \/ j \in 1 .. Len(cache[n]) /\ cache'[n][j] = cache[n][j]
                    \/ j = Len(cache[n]) + 1 /\ cache'[n][j] = p
            BY <1>0, <1>6, <2>2, AppendEntries
        <3>2. \A j \in 1 .. Len(cache[n]) : \A l \in 1 .. j - 1 : l \in 1 .. Len(cache[n])
            BY <3>1
        <3>3. \A l \in 1 .. (Len(cache[n]) + 1) - 1 : l \in 1 .. Len(cache[n])
            BY <3>1
        <3> QED
            BY <3>1, <3>2, <3>3
    <2> QED
        BY <1>7, <2>1, <2>2
<1>12. \A j \in 1 .. Len(cache[n]) : /\ cache[n][j] \in advertised
                                     /\ cache[n][j].src \in Nodes /\ cache[n][j].seq \in Nat
                                     /\ 1 <= cache[n][j].seq
                                     /\ cache[n][j].seq <= seqNumCache[n][cache[n][j].src]
    <2>1. \A j \in 1 .. Len(cache[n]) : cache[n][j] \in Lsp
        BY <1>0, <1>6
    <2> QED
        BY <1>0, <2>1 DEF SafeInv, CacheBelow, Lsp
<1>13. \A k, l \in Nodes : seqNumCache[k][l] \in Nat /\ seqNumCache'[k][l] \in Nat
    BY <1>1, <1>4 DEF TypeOK
<1>14. 1 <= p.seq
    BY <1>1 DEF SafeInv, Positive
<1>15. CacheBelow'
    <2>1. ASSUME NEW j \in 1 .. Len(cache'[n])
          PROVE  /\ cache'[n][j] \in advertised'
                 /\ 1 <= cache'[n][j].seq
                 /\ cache'[n][j].seq <= seqNumCache'[n][cache'[n][j].src]
        <3>1. CASE cache'[n][j] = p
            BY <1>0, <1>1, <1>3, <1>5, <1>14, <3>1
        <3>2. CASE j \in 1 .. Len(cache[n]) /\ cache'[n][j] = cache[n][j]
            BY <1>0, <1>3, <1>5, <1>12, <1>13, <3>2
        <3> QED
            BY <1>11, <3>1, <3>2
    <2>2. ASSUME NEW k \in Nodes, k # n, NEW j \in 1 .. Len(cache'[k])
          PROVE  /\ cache'[k][j] \in advertised'
                 /\ 1 <= cache'[k][j].seq
                 /\ cache'[k][j].seq <= seqNumCache'[k][cache'[k][j].src]
        <3>1. cache'[k][j] = cache[k][j] /\ j \in 1 .. Len(cache[k]) /\ cache[k][j] \in Lsp
            BY <1>6, <1>7, <2>2
        <3>2. cache[k][j].src \in Nodes
            BY <3>1 DEF Lsp
        <3>3. seqNumCache'[k][cache[k][j].src] = seqNumCache[k][cache[k][j].src]
            BY <1>4, <2>2, <3>2
        <3>4. /\ cache[k][j] \in advertised
              /\ 1 <= cache[k][j].seq /\ cache[k][j].seq <= seqNumCache[k][cache[k][j].src]
            BY <3>1 DEF SafeInv, CacheBelow
        <3> QED
            BY <1>3, <3>1, <3>3, <3>4
    <2> QED
        BY <2>1, <2>2 DEF CacheBelow
<1>16. Increasing'
    <2>1. ASSUME NEW j \in 1 .. Len(cache'[n]), NEW l \in 1 .. j - 1,
                 cache'[n][l].src = cache'[n][j].src
          PROVE  cache'[n][l].seq < cache'[n][j].seq
        <3>1. l \in 1 .. Len(cache[n]) /\ cache'[n][l] = cache[n][l]
            BY <1>11
        <3>2. CASE cache'[n][j] = p
            BY <1>0, <1>5, <1>12, <1>13, <2>1, <3>1, <3>2
        <3>3. CASE j \in 1 .. Len(cache[n]) /\ cache'[n][j] = cache[n][j]
            BY <1>0, <2>1, <3>1, <3>3 DEF SafeInv, Increasing
        <3> QED
            BY <1>11, <3>2, <3>3
    <2> QED
        BY <1>7, <2>1 DEF SafeInv, Increasing
<1>17. Positive'
    BY <1>0, <1>1, <1>2, <1>3, <1>4 DEF SafeInv, Positive
<1>18. Phases'
    BY <1>0, <1>2, <1>3, <1>7 DEF SafeInv, Phases, n
<1>19. RowsAreNewest'
    <2>1. \A k, l \in Nodes : \A x \in seqNums[k][l] : x \in Nat
        BY <1>1 DEF TypeOK
    <2>2. Learn(n, p) /\ IsNewer(n, p)
        BY DEF n, p
    <2>3. RowsAreNewest
        BY DEF SafeInv
    <2>4. advertised \subseteq advertised' /\ p \in advertised'
        BY <1>1, <1>3
    <2>5. \A k, l \in Nodes : \A x \in seqNums'[k][l] :
            x \in seqNums[k][l] \/ (x \in Nat /\ x <= seqNumCache'[k][l])
        BY <1>2
    <2> QED
        BY <1>0, <1>1, <2>1, <2>2, <2>3, <2>4, <2>5, LearnRows
<1> QED
    BY <1>9, <1>10, <1>15, <1>16, <1>17, <1>18, <1>19 DEF SafeInv

\* A packet that is learned and flooded with others that were made: what is under way
\* and what is remembered.  The packets are known, with smaller numbers, or it.
LEMMA FloodLearned ==
    ASSUME SafeInv, NEW n \in Nodes, NEW p \in Lsp, NEW nbrs \in SUBSET Nodes,
           NEW packets \in Seq(Lsp), NEW under_way \in SUBSET net,
           Learn(n, p), IsNewer(n, p), FloodSend(n, nbrs, packets, under_way),
           advertised \subseteq advertised', p \in advertised',
           \A j \in 1 .. Len(packets) :
                /\ packets[j] \in advertised' /\ 1 <= packets[j].seq
                /\ packets[j].seq <= seqNumCache'[n][packets[j].src]
    PROVE  /\ seqNums' \in [Nodes -> [Nodes -> SUBSET Nat]]
           /\ \A k, m \in Nodes : IsFiniteSet(seqNums'[k][m]) /\ Cardinality(seqNums'[k][m]) <= SEQS
           /\ \A k, m \in Nodes : \A x \in seqNums'[k][m] : 1 <= x
           /\ \A k \in Nodes : k # n => seqNums'[k] = seqNums[k]
           /\ net' \subseteq Packets /\ Real' /\ RowsAreNewest'
<1>0. FloodTypes /\ TypeOK
    BY DEF SafeInv, FloodTypes
<1>1. under_way \in SUBSET Packets
    BY <1>0 DEF TypeOK, Packets
<1>2. /\ seqNums' \in [Nodes -> Seen] /\ \A k \in Nodes : Bounded(seqNums'[k])
      /\ \A k \in Nodes : k # n => seqNums'[k] = seqNums[k]
      /\ \A m \in Nodes : \A x \in seqNums'[n][m] :
            x \in seqNums[n][m]
            \/ \E j \in 1 .. Len(packets) : packets[j].src = m /\ packets[j].seq = x
      /\ net' \subseteq Packets
      /\ \A q \in net' : \/ q \in under_way
                         \/ /\ q.to \in nbrs /\ q.to # q.lsp.src
                            /\ \E j \in 1 .. Len(packets) : q.lsp = packets[j]
    <2>1. Flooded(n, nbrs, packets, under_way)
        BY <1>0, <1>1, FloodSendEffect
    <2> QED
        BY <2>1 DEF Flooded
<1>3. /\ seqNums' \in [Nodes -> [Nodes -> SUBSET Nat]]
      /\ \A k, m \in Nodes : IsFiniteSet(seqNums'[k][m]) /\ Cardinality(seqNums'[k][m]) <= SEQS
    BY <1>2 DEF Seen, Bounded
<1>4. ASSUME NEW k \in Nodes, NEW m \in Nodes, NEW x \in seqNums'[k][m]
      PROVE  x \in seqNums[k][m] \/ (x \in Nat /\ 1 <= x /\ x <= seqNumCache'[k][m])
    <2>1. CASE k # n
        BY <1>2, <2>1
    <2>2. CASE k = n
        <3>1. x \in Nat
            BY <1>3
        <3> QED
            BY <1>2, <2>2, <3>1
    <2> QED
        BY <2>1, <2>2
<1>5. \A k, m \in Nodes : \A x \in seqNums'[k][m] : 1 <= x
    <2>1. \A k, m \in Nodes : \A x \in seqNums[k][m] : 1 <= x
        BY DEF SafeInv, Positive
    <2> QED
        BY <1>4, <2>1
<1>6. Real'
    <2>1. ASSUME NEW q \in net' PROVE q.lsp \in advertised' /\ q.to # q.lsp.src
        <3>1. CASE q \in under_way
            BY <3>1 DEF SafeInv, Real
        <3>2. CASE q \notin under_way
            BY <1>2, <3>2
        <3> QED
            BY <3>1, <3>2
    <2> QED
        BY <2>1 DEF Real
<1>7. RowsAreNewest'
    <2>1. \A k, m \in Nodes : \A x \in seqNums[k][m] : x \in Nat
        BY <1>0 DEF TypeOK
    <2>2. \A k, m \in Nodes : \A x \in seqNums'[k][m] :
            x \in seqNums[k][m] \/ (x \in Nat /\ x <= seqNumCache'[k][m])
        BY <1>4
    <2>3. RowsAreNewest
        BY DEF SafeInv
    <2> QED
        BY <1>0, <2>1, <2>2, <2>3, LearnRows
<1> QED
    BY <1>2, <1>3, <1>5, <1>6, <1>7

\* The lists that stay, or are emptied, stay below what is known.
LEMMA CacheBelowKept ==
    ASSUME SafeInv, \A k \in Nodes : cache'[k] = cache[k] \/ cache'[k] = << >>,
           advertised \subseteq advertised', seqNumCache' \in [Nodes -> [Nodes -> Nat]],
           \A k, l \in Nodes : seqNumCache[k][l] <= seqNumCache'[k][l]
    PROVE  CacheBelow'
<1>1. cache \in [Nodes -> Seq(Lsp)] /\ seqNumCache \in [Nodes -> [Nodes -> Nat]]
    BY DEF SafeInv, FloodTypes, TypeOK
<1>2. ASSUME NEW k \in Nodes, NEW j \in 1 .. Len(cache'[k])
      PROVE  /\ cache'[k][j] \in advertised'
             /\ 1 <= cache'[k][j].seq
             /\ cache'[k][j].seq <= seqNumCache'[k][cache'[k][j].src]
    <2>1. cache'[k] = cache[k] /\ j \in 1 .. Len(cache[k])
        OBVIOUS
    <2>2. cache[k][j] \in Lsp
        BY <1>1, <2>1
    <2>3. cache[k][j].src \in Nodes /\ cache[k][j].seq \in Nat
        BY <2>2 DEF Lsp
    <2>4. /\ cache[k][j] \in advertised
          /\ 1 <= cache[k][j].seq /\ cache[k][j].seq <= seqNumCache[k][cache[k][j].src]
        BY <2>1 DEF SafeInv, CacheBelow
    <2>5. /\ seqNumCache[k][cache[k][j].src] \in Nat /\ seqNumCache'[k][cache[k][j].src] \in Nat
          /\ seqNumCache[k][cache[k][j].src] <= seqNumCache'[k][cache[k][j].src]
        BY <1>1, <2>3
    <2> QED
        BY <2>1, <2>3, <2>4, <2>5
<1> QED
    BY <1>2 DEF CacheBelow

LEMMA SafeReceiveFlood ==
    ASSUME SafeInv, NEW m \in net, Receive(m), IsNewer(m.to, m.lsp), Learn(m.to, m.lsp),
           haveNeighborsSettled[m.to],
           FloodSend(m.to, neighbors[m.to], <<m.lsp>>, net \ {m}),
           UNCHANGED <<cache, dropped>>
    PROVE  SafeInv'
<1> DEFINE n == m.to
           p == m.lsp
<1>0. n \in Nodes /\ p \in Lsp /\ p.src \in Nodes /\ p.seq \in Nat /\ net \ {m} \in SUBSET net
    BY ReceivedTypes DEF SafeInv
<1>1. TypeOK /\ p \in advertised /\ n # p.src /\ 1 <= p.seq /\ neighbors[n] \in SUBSET Nodes
    BY <1>0 DEF SafeInv, FloodTypes, Real, Positive, TypeOK
<1>2. /\ Learn(n, p) /\ IsNewer(n, p) /\ haveNeighborsSettled[n]
      /\ FloodSend(n, neighbors[n], <<p>>, net \ {m})
    OBVIOUS
<1>3. UNCHANGED <<neighbors, haveNeighborsSettled, sequenceNum, settles, faults, advertised, late>>
    BY DEF Receive
<1> HIDE DEF n, p
<1>4. /\ seqNumCache' \in [Nodes -> [Nodes -> Nat]]
      /\ matrix' \in [Nodes -> [Nodes -> SUBSET Nodes]]
      /\ \A k, l \in Nodes :
            seqNumCache'[k][l] = IF k = n /\ l = p.src THEN p.seq ELSE seqNumCache[k][l]
    BY <1>0, <1>1, <1>2, LearnTypes
<1>5. /\ \A k, l \in Nodes : seqNumCache[k][l] <= seqNumCache'[k][l]
      /\ seqNumCache'[n][p.src] = p.seq
    BY <1>0, <1>1, <1>2, LearnGrows
<1>6. /\ seqNums' \in [Nodes -> [Nodes -> SUBSET Nat]]
      /\ \A k, l \in Nodes : IsFiniteSet(seqNums'[k][l]) /\ Cardinality(seqNums'[k][l]) <= SEQS
      /\ \A k, l \in Nodes : \A x \in seqNums'[k][l] : 1 <= x
      /\ \A k \in Nodes : k # n => seqNums'[k] = seqNums[k]
      /\ net' \subseteq Packets /\ Real' /\ RowsAreNewest'
    <2>1. /\ <<p>> \in Seq(Lsp)
          /\ \A j \in 1 .. Len(<<p>>) : /\ <<p>>[j] \in advertised' /\ 1 <= <<p>>[j].seq
                                        /\ <<p>>[j].seq <= seqNumCache'[n][<<p>>[j].src]
        BY <1>0, <1>1, <1>3, <1>5
    <2>2. advertised \subseteq advertised' /\ p \in advertised'
        BY <1>1, <1>3
    <2> QED
        BY <1>0, <1>1, <1>2, <2>1, <2>2, FloodLearned
<1>7. FloodTypes'
    BY <1>1, <1>3, <1>4, <1>6 DEF SafeInv, FloodTypes, TypeOK, Packets
<1>8. CacheBelow'
    <2>1. \A k \in Nodes : cache'[k] = cache[k]
        OBVIOUS
    <2> QED
        BY <1>3, <1>4, <1>5, <2>1, CacheBelowKept
<1>9. Increasing'
    BY DEF SafeInv, Increasing
<1>10. Positive'
    <2>1. \A q \in advertised' : 1 <= q.seq
        BY <1>3 DEF SafeInv, Positive
    <2>2. \A k \in Nodes : sequenceNum'[k] = sequenceNum[k]
                            /\ seqNumCache'[k][k] = seqNumCache[k][k]
        BY <1>0, <1>1, <1>3, <1>4
    <2>3. \A k \in Nodes : seqNumCache'[k][k] < sequenceNum'[k] /\ 1 <= sequenceNum'[k]
        BY <2>2 DEF SafeInv, Positive
    <2>4. \A k, l \in Nodes : \A x \in seqNums'[k][l] : 1 <= x
        BY <1>6
    <2> QED
        BY <2>1, <2>3, <2>4 DEF Positive
<1>11. Phases'
    BY <1>0, <1>2, <1>3, <1>6 DEF SafeInv, Phases
<1> QED
    BY <1>6, <1>7, <1>8, <1>9, <1>10, <1>11 DEF SafeInv

\* What a node whose neighbors have settled does: its own packet is always news to it,
\* and is passed on behind those that were waiting.
LEMMA SettleEffect ==
    ASSUME SafeInv, NEW n \in Nodes, NEW nbrs \in Settled[n], NeighborsHaveSettled(n, nbrs)
    PROVE  LET own == Own(n, nbrs) IN
           /\ nbrs \in SUBSET Nodes /\ own \in Lsp /\ own.src = n /\ own.seq = sequenceNum[n]
           /\ IsNewer(n, own) /\ Learn(n, own)
           /\ FloodSend(n, nbrs, Append(cache[n], own), net)
           /\ advertised' = advertised \cup {own} /\ 1 <= own.seq
<1>1. nbrs \in SUBSET Nodes
    BY FloodingAssumption
<1>2. Own(n, nbrs) \in Lsp /\ Own(n, nbrs).src = n /\ Own(n, nbrs).seq = sequenceNum[n]
    BY <1>1 DEF SafeInv, FloodTypes, TypeOK, Lsp, Own
<1>3. seqNumCache[n][n] < sequenceNum[n] /\ 1 <= sequenceNum[n]
    BY DEF SafeInv, Positive
<1>4. IsNewer(n, Own(n, nbrs))
    BY <1>2, <1>3 DEF IsNewer
<1> QED
    BY <1>1, <1>2, <1>3, <1>4 DEF NeighborsHaveSettled, Own

LEMMA SafeSettle ==
    ASSUME SafeInv, NEW n \in Nodes, NEW nbrs \in Settled[n], NeighborsHaveSettled(n, nbrs)
    PROVE  SafeInv'
<1> DEFINE own == Own(n, nbrs)
           packets == Append(cache[n], own)
<1>1. /\ nbrs \in SUBSET Nodes /\ own \in Lsp /\ own.src = n /\ own.seq = sequenceNum[n]
      /\ IsNewer(n, own) /\ Learn(n, own)
      /\ FloodSend(n, nbrs, packets, net)
      /\ advertised' = advertised \cup {own} /\ 1 <= own.seq
    BY SettleEffect
<1>2. /\ settles < SETTLES /\ settles' = settles + 1
      /\ neighbors' = [neighbors EXCEPT ![n] = nbrs]
      /\ haveNeighborsSettled' = [haveNeighborsSettled EXCEPT ![n] = TRUE]
      /\ late' = (late \/ (haveNeighborsSettled[n] /\ nbrs # neighbors[n]))
      /\ cache' = [cache EXCEPT ![n] = << >>]
      /\ sequenceNum' = [sequenceNum EXCEPT ![n] = @ + 1]
      /\ UNCHANGED <<faults, dropped>>
    BY DEF NeighborsHaveSettled
<1>3. TypeOK /\ cache \in [Nodes -> Seq(Lsp)] /\ cache[n] \in Seq(Lsp)
    BY DEF SafeInv, FloodTypes, TypeOK
<1> HIDE DEF own
<1>4. /\ seqNumCache' \in [Nodes -> [Nodes -> Nat]]
      /\ matrix' \in [Nodes -> [Nodes -> SUBSET Nodes]]
      /\ \A k, l \in Nodes :
            seqNumCache'[k][l] = IF k = n /\ l = n THEN sequenceNum[n] ELSE seqNumCache[k][l]
    BY <1>1, <1>3, LearnTypes
<1>5. /\ \A k, l \in Nodes : seqNumCache[k][l] <= seqNumCache'[k][l]
      /\ seqNumCache'[n][n] = sequenceNum[n]
    BY <1>1, <1>3, LearnGrows
<1>6. /\ packets \in Seq(Lsp)
      /\ \A j \in 1 .. Len(packets) : /\ packets[j] \in advertised' /\ 1 <= packets[j].seq
                                      /\ packets[j].seq <= seqNumCache'[n][packets[j].src]
    <2>1. /\ packets \in Seq(Lsp)
          /\ \A j \in 1 .. Len(packets) :
                \/ j \in 1 .. Len(cache[n]) /\ packets[j] = cache[n][j]
                \/ j = Len(cache[n]) + 1 /\ packets[j] = own
        BY <1>1, <1>3, AppendEntries
    <2>2. own \in advertised' /\ 1 <= own.seq /\ own.seq <= seqNumCache'[n][own.src]
        <3>1. sequenceNum[n] \in Nat
            BY <1>3 DEF TypeOK
        <3> QED
            BY <1>1, <1>5, <3>1
    <2>3. ASSUME NEW j \in 1 .. Len(cache[n])
          PROVE  /\ cache[n][j] \in advertised' /\ 1 <= cache[n][j].seq
                 /\ cache[n][j].seq <= seqNumCache'[n][cache[n][j].src]
        <3>1. cache[n][j] \in Lsp
            BY <1>3
        <3>2. cache[n][j].src \in Nodes /\ cache[n][j].seq \in Nat
            BY <3>1 DEF Lsp
        <3>3. /\ cache[n][j] \in advertised
              /\ 1 <= cache[n][j].seq /\ cache[n][j].seq <= seqNumCache[n][cache[n][j].src]
            BY DEF SafeInv, CacheBelow
        <3>4. /\ seqNumCache[n][cache[n][j].src] \in Nat
              /\ seqNumCache'[n][cache[n][j].src] \in Nat
            BY <1>3, <1>4, <3>2 DEF TypeOK
        <3> QED
            BY <1>1, <1>5, <3>2, <3>3, <3>4
    <2> HIDE DEF packets
    <2> QED
        BY <2>1, <2>2, <2>3
<1>7. /\ seqNums' \in [Nodes -> [Nodes -> SUBSET Nat]]
      /\ \A k, l \in Nodes : IsFiniteSet(seqNums'[k][l]) /\ Cardinality(seqNums'[k][l]) <= SEQS
      /\ \A k, l \in Nodes : \A x \in seqNums'[k][l] : 1 <= x
      /\ \A k \in Nodes : k # n => seqNums'[k] = seqNums[k]
      /\ net' \subseteq Packets /\ Real' /\ RowsAreNewest'
    <2> HIDE DEF packets
    <2>1. advertised \subseteq advertised' /\ own \in advertised'
        BY <1>1
    <2> QED
        BY <1>1, <1>6, <2>1, FloodLearned
<1>8. FloodTypes'
    <2>1. /\ neighbors' \in [Nodes -> SUBSET Nodes]
          /\ haveNeighborsSettled' \in [Nodes -> BOOLEAN] /\ late' \in BOOLEAN
        BY <1>1, <1>2, <1>3 DEF TypeOK
    <2>2. sequenceNum' \in [Nodes -> Nat] /\ settles' \in 0 .. SETTLES
        BY <1>2, <1>3, FloodingAssumption DEF TypeOK
    <2>3. cache' \in [Nodes -> Seq(Lsp)] /\ \A k \in Nodes : Len(cache'[k]) <= CACHE
        <3>1. /\ << >> \in Seq(Lsp) /\ Len(<< >>) <= CACHE
              /\ \A k \in Nodes : cache'[k] = IF k = n THEN << >> ELSE cache[k]
            BY <1>2, <1>3, FloodingAssumption
        <3> QED
            BY <1>2, <1>3, <3>1 DEF TypeOK
    <2>4. advertised' \subseteq Lsp
        BY <1>1, <1>3 DEF TypeOK
    <2>5. faults' \in 0 .. FAULTS /\ dropped' \in BOOLEAN
        BY <1>2, <1>3 DEF TypeOK
    <2> QED
        BY <1>4, <1>7, <2>1, <2>2, <2>3, <2>4, <2>5 DEF FloodTypes, TypeOK, Packets
<1>9. \A k \in Nodes : cache'[k] = IF k = n THEN << >> ELSE cache[k]
    BY <1>2, <1>3
<1>10. CacheBelow'
    <2>1. advertised \subseteq advertised' /\ \A k \in Nodes : cache'[k] = cache[k] \/ cache'[k] = << >>
        BY <1>1, <1>9
    <2> QED
        BY <1>4, <1>5, <2>1, CacheBelowKept
<1>11. Increasing'
    BY <1>9 DEF SafeInv, Increasing
<1>12. Positive'
    <2>1. \A k \in Nodes : sequenceNum'[k] = IF k = n THEN sequenceNum[k] + 1 ELSE sequenceNum[k]
        BY <1>2, <1>3 DEF TypeOK
    <2>2. \A k \in Nodes : sequenceNum[k] \in Nat
        BY <1>3 DEF TypeOK
    <2>3. \A k \in Nodes : seqNumCache'[k][k] < sequenceNum'[k] /\ 1 <= sequenceNum'[k]
        BY <1>4, <2>1, <2>2 DEF SafeInv, Positive
    <2>4. \A q \in advertised' : 1 <= q.seq
        BY <1>1 DEF SafeInv, Positive
    <2> QED
        BY <1>7, <2>3, <2>4 DEF Positive
<1>13. Phases'
    <2>1. \A k \in Nodes : haveNeighborsSettled'[k] = IF k = n THEN TRUE ELSE haveNeighborsSettled[k]
        BY <1>2, <1>3 DEF TypeOK
    <2> QED
        BY <1>7, <1>9, <2>1 DEF SafeInv, Phases
<1> QED
    BY <1>7, <1>8, <1>10, <1>11, <1>12, <1>13 DEF SafeInv

\* A packet comes in: it is old, or has to wait, or is passed on.
LEMMA SafeReceive ==
    ASSUME SafeInv, NEW m \in net, Receive(m)
    PROVE  SafeInv'
<1>1. CASE /\ ~IsNewer(m.to, m.lsp)
           /\ net' = net \ {m}
           /\ UNCHANGED <<seqNumCache, matrix, seqNums, cache, dropped>>
    <2>1. UNCHANGED <<neighbors, haveNeighborsSettled, sequenceNum, settles, faults, advertised, late>>
        BY DEF Receive
    <2> QED
        BY <1>1, <2>1, SafeReceiveOld
<1>2. CASE /\ IsNewer(m.to, m.lsp) /\ ~haveNeighborsSettled[m.to]
           /\ Learn(m.to, m.lsp) /\ Wait(m.to, m.lsp, net \ {m})
    BY <1>2, SafeReceiveWait
<1>3. CASE /\ IsNewer(m.to, m.lsp) /\ haveNeighborsSettled[m.to]
           /\ Learn(m.to, m.lsp)
           /\ FloodSend(m.to, neighbors[m.to], <<m.lsp>>, net \ {m})
           /\ UNCHANGED <<cache, dropped>>
    BY <1>3, SafeReceiveFlood
<1> QED
    BY <1>1, <1>2, <1>3 DEF Receive

LEMMA SafeRestart ==
    ASSUME SafeInv, NEW n \in Nodes, Restart(n)
    PROVE  SafeInv'
<1>1. TypeOK /\ cache \in [Nodes -> Seq(Lsp)]
    BY DEF SafeInv, FloodTypes, TypeOK
<1>2. /\ \A k \in Nodes : haveNeighborsSettled'[k] = IF k = n THEN FALSE ELSE haveNeighborsSettled[k]
      /\ \A k \in Nodes : sequenceNum'[k] = IF k = n THEN 1 ELSE sequenceNum[k]
      /\ \A k, m \in Nodes : seqNumCache'[k][m] = IF k = n THEN 0 ELSE seqNumCache[k][m]
      /\ \A k, m \in Nodes : matrix'[k][m] = IF k = n THEN {} ELSE matrix[k][m]
      /\ \A k, m \in Nodes : seqNums'[k][m] = IF k = n THEN {} ELSE seqNums[k][m]
      /\ \A k \in Nodes : cache'[k] = IF k = n THEN << >> ELSE cache[k]
      /\ UNCHANGED <<net, settles, advertised, late, dropped>>
    BY <1>1 DEF Restart, TypeOK
<1>3. \A k, m \in Nodes : IsFiniteSet(seqNums'[k][m]) /\ Cardinality(seqNums'[k][m]) <= SEQS
    <2>1. IsFiniteSet({}) /\ Cardinality({}) = 0 /\ 0 <= SEQS
        BY FS_EmptySet, FloodingAssumption
    <2> QED
        BY <1>1, <1>2, <2>1 DEF SafeInv, FloodTypes, TypeOK
<1>4. FloodTypes'
    <2>1. neighbors' \in [Nodes -> SUBSET Nodes] /\ haveNeighborsSettled' \in [Nodes -> BOOLEAN]
        BY <1>1 DEF Restart, TypeOK
    <2>2. sequenceNum' \in [Nodes -> Nat] /\ faults' \in 0 .. FAULTS
        BY <1>1, FloodingAssumption DEF Restart, TypeOK
    <2>3. /\ seqNumCache' \in [Nodes -> [Nodes -> Nat]]
          /\ matrix' \in [Nodes -> [Nodes -> SUBSET Nodes]]
          /\ seqNums' \in [Nodes -> [Nodes -> SUBSET Nat]]
        <3>1. /\ [m \in Nodes |-> 0] \in [Nodes -> Nat]
              /\ [m \in Nodes |-> {}] \in [Nodes -> SUBSET Nodes]
              /\ [m \in Nodes |-> {}] \in [Nodes -> SUBSET Nat]
            OBVIOUS
        <3> QED
            BY <1>1, <3>1 DEF Restart, TypeOK
    <2>4. cache' \in [Nodes -> Seq(Lsp)] /\ \A k \in Nodes : Len(cache'[k]) <= CACHE
        <3>1. << >> \in Seq(Lsp) /\ Len(<< >>) <= CACHE
            BY FloodingAssumption
        <3>2. cache' = [cache EXCEPT ![n] = << >>]
            BY DEF Restart
        <3> QED
            BY <1>1, <1>2, <3>1, <3>2 DEF TypeOK
    <2> QED
        BY <1>1, <1>2, <1>3, <2>1, <2>2, <2>3, <2>4 DEF FloodTypes, TypeOK
<1>5. Real'
    BY <1>2 DEF SafeInv, Real
<1>6. CacheBelow' /\ Increasing'
    <2>1. ASSUME NEW k \in Nodes, NEW j \in 1 .. Len(cache'[k])
          PROVE  /\ k # n /\ cache'[k] = cache[k] /\ j \in 1 .. Len(cache[k])
                 /\ seqNumCache'[k][cache[k][j].src] = seqNumCache[k][cache[k][j].src]
        <3>1. k # n /\ cache'[k] = cache[k]
            BY <1>2
        <3>2. j \in 1 .. Len(cache[k]) /\ cache[k][j] \in Lsp
            BY <1>1, <3>1
        <3>3. cache[k][j].src \in Nodes
            BY <3>2 DEF Lsp
        <3> QED
            BY <1>2, <3>1, <3>2, <3>3
    <2>2. CacheBelow'
        BY <1>2, <2>1 DEF SafeInv, CacheBelow
    <2>3. Increasing'
        BY <2>1 DEF SafeInv, Increasing
    <2> QED
        BY <2>2, <2>3
<1>7. Positive'
    BY <1>2 DEF SafeInv, Positive
<1>8. Phases'
    <2>1. ASSUME NEW k \in Nodes
          PROVE  /\ haveNeighborsSettled'[k] => cache'[k] = << >>
                 /\ ~haveNeighborsSettled'[k] => \A m \in Nodes : seqNums'[k][m] = {}
        <3>1. CASE k = n
            BY <1>2, <3>1
        <3>2. CASE k # n
            <4>1. /\ haveNeighborsSettled'[k] = haveNeighborsSettled[k] /\ cache'[k] = cache[k]
                  /\ \A m \in Nodes : seqNums'[k][m] = seqNums[k][m]
                BY <1>2, <3>2
            <4> QED
                BY <4>1 DEF SafeInv, Phases
        <3> QED
            BY <3>1, <3>2
    <2> QED
        BY <2>1 DEF Phases
<1>9. RowsAreNewest'
    BY <1>2 DEF SafeInv, RowsAreNewest
<1> QED
    BY <1>4, <1>5, <1>6, <1>7, <1>8, <1>9 DEF SafeInv

LEMMA SafeLose ==
    ASSUME SafeInv, NEW m \in net, Lose(m)
    PROVE  SafeInv'
<1>1. UNCHANGED <<state, settles, advertised, late, dropped>> /\ net' = net \ {m}
    BY DEF Lose
<1>2. FloodTypes'
    BY <1>1, FloodingAssumption DEF Lose, SafeInv, FloodTypes, TypeOK, state
<1>3. Real'
    BY <1>1 DEF SafeInv, Real
<1>4. CacheBelow' /\ Increasing'
    BY <1>1 DEF SafeInv, CacheBelow, Increasing, state
<1>5. Positive' /\ Phases' /\ RowsAreNewest'
    BY <1>1 DEF SafeInv, Positive, Phases, RowsAreNewest, state
<1> QED
    BY <1>2, <1>3, <1>4, <1>5 DEF SafeInv

LEMMA SafeInit == Init => SafeInv
<1> SUFFICES ASSUME Init PROVE SafeInv
    OBVIOUS
<1>1. FloodTypes
    BY TypesInit
<1>2. /\ net = {} /\ advertised = {}
      /\ \A n \in Nodes : sequenceNum[n] = 1 /\ cache[n] = << >> /\ ~haveNeighborsSettled[n]
      /\ \A n, m \in Nodes : seqNumCache[n][m] = 0 /\ seqNums[n][m] = {}
    BY DEF Init
<1>3. Real /\ CacheBelow /\ Increasing /\ Positive /\ Phases /\ RowsAreNewest
    BY <1>2 DEF Real, CacheBelow, Increasing, Positive, Phases, RowsAreNewest
<1> QED
    BY <1>1, <1>3 DEF SafeInv

LEMMA SafeNext == SafeInv /\ [Next]_vars => SafeInv'
<1> SUFFICES ASSUME SafeInv, [Next]_vars PROVE SafeInv'
    OBVIOUS
<1>1. ASSUME NEW m \in net, Receive(m) PROVE SafeInv'
    BY <1>1, SafeReceive
<1>2. ASSUME NEW n \in Nodes, NEW nbrs \in Settled[n], NeighborsHaveSettled(n, nbrs) PROVE SafeInv'
    BY <1>2, SafeSettle
<1>3. ASSUME NEW n \in Nodes, Restart(n) PROVE SafeInv'
    BY <1>3, SafeRestart
<1>4. ASSUME NEW m \in net, Lose(m) PROVE SafeInv'
    BY <1>4, SafeLose
<1>5. CASE UNCHANGED vars
    <2>1. FloodTypes'
        BY <1>5 DEF SafeInv, FloodTypes, TypeOK, vars, state, history
    <2>2. Real' /\ CacheBelow' /\ Increasing'
        BY <1>5 DEF SafeInv, Real, CacheBelow, Increasing, vars, state, history
    <2>3. Positive' /\ Phases' /\ RowsAreNewest'
        BY <1>5 DEF SafeInv, Positive, Phases, RowsAreNewest, vars, state, history
    <2> QED
        BY <2>1, <2>2, <2>3 DEF SafeInv
<1> QED
    BY <1>1, <1>2, <1>3, <1>4, <1>5 DEF Next

LEMMA SafeAlways == Spec => []SafeInv
    BY SafeInit, SafeNext, PTL DEF Spec

\* Every variable of the exchange keeps its type: the lists and the sets of remembered
\* numbers never grow past their capacities, whatever arrives and whatever fails.
THEOREM FloodingTypeCorrect == Spec => []TypeOK
<1>1. SafeInv => TypeOK
    BY DEF SafeInv, FloodTypes
<1> QED
    BY <1>1, SafeAlways, PTL

\* The row addLsp keeps of a node is always one that node made, with the number
\* remembered for it, and FloodingP has passed on none with a greater number: an older
\* packet that comes late never takes the place of a newer one, through any
\* reordering, loss and restart.
THEOREM RowsAreNewestAlways == Spec => []RowsAreNewest
<1>1. SafeInv => RowsAreNewest
    BY DEF SafeInv
<1> QED
    BY <1>1, SafeAlways, PTL

-----------------------------------------------------------------------------
(* What is known gets to the neighbors *)

\* A node has the packet of that number, or a newer one, or it is on its way there.
Reached(k, src, seq) ==
    \/ seqNumCache[k][src] >= seq
    \/ \E p \in net : p.to = k /\ p.lsp.src = src /\ p.lsp.seq = seq

\* What a node knows and has not passed on, as its neighbors have not settled, waits.
Waiting ==
    \A n, m \in Nodes :
        ~haveNeighborsSettled[n] /\ seqNumCache[n][m] # 0 =>
            \E j \in 1 .. Len(cache[n]) :
                cache[n][j].src = m /\ cache[n][j].seq = seqNumCache[n][m]

PassedOn ==
    \A n, m \in Nodes :
        haveNeighborsSettled[n] /\ seqNumCache[n][m] \in 1 .. SEQS =>
            \A k \in neighbors[n] \ {m} : Reached(k, m, seqNumCache[n][m])

PropagationInv == NoFailure => Waiting /\ PassedOn

\* Nothing that was under way is forgotten when what leaves has arrived.
LEMMA ReachedKept ==
    ASSUME seqNumCache \in [Nodes -> [Nodes -> Nat]], seqNumCache' \in [Nodes -> [Nodes -> Nat]],
           \A k, l \in Nodes : seqNumCache[k][l] <= seqNumCache'[k][l],
           \A p \in net \ net' : p.lsp.seq <= seqNumCache'[p.to][p.lsp.src],
           NEW k \in Nodes, NEW m \in Nodes, NEW seq \in Nat, Reached(k, m, seq)
    PROVE  Reached(k, m, seq)'
<1>1. /\ seqNumCache[k][m] \in Nat /\ seqNumCache'[k][m] \in Nat
      /\ seqNumCache[k][m] <= seqNumCache'[k][m]
    OBVIOUS
<1>2. CASE seqNumCache[k][m] >= seq
    BY <1>1, <1>2 DEF Reached
<1>3. CASE \E p \in net : p.to = k /\ p.lsp.src = m /\ p.lsp.seq = seq
    <2>1. PICK p \in net : p.to = k /\ p.lsp.src = m /\ p.lsp.seq = seq
        BY <1>3
    <2>2. CASE p \in net'
        BY <2>1, <2>2 DEF Reached
    <2>3. CASE p \notin net'
        <3>1. seq <= seqNumCache'[k][m]
            BY <2>1, <2>3
        <3> QED
            BY <1>1, <3>1 DEF Reached
    <2> QED
        BY <2>2, <2>3
<1> QED
    BY <1>2, <1>3 DEF Reached

\* A step at a node keeps what the others have passed on.
LEMMA PassedOnKept ==
    ASSUME TypeOK, seqNumCache' \in [Nodes -> [Nodes -> Nat]],
           \A k, l \in Nodes : seqNumCache[k][l] <= seqNumCache'[k][l],
           \A p \in net \ net' : p.lsp.seq <= seqNumCache'[p.to][p.lsp.src],
           PassedOn, NEW n \in Nodes, NEW m \in Nodes,
           haveNeighborsSettled[n], seqNumCache'[n][m] = seqNumCache[n][m],
           seqNumCache'[n][m] \in 1 .. SEQS, NEW k \in neighbors[n] \ {m}
    PROVE  Reached(k, m, seqNumCache[n][m])'
<1>1. k \in Nodes /\ seqNumCache \in [Nodes -> [Nodes -> Nat]]
    BY DEF TypeOK
<1>2. seqNumCache[n][m] \in Nat
    BY <1>1
<1>3. Reached(k, m, seqNumCache[n][m])
    BY DEF PassedOn
<1>4. \A seq \in Nat : Reached(k, m, seq) =>
            \/ seqNumCache'[k][m] >= seq
            \/ \E p \in net' : p.to = k /\ p.lsp.src = m /\ p.lsp.seq = seq
    BY <1>1, ReachedKept DEF Reached
<1> QED
    BY <1>2, <1>3, <1>4 DEF Reached

LEMMA PropagationReceiveOld ==
    ASSUME SafeInv, PropagationInv, NEW m \in net, ~IsNewer(m.to, m.lsp), net' = net \ {m},
           UNCHANGED <<neighbors, haveNeighborsSettled, faults, late, seqNumCache, cache, dropped>>
    PROVE  PropagationInv'
<1> SUFFICES ASSUME NoFailure' PROVE Waiting' /\ PassedOn'
    BY DEF PropagationInv
<1>1. NoFailure /\ Waiting /\ PassedOn /\ TypeOK
    BY DEF NoFailure, PropagationInv, SafeInv, FloodTypes
<1>2. Waiting'
    BY <1>1 DEF Waiting
<1>3. seqNumCache \in [Nodes -> [Nodes -> Nat]] /\ m.to \in Nodes /\ m.lsp.src \in Nodes
      /\ m.lsp.seq \in Nat
    BY <1>1, ReceivedTypes DEF SafeInv, TypeOK
<1>4. m.lsp.seq <= seqNumCache[m.to][m.lsp.src]
    BY <1>3 DEF IsNewer
<1>5. \A k, l \in Nodes : seqNumCache[k][l] <= seqNumCache'[k][l]
    BY <1>3
<1>6. \A p \in net \ net' : p.lsp.seq <= seqNumCache'[p.to][p.lsp.src]
    BY <1>4
<1>7. PassedOn'
    BY <1>1, <1>3, <1>5, <1>6, PassedOnKept DEF PassedOn
<1> QED
    BY <1>2, <1>7

LEMMA PropagationReceiveWait ==
    ASSUME SafeInv, PropagationInv, NEW m \in net, IsNewer(m.to, m.lsp),
           Learn(m.to, m.lsp), Wait(m.to, m.lsp, net \ {m}), ~haveNeighborsSettled[m.to],
           UNCHANGED <<neighbors, haveNeighborsSettled, faults, late>>
    PROVE  PropagationInv'
<1> SUFFICES ASSUME NoFailure' PROVE Waiting' /\ PassedOn'
    BY DEF PropagationInv
<1> DEFINE n == m.to
           p == m.lsp
<1>0. n \in Nodes /\ p \in Lsp /\ p.src \in Nodes /\ p.seq \in Nat
    BY ReceivedTypes DEF SafeInv
<1>1. TypeOK /\ NoFailure /\ Waiting /\ PassedOn /\ ~dropped'
    BY DEF SafeInv, FloodTypes, NoFailure, PropagationInv, Wait
<1>2. /\ cache' = [cache EXCEPT ![n] = IF Len(@) < CACHE THEN Append(@, p) ELSE @]
      /\ Len(cache[n]) # CACHE /\ net' = net \ {m}
    BY <1>1 DEF Wait
<1>3. cache \in [Nodes -> Seq(Lsp)] /\ Len(cache[n]) \in Nat /\ Len(cache[n]) <= CACHE
    BY <1>0, <1>1 DEF TypeOK
<1> HIDE DEF n, p
<1>4. /\ seqNumCache' \in [Nodes -> [Nodes -> Nat]]
      /\ \A k, l \in Nodes :
            seqNumCache'[k][l] = IF k = n /\ l = p.src THEN p.seq ELSE seqNumCache[k][l]
    BY <1>0, <1>1, LearnTypes DEF n, p
<1>5. /\ \A k, l \in Nodes : seqNumCache[k][l] <= seqNumCache'[k][l]
      /\ seqNumCache'[n][p.src] = p.seq
    BY <1>0, <1>1, LearnGrows DEF n, p
<1>6. /\ \A k \in Nodes : k # n => cache'[k] = cache[k]
      /\ cache'[n] = Append(cache[n], p)
    <2>1. Len(cache[n]) < CACHE
        BY <1>2, <1>3, FloodingAssumption
    <2> QED
        BY <1>0, <1>2, <1>3, <2>1
<1>7. /\ Len(cache[n]) + 1 \in 1 .. Len(cache'[n]) /\ cache'[n][Len(cache[n]) + 1] = p
      /\ \A j \in 1 .. Len(cache[n]) : j \in 1 .. Len(cache'[n]) /\ cache'[n][j] = cache[n][j]
    BY <1>0, <1>3, <1>6, AppendEntries
<1>8. Waiting'
    <2>1. ASSUME NEW k \in Nodes, NEW l \in Nodes, ~haveNeighborsSettled'[k], seqNumCache'[k][l] # 0
          PROVE  \E j \in 1 .. Len(cache'[k]) :
                    cache'[k][j].src = l /\ cache'[k][j].seq = seqNumCache'[k][l]
        <3>1. CASE k = n /\ l = p.src
            BY <1>5, <1>7, <3>1
        <3>2. CASE k # n
            <4>1. seqNumCache'[k][l] = seqNumCache[k][l] /\ cache'[k] = cache[k]
                BY <1>4, <1>6, <3>2
            <4> QED
                BY <1>1, <2>1, <4>1 DEF Waiting
        <3>3. CASE k = n /\ l # p.src
            <4>1. seqNumCache'[k][l] = seqNumCache[k][l]
                BY <1>4, <3>3
            <4>2. PICK j \in 1 .. Len(cache[n]) :
                        cache[n][j].src = l /\ cache[n][j].seq = seqNumCache[n][l]
                BY <1>1, <2>1, <3>3, <4>1 DEF Waiting
            <4> QED
                BY <1>7, <3>3, <4>1, <4>2
        <3> QED
            BY <3>1, <3>2, <3>3
    <2> QED
        BY <2>1 DEF Waiting
<1>9. PassedOn'
    <2>1. \A q \in net \ net' : q.lsp.seq <= seqNumCache'[q.to][q.lsp.src]
        BY <1>0, <1>2, <1>5 DEF n, p
    <2>2. ASSUME NEW k \in Nodes, NEW l \in Nodes, haveNeighborsSettled'[k]
          PROVE  haveNeighborsSettled[k] /\ seqNumCache'[k][l] = seqNumCache[k][l]
                 /\ neighbors'[k] = neighbors[k]
        <3>1. k # n /\ haveNeighborsSettled[k]
            BY <2>2 DEF n
        <3> QED
            BY <1>4, <3>1
    <2> QED
        BY <1>1, <1>4, <1>5, <2>1, <2>2, PassedOnKept DEF PassedOn
<1> QED
    BY <1>8, <1>9

LEMMA PropagationReceiveFlood ==
    ASSUME SafeInv, PropagationInv, NEW m \in net, IsNewer(m.to, m.lsp),
           Learn(m.to, m.lsp), haveNeighborsSettled[m.to],
           FloodSend(m.to, neighbors[m.to], <<m.lsp>>, net \ {m}),
           UNCHANGED <<neighbors, haveNeighborsSettled, faults, late, cache, dropped>>
    PROVE  PropagationInv'
<1> SUFFICES ASSUME NoFailure' PROVE Waiting' /\ PassedOn'
    BY DEF PropagationInv
<1> DEFINE n == m.to
           p == m.lsp
<1>0. n \in Nodes /\ p \in Lsp /\ p.src \in Nodes /\ p.seq \in Nat /\ net \ {m} \in SUBSET Packets
    BY ReceivedTypes DEF SafeInv
<1>1. FloodTypes /\ TypeOK /\ NoFailure /\ Waiting /\ PassedOn /\ p \in advertised
    BY DEF SafeInv, FloodTypes, Real, NoFailure, PropagationInv
<1>2. /\ Learn(n, p) /\ IsNewer(n, p) /\ haveNeighborsSettled[n]
      /\ FloodSend(n, neighbors[n], <<p>>, net \ {m})
    OBVIOUS
<1>3. neighbors[n] \in SUBSET Nodes /\ <<p>> \in Seq(Lsp) /\ Len(<<p>>) = 1 /\ <<p>>[1] = p
    BY <1>0, <1>1 DEF TypeOK
<1> HIDE DEF n, p
<1>4. /\ seqNumCache' \in [Nodes -> [Nodes -> Nat]]
      /\ \A k, l \in Nodes :
            seqNumCache'[k][l] = IF k = n /\ l = p.src THEN p.seq ELSE seqNumCache[k][l]
    BY <1>0, <1>1, <1>2, LearnTypes
<1>5. /\ \A k, l \in Nodes : seqNumCache[k][l] <= seqNumCache'[k][l]
      /\ seqNumCache'[n][p.src] = p.seq /\ seqNumCache[n][p.src] < p.seq
    BY <1>0, <1>1, <1>2, LearnGrows
<1>6. /\ net \ {m} \subseteq net'
      /\ \A k \in neighbors[n] \ {p.src} :
            Passing(seqNums[n], <<p>>, 1) => [to |-> k, lsp |-> p] \in net'
    <2>1. Flooded(n, neighbors[n], <<p>>, net \ {m})
        BY <1>0, <1>1, <1>2, <1>3, FloodSendEffect
    <2> QED
        BY <1>3, <2>1 DEF Flooded
<1>7. Waiting'
    <2>1. ASSUME NEW k \in Nodes, NEW l \in Nodes, ~haveNeighborsSettled'[k]
          PROVE  ~haveNeighborsSettled[k] /\ seqNumCache'[k][l] = seqNumCache[k][l]
                 /\ cache'[k] = cache[k]
        <3>1. ~haveNeighborsSettled[k] /\ k # n
            BY <1>2, <2>1
        <3> QED
            BY <1>4, <3>1
    <2> QED
        BY <1>1, <2>1 DEF Waiting
<1>8. PassedOn'
    <2>1. \A q \in net \ net' : q.lsp.seq <= seqNumCache'[q.to][q.lsp.src]
        BY <1>0, <1>5, <1>6 DEF n, p
    <2>2. ASSUME NEW k \in Nodes, NEW l \in Nodes, haveNeighborsSettled'[k],
                 seqNumCache'[k][l] \in 1 .. SEQS, NEW j \in neighbors'[k] \ {l}
          PROVE  Reached(j, l, seqNumCache[k][l])'
        <3>1. haveNeighborsSettled[k] /\ j \in neighbors[k] \ {l}
            BY <2>2
        <3>2. CASE k = n /\ l = p.src
            <4>1. p.seq \in 1 .. SEQS /\ j \in neighbors[n] \ {p.src}
                BY <1>5, <2>2, <3>1, <3>2
            <4>2. ASSUME NEW x \in seqNums[n][p.src] PROVE 1 <= x /\ x < p.seq
                <5>1. x <= seqNumCache[n][p.src] /\ 1 <= x
                    BY <1>0 DEF SafeInv, RowsAreNewest, Positive
                <5>2. x \in Nat /\ seqNumCache[n][p.src] \in Nat
                    BY <1>0, <1>1 DEF TypeOK
                <5> QED
                    BY <1>0, <1>5, <5>1, <5>2
            <4>3. Passing(seqNums[n], <<p>>, 1)
                BY <1>0, <1>3, <4>1, <4>2, FloodingAssumption DEF Passing
            <4>4. [to |-> j, lsp |-> p] \in net'
                BY <1>6, <4>1, <4>3
            <4> QED
                BY <1>5, <3>2, <4>4 DEF Reached
        <3>3. CASE ~(k = n /\ l = p.src)
            <4>1. seqNumCache'[k][l] = seqNumCache[k][l]
                BY <1>4, <3>3
            <4> QED
                BY <1>1, <1>4, <1>5, <2>1, <2>2, <3>1, <4>1, PassedOnKept
        <3> QED
            BY <3>2, <3>3
    <2> QED
        BY <2>2 DEF PassedOn
<1> QED
    BY <1>7, <1>8

\* The newest packet of a source that waits is certain to be let through.
LEMMA WaitingPasses ==
    ASSUME SafeInv, NEW n \in Nodes, NEW own \in Lsp, NEW j \in 1 .. Len(cache[n]),
           ~haveNeighborsSettled[n], cache[n][j].seq <= SEQS
    PROVE  Passing(seqNums[n], Append(cache[n], own), j)
<1> DEFINE packets == Append(cache[n], own)
<1>1. cache[n] \in Seq(Lsp)
    BY DEF SafeInv, FloodTypes, TypeOK
<1>2. /\ packets[j] = cache[n][j] /\ cache[n][j] \in Lsp
      /\ \A l \in 1 .. j - 1 : l \in 1 .. Len(cache[n]) /\ packets[l] = cache[n][l]
    <2>1. Len(cache[n]) \in Nat /\ \A l \in 1 .. j - 1 : l \in 1 .. Len(cache[n])
        BY <1>1
    <2> QED
        BY <1>1, <2>1, AppendEntries
<1> HIDE DEF packets
<1>3. \A m \in Nodes : seqNums[n][m] = {}
    BY DEF SafeInv, Phases
<1>4. cache[n][j].src \in Nodes
    BY <1>2 DEF Lsp
<1>5. 1 <= cache[n][j].seq
    BY DEF SafeInv, CacheBelow
<1>6. \A l \in 1 .. j - 1 : 1 <= cache[n][l].seq
    BY <1>2 DEF SafeInv, CacheBelow
<1>7. \A l \in 1 .. j - 1 :
        cache[n][l].src = cache[n][j].src => cache[n][l].seq < cache[n][j].seq
    BY DEF SafeInv, Increasing
<1>8. Passing(seqNums[n], packets, j)
    BY <1>2, <1>3, <1>4, <1>5, <1>6, <1>7 DEF Passing
<1> QED
    BY <1>8 DEF packets

\* So is the node's own packet, behind all those.
LEMMA OwnPasses ==
    ASSUME SafeInv, NEW n \in Nodes, NEW own \in Lsp, own.src = n, own.seq = sequenceNum[n],
           own.seq <= SEQS
    PROVE  Passing(seqNums[n], Append(cache[n], own), Len(cache[n]) + 1)
<1> DEFINE packets == Append(cache[n], own)
           last == Len(cache[n]) + 1
<1>1. cache[n] \in Seq(Lsp) /\ TypeOK
    BY DEF SafeInv, FloodTypes, TypeOK
<1>2. /\ packets[last] = own
      /\ \A l \in 1 .. last - 1 : l \in 1 .. Len(cache[n]) /\ packets[l] = cache[n][l]
    <2>1. Len(cache[n]) \in Nat /\ \A l \in 1 .. last - 1 : l \in 1 .. Len(cache[n])
        BY <1>1
    <2> QED
        BY <1>1, <2>1, AppendEntries
<1> HIDE DEF packets, last
<1>3. seqNumCache[n][n] < sequenceNum[n] /\ 1 <= sequenceNum[n]
    BY DEF SafeInv, Positive
<1>4. sequenceNum[n] \in Nat /\ seqNumCache[n][n] \in Nat
    BY <1>1 DEF TypeOK
<1>5. ASSUME NEW x \in seqNums[n][n] PROVE 1 <= x /\ x < sequenceNum[n]
    <2>1. x \in Nat
        BY <1>1 DEF TypeOK
    <2>2. 1 <= x /\ x <= seqNumCache[n][n]
        BY DEF SafeInv, Positive, RowsAreNewest
    <2> QED
        BY <1>3, <1>4, <2>1, <2>2
<1>6. ASSUME NEW l \in 1 .. last - 1, packets[l].src = n
      PROVE  1 <= packets[l].seq /\ packets[l].seq < sequenceNum[n]
    <2>1. l \in 1 .. Len(cache[n]) /\ packets[l] = cache[n][l] /\ cache[n][l] \in Lsp
        BY <1>1, <1>2
    <2>2. 1 <= cache[n][l].seq /\ cache[n][l].seq <= seqNumCache[n][cache[n][l].src]
        BY <2>1 DEF SafeInv, CacheBelow
    <2>3. cache[n][l].seq \in Nat
        BY <2>1 DEF Lsp
    <2> QED
        BY <1>3, <1>4, <1>6, <2>1, <2>2, <2>3
<1>7. Passing(seqNums[n], packets, last)
    BY <1>2, <1>3, <1>5, <1>6 DEF Passing
<1> QED
    BY <1>7 DEF packets, last

LEMMA PropagationSettle ==
    ASSUME SafeInv, PropagationInv,
           NEW n \in Nodes, NEW nbrs \in Settled[n], NeighborsHaveSettled(n, nbrs)
    PROVE  PropagationInv'
<1> SUFFICES ASSUME NoFailure' PROVE Waiting' /\ PassedOn'
    BY DEF PropagationInv
<1> DEFINE own == Own(n, nbrs)
           packets == Append(cache[n], own)
<1>1. /\ nbrs \in SUBSET Nodes /\ own \in Lsp /\ own.src = n /\ own.seq = sequenceNum[n]
      /\ IsNewer(n, own) /\ Learn(n, own)
      /\ FloodSend(n, nbrs, packets, net)
    BY SettleEffect
<1>2. FloodTypes /\ TypeOK /\ NoFailure /\ Waiting /\ PassedOn
    BY DEF SafeInv, FloodTypes, NoFailure, PropagationInv, NeighborsHaveSettled
<1>3. /\ \A k \in Nodes : neighbors'[k] = IF k = n THEN nbrs ELSE neighbors[k]
      /\ \A k \in Nodes : k # n =>
            haveNeighborsSettled'[k] = haveNeighborsSettled[k] /\ cache'[k] = cache[k]
      /\ haveNeighborsSettled'[n]
      /\ haveNeighborsSettled[n] => nbrs = neighbors[n]
    BY <1>2 DEF NoFailure, NeighborsHaveSettled, TypeOK
<1> HIDE DEF own
<1>4. /\ seqNumCache' \in [Nodes -> [Nodes -> Nat]]
      /\ \A k, l \in Nodes :
            seqNumCache'[k][l] = IF k = n /\ l = n THEN sequenceNum[n] ELSE seqNumCache[k][l]
    BY <1>1, <1>2, LearnTypes
<1>5. \A k, l \in Nodes : seqNumCache[k][l] <= seqNumCache'[k][l]
    BY <1>1, <1>2, LearnGrows
<1>6. /\ cache[n] \in Seq(Lsp) /\ packets \in Seq(Lsp)
      /\ Len(cache[n]) + 1 \in 1 .. Len(packets) /\ packets[Len(cache[n]) + 1] = own
      /\ \A j \in 1 .. Len(cache[n]) : j \in 1 .. Len(packets) /\ packets[j] = cache[n][j]
    <2>1. cache[n] \in Seq(Lsp)
        BY <1>2 DEF TypeOK
    <2> QED
        BY <1>1, <2>1, AppendEntries
<1>7. /\ net \subseteq net'
      /\ \A j \in 1 .. Len(packets) : \A k \in nbrs \ {packets[j].src} :
            Passing(seqNums[n], packets, j) => [to |-> k, lsp |-> packets[j]] \in net'
    <2> HIDE DEF packets
    <2>1. net \in SUBSET Packets
        BY <1>2 DEF TypeOK, Packets
    <2>2. Flooded(n, nbrs, packets, net)
        BY <1>1, <1>2, <1>6, <2>1, FloodSendEffect
    <2> QED
        BY <2>2 DEF Flooded
<1>8. Waiting'
    <2>1. ASSUME NEW k \in Nodes, NEW l \in Nodes, ~haveNeighborsSettled'[k]
          PROVE  ~haveNeighborsSettled[k] /\ seqNumCache'[k][l] = seqNumCache[k][l]
                 /\ cache'[k] = cache[k]
        <3>1. k # n
            BY <1>3, <2>1
        <3> QED
            BY <1>3, <1>4, <2>1, <3>1
    <2> QED
        BY <1>2, <2>1 DEF Waiting
<1>9. PassedOn'
    <2>1. \A q \in net \ net' : q.lsp.seq <= seqNumCache'[q.to][q.lsp.src]
        BY <1>7
    <2>2. ASSUME NEW k \in Nodes, NEW l \in Nodes, haveNeighborsSettled'[k],
                 seqNumCache'[k][l] \in 1 .. SEQS, NEW h \in neighbors'[k] \ {l}
          PROVE  Reached(h, l, seqNumCache[k][l])'
        <3>1. CASE k = n /\ l = n
            <4>1. seqNumCache'[k][l] = own.seq /\ own.seq <= SEQS /\ h \in nbrs \ {own.src}
                BY <1>1, <1>3, <1>4, <2>2, <3>1, FloodingAssumption
            <4>2. Passing(seqNums[n], packets, Len(cache[n]) + 1)
                BY <1>1, <4>1, OwnPasses
            <4>3. [to |-> h, lsp |-> own] \in net'
                <5> HIDE DEF packets
                <5> QED
                    BY <1>6, <1>7, <4>1, <4>2
            <4> QED
                BY <1>1, <3>1, <4>1, <4>3 DEF Reached
        <3>2. CASE k = n /\ l # n /\ ~haveNeighborsSettled[n]
            <4>1. seqNumCache'[k][l] = seqNumCache[n][l] /\ seqNumCache[n][l] # 0
                  /\ seqNumCache[n][l] <= SEQS
                BY <1>4, <2>2, <3>2, FloodingAssumption
            <4>2. PICK j \in 1 .. Len(cache[n]) :
                        cache[n][j].src = l /\ cache[n][j].seq = seqNumCache[n][l]
                BY <1>2, <3>2, <4>1 DEF Waiting
            <4>3. Passing(seqNums[n], packets, j)
                BY <1>1, <3>2, <4>1, <4>2, WaitingPasses
            <4>4. [to |-> h, lsp |-> cache[n][j]] \in net'
                <5> HIDE DEF packets
                <5>1. j \in 1 .. Len(packets) /\ packets[j] = cache[n][j] /\ h \in nbrs \ {packets[j].src}
                    BY <1>3, <1>6, <2>2, <3>2, <4>2
                <5> QED
                    BY <1>7, <4>3, <5>1
            <4> QED
                BY <4>1, <4>2, <4>4 DEF Reached
        <3>3. CASE k # n \/ (k = n /\ l # n /\ haveNeighborsSettled[n])
            <4>1. /\ haveNeighborsSettled[k] /\ neighbors'[k] = neighbors[k]
                  /\ seqNumCache'[k][l] = seqNumCache[k][l]
                BY <1>3, <1>4, <2>2, <3>3
            <4> QED
                BY <1>2, <1>4, <1>5, <2>1, <2>2, <4>1, PassedOnKept
        <3> QED
            BY <3>1, <3>2, <3>3
    <2> QED
        BY <2>2 DEF PassedOn
<1> QED
    BY <1>8, <1>9

LEMMA PropagationInit == Init => PropagationInv
<1> SUFFICES ASSUME Init PROVE Waiting /\ PassedOn
    BY DEF PropagationInv
<1>1. \A n, m \in Nodes : seqNumCache[n][m] = 0
    BY DEF Init
<1> QED
    BY <1>1, FloodingAssumption DEF Waiting, PassedOn

LEMMA PropagationNext == SafeInv /\ PropagationInv /\ [Next]_vars => PropagationInv'
<1> SUFFICES ASSUME SafeInv, PropagationInv, [Next]_vars PROVE PropagationInv'
    OBVIOUS
<1>1. ASSUME NEW m \in net, Receive(m) PROVE PropagationInv'
    <2>0. UNCHANGED <<neighbors, haveNeighborsSettled, faults, late>>
        BY <1>1 DEF Receive
    <2>1. CASE /\ ~IsNewer(m.to, m.lsp)
               /\ net' = net \ {m}
               /\ UNCHANGED <<seqNumCache, matrix, seqNums, cache, dropped>>
        BY <2>0, <2>1, PropagationReceiveOld
    <2>2. CASE /\ IsNewer(m.to, m.lsp) /\ ~haveNeighborsSettled[m.to]
               /\ Learn(m.to, m.lsp) /\ Wait(m.to, m.lsp, net \ {m})
        BY <2>0, <2>2, PropagationReceiveWait
    <2>3. CASE /\ IsNewer(m.to, m.lsp) /\ haveNeighborsSettled[m.to]
               /\ Learn(m.to, m.lsp)
               /\ FloodSend(m.to, neighbors[m.to], <<m.lsp>>, net \ {m})
               /\ UNCHANGED <<cache, dropped>>
        BY <2>0, <2>3, PropagationReceiveFlood
    <2> QED
        BY <1>1, <2>1, <2>2, <2>3 DEF Receive
<1>2. ASSUME NEW n \in Nodes, NEW nbrs \in Settled[n], NeighborsHaveSettled(n, nbrs)
      PROVE  PropagationInv'
    BY <1>2, PropagationSettle
<1>3. ASSUME faults' = faults + 1 PROVE PropagationInv'
    <2>1. faults \in Nat
        BY FloodingAssumption DEF SafeInv, FloodTypes, TypeOK
    <2>2. faults' # 0
        BY <1>3, <2>1
    <2> QED
        BY <2>2 DEF PropagationInv, NoFailure
<1>4. CASE UNCHANGED vars
    <2>1. Waiting' <=> Waiting
        BY <1>4 DEF Waiting, vars, state
    <2>2. PassedOn' <=> PassedOn
        BY <1>4 DEF PassedOn, Reached, vars, state
    <2> QED
        BY <1>4, <2>1, <2>2 DEF PropagationInv, NoFailure, vars, history
<1>5. ASSUME NEW n \in Nodes, Restart(n) PROVE PropagationInv'
    BY <1>3, <1>5 DEF Restart
<1>6. ASSUME NEW m \in net, Lose(m) PROVE PropagationInv'
    BY <1>3, <1>6 DEF Lose
<1> QED
    BY <1>1, <1>2, <1>4, <1>5, <1>6 DEF Next

\* While no packet is lost or dropped, no node restarts and none finds a neighbor late,
\* the newest packet a settled node has of any source is known to each of its neighbors
\* or on its way there, whatever overtook it and whether it came before or after the
\* node had neighbors.
THEOREM PropagatesAlways == Spec => []Propagates
<1>1. SafeInv /\ PropagationInv => Propagates
    BY DEF PropagationInv, PassedOn, Reached, Propagates
<1> QED
    BY <1>1, SafeAlways, PropagationInit, PropagationNext, PTL DEF Spec
=============================================================================

---------------------------- MODULE ShortestPath ----------------------------
(***************************************************************************)
(* LinkStateP.findShortestPath: Dijkstra's algorithm over the rows of      *)
(* neighborMatrix, with two hash maps for the confirmed and the tentative  *)
(* nodes.  Everything here is an operator on the value of the two maps, so *)
(* that a computation can start from whatever clear has left in confirmed. *)
(*                                                                         *)
(* rows[m] is the sequence of m's neighbors in the order of its packet,    *)
(* empty when nothing was received from m.                                 *)
(***************************************************************************)
EXTENDS HashTable, Integers, SequencesExt

INFINITE == 100   \* no backup

\* struct neighborPair, the entries of both maps; static memory is zero.
Pair(node, weight, hop) ==
    [node |-> node, weight |-> weight, nextHop |-> hop,
     backupNextHop |-> 0, backupWeight |-> INFINITE]

NoPair == [node |-> 0, weight |-> 0, nextHop |-> 0, backupNextHop |-> 0, backupWeight |-> 0]

NoRoutes == EmptyTable(NoPair)

\* The first key of the list with the smallest weight.
FindSmallestWeight(tentative) ==
    LET weight(i) == Get(tentative, tentative.keys[i]).weight
        keys      == DOMAIN tentative.keys
    IN  tentative.keys[First({i \in keys : \A j \in keys : weight(i) <= weight(j)})]

\* A pair that has found another way of weight w through hop.
WithBackup(pair, hop, w) == [pair EXCEPT !.backupNextHop = hop, !.backupWeight = w]

\* Mutant: a confirmed node takes a backup that is its next hop.
RelaxAnyBackup(maps, me, curr, hop, x) ==
    LET new  == Pair(x, Get(maps.confirmed, curr).weight + 1, IF curr = me THEN x ELSE hop)
        done == Get(maps.confirmed, x)
        seen == Get(maps.tentative, x)
    IN  IF HasKey(maps.confirmed, x)
        THEN IF /\ done.node # me /\ done.backupWeight > new.weight
             THEN [maps EXCEPT !.confirmed =
                      SetAt(@, x, WithBackup(done, new.nextHop, new.weight))]
             ELSE maps
        ELSE IF ~HasKey(maps.tentative, x)
        THEN [maps EXCEPT !.tentative = InsertKey(@, x, new)]
        ELSE IF seen.weight > new.weight
        THEN [maps EXCEPT !.tentative = InsertKey(RemoveKey(@, curr), x,
                 IF seen.nextHop # new.nextHop
                 THEN WithBackup(new, seen.nextHop, seen.weight) ELSE new)]
        ELSE IF seen.nextHop # new.nextHop
        THEN [maps EXCEPT !.tentative = SetAt(@, x, WithBackup(seen, new.nextHop, new.weight))]
        ELSE maps

\* One neighbor x of curr, which is reached through hop.  The maps are a pair.
Relax(maps, me, curr, hop, x) ==
    LET new  == Pair(x, Get(maps.confirmed, curr).weight + 1, IF curr = me THEN x ELSE hop)
        done == Get(maps.confirmed, x)
        seen == Get(maps.tentative, x)
    IN  IF HasKey(maps.confirmed, x)
        THEN IF /\ done.node # me /\ done.nextHop # new.nextHop
                /\ done.backupWeight > new.weight
             THEN [maps EXCEPT !.confirmed =
                      SetAt(@, x, WithBackup(done, new.nextHop, new.weight))]
             ELSE maps
        ELSE IF ~HasKey(maps.tentative, x)
        THEN [maps EXCEPT !.tentative = InsertKey(@, x, new)]
        ELSE IF seen.weight > new.weight
        THEN [maps EXCEPT !.tentative = InsertKey(RemoveKey(@, curr), x,
                 IF seen.nextHop # new.nextHop
                 THEN WithBackup(new, seen.nextHop, seen.weight) ELSE new)]
        ELSE IF seen.nextHop # new.nextHop
        THEN [maps EXCEPT !.tentative = SetAt(@, x, WithBackup(seen, new.nextHop, new.weight))]
        ELSE maps

\* dijkstraLoop
DijkstraLoop(maps, me, rows) ==
    LET curr  == FindSmallestWeight(maps.tentative)
        pair  == Get(maps.tentative, curr)
        moved == [confirmed |-> InsertKey(maps.confirmed, curr, pair),
                  tentative |-> RemoveKey(maps.tentative, curr)]
        relaxed[i \in 0 .. Len(rows[curr])] ==
            IF i = 0 THEN moved
            ELSE Relax(relaxed[i - 1], me, curr, pair.nextHop, rows[curr][i])
    IN  relaxed[Len(rows[curr])]

\* The confirmed map after findShortestPath, which started with the map before.
\* The loop ends when tentative is empty; every iteration that does not end it
\* confirms a node.
FindShortestPath(before, me, rows) ==
    LET start == [confirmed |-> before,
                  tentative |-> InsertKey(NoRoutes, me, Pair(me, 0, me))]
        after[i \in 0 .. HASH_MAX_SIZE] ==
            IF i = 0 THEN start
            ELSE LET maps == after[i - 1] IN
                 IF maps.tentative.keys = << >> THEN maps ELSE DijkstraLoop(maps, me, rows)
    IN  after[HASH_MAX_SIZE].confirmed

\* LinkState.getNextHop; 0 is no route.
GetNextHop(confirmed, node) ==
    LET pair == Get(confirmed, node)
    IN  IF pair.nextHop # 0 THEN pair.nextHop ELSE pair.backupNextHop

-----------------------------------------------------------------------------
(* The reference: distances in the directed graph of the rows *)

Linked(rows, a, b) == \E i \in DOMAIN rows[a] : rows[a][i] = b

\* The nodes at most d links from a.
Within(rows, a, d) ==
    LET ball[i \in 0 .. d] ==
            IF i = 0 THEN {a}
            ELSE LET B == ball[i - 1]
                 IN  B \cup {b \in DOMAIN rows : \E c \in B : Linked(rows, c, b)}
    IN  ball[d]

Reached(rows, a) == Within(rows, a, HASH_MAX_SIZE)

Dist(rows, a, b) ==
    CHOOSE d \in 0 .. HASH_MAX_SIZE :
        b \in Within(rows, a, d) /\ (d > 0 => b \notin Within(rows, a, d - 1))
=============================================================================

-------------------------------- MODULE IpNet --------------------------------
(***************************************************************************)
(* Forwarding (IpP) over the routing tables the nodes compute (LinkStateP),*)
(* in a network whose links change once in a while.  Every node starts     *)
(* with the rows of all nodes and its timer running, which is where the    *)
(* exchange of LinkStateFlooding ends; after that a row of a node may      *)
(* reach another one at any time, changed or not.                          *)
(***************************************************************************)
EXTENDS ShortestPath, FiniteSets

CONSTANTS
    Nodes,        \* their addresses
    Topologies,   \* the networks, each as the rows its nodes advertise
    CHANGES,      \* bound: how often the network changes
    REFRESHES,    \* bound: how often a row that has not changed is received
    Pings,        \* the pairs <<src, dest>> between which one packet is sent
    CACHE,        \* entries of a node's list of waiting packets (20)
    TTL,          \* the TTL of a new packet (5)
    MOD           \* 2^8, the range of the TTL

ASSUME IpAssumption ==
    /\ Nodes \subseteq Nat \ {EMPTY_KEY}
    /\ Topologies \subseteq [Nodes -> Seq(Nodes)]
    /\ Pings \subseteq Nodes \X Nodes
    /\ CHANGES \in Nat /\ REFRESHES \in Nat /\ CACHE \in Nat
    /\ MOD \in Nat \ {0} /\ TTL \in 0 .. MOD - 1

VARIABLES
    rows,       \* the row each node advertises: the links of the network
    changes,    \* how often it has changed
    refreshes,  \* how often an unchanged row was received
    matrix,     \* neighborMatrix of each node
    timer,      \* myTimer of each node is running
    confirmed,  \* the routing table of each node
    ready,      \* routingTableReady of each node
    basis,      \* history: the matrix the table was computed from
    cache,      \* the packets a node has no route for
    checkCache, \* checkCache of each node is running
    net,        \* the packets under way, each with the node it goes to
    fate        \* history: what has become of each packet

routing    == <<rows, changes, refreshes, matrix, timer, confirmed, ready, basis>>
forwarding == <<cache, checkCache, net, fate>>
vars       == <<routing, forwarding>>

Packet == [src : Nodes, dest : Nodes, TTL : 0 .. MOD - 1]
Fates  == {"unsent", "travelling", "arrived", "dropped", "lost"}

Ids(packets) == {<<p.src, p.dest>> : p \in packets}

-----------------------------------------------------------------------------
(* Ip *)

\* The next hop of a packet by the tables of the new state, 0 when there is none.
HopTo(n, p) == IF ready'[n] THEN GetNextHop(confirmed'[n], p.dest) ELSE 0

\* The packets without a next hop, in their order.
Hopless(n, packets) ==
    LET left[i \in 0 .. Len(packets)] ==
            IF i = 0 THEN << >>
            ELSE IF HopTo(n, packets[i]) = 0 THEN Append(left[i - 1], packets[i])
            ELSE left[i - 1]
    IN  left[Len(packets)]

\* The packets that find room when they are put at the end of a list; the
\* mutant is a list that does not know its capacity.
KeptAll(waiting, packets) == packets
Kept(waiting, packets) ==
    LET room == CACHE - Len(waiting)
    IN  IF Len(packets) <= room THEN packets ELSE SubSeq(packets, 1, room)

\* Ip.ping for a sequence of packets, one after the other, on a list of waiting
\* packets and a network: a packet with a route is sent to its next hop and gets
\* there when that is a neighbor; another one is put at the end of the list, if
\* it has room, and checkCache started.
IpPing(n, waiting, packets, travelling, running) ==
    LET hopless == Hopless(n, packets)
        kept    == Kept(waiting, hopless)
        routed  == {p \in ToSet(packets) : HopTo(n, p) # 0}
        heard   == {p \in routed : HopTo(n, p) \in ToSet(rows[n])}
        ended(i) == IF i \in Ids(routed \ heard) THEN "lost"
                    ELSE IF i \in Ids(ToSet(hopless) \ ToSet(kept)) THEN "dropped"
                    ELSE IF i \in Ids(ToSet(packets)) THEN "travelling"
                    ELSE fate[i]
    IN  /\ cache' = [cache EXCEPT ![n] = waiting \o kept]
        /\ checkCache' = [checkCache EXCEPT ![n] = running \/ hopless # << >>]
        /\ net' = travelling \cup {[packet |-> p, to |-> HopTo(n, p)] : p \in heard}
        /\ fate' = [i \in Pings |-> ended(i)]

\* CommandHandler.ping, Transport.makePack: a packet of this node's own.
Ping(i) ==
    /\ fate[i] = "unsent"
    /\ UNCHANGED routing
    /\ IpPing(i[1], cache[i[1]], <<[src |-> i[1], dest |-> i[2], TTL |-> TTL]>>, net,
              checkCache[i[1]])

\* Mutant: the TTL is left alone.
ForwardKeepsTtl(m) ==
    /\ m.packet.dest # m.to
    /\ UNCHANGED routing
    /\ IpPing(m.to, cache[m.to], <<m.packet>>, net \ {m}, checkCache[m.to])

\* Receive.receive: the TTL is decremented, as a uint8_t, and never looked at.
Forward(m) ==
    /\ m.packet.dest # m.to
    /\ UNCHANGED routing
    /\ IpPing(m.to, cache[m.to], <<[m.packet EXCEPT !.TTL = (@ - 1) % MOD]>>, net \ {m},
              checkCache[m.to])

Arrive(m) ==
    /\ m.packet.dest = m.to
    /\ net' = net \ {m}
    /\ fate' = [fate EXCEPT ![<<m.packet.src, m.packet.dest>>] = "arrived"]
    /\ UNCHANGED <<routing, cache, checkCache>>

\* Mutant: the packets are looked at (front) and not taken out (popfront).
CheckCacheFiredFront(n) ==
    /\ checkCache[n]
    /\ UNCHANGED routing
    /\ IpPing(n, cache[n], cache[n], net, FALSE)
CheckCacheFired(n) ==
    /\ checkCache[n]
    /\ UNCHANGED routing
    /\ IpPing(n, << >>, cache[n], net, FALSE)

-----------------------------------------------------------------------------
(* LinkState *)

\* Mutant: only the first rows start the timer.
AddLspLeavesTimer(n, m) ==
    /\ matrix[n][m] = rows[m] => refreshes < REFRESHES
    /\ refreshes' = IF matrix[n][m] = rows[m] THEN refreshes + 1 ELSE refreshes
    /\ matrix' = [matrix EXCEPT ![n][m] = rows[m]]
    /\ UNCHANGED <<rows, changes, timer, confirmed, ready, basis, forwarding>>

\* A packet with m's row reaches n, or n itself sends it: the row is copied and
\* the timer started again.
AddLsp(n, m) ==
    /\ matrix[n][m] = rows[m] => refreshes < REFRESHES
    /\ refreshes' = IF matrix[n][m] = rows[m] THEN refreshes + 1 ELSE refreshes
    /\ matrix' = [matrix EXCEPT ![n][m] = rows[m]]
    /\ timer' = [timer EXCEPT ![n] = TRUE]
    /\ UNCHANGED <<rows, changes, confirmed, ready, basis, forwarding>>

\* Mutant: confirmed is not cleared.
MyTimerFiredWithoutClear(n) ==
    /\ timer[n]
    /\ timer' = [timer EXCEPT ![n] = FALSE]
    /\ confirmed' = [confirmed EXCEPT ![n] = FindShortestPath(@, n, matrix[n])]
    /\ ready' = [ready EXCEPT ![n] = TRUE]
    /\ basis' = [basis EXCEPT ![n] = matrix[n]]
    /\ UNCHANGED <<rows, changes, refreshes, matrix>>
    /\ IpPing(n, << >>, cache[n], net, checkCache[n])

\* myTimer.fired: clear, compute, and signal routingTableReady, whose handler
\* in Ip sends what was waiting.
MyTimerFired(n) ==
    /\ timer[n]
    /\ timer' = [timer EXCEPT ![n] = FALSE]
    /\ confirmed' = [confirmed EXCEPT ![n] = FindShortestPath(ClearTable(@), n, matrix[n])]
    /\ ready' = [ready EXCEPT ![n] = TRUE]
    /\ basis' = [basis EXCEPT ![n] = matrix[n]]
    /\ UNCHANGED <<rows, changes, refreshes, matrix>>
    /\ IpPing(n, << >>, cache[n], net, checkCache[n])

\* External: a link comes up or goes down, and its ends have noticed.
Change ==
    /\ changes < CHANGES
    /\ changes' = changes + 1
    /\ rows' \in Topologies \ {rows}
    /\ UNCHANGED <<refreshes, matrix, timer, confirmed, ready, basis, forwarding>>

Init ==
    /\ rows \in Topologies
    /\ changes = 0 /\ refreshes = 0
    /\ matrix = [n \in Nodes |-> rows]
    /\ timer = [n \in Nodes |-> TRUE]
    /\ confirmed = [n \in Nodes |-> NoRoutes]
    /\ ready = [n \in Nodes |-> FALSE]
    /\ basis = [n \in Nodes |-> rows]
    /\ cache = [n \in Nodes |-> << >>]
    /\ checkCache = [n \in Nodes |-> FALSE]
    /\ net = {}
    /\ fate = [i \in Pings |-> "unsent"]

Next ==
    \/ \E i \in Pings : Ping(i)
    \/ \E m \in net : Forward(m)
    \/ \E m \in net : Arrive(m)
    \/ \E n \in Nodes : CheckCacheFired(n)
    \/ \E n, m \in Nodes : AddLsp(n, m)
    \/ \E n \in Nodes : MyTimerFired(n)
    \/ Change

Spec == Init /\ [][Next]_vars

\* Timers fire, packets under way get there, and a row that has changed reaches
\* every node.  (The first and the third are weak fairness of MyTimerFired(n), which
\* alone stops a node's timer, and of the delivery of a packet, which is possible as
\* long as one is under way: TLC would compute tables to evaluate their ENABLED.)
Fairness ==
    /\ \A n \in Nodes : []<>~timer[n]
    /\ WF_vars(\E n \in Nodes : CheckCacheFired(n))
    /\ []<>(net = {}) \/ []<><<\E m \in net : Forward(m) \/ Arrive(m)>>_vars
    /\ WF_vars(\E n, m \in Nodes : matrix[n][m] # rows[m] /\ AddLsp(n, m))

FairSpec == Spec /\ Fairness

-----------------------------------------------------------------------------
(* Networks in which the tables are right *)

\* No two nodes have the same first place in a map, and the first places are those
\* that clear empties when all nodes are listed.
Compact ==
    /\ \A m, n \in Nodes : Hash(m, 0) = Hash(n, 0) => m = n
    /\ \A n \in Nodes : Hash(n, 0) \in 1 .. Cardinality(Nodes)

\* What a node may have in its matrix: rows of old and new networks.
Mixes ==
    {r \in [Nodes -> UNION {{t[n] : n \in Nodes} : t \in Topologies}] :
        \A n \in Nodes : \E t \in Topologies : r[n] = t[n]}

\* By whatever rows it has a node reaches all others.
Connected == \A r \in Mixes, n \in Nodes : Reached(r, n) = Nodes

\* Between the ends of what is sent there are never more nodes than the TTL, which
\* nobody looks at, counts.
PingsReach ==
    \A t \in Topologies, i \in Pings :
        i[1] # i[2] /\ i[2] \in Reached(t, i[1]) /\ Dist(t, i[1], i[2]) <= TTL + 1

-----------------------------------------------------------------------------
(* Properties *)

\* Every variable keeps its type.
TypeOK ==
    /\ rows \in Topologies /\ changes \in 0 .. CHANGES /\ refreshes \in 0 .. REFRESHES
    /\ matrix \in [Nodes -> [Nodes -> Seq(Nodes)]]
    /\ basis \in [Nodes -> [Nodes -> Seq(Nodes)]]
    /\ timer \in [Nodes -> BOOLEAN] /\ ready \in [Nodes -> BOOLEAN]
    /\ checkCache \in [Nodes -> BOOLEAN]
    /\ \A n \in Nodes : Occupied(confirmed[n]) \subseteq Nodes
    /\ cache \in [Nodes -> Seq(Packet)] /\ \A n \in Nodes : Len(cache[n]) <= CACHE
    /\ net \subseteq [packet : Packet, to : Nodes]
    /\ fate \in [Pings -> Fates]

\* A node's table lists the nodes it can reach by the rows it has, each with its
\* distance and, as next hop, the first node of a shortest path, also when the
\* table is computed again, with other rows, in the map of the last time.
RoutesCorrect ==
    \A n \in Nodes : ready[n] =>
        LET r == basis[n] IN
        /\ ToSet(confirmed[n].keys) = Reached(r, n)
        /\ \A x \in Reached(r, n) :
            LET pair == Get(confirmed[n], x) IN
            /\ pair.node = x /\ pair.weight = Dist(r, n, x)
            /\ x # n => /\ Linked(r, n, pair.nextHop)
                        /\ Dist(r, pair.nextHop, x) = pair.weight - 1

\* A backup, where there is one, is another neighbor with a path of that weight.
BackupsReal ==
    \A n \in Nodes : ready[n] =>
        \A x \in ToSet(confirmed[n].keys) :
            LET pair == Get(confirmed[n], x)
                hop  == pair.backupNextHop
            IN  hop # 0 => /\ hop # pair.nextHop /\ Linked(basis[n], n, hop)
                           /\ Dist(basis[n], hop, x) < pair.backupWeight

\* While the network does not change packets take shortest paths: at each node
\* the links behind a packet, by its TTL, and those before it make up the
\* distance of its ends, although each hop was looked up in another table.
ShortestTravel ==
    changes = 0 =>
        \A m \in net :
            LET p == m.packet IN
            (TTL - p.TTL) + 1 + Dist(rows, m.to, p.dest) = Dist(rows, p.src, p.dest)

\* A packet that has not ended is in one place: under way or in one node's list.
OnePlace ==
    \A i \in Pings :
        LET is(p)    == <<p.src, p.dest>> = i
            underWay == {<<m.to, 0>> : m \in {x \in net : is(x.packet)}}
            waiting  == {x \in Nodes \X (1 .. CACHE) :
                            x[2] <= Len(cache[x[1]]) /\ is(cache[x[1]][x[2]])}
        IN  Cardinality(underWay \cup waiting) = IF fate[i] = "travelling" THEN 1 ELSE 0

\* What a command sends arrives, even if the tables it meets are old, unless a
\* node's list was full or its table still names a link that has gone.
PingArrives ==
    \A i \in Pings : fate[i] = "travelling" ~> fate[i] \in {"arrived", "dropped", "lost"}

\* LinkStateP.nc on myTimer: "empty confirmed list before calling
\* findShortestPath();".  A table has the nodes, and goes to each of them by the next
\* hop and at the weight, that are computed from the rows in an empty map.
ComputedFromEmpty ==
    \A n \in Nodes : ready[n] =>
        LET fresh == FindShortestPath(NoRoutes, n, basis[n]) IN
        \A x \in Nodes :
            /\ HasKey(confirmed[n], x) <=> HasKey(fresh, x)
            /\ HasKey(fresh, x) =>
                    /\ Get(confirmed[n], x).nextHop = Get(fresh, x).nextHop
                    /\ Get(confirmed[n], x).weight = Get(fresh, x).weight
=============================================================================

-------------------------- MODULE LinkStateFlooding --------------------------
(***************************************************************************)
(* How the link state packets get around: LinkStateP.addLsp, which keeps   *)
(* the newest row of every node and passes each new one on to FloodingP,   *)
(* which sends it to all neighbors but the node it comes from, or keeps it *)
(* until this node's own neighbors have settled.                           *)
(*                                                                         *)
(* What a settled neighborhood is comes from NeighborDiscovery; what is    *)
(* done with the rows, and the timer addLsp starts for it, is in IpNet.    *)
(***************************************************************************)
EXTENDS Naturals, Sequences, FiniteSets

CONSTANTS
    Nodes,
    Settled,   \* the neighborhoods each node may settle with
    SEQS,      \* sequence numbers remembered for each source (30)
    CACHE,     \* entries of the list of waiting packets (20)
    SETTLES,   \* bound: how often the neighbors of some node settle
    FAULTS     \* bound: how many packets are lost and nodes turned off and on

ASSUME FloodingAssumption ==
    /\ IsFiniteSet(Nodes) /\ Settled \in [Nodes -> SUBSET SUBSET Nodes]
    /\ \A n \in Nodes : n \notin UNION Settled[n]
    /\ SEQS \in Nat /\ CACHE \in Nat /\ SETTLES \in Nat /\ FAULTS \in Nat

\* The neighbors a node has in the end.
Links == [n \in Nodes |-> UNION Settled[n]]

VARIABLES
    neighbors,            \* the neighbor array of each node
    haveNeighborsSettled, \* per node
    sequenceNum,          \* per node, the number of its next packet
    seqNumCache,          \* per node and source, the number of the newest packet
    matrix,               \* per node and source, its row
    seqNums,              \* per node and source, the numbers flooded
    cache,                \* per node, the packets waiting for the neighbors
    net,                  \* the packets under way, each with the node it goes to
    settles, faults,      \* counts, for the bounds
    advertised,           \* history: every packet a node has made
    late,                 \* history: a node found a neighbor after the first ones
    dropped               \* history: a full list has dropped a packet

state   == <<neighbors, haveNeighborsSettled, sequenceNum, seqNumCache, matrix, seqNums, cache>>
history == <<settles, faults, advertised, late, dropped>>
vars    == <<state, net, history>>

Lsp == [src : Nodes, seq : Nat, row : SUBSET Nodes]

-----------------------------------------------------------------------------
(* FloodingP *)

\* checkCache: a number is new when it is not among the numbers remembered and
\* there is room for it.  The mutants know no limit and the wrong one.
IsNewUnbounded(seen, p) == p.seq \notin seen[p.src]
IsNewOffByOne(seen, p) == p.seq \notin seen[p.src] /\ Cardinality(seen[p.src]) + 1 < SEQS
IsNew(seen, p)         == p.seq \notin seen[p.src] /\ Cardinality(seen[p.src]) < SEQS

\* checkCache of one packet: what it remembers, and the packets let through.
CheckCache(r, p) ==
    IF IsNew(r.seen, p)
    THEN [seen |-> [r.seen EXCEPT ![p.src] = @ \cup {p.seq}], new |-> r.new \cup {p}]
    ELSE r

\* The same for the packets of a sequence, one after the other.
Checked(seen, packets) ==
    LET r[i \in 0 .. Len(packets)] ==
            IF i = 0 THEN [seen |-> seen, new |-> {}] ELSE CheckCache(r[i - 1], packets[i])
    IN  r[Len(packets)]

\* Flooding.floodSend of a sequence of packets at a settled node with the
\* neighbors nbrs; a packet is not sent to the node that made it.
FloodSend(n, nbrs, packets, under_way) ==
    LET r == Checked(seqNums[n], packets)
    IN  /\ seqNums' = [seqNums EXCEPT ![n] = r.seen]
        /\ net' = under_way \cup {m \in [to : nbrs, lsp : r.new] : m.to # m.lsp.src}

\* Mutant: it is only kept when no other is.
WaitAlone(n, p, under_way) ==
    /\ cache' = [cache EXCEPT ![n] = <<p>>]
    /\ dropped' = dropped
    /\ net' = under_way
    /\ UNCHANGED seqNums

\* At a node that is not settled it is put at the end of the list, if it has room.
Wait(n, p, under_way) ==
    /\ cache' = [cache EXCEPT ![n] = IF Len(@) < CACHE THEN Append(@, p) ELSE @]
    /\ dropped' = (dropped \/ Len(cache[n]) = CACHE)
    /\ net' = under_way
    /\ UNCHANGED seqNums

-----------------------------------------------------------------------------
(* LinkStateP *)

\* addLsp's test; the mutant takes whatever comes.
IsNewerAny(n, p) == TRUE
IsNewer(n, p)    == seqNumCache[n][p.src] < p.seq

Learn(n, p) ==
    /\ seqNumCache' = [seqNumCache EXCEPT ![n][p.src] = p.seq]
    /\ matrix' = [matrix EXCEPT ![n][p.src] = p.row]

\* Ip's Receive.receive, case PROTOCOL_LINKSTATE: LinkState.addLsp.
Receive(m) ==
    LET n == m.to
        p == m.lsp
    IN  /\ \/ /\ ~IsNewer(n, p)
              /\ net' = net \ {m}
              /\ UNCHANGED <<seqNumCache, matrix, seqNums, cache, dropped>>
           \/ /\ IsNewer(n, p) /\ ~haveNeighborsSettled[n]
              /\ Learn(n, p)
              /\ Wait(n, p, net \ {m})
           \/ /\ IsNewer(n, p) /\ haveNeighborsSettled[n]
              /\ Learn(n, p)
              /\ FloodSend(n, neighbors[n], <<p>>, net \ {m})
              /\ UNCHANGED <<cache, dropped>>
        /\ UNCHANGED <<neighbors, haveNeighborsSettled, sequenceNum,
                       settles, faults, advertised, late>>

\* Neighbor.neighborsHaveSettled, with a neighborhood that has grown: first the
\* handler of Flooding, which sends the packets that were waiting, then that of
\* LinkState, which makes a packet of this node's own.
NeighborsHaveSettled(n, nbrs) ==
    LET own == [src |-> n, seq |-> sequenceNum[n], row |-> nbrs]
    IN  /\ settles < SETTLES
        /\ neighbors[n] \subseteq nbrs /\ nbrs # {}
        /\ settles' = settles + 1
        /\ neighbors' = [neighbors EXCEPT ![n] = nbrs]
        /\ haveNeighborsSettled' = [haveNeighborsSettled EXCEPT ![n] = TRUE]
        /\ late' = (late \/ (haveNeighborsSettled[n] /\ nbrs # neighbors[n]))
        /\ cache' = [cache EXCEPT ![n] = << >>]
        /\ FloodSend(n, nbrs, IF IsNewer(n, own) THEN Append(cache[n], own) ELSE cache[n], net)
        /\ IF IsNewer(n, own) THEN Learn(n, own) ELSE UNCHANGED <<seqNumCache, matrix>>
        /\ sequenceNum' = [sequenceNum EXCEPT ![n] = @ + 1]
        /\ advertised' = advertised \cup {own}
        /\ UNCHANGED <<faults, dropped>>

-----------------------------------------------------------------------------
(* Failures *)

\* turnOff and turnOn: the node's memory is initialised again.
Restart(n) ==
    /\ faults < FAULTS
    /\ faults' = faults + 1
    /\ neighbors' = [neighbors EXCEPT ![n] = {}]
    /\ haveNeighborsSettled' = [haveNeighborsSettled EXCEPT ![n] = FALSE]
    /\ sequenceNum' = [sequenceNum EXCEPT ![n] = 1]
    /\ seqNumCache' = [seqNumCache EXCEPT ![n] = [m \in Nodes |-> 0]]
    /\ matrix' = [matrix EXCEPT ![n] = [m \in Nodes |-> {}]]
    /\ seqNums' = [seqNums EXCEPT ![n] = [m \in Nodes |-> {}]]
    /\ cache' = [cache EXCEPT ![n] = << >>]
    /\ UNCHANGED <<net, settles, advertised, late, dropped>>

\* External: the radio loses a packet.
Lose(m) ==
    /\ faults < FAULTS
    /\ faults' = faults + 1
    /\ net' = net \ {m}
    /\ UNCHANGED <<state, settles, advertised, late, dropped>>

Init ==
    /\ neighbors = [n \in Nodes |-> {}]
    /\ haveNeighborsSettled = [n \in Nodes |-> FALSE]
    /\ sequenceNum = [n \in Nodes |-> 1]
    /\ seqNumCache = [n \in Nodes |-> [m \in Nodes |-> 0]]
    /\ matrix = [n \in Nodes |-> [m \in Nodes |-> {}]]
    /\ seqNums = [n \in Nodes |-> [m \in Nodes |-> {}]]
    /\ cache = [n \in Nodes |-> << >>]
    /\ net = {}
    /\ settles = 0 /\ faults = 0
    /\ advertised = {} /\ late = FALSE /\ dropped = FALSE

Next ==
    \/ \E m \in net : Receive(m)
    \/ \E n \in Nodes : \E nbrs \in Settled[n] : NeighborsHaveSettled(n, nbrs)
    \/ \E n \in Nodes : Restart(n)
    \/ \E m \in net : Lose(m)

Spec == Init /\ [][Next]_vars

\* A packet that is not lost gets there, and a node that has neighbors finds them.
Fairness ==
    /\ WF_vars(\E m \in net : Receive(m))
    /\ WF_vars(\E n \in Nodes : ~haveNeighborsSettled[n] /\ NeighborsHaveSettled(n, Links[n]))

FairSpec == Spec /\ Fairness

-----------------------------------------------------------------------------
(* Properties *)

\* Every variable keeps its type.
TypeOK ==
    /\ neighbors \in [Nodes -> SUBSET Nodes] /\ haveNeighborsSettled \in [Nodes -> BOOLEAN]
    /\ sequenceNum \in [Nodes -> Nat] /\ seqNumCache \in [Nodes -> [Nodes -> Nat]]
    /\ matrix \in [Nodes -> [Nodes -> SUBSET Nodes]]
    /\ seqNums \in [Nodes -> [Nodes -> SUBSET Nat]]
    /\ \A n, m \in Nodes : Cardinality(seqNums[n][m]) <= SEQS
    /\ cache \in [Nodes -> Seq(Lsp)] /\ \A n \in Nodes : Len(cache[n]) <= CACHE
    /\ net \subseteq [to : Nodes, lsp : Lsp]
    /\ settles \in 0 .. SETTLES /\ faults \in 0 .. FAULTS
    /\ advertised \subseteq Lsp /\ late \in BOOLEAN /\ dropped \in BOOLEAN

\* The row a node has of another one is one that came with the number it
\* remembers, and the node has passed on none with a greater number: an older
\* packet that comes late never takes the place of a newer one.
RowsAreNewest ==
    \A n, m \in Nodes :
        /\ seqNumCache[n][m] # 0 =>
              [src |-> m, seq |-> seqNumCache[n][m], row |-> matrix[n][m]] \in advertised
        /\ \A seq \in seqNums[n][m] : seq <= seqNumCache[n][m]

\* Nothing has failed: no packet lost or dropped, no node restarted, and no node
\* found more neighbors once it had settled.
NoFailure == faults = 0 /\ ~late /\ ~dropped

\* The newest packet a settled node has of any source is known to each of its
\* neighbors, or on the way to it, whatever overtakes it and whether it came before
\* or after the node had neighbors, unless the source has made more packets than
\* numbers are remembered.
Propagates ==
    NoFailure =>
        \A n, m \in Nodes :
            haveNeighborsSettled[n] /\ seqNumCache[n][m] \in 1 .. SEQS =>
                \A k \in neighbors[n] \ {m} :
                    \/ seqNumCache[k][m] >= seqNumCache[n][m]
                    \/ \E p \in net : p.to = k /\ p.lsp.src = m /\ p.lsp.seq = seqNumCache[n][m]

\* In the end all nodes have the newest packet of each node, with its neighbors,
\* unless something failed, a node has not found all its neighbors, or one made
\* more packets than the others remember numbers for.
Converges ==
    LET usual == /\ NoFailure /\ neighbors = Links
                 /\ \A m \in Nodes : sequenceNum[m] <= SEQS + 1
    IN  <>[](usual => \A n, m \in Nodes : /\ seqNumCache[n][m] + 1 = sequenceNum[m]
                                         /\ matrix[n][m] = Links[m])
=============================================================================

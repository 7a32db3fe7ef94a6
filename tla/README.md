# TLA+ models of the CSE160 network stack

`src/` is a small network stack in nesC for TinyOS, run in the TOSSIM simulator:
neighbour discovery, link state flooding, shortest paths, forwarding, a TCP-like
transport and a chat application. This directory holds its specification: TLA+
modules translated from the code, TLC configurations that check them on small
instances, and theorems checked by TLAPS.

## 1. The system

TinyOS runs commands, events and tasks of a node one after the other, never
inside one another: **each of them is one atomic action**. Concurrency is between
nodes, between the timers of one node, and with the radio.

| component | state | operations | talks to |
|---|---|---|---|
| `Node.nc` | ping sequence number | boot, command dispatch, ping | CommandHandler (events), Neighbor, Connection, Ip (calls) |
| `CommandHandlerP` | pool and queue of 20 message buffers | receive, processCommand task | Node (events) |
| `NeighborP` | per neighbour a window of 3 rounds and `confirmedNeighbor`; two timers | startNeighborDiscovery, processNeighborResponse, checkNeighborsSettled, recheckNeighbors | SimpleSend; signals neighborsHaveSettled to Flooding, LinkState, Node in that order |
| `FloodingP` | 30 remembered sequence numbers per source, a list of packets waiting for the neighbours | floodSend, receive (discovery and its answers) | SimpleSend, Neighbor |
| `LinkStateP` | own sequence number, last one per node, neighbour matrix, `confirmed` and `tentative` maps, a timer | addLsp, myTimer, findShortestPath, getNextHop | Flooding; signals routingTableReady |
| `IpP` | packets waiting for a route, a timer | ping (send), receive, checkCache | LinkState, SimpleSend, Transport |
| `SimpleSendP` (three instances) | pool and queue of 20 packets, one `message_t`, busy flag, a timer | send, sendTimer, sendBufferTask, sendDone | the radio |
| `TransportP` | hash map of 10 sockets, list of 10 attempted connections, three timers | socket, bind, listen, connect, accept, write, read, close, receive, resendTimer, synTimer | Ip, Application |
| `ConnectionP` | `messageCache` of 5 sockets and transfers, three timers | testServer, testClientBytes, testClientString, sendMsg, connectTimer, acceptTimer, clientClose | Transport |
| `ApplicationP` | user names in the sockets | read: hello, msg, wsp | Transport |
| `HashmapC`, `ListC` | open addressing map with a key list; array list | insert, remove, get, clear; push, pop | everybody above |

The hard behaviours are: packets lost (radio, full pools, whose `FAIL` no caller
looks at), late, out of order (Ip's queue, several routes) and sent again; timers
shared by all sockets of a node; `uint8_t` sequence numbers, indices and windows;
tables that silently refuse; and a protocol whose two ends disagree about a number
they should share.

What makes each part correct:

* Transport, established connection: the bytes received are the bytes written, in
  place; an acknowledgement never covers more than was received; no copy leaves a
  buffer; the window is respected; a transfer completes; a close arrives.
* Transport, establishment: both ends agree on both initial sequence numbers;
  every connect succeeds; every established client is accepted.
* SimpleSend: a bounded FIFO queue, every packet of which goes on the air.
* Hash map: a dictionary. List: a sequence with a capacity.
* Neighbor: a node that answers becomes and stays a neighbour, one that stops
  answering is dropped, discovery never stops.
* Flooding and link state: every node gets the newest packet of every other node,
  forwards each once, and an old one never replaces a new one.
* Shortest paths: next hops and weights are those of shortest paths in the matrix,
  also when computed a second time.
* Ip: a packet with a route is forwarded towards its destination, none is queued
  for ever once there is one.
* Connection: a connection gets what its command said, all of it, and nothing else;
  every listening socket is served.
* Command handler: a buffer is with the radio, in the pool or in the queue, and a command
  that was accepted is run once, in its turn, and not overwritten before.

## 2. Modules

| module | what it is |
|---|---|
| `TcpStream` | one established connection: client, server, network |
| `TcpStreamProof` | its inductive invariants and theorems |
| `TcpHandshake`, `TcpHandshakeProof` | how several connections of one client are established and accepted; theorems |
| `SendQueue` | abstract specification: a bounded FIFO queue before a radio |
| `SimpleSend` | one `SimpleSendP` and its radio; implements `SendQueue` |
| `SimpleSendProof` | its invariants and the refinement, proved |
| `Dictionary` | abstract specification: a partial function that does what each call says, and which keys it may refuse |
| `HashTable` | `HashmapC`'s operations on the value of a table |
| `Hashmap`, `HashmapProof` | one `HashmapC` and the calls its users make; implements `Dictionary`, proved |
| `ShortestPath` | `findShortestPath` and `getNextHop` over two `HashTable`s |
| `IpNet`, `MCIpNet`, `IpNetProof` | forwarding in a network of nodes that compute and recompute their tables; theorems |
| `LinkStateFlooding`, `MCLinkStateFlooding`, `LinkStateFloodingProof` | how link state packets get around, between nodes; theorems |
| `NeighborDiscovery`, `NeighborDiscoveryProof` | `NeighborP` at one node, with the nodes around it; theorems |
| `CommandHandler` | the buffers commands wait in |
| `Connection`, `MCConnection` | what the commands do: `ConnectionP` at one node, over `CommandHandler` |
| `ConnectionProof` | theorems about `Connection` and about the handler inside it |

How they compose: `NeighborDiscovery` promises the settled neighbourhoods
`LinkStateFlooding` starts from; that promises the rows `IpNet` starts from, which
computes its tables with `ShortestPath` over `HashTable`. `SimpleSend` and `IpNet` are
the network of `TcpStream` and `TcpHandshake` (packets lost where a pool or a list is full,
and overtaking where a packet waited or the tables changed), and these two are the
Transport of `Connection`, which extends `CommandHandler`.

### TcpStream

The client runs `connectTimer.fired` (`ConnectTimerFired`: the rest of the transfer
is offered to `Transport.write`, which makes room, copies, and calls
`sendBuffer`), `resendTimer.fired` (`ResendTimerFired`), case ACK and case FIN of
`Transport.receive` (`ClientReceiveAck`, `ClientReceiveFin`) and `clientClose`
(`Close`). The server runs the default case (`ServerReceiveData`: accept or not,
store, move `nextExpected`, shrink the window, answer), case ACK
(`ServerReceiveAck`, which takes over the window of the handshake's last packet)
and case FIN (`ServerReceiveFin`, with its fall through into case ACK). Variables
have the names of `socket_store_t`; both sockets have an `effectiveWindow`
(`sndWindow`, `rcvWindow`). `U8` is `uint8_t` arithmetic; what the code leaves as an
`int` (the index of `sendBuffer`, the comparison of sequence numbers) is left one.
Byte `k` of the stream is the number `k`, so position and content can be
compared; `Junk` is whatever lies outside. A copy that leaves its buffer sets
`fault`, and nothing is said about what follows.

The network is two sequences of packets. `Put` is `SimpleSend`'s pool, which drops
what does not fit (`POOL`). The constants `Lossy`, `Reordering`, `Patient` (the timer
only fires when nothing is under way) and `MayClose` say which network and which user
a run has.

The module starts with both ends ESTABLISHED and agreed, which `TcpHandshake`
shows is not always so. Since byte `k` is `k` and a transfer from the tests never
holds `\r\n`, `Transport.read` returns 0 and the server never frees its buffer.

### TcpHandshake

`Connect` (testClientBytes and connect), `SynTimerFired`, `ReceiveSynack` at the
client; `ReceiveSyn`, `ReceiveAck`, `AcceptTimerFired` (acceptTimer and accept) at
the server. `synTimer` is one variable, as in the code. The socket table is the
sequence of its entries in the order of the key list, so that `FindSocket` takes
the newest; `SetSynRcvd` is the write through `getPointer(0)`: an empty entry, or,
in a full table, any entry (which one hashes to place 0 is left open). `Queue` is
`pushfront` with its capacity. The network is a set, any packet of which may
be delivered or lost next; the last number, `MOD - 1`, is the 255 whose SYNACK is
never accepted. `refused` is a history variable: attempts dropped by a full list or
table. The listening socket's uninitialised `dest` is taken to match no client.

Left out: the probing of `HashmapC`, which may drop an insert before the table is
full; `messageCache`, which with one listening socket adds nothing to the
table; `synackTimer`, which nothing starts; FIN. `Collide` allows `socket()` to
return 0 or a descriptor in use; the runs set it to FALSE, and with TRUE TLC finds
`Backed` violated (the new socket replaces an established one).

### SimpleSend and SendQueue

A buffer is a model value, `info` what was copied into it. `Transmit`,
`TransmitFails` and `NothingToDo` are the three ways through `sendBufferTask`.
External are the radio (`StartDone`, `SendDone`): it refuses packets until it has
started and answers each packet it took once; `AMQueueImplP` gives each instance
a slot of its own, so an instance that is not busy is not refused by the others.
`Waiting` and `Air` are the refinement mapping to `SendQueue`: the contents of the
queued buffers, and `pkt` while the radio has it.

### HashTable, Hashmap and Dictionary

A table is a record of the places (`map`: `key` and `value`) and the key list (`keys` with
`numofVals`), which the code keeps in step by hand. `Ends` is the probe loop: the numbers
of misses at which a search stops. `InsertKey`, `RemoveKey`, `Get`, `SetAt` (the write through
`getPointer`, which goes to place 0 when the key is not there) and `ClearTable` are the
commands of the interface; `ClearTable` empties places `numofVals`, ..., 1, wherever
the keys are.

`Dictionary` says what each call does to the values that `get` and `contains` show: an
insert sets its key and no other, a remove takes its key and no other. The place of a
key, chosen when it comes, shows in three calls: a new key is refused when all of its
`Spots` are taken, and only then; an assignment to a key that is not there goes to
the key at place 0; a clear takes the keys at the places 1 to `size`. `Hashmap` and
`Dictionary` both have the last call with its arguments in a history variable (`call`), so
that the refinement maps each call of the table to the dictionary's call of that name.

The map as such does not keep its promises: a key that is inserted again after a hole
was made in front of it gets two places. `Hashmap` therefore has the three ways the
code uses one: sockets and neighbours only insert, into a full map, too, where the insert is refused and
the assignment that follows goes to place 0; `confirmed` inserts and is cleared;
`tentative` inserts and removes; and the last two insert a node when `contains` has
not found it, or when it lies at its first place, and never fill the map
(`NodeInserted`). Under these `View` - what `get` and `contains` show - with the places `At`
implements `Dictionary`. What a clear left behind is `leftover`.

### ShortestPath and IpNet

`ShortestPath` is Dijkstra's loop as a recursive function over the row of the node taken
from `tentative` (`Relax`, with its three branches and the backups). The computation starts
from the `confirmed` map it is given, so that a second one can start from what `clear`
has left. `Dist` is the reference: a breadth first search of the graph.

`IpNet` has all nodes of a network. `AddLsp` copies a row and starts `myTimer`;
`MyTimerFired` clears, computes and signals `routingTableReady`, whose handler sends all
that waits; `Ping` (the command and Transport's packets), `Forward` and `Arrive` (receive)
and `CheckCacheFired` are Ip's. `IpPing` is `Ip.ping` for a sequence of packets, one
after the other: `Hopless` are those that go to the list. `Change`
lets the ends of a link notice that it has come or gone; from then on rows reach the
nodes one by one. The radio loses nothing here (that is `LinkStateFlooding` and
`TcpStream`); a packet sent to a node that is no neighbour any more is lost.

### LinkStateFlooding

`Receive` is `addLsp` with `floodSend` behind it: an old packet is ignored, a new one is
copied into the matrix and passed on, or, at a node that is not settled, put on the list
of waiting packets. `NeighborsHaveSettled` is the signal with both of its handlers, in
the order of the wiring: Flooding sends what was waiting, LinkState makes a packet
of this node's own. `Checked` is `checkCache`, with its limit of numbers per source.
`Restart` initialises a node's memory while its packets are under way. A neighbourhood
may grow (a second settling); that one shrinks is in `IpNet`.

### NeighborDiscovery

`Booted` and `RecheckNeighborsFired` begin a round (`StartNeighborDiscovery`);
`ProcessNeighborResponse` is an answer, which may come any time later;
`CheckNeighborsSettledFired` decides; `GetNeighborArray` is a read by another component. The
times (10 s and 60 s) are left out: any of the two timers may be first, and an
answer may arrive in a later round. Which nodes hear the question is chosen anew each
round (`heard`).

### CommandHandler and Connection

A buffer is a number and `content` what is in it, until the radio writes it again: so a
pointer into a buffer that went back to the pool (`stringCache`, the string is not copied)
still reads something. `RunCommand` is the task with the handler of the event it
signals, the commands of `Node.nc` being those of `ConnectionP` (`TestServer`,
`TestClientBytes`, `TestClientString`, `SendMsg`, `ClientClose`) or none of them (`dump`).
The timers are `ConnectTimerFired`, `ConnectTimerStringFired` and `AcceptTimerFired`, each with
its whole loop. Transport is what its callers see: the state of a socket, and what it
has taken (`written`). `Transport.write` takes any part of the bytes of a transfer when the
connection is established. A string or a message stands in `written` when the write took
something of it, all or what it had room for (the callers drop the rest); a write may
take nothing of it (`Refuses`) when the connection is not established, or when something was written
before and may still fill `sendBuff`: then the string waits for the timer and the message is lost.
The first write of a connection finds all 128 bytes free, more than a command holds. `late` is a history variable: sockets whose string was read
when `POOL` or more commands had been accepted since.

## 3. Runs

| run | checks | shows |
|---|---|---|
| `stream_safety` | TypeOK, StreamIntegrity, AckedWasReceived, BuffersHold | loss, reordering, an impatient timer, a close at any time: the stream is intact and the ACKs are true |
| `stream_live` | FlowControl, Transferred, CloseCompletes | on a good network the window is kept, the transfer ends, a close arrives |
| `stream_compaction` | UnackedKept, **violated** | making room in `sendBuff` drops a byte that is not acknowledged |
| `simplesend` | TypeOK, BuffersConserved, Awake, ImplementsLiveQueue | SimpleSend is a live bounded FIFO queue |
| `handshake` | TypeOK, Backed | a client is never established on an attempt the server does not know |
| `handshake_live` | EverybodyConnects, AcceptedInTheEnd | one connection alone is established and accepted |
| `hashmap` | TypeOK, KeysListed, ImplementsDictionary | used as the code uses it, each call of the map does what a dictionary's does, full maps included, and its key list is right |
| `ip` | TypeOK, RoutesCorrect, BackupsReal, ShortestTravel, OnePlace, PingArrives | tables are shortest paths, also recomputed; packets are in one place, take shortest paths and arrive |
| `routes_clear` | ComputedFromEmpty, **violated** | `clear` leaves node 13 in the table, and a table computed again misses the shortest way through it |
| `flooding` | TypeOK, RowsAreNewest, Propagates, Converges | no older row replaces a newer one; without failures every row reaches everybody |
| `discovery` | TypeOK, Window, Announced, GoesOn, Forgets, Finds | the window tells the truth, changes are signalled, neighbours are found and forgotten |
| `connection` | TypeOK, CommandsKept, WhatWasAsked, WrittenInTheEnd, FirstServed | commands are kept, connections get what was asked, the first listener is served |

The two violated properties are what comments of the code say of it (`PROJECT.json`,
"findings", quotes the lines).

**What the properties leave out, because it is not so.** Each of these was found with TLC
by weakening a condition of a property or a constant of a run:

* With `Lossy = TRUE`, `stream_live` violates `Transferred`: `sendBuffer` does not start
  `resendTimer` when the data runs out, and a lost tail is never sent again. With a
  timer that does not wait for the network it violates `FlowControl`.
* With two connections, `handshake_live` violates `EverybodyConnects`: the first SYNACK stops
  the `synTimer` both share. After a retry the socket the server finds may have the number
  of another attempt than the client, and keeps it; `Backed` only says that the
  server knows the client's.
* A node that hears no answer in one round never asks again (`deaf`); a neighbour that
  is lost stays in the array behind the new ones and is still advertised until it is
  overwritten. A new entry's `confirmedNeighbor` is not initialised; when it happens to be TRUE
  the neighbour is never signalled (`byAccident`).
* A neighbour that is found late never gets the packets sent before, a lost packet is
  never sent again, a restarted node's packets are ignored until their numbers pass
  the old ones, and the packet after the 30th of one source is not passed on.
* A second listening socket is only served after the first one; one whose entry is behind
  a hole of `messageCache`, or was used by an accepted connection, is never served. A sixth
  connection is not cached and its bytes are never sent.
* On a node that opens both transfers and chat connections, a chat connection
  that takes the entry of a closed transfer gets the rest of that transfer
  (`WhatWasAsked` violated). On one that also listens, `connectTimer` writes to accepted
  sockets, whose entry says 1 of 0 bytes were sent, without end. The test scripts
  never make a node more than one of the three.
* A string is safe in its recycled buffer for fewer than `POOL` commands.
* A TTL is decremented and never looked at: two nodes with old tables send a packet back and
  forth until the tables change (`MOD = 4` in run `ip` lets it wrap).

**Bounds.** `stream_safety`: 7 bytes in segments of 2, a buffer of 8, so that the
transfer needs more than the window of 6 (three segments, as in the code), the last
segment is short, the timer goes back over several segments, and the tail of the last
payload just fits. `MOD` is 9, the smallest with which 7 bytes do not wrap; two
packets each way are enough for one to overtake another. The transfer must
satisfy `Fits`: beyond it the code is wrong (TLC finds BuffersHold violated when the
transfer is longer than the buffer less a segment, StreamIntegrity when the numbers
wrap). `stream_live`: 9 bytes, a buffer of 10, two initial sequence numbers of which
one makes the numbers end just below `MOD`; longer than a window, so the run contains
retransmission through a window of 1. `stream_compaction`: 12 bytes over a buffer of 10
needs a second write. `simplesend`: 3 buffers, 6 calls, two packets: the pool runs
empty and is used again, two queued packets may be equal or not. `handshake`: two
connections, a list of 1, a table of 3, a network of 2, so each of them is full
in some state; `handshake_live` has one connection and a list of 2.

`hashmap`: 4 places and 5 keys: 2 and 6 begin at place 2 and go round, 4 begins at place 0 and goes
round, 3 and 7 begin at place 3 and stay (their step is a multiple of 4, as that of a key with
`k % 11 = 9` is of the socket table's 10 places). So holes lie in front of keys, an insert
may be refused with places free, and a map that grows gets full.
`ip`: 4 nodes, a line and the same with one end of the link that closes
it to a ring, which comes or goes once: the fewest nodes with a loop between old
tables, two equal paths and a backup; two packets that may wait at the same node, with room for
one. `routes_clear`
has the real 30 places and the nodes 1 to 14 of `topo/tuna-melt.topo` (the network
`testA.py` and `testB.py` load) with the links among them: node 13, at place 0, lies between 12
and 14. What TLC finds: node 11 gets a packet again with the row it has, and computes its table
from the entry of 13 that is left; it does not go through 13's row, and sends to 14 by node
10, 5 links, instead of by 12, 3 links. (13 itself is still sent to by its old entry.) `flooding`: a
triangle, two ways between any two nodes, one of them settling late or twice, four packets,
two numbers remembered per source, a list of two, and one failure. `discovery`: two nodes
around; the state is finite without a bound (`silent` counts to 3, all the window can
tell). `connection`: a pool of 2 and an array of 2, three or four commands, two bytes per
write of a transfer of 3, two attempts on two ports: pool and array are full in some state,
entries are used again, and a string's buffer comes round.

**Fairness.** TinyOS timers fire and tasks run: weak fairness of each timer and task
action. The radio starts (Node.nc retries) and answers: weak fairness. A network that
loses packets does not lose all of them: strong fairness of each kind of reception,
which only matters for what is sent again and again. In `TcpHandshake` a random number
is not 255 for ever, the SYNs and answers that get through include good ones, and
eventually the network is faster than the 5 s of `synTimer` (`<>[][...]_vars`); without
the last a client that retries too early rejects every answer. Closing, connecting
and sending are never required to happen. In `IpNet`, `[]<>~timer[n]` is weak fairness of
`MyTimerFired(n)`, the only action that stops the timer, and `[]<>(net = {}) \/ []<><<...>>_vars`
is weak fairness of a delivery, which is possible while a packet is under way; they are
written so that TLC need not compute a table to evaluate ENABLED. A changed row reaches every node in the end (which
`LinkStateFlooding` shows when nothing is lost). In `LinkStateFlooding`, packets arrive
unless they are lost and a node settles with all its neighbours at least once. In
`NeighborDiscovery` an answer under way arrives; that somebody answers is a condition of the
properties, not assumed. In `Connection`, strong fairness of `connectTimer` making progress for an entry, and of
`connectTimerString` getting rid of a string: a socket that is established now and then has room,
which is `Transferred` of `TcpStream` (for a network that loses nothing).

`CHECK_DEADLOCK FALSE` stands in the runs that really end: all bytes transferred or
stalled, all packets sent, all rows exchanged, and those without a reason to go on (a map
nobody calls). `discovery` does without it.

## 4. Proofs

The theorems hold for every value of the constants that satisfies the named assumption
of the module (`StreamAssumption`, `HandshakeAssumption`, ...) and the hypotheses they state. Each
safety invariant is proved from a stronger one that is inductive; below is what it adds, and
why. Induction over data - what a recursive function does to a sequence of any length - is
done by the least counterexample (`WFMin` on the naturals), with the recursion written as a
recursive function; nothing that the proofs reach declares a RECURSIVE operator.

`TcpStreamProof`:

* `TypeCorrect`: `Spec => []TypeOK`, by cases over the actions; `StreamAssumption` is
  needed so that a window of three segments is a `uint8_t`.
* `StreamIntegrityHolds`, `AckedWasReceivedHolds`, `BuffersHoldAlways`, under `Fits`.
  None is inductive. `StreamInv` adds what each side knows: the client's numbers are
  positions between the server's and the end of the stream and `sendBuff` holds the
  stream (`ClientInv`); the server's buffer holds it below `nextExpected`, which never
  passes the history variable `high`, the most it has covered (`ServerInv`);
  every packet under way carries the bytes its number says, every ACK a number
  at most `high` (`NetInv`); and nothing has gone wrong (`~fault`). `high`
  is there because `nextExpected` goes backwards on a duplicate, so an ACK under way
  may exceed it. With these, a retransmission from any `lastAck`, however old, sends
  the right bytes, and storing any packet again stores what is there. The transfer fits
  in one write, so the faulty compaction never runs under `Fits`.
* `FlowControlHolds`, under `Fits`, `~Reordering` and `Patient` (a packet that overtakes, or a timer
  that fires while packets are under way, breaks it: section 3), for a network that may
  lose anything. `FlowInv` says that the data under way is in order and behind the
  handshake's ACK (`InOrder`), that what was sent after any packet under way, with what may still
  be sent, fits the window the server has now (`Fitting`), and that the edge each ACK under way
  allows does too (`Allows`). The sum over the network in `FlowControl` is bounded by adding up
  packets in order: they span at most what was sent (`Spans`, `SumsSpan`).

`TcpHandshakeProof`, for any number of connections, sockets and packets under way:
`HandshakeTypeCorrect`; `BackedHolds`, under `~Collide`. `BackedInv` carries `Backed` back
to the packets: every SYNACK under way, too, is to an attempt the server knows with the same two
numbers. What the server knows it never forgets (`KnownKept`), whether in the list of attempts or
in the table.

`SimpleSendProof` (for every finite pool and any number of calls): `SendTypeCorrect`;
`BuffersConservedAlways` and `AlwaysAwake` from `SendInv`, which adds that the component is
busy while the radio has its packet, that queued buffers are filled and that queue and pool
together count the buffers (with it a packet is only accepted while the abstract queue has room);
`ImplementsSendQueue`: `Spec => SQ!Spec`, every step is an Accept, a Transmit, a Done or
leaves `Waiting` and `Air` alone.

`HashmapProof`, for maps of every size and any number of keys: `HashmapTypeCorrect`,
`KeysListedAlways` and `HashmapRefinesDictionary`. `HashmapInv` says of the places that no key has
two (`OnePlaceEach`) and that a search of a key comes by its place (`Reachable`); of the list that it
holds each key once, and exactly those in the map but for what a clear has left; and, of a
map that only grows, that no hole lies in front of a key (`FoundBeforeHole`). Each of the three
ways of use needs a different part: that is why an insert finds the key it had before. Where keys are
removed or cleared `Occupied` is smaller than the map; a map that grows may be full. In the
refinement `Abstraction` reads `View` and `At` off the places; each operation is then
exactly the dictionary's of its name, by cases of where the key lies and, for an insert, of
whether its probe sequence has a free place.

`LinkStateFloodingProof`, for every network, any number of packets, restarts and losses:
`FloodingTypeCorrect` (no node remembers more than `SEQS` numbers of a source),
`RowsAreNewestAlways` and `PropagatesAlways`. `SafeInv` adds that packets under way were
advertised and do not go back to their source (`Real`); that packets that wait were advertised,
are no newer than what the node has (`CacheBelow`) and stand in the order of their numbers
(`Increasing`); that a node numbers its packets from 1 and its next one above all it has used
(`Positive`); and that a settled node has nothing waiting, one that is not has flooded nothing
(`Phases`). `PropagationInv` says where the newest packets are while nothing has failed: what
a node that is not settled knows waits in its list (`Waiting`), what a settled one knows has
reached its neighbors or is on the way to them (`PassedOn`).

`NeighborDiscoveryProof`, for any number of nodes around: `DiscoveryTypeCorrect`, `WindowAlways` and
`AnnouncedAlways`. `Window` only speaks of the sum of three bits; `WindowInv` says which
bit is which round (`Remembers`): the place of the current round holds the last answer
when it is 0 rounds old, the one before it when it is 1 round old, and the place that is
written next when it is 2. The next round empties exactly the bit that gets too old,
and `silent` stops at 3 where the window forgets. `DiscoveryInv` adds that every neighbor is
known once, so that the array, which is filled again from the front, has room.

`IpNetProof`, for every network, however it changes: `IpTypeCorrect` and `OnePlaceAlways`. The types
of a table need those of both maps through the whole computation, for which nothing is assumed of
the size of the maps or of what a clear left (`RelaxType`, `OnceType`, `ShortestType`): a full map
may give wrong routes, never a node that does not exist. `Placed` says of `OnePlace` what an
action can be followed through: no two packets under way or in lists have the same ends
(`Separate`), and those that travel are somewhere. In the middle of `Ip.ping` a node
holds packets that are nowhere (`Accounted`); `IpPingPlaced` is the lemma all four callers use.

And for the networks described below, what the tables say:

* `FindsShortestPaths`: from an empty map, in maps that have room for all nodes,
  `findShortestPath` computes the shortest paths. `Roomy` is the room: a set of ways to fill the
  places such that an absent node always finds a free one; on it insert, setAt and
  remove lose no key (`Sound`; `InsertSound`, `SetAtSound`, `RemoveSound`). `Between` is
  the invariant of the iterations: every node that was seen has a pair that is the truth
  about a path and its backup (`Paths`), the neighbors of confirmed nodes were seen
  (`Explored`), and the tentative ones are of two neighboring levels, not nearer than the
  confirmed ones. `During` is the same in the middle of the row of the node that was
  taken; it is what a branch of `Relax` keeps (`DuringNext`), the one that replaces a
  next hop and makes the old one the backup among them. The search ends with nothing tentative
  (`SearchEnds`: otherwise every place would be filled). Levels that start at 0, grow
  by one along a link and skip none are distances (`Levels`), by induction over the
  balls of the reference search (`WithinBalls`, `WithinGrows`, `WithinThrough`).
* `RoutesCorrectAlways` and `BackupsRealAlways`, under `StartsEmpty`: each table is computed only
  once, in maps that are `Roomy`; or the nodes are `Compact`, which means that each has a
  first place of its own and these are the places `clear` empties when all nodes are listed,
  and the networks `Connected`, by any mixture of the rows of old and new ones a node
  may have. Without it the properties are false: `clear` leaves entries behind
  (`routes_clear`), and the next computation takes them for routes. Nodes 1 .. n, n at most
  12, are `Compact` in the maps of the code (30 places, first place k % 13). `TablesInv`
  adds that the map of a table that will be computed is emptied by clear.
* `ShortestTravelAlways`, under `StartsEmpty` and `PingsReach`: what is sent goes to
  another node, at most `TTL + 1` links away. Ip never looks at the TTL, which wraps after
  that many links; `ShortestTravel` reads the links behind a packet from it. `TravelInv` says
  the same of the packets in the lists, where a packet may wait for a table, and that none
  waits at its destination.

`Compact`, `Connected` and `PingsReach` hold for the network of run `ip` (`LineAndCrossAssumption` in
`MCIpNet`, which TLC evaluates), so the theorems speak of what that run checks; TLC has
checked `TablesInv` and `TravelInv` on its 94162 safety states, too.

`ConnectionProof`, for every pool, array and set of scripts:

* `HandlerTypeCorrect` and `CommandsKeptAlways`, of the handler inside. `CommandsKept` speaks of one row
  of buffers (radio, pool, queue); `CommandsInv` says the same of the three places apart
  (`Apart`: no buffer is in two; `Listed`: the queued buffers hold the accepted
  commands), which an append or a tail moves by one place. `InvOtherPacket` is where it
  matters that the radio's buffer is not queued, `InvReceive` that the buffer it gets is not.
* `ConnectionTypeCorrect` (`TypeInv`: the handler's invariant with the types of the array of
  connections, the timers' indices and the sockets).
* `WhatWasAskedAlways`, under `Separate`: a script that opens chat connections (`hello`) opens
  no transfers and does not listen, and one with transfers sends no messages, as the test scripts
  do; without it the property is false (section 3). `AskedInv` says which script the
  commands come from and that no command is run twice (`From`, `Ordered`), that no socket is in
  two entries (`Distinct`), and what each connection has got and will get (`Transfers` or
  `Strings`). For a string in a recycled buffer it must know where that buffer is: the buffer of
  the n-th command lies in the pool, at n + POOL - count, until POOL more were accepted (`Fresh`).

Only model-checked:

* liveness (`Transferred`, `CloseCompletes`, `EverybodyConnects`, `AcceptedInTheEnd`, `PingArrives`,
  `Converges`, `GoesOn`, `Forgets`, `Finds`, `WrittenInTheEnd`, `FirstServed`, the liveness half of
  `ImplementsLiveQueue`), which needs fairness and ENABLED;
* the tables of nodes that are not `Compact` or that cannot always reach each other: there a table
  is right when it is computed first, and what it is later depends on what `clear` left.

## 5. Plan

Every safety invariant the runs check is proved. What is left is Chat: `Application.read`
with `lastRead` advanced in two places, as the bytes of a `TcpStream` with reads.

**Not modelled.** `ApplicationP`: its state are strings in the sockets and static pointers
into them; what can go wrong there is the layout of strings in memory. `synackTimer`,
which nothing starts, and a flood to one destination, which nothing calls. The 30 bytes
`addLsp` copies from a payload of 20 (a row is a sequence here; the test
topologies have fewer than 20 neighbours). The ping's sequence number, which nothing
reads. The wiring (configurations), the Python driver, the radio and its noise model
(TOSSIM), the code under `simbuild/`, which the nesC compiler generates from the modules
and TinyOS, and log messages.

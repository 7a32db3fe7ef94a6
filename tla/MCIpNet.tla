------------------------------- MODULE MCIpNet -------------------------------
(***************************************************************************)
(* Small networks for IpNet.                                               *)
(***************************************************************************)
EXTENDS IpNet, TLC

\* Four nodes in a line, and what they advertise when node 4 has heard from node
\* 1.  While not all of them know, nodes 3 and 4 send packets for 1 back and forth.
Line  == 1 :> <<2>> @@ 2 :> <<3, 1>> @@ 3 :> <<4, 2>> @@ 4 :> <<3>>
Cross == 1 :> <<2>> @@ 2 :> <<3, 1>> @@ 3 :> <<4, 2>> @@ 4 :> <<1, 3>>

LineAndCross == {Line, Cross}

\* Two packets that may wait at the same node.
TwoPings == {<<3, 1>>, <<4, 2>>}

\* The theorems about the tables and the travel of packets are about these networks too.
ASSUME LineAndCrossAssumption ==
    Topologies = LineAndCross => Compact /\ Connected /\ PingsReach

\* The nodes 1 to 14 of topo/tuna-melt.topo and the links between them.  Node 13 is
\* the one in the middle of 12-13-14, and its place in the map is 0.
TunaMelt ==
    {1 :> <<2, 7>> @@ 2 :> <<1, 3, 8>> @@ 3 :> <<2, 4>> @@ 4 :> <<3, 5, 10, 12>> @@ 5 :> <<4, 6>> @@
     6 :> <<5, 14>> @@ 7 :> <<1, 8>> @@ 8 :> <<2, 7, 9>> @@ 9 :> <<8, 10>> @@ 10 :> <<4, 9, 11>> @@
     11 :> <<10, 12>> @@ 12 :> <<4, 11, 13>> @@ 13 :> <<12, 14>> @@ 14 :> <<6, 13>>}
=============================================================================

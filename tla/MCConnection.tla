----------------------------- MODULE MCConnection -----------------------------
(* The scripts of Connection's run: the test scripts (TestSim.py, testA.py,   *)
(* testB.py) never make a node a server, a sender of transfers and a chat     *)
(* client at once.                                                            *)
EXTENDS Connection

Server(port)   == [id |-> "server", conn |-> port]
Bytes(c, n)    == [id |-> "bytes", conn |-> c, transfer |-> n]
Hello(c)       == [id |-> "hello", conn |-> c]
Msg(c)         == [id |-> "msg", conn |-> c]
Close(c)       == [id |-> "close", conn |-> c]
Dump           == [id |-> "dump"]

ServerScript  == {Server("p"), Server("q"), Close("peer"), Dump}
BytesScript   == {Bytes("c", 3), Bytes("d", 1), Close("c")}
StringScript  == {Hello("c"), Hello("d"), Msg("c")}
TheScripts    == {ServerScript, BytesScript, StringScript}
=============================================================================

\* Four nodes; the link between nodes 4 and 1 comes or goes at node 4's end.  The
\* lists hold one packet.
SPECIFICATION FairSpec
CONSTANTS
    HASH_MAX_SIZE = 5
    Nodes = {1, 2, 3, 4}
    Topologies <- LineAndCross
    CHANGES = 1
    REFRESHES = 0
    Pings <- TwoPings
    CACHE = 1
    TTL = 2
    MOD = 4
INVARIANTS
    TypeOK
    RoutesCorrect
    BackupsReal
    ShortestTravel
    OnePlace
PROPERTY
    PingArrives
CHECK_DEADLOCK FALSE

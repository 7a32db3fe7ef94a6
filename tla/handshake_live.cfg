\* One connection alone.
SPECIFICATION FairSpec
CONSTANTS
    Conns = {c1}
    Nobody = Nobody
    MOD = 3
    ISNs = {0, 2}
    SeqNums = {1}
    CAP = 2
    NSOCK = 3
    POOL = 2
    Collide = FALSE
PROPERTIES
    EverybodyConnects
    AcceptedInTheEnd

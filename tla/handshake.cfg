\* Two connections of one client; 2 stands for 255, the number whose SYNACK is
\* never accepted.  The list, the table and the network all run full.
SPECIFICATION Spec
CONSTANTS
    Conns = {c1, c2}
    Nobody = Nobody
    MOD = 3
    ISNs = {0, 2}
    SeqNums = {1}
    CAP = 1
    NSOCK = 3
    POOL = 2
    Collide = FALSE
INVARIANTS
    TypeOK
    Backed

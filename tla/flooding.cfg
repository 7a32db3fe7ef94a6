\* Three nodes, two ways between any two; four packets are made, so that one node
\* makes two and an older one can be overtaken.
SPECIFICATION FairSpec
CONSTANTS
    Nodes = {1, 2, 3}
    Settled <- Triangle
    SEQS = 2
    CACHE = 2
    SETTLES = 4
    FAULTS = 1
INVARIANTS
    TypeOK
    RowsAreNewest
    Propagates
PROPERTY
    Converges
CHECK_DEADLOCK FALSE

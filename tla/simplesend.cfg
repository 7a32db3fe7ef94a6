\* Three buffers, so that the pool runs empty, and enough calls to refill it.
SPECIFICATION FairSpec
CONSTANTS
    Msg = {m1, m2}
    Nothing = Nothing
    Buf = {b1, b2, b3}
    MaxSends = 6
INVARIANTS
    TypeOK
    BuffersConserved
    Awake
PROPERTIES
    ImplementsLiveQueue
\* All calls made and the queue drained.
CHECK_DEADLOCK FALSE

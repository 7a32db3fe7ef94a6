\* A network that loses and reorders nothing and a retransmission timer that
\* leaves it the time to answer.
SPECIFICATION FairSpec
CONSTANTS
    BUF = 10
    MAX_DATA = 2
    MOD = 16
    TOTAL = 9
    ISNs = {0, 3}
    POOL = 6
    Lossy = FALSE
    Reordering = FALSE
    Patient = TRUE
    MayClose = TRUE
INVARIANTS
    FlowControl
PROPERTIES
    Transferred
    CloseCompletes
\* The transfer ends.
CHECK_DEADLOCK FALSE

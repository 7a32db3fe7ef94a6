\* A lossy, reordering network, an impatient timer, a close at any time: the
\* whole transfer fits the buffers and the window is smaller than it.
SPECIFICATION Spec
CONSTANTS
    BUF = 8
    MAX_DATA = 2
    MOD = 9
    TOTAL = 7
    ISNs = {0}
    POOL = 2
    Lossy = TRUE
    Reordering = TRUE
    Patient = FALSE
    MayClose = TRUE
INVARIANTS
    TypeOK
    StreamIntegrity
    AckedWasReceived
    BuffersHold
\* A transfer that stalls, or that is over, has nothing left to do.
CHECK_DEADLOCK FALSE

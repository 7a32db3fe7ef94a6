\* A transfer longer than the buffer, so that a second write needs room, over a
\* perfect network.
SPECIFICATION Spec
CONSTANTS
    BUF = 10
    MAX_DATA = 2
    MOD = 32
    TOTAL = 12
    ISNs = {0}
    POOL = 6
    Lossy = FALSE
    Reordering = FALSE
    Patient = TRUE
    MayClose = FALSE
INVARIANTS
    UnackedKept
CHECK_DEADLOCK FALSE

\* Fourteen nodes, one of whose tables is computed again with the same rows.
SPECIFICATION Spec
CONSTANTS
    HASH_MAX_SIZE = 30
    Nodes = {1, 2, 3, 4, 5, 6, 7, 8, 9, 10, 11, 12, 13, 14}
    Topologies <- TunaMelt
    CHANGES = 0
    REFRESHES = 1
    Pings = {}
    CACHE = 20
    TTL = 5
    MOD = 256
INVARIANT
    ComputedFromEmpty
CHECK_DEADLOCK FALSE

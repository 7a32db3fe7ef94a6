SPECIFICATION Spec
CONSTANTS
    HASH_MAX_SIZE = 4
    Keys = {2, 3, 4, 6, 7}
    Values = {u, v}
    None = none
INVARIANTS
    TypeOK
    KeysListed
PROPERTY
    ImplementsDictionary
CHECK_DEADLOCK FALSE

SPECIFICATION FairSpec
CONSTANTS
    POOL = 2
    Scripts <- TheScripts
    Noise = noise
    CACHE = 2
    CHUNK = 2
    CALLS = 2
    Ports = {"p", "q"}
    NoString = nostring
INVARIANTS
    TypeOK
    CommandsKept
    WhatWasAsked
PROPERTIES
    WrittenInTheEnd
    FirstServed
CHECK_DEADLOCK FALSE

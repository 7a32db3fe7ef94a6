\* Two nodes around.
SPECIFICATION FairSpec
CONSTANTS
    Others = {a, b}
    Nothing = Nothing
INVARIANTS
    TypeOK
    Window
    Announced
PROPERTIES
    GoesOn
    Forgets
    Finds

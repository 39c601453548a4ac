SPECIFICATION Spec
CONSTANTS
    a = a
    b = b
    Clients = {a, b}
    Movers = {a}
    MaxEdits = 2
    MaxMoves = 2
    Buffer = 2
    Watched = {2}
INVARIANTS
    TypeOK
    LineagesApart
    StoreMirrors
PROPERTY NewcomerCatchesUp
CHECK_DEADLOCK FALSE

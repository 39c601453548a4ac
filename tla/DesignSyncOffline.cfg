SPECIFICATION Spec
CONSTANTS
    a = a
    b = b
    Clients = {a, b}
    Movers = {}
    MaxEdits = 1
    MaxMoves = 1
    Buffer = 64
    Watched = {}
INVARIANT
    OfflineEditsMerge
CHECK_DEADLOCK FALSE

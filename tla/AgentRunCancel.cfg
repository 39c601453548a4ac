\* One cancel request racing two attempts; nothing fails.
CONSTANTS
    Cancellers = {c1}
    MaxTries = 2
    MaxChunks = 2
    BatchLimit = 2
    MaxFaults = 0
    MaxReconnects = 0
    RetriesOn = {"error", "lost"}
SPECIFICATION Spec
CHECK_DEADLOCK FALSE
INVARIANTS FirstEndAgrees ThreadOrder NothingHeldBack EarlyCancelHonoured

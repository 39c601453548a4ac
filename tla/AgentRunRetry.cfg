\* ARQ delivers a job again when its worker is lost, not when the function raises.
CONSTANTS
    Cancellers = {}
    MaxTries = 2
    MaxChunks = 1
    BatchLimit = 2
    MaxFaults = 0
    MaxReconnects = 0
    RetriesOn = {"lost"}
SPECIFICATION Spec
CHECK_DEADLOCK FALSE
INVARIANTS GivenUpOnlyAfterMaxTries

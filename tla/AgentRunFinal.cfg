\* A cancel request whose session loaded the row before the run ended.
CONSTANTS
    Cancellers = {c1}
    MaxTries = 1
    MaxChunks = 1
    BatchLimit = 2
    MaxFaults = 0
    MaxReconnects = 0
    RetriesOn = {"lost"}
SPECIFICATION Spec
CHECK_DEADLOCK FALSE
PROPERTIES TerminalIsFinal

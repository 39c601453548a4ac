\* Two deliveries under the retry rule of ARQ, two failures anywhere, one reconnection.
\* No cancel request.
CONSTANTS
    Cancellers = {}
    MaxTries = 2
    MaxChunks = 1
    BatchLimit = 2
    MaxFaults = 2
    MaxReconnects = 1
    RetriesOn = {"lost"}
SPECIFICATION Spec
CHECK_DEADLOCK FALSE
INVARIANTS TypeOK ClientSawEverything
PROPERTIES FeedSpec RunEnds ClientIsTold

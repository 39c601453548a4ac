\* Two runs of up to two events and their ends, and one trouble.
CONSTANTS
    MaxRuns = 2
    MaxEvents = 2
    MaxTroubles = 1
    Kinds = {"chunk", "ask", "stop", "error"}
SPECIFICATION Spec
CHECK_DEADLOCK FALSE
INVARIANTS TypeOK SnapshotAgrees SpinnerHasSource AnswerIsWhole
PROPERTIES SightKept Settles

CONSTANTS
    Tasks = {t1, t2}
    Workers = {w1, w2}
    Kbs = {kb1}
    Plain = plain
    NoTask = none
    MaxFaults = 1
SPECIFICATION Spec
CHECK_DEADLOCK FALSE
INVARIANTS TypeOK DbAgrees SuccessIsSaved RowHasOwner CancelInTimeHonoured OneBuildUnlessDeleted
PROPERTIES RowSpec EveryTaskSettles

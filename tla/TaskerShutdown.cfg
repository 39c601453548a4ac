CONSTANTS
    Tasks = {t1}
    Workers = {w1, w2}
    Kbs = {kb1}
    Plain = plain
    NoTask = none
    MaxFaults = 0
SPECIFICATION Spec
CHECK_DEADLOCK FALSE
PROPERTY ShutdownEnds

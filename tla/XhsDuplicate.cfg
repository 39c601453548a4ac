\* Two requests, which may carry one key; no failure.
CONSTANTS
    r1 = r1
    r2 = r2
    k1 = k1
    k2 = k2
    a1 = a1
    a2 = a2
    Requests = {r1, r2}
    Keys = {k1, k2}
    Accounts = {a1, a2}
    Asks <- MCAsks
    Free = free
    Operated = {}
    MaxTries = 2
    MaxFaults = 0
SPECIFICATION Spec
CHECK_DEADLOCK FALSE
INVARIANTS DuplicateIsAnswered

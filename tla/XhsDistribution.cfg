\* Two requests, one or two accounts each, one failure; somebody takes over the first account.
CONSTANTS
    r1 = r1
    r2 = r2
    k1 = k1
    k2 = k2
    a1 = a1
    a2 = a2
    Requests = {r1, r2}
    Keys = {k1, k2}
    Accounts = {a1, a2}
    Asks <- MCAsks
    Free = free
    Operated = {a1}
    MaxTries = 2
    MaxFaults = 1
SPECIFICATION Spec
CHECK_DEADLOCK FALSE
INVARIANTS TypeOK ResultsTruthful JobTellsResults ControlIsExclusive PublishedTwiceOnlyBlindly
PROPERTIES JobSettles PublisherSpec

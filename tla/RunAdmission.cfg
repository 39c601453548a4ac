\* Three requests over two keys, two threads and two users, one of them cut short.
CONSTANTS
    Requests = {r1, r2, r3}
    Keys = {k1, k2}
    Threads = {t1, t2}
    Users = {u1, u2}
    NoRun = none
    MaxFaults = 1
SPECIFICATION Spec
CHECK_DEADLOCK FALSE
INVARIANTS TypeOK OneRunPerKey OrphanNeedsFailure RepliedIsSuperseded
PROPERTIES StoreSpec EveryRequestAnswered

\* Every request is handled once, and the clock ends.
CONSTANTS
    Requests = {r1, r2, r3}
    NumWorkers = 2
    MaxSessions = 1
    Timeout = 1
    MaxTime = 2
SPECIFICATION Spec
INVARIANTS OneOwner SessionsBounded
PROPERTIES RefinesStore
SYMMETRY Symmetry
CHECK_DEADLOCK FALSE

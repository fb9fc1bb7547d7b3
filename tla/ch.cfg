\* Requests are bounded, so runs end when all threads are idle.
SPECIFICATION FairSpec
CHECK_DEADLOCK FALSE
CONSTANTS
    AqSize = 2
    CtlSize = 12
    Sleeps = TRUE
    MaxRequests = 3
INVARIANTS Assertions NothingLeftBehind
PROPERTIES EveryMessageRead CloseCompletes

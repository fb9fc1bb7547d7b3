\* The number of packets is bounded, and the network exits.
SPECIFICATION FairSpec
CHECK_DEADLOCK FALSE
CONSTANTS
    w1 = w1
    w2 = w2
    s1 = s1
    NULL = NULL
    Torn = Torn
    Workers <- TwoWorkers
    Sockets <- OneSocket
    Times <- OneTime
    AqSize = 2
    MaxOutstanding = 3
    MaxPackets = 5
INVARIANTS WorkersAccounted
PROPERTIES BlockedUntilReply NetworkExits

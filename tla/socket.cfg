\* Each packet is used once, and sockets are not opened again.
SPECIFICATION FairSpec
CHECK_DEADLOCK FALSE
CONSTANTS
    l1 = l1
    l2 = l2
    p1 = p1
    p2 = p2
    NULL = NULL
    Listeners <- TwoListeners
    Packets <- TwoPackets
    Burst = 1
INVARIANTS SocketsAccounted
PROPERTIES DeadIsFreed PendingIsFinished

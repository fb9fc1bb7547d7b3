\* The worker is destroyed in the end.
SPECIFICATION FairSpec
CHECK_DEADLOCK FALSE
CONSTANTS
    Packets <- FourPackets
    Children <- OneChild
    Ctx <- MCCtx
    RecvTime <- MCRecvTime
    Dups <- MCDups
    MaxRequests = 3
    QueueSize = 1
INVARIANTS AnsweredOnce HeapsAgree OneRequestPerContext
PROPERTIES EveryPacketAnswered

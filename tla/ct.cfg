\* The senders make MaxSends calls each and stop, so runs may end.
SPECIFICATION FairSpec
CHECK_DEADLOCK FALSE
CONSTANTS
    s1 = s1
    s2 = s2
    Senders <- TwoSenders
    RbSize = 2
    AqSize = 2
    PipeSize = 2
    ReadSize = 2
    MaxSends = 3
INVARIANTS MessagesIntact ByteForEveryMessage
PROPERTIES DeliveredInOrder DeliveredIfAlone

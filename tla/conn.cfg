\* A connection that has been freed does nothing.
CONSTANTS
    Owners <- AllOwners
SPECIFICATION Spec
CHECK_DEADLOCK FALSE
INVARIANTS HandleSound TrunkFollows SignalsProcessed
PROPERTIES Recovers

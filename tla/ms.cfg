\* The set is freed after the last collection, so runs may end.
SPECIFICATION Spec
CHECK_DEADLOCK FALSE
CONSTANTS
    NumMessages = 1
    RbSize = 4
    ArraySize = 3
    MaxClean = 3
    RingClean = 2
    Reserves = {2}
    Leftovers = {0, 1}
    Instances <- MCInstances
INVARIANTS HeadersSurvive DataSurvives LastCollectionEmpties

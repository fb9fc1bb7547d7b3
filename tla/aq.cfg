SPECIFICATION Spec
CONSTANTS
    p1 = p1
    p2 = p2
    c1 = c1
    c2 = c2
    d1 = d1
    d2 = d2
    NULL = NULL
    Producers <- TwoProducers
    Consumers <- TwoConsumers
    Data <- TwoPointers
    Size = 2
    MaxTicket = 3
SYMMETRY Symmetry
INVARIANTS SlotExclusive PopsWhatWasPushed
PROPERTIES RefinesFifo PushFalseMeansInUse

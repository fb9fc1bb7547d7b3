SPECIFICATION Spec
CONSTANTS
    b1 = b1
    b2 = b2
    Buffers <- TwoBuffers
    Size = 5
    Requests = {1, 2, 3, 6}
INVARIANTS NoByteTwice ReservationHonoured Inv
CHECK_DEADLOCK FALSE

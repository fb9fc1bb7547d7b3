--------------------------- MODULE MCRingBuffer ---------------------------
(* Small instances of RingBuffer for TLC. *)
EXTENDS RingBuffer

CONSTANTS b1, b2

TwoBuffers == {b1, b2}
=============================================================================

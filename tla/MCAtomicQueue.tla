--------------------------- MODULE MCAtomicQueue ---------------------------
(* Small instances of AtomicQueue for TLC. *)
EXTENDS AtomicQueue, TLC

CONSTANTS p1, p2, c1, c2, d1, d2

TwoProducers == {p1, p2}
TwoConsumers == {c1, c2}
TwoPointers == {d1, d2}

\* Threads and pointers are interchangeable in the safety runs.
Symmetry == Permutations(Producers) \cup Permutations(Consumers) \cup Permutations(Data)
=============================================================================

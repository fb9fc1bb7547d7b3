--------------------------- MODULE MCSessionState ---------------------------
(* A small instance of SessionState for TLC. *)
EXTENDS SessionState, TLC

\* Requests are interchangeable.
Symmetry == Permutations(Requests)
=============================================================================

-------------------------- MODULE MCNetworkSocket --------------------------
(* Small instances of NetworkSocket for TLC. *)
EXTENDS NetworkSocket
CONSTANTS l1, l2, p1, p2

TwoListeners == {l1, l2}
TwoPackets == {p1, p2}
=============================================================================

---------------------------- MODULE MCDispatch ----------------------------
(* Small instances of Dispatch for TLC. *)
EXTENDS Dispatch
CONSTANTS w1, w2, s1

TwoWorkers == {w1, w2}
OneSocket == {s1}
OneTime == {1}
=============================================================================

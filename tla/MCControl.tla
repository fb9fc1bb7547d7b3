----------------------------- MODULE MCControl -----------------------------
(* Small instances of Control for TLC. *)
EXTENDS Control

CONSTANTS s1, s2

TwoSenders == {s1, s2}
=============================================================================

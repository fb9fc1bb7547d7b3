----------------------------- MODULE MCChannel -----------------------------
(* Small instances of Channel for TLC; the configurations give the sizes. *)
EXTENDS Channel
=============================================================================

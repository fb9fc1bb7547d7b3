---------------------------- MODULE MCConnection ----------------------------
(* Connections as three users of the code have them, for TLC. *)
EXTENDS Connection

AllOwners == {"radius", "redis", "logtee"}
=============================================================================

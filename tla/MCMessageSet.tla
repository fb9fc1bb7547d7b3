--------------------------- MODULE MCMessageSet ---------------------------
(* Small instances of MessageSet for TLC. *)
EXTENDS MessageSet

\* Packets of two sizes and a message that overtakes; and packets of one byte in
\* order, with a message ring that is doubled once more, so that packets outlive
\* the turns of their ring buffer.
MCInstances ==
    {[max_mr |-> 4, max_rb |-> 16, sizes |-> {1, 2}, overtakes |-> 1],
     [max_mr |-> 8, max_rb |-> 8, sizes |-> {1}, overtakes |-> 0]}
=============================================================================

------------------------------ MODULE MCWorker ------------------------------
(* A small instance of Worker for TLC: a and b have the same packet_ctx, d is *)
(* a duplicate of a, c stands alone, and x is a subrequest of one of them.    *)
EXTENDS Worker

FourPackets == {"a", "b", "c", "d"}
MCCtx == [p \in FourPackets |-> IF p = "c" THEN 2 ELSE 1]
OneChild == {"x"}
MCRecvTime ==
    [r \in FourPackets \cup OneChild |->
        CASE r \in {"a", "d"} -> 1 [] r \in {"b", "c", "x"} -> 2]
MCDups == {"d"}
=============================================================================

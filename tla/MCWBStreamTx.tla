---------------------------- MODULE MCWBStreamTx ----------------------------
(* A stream with video (0) and telemetry (1) packets, for TLC. *)
EXTENDS WBStreamTx

MCPacketType == {0, 1}
\* A packet; a block of two fragments.
MCItem == {[fragments |-> 1, packets |-> 1], [fragments |-> 2, packets |-> 2]}
=============================================================================

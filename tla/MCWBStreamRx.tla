---------------------------- MODULE MCWBStreamRx ----------------------------
(* A receiver that joins two packets before the index wraps, for TLC. *)
EXTENDS WBStreamRx

\* The second telemetry packet is injected twice: an index of its own each time.
MCStream == <<
  [packet_type |-> 1, abs |-> 14, number |-> 0],
  [packet_type |-> 1, abs |-> 15, number |-> 1],
  [packet_type |-> 1, abs |-> 16, number |-> 1],
  [packet_type |-> 1, abs |-> 17, number |-> 2],
  [packet_type |-> 1, abs |-> 18, number |-> 3],
  [packet_type |-> 2, abs |-> 0, number |-> 4] >>
\* The packet of the other type is not eligible.
MCRetransmissionType == {1}
=============================================================================

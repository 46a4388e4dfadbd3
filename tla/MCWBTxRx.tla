------------------------------ MODULE MCWBTxRx ------------------------------
(* A sender with two cards that restarts once, a receiver with two, for TLC. *)
EXTENDS WBTxRx

MCCard == {0, 1}
MCTxCard == {0, 1}
\* Both nonces are further apart than MaxGap.
MCNonceStart == {0, 100}
=============================================================================

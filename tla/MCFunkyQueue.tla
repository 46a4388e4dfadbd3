---------------------------- MODULE MCFunkyQueue ----------------------------
(* Two producers offering five elements to a queue of two, for TLC. *)
EXTENDS FunkyQueue
=============================================================================

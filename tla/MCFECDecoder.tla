---------------------------- MODULE MCFECDecoder ----------------------------
(* A stream of four blocks with 1 to 3 data fragments, for TLC. *)
EXTENDS FECDecoder

MCBlock == 0..3
MCNPrimary == 0 :> 2 @@ 1 :> 3 @@ 2 :> 1 @@ 3 :> 2
MCNSecondary == 0 :> 1 @@ 1 :> 2 @@ 2 :> 0 @@ 3 :> 1
=============================================================================

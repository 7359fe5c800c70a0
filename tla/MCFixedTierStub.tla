-------------------------- MODULE MCFixedTierStub --------------------------
(* The tier stub for TLC.  The first two keys share a home, the third one  *)
(* starts right behind it, and probing wraps around.                       *)
EXTENDS FixedTierStub, TLC

CONSTANTS k1, k2, k3

MCHome == (k1 :> 4) @@ (k2 :> 4) @@ (k3 :> 1)

=============================================================================

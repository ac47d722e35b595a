------------------------------ MODULE MCProber ------------------------------
(* Instances of Prober for TLC: which upstream each provider entry names.  *)
EXTENDS Prober, TLC

CONSTANTS u1, u2, t1, t2, t3

OneNameTwice == t1 :> u1 @@ t2 :> u2 @@ t3 :> u1
=============================================================================

------------------------------ MODULE MCAffiliate ------------------------------
(* Instances of Affiliate for TLC; a liveness run takes no symmetry. *)
EXTENDS Affiliate
=============================================================================

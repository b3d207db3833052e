------------------------------- MODULE MCMlAuth -------------------------------
(* Instances of MlAuth for TLC; a liveness run takes no symmetry. *)
EXTENDS MlAuth
=============================================================================

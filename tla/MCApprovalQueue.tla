--------------------------- MODULE MCApprovalQueue ---------------------------
(* Instances of ApprovalQueue for TLC. *)
EXTENDS ApprovalQueue, TLC

(* Deals, rows and requests are interchangeable. *)
PanelSymmetry ==
  Permutations(Keys) \union Permutations(Rows) \union Permutations(Requests)
=============================================================================

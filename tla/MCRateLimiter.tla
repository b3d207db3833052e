---------------------------- MODULE MCRateLimiter ----------------------------
(* Instances of RateLimiter for TLC. *)
EXTENDS RateLimiter, TLC

(* A small warm-up table: the caps grow from the first day to the second. *)
SmallHourCap == [d \in Days |-> IF d = 0 THEN 1 ELSE 2]
SmallDayCap == [d \in Days |-> IF d = 0 THEN 1 ELSE 2]

SenderSymmetry == Permutations(Senders)
=============================================================================

---------------------------- MODULE MCCollection ----------------------------
(* Collection for TLC. *)
EXTENDS Collection, TLC

CONSTANTS d1, t1, t2, m1

(* d1 has a price of the legacy file. *)
OldPrice == [k \in Deals |-> IF k = d1 THEN {[price |-> 100, at |-> 0, by |-> 0]} ELSE {}]

TickSymmetry == Permutations(Ticks)
=============================================================================

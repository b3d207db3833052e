---------------------------- MODULE MCSendQueue ----------------------------
(* Instances of SendQueue for TLC: the target lists are definitions because
   a configuration file cannot write a sequence. *)
EXTENDS SendQueue, TLC

CONSTANTS group, channel

OneGroup == <<group>>
OneChannel == <<channel>>
NoTargets == <<>>

(* Deals are interchangeable: the safety runs are symmetric in them. *)
DealSymmetry == Permutations(Keys)
=============================================================================

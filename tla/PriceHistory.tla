---------------------------- MODULE PriceHistory ----------------------------
(***************************************************************************)
(* What CurationService and price-analytics read from a deal's observed      *)
(* prices.  An observation is told apart by the run that captured it (`by`,  *)
(* ghost), so a history is a set.  Time is counted in days.                  *)
(***************************************************************************)
EXTENDS Integers, FiniteSets

CONSTANTS
  Recent,          \* days of the median, 30
  MinDays,         \* CURATION_MIN_HISTORY_DAYS
  RequireHistory,  \* CURATION_REQUIRE_HISTORY
  Percent          \* CURATION_DISCOUNT_THRESHOLD

ASSUME HistoryAssumption == {Recent, MinDays, Percent} \subseteq Nat /\ RequireHistory \in BOOLEAN

DistinctDays(obs) == Cardinality({o.at : o \in obs})

Within(obs, today, days) == {o \in obs : o.at >= today - days}

(* The price at place i of the sorted prices. *)
Ranked(obs, i) ==
  CHOOSE p \in {o.price : o \in obs} :
    /\ Cardinality({o \in obs : o.price < p}) < i
    /\ i <= Cardinality({o \in obs : o.price <= p})

(* The middle one, or the rounded mean of the two in the middle. *)
Median(obs) ==
  LET n == Cardinality(obs)
      mid == n \div 2
  IN IF n % 2 = 0 THEN (Ranked(obs, mid) + Ranked(obs, mid + 1) + 1) \div 2
                  ELSE Ranked(obs, mid + 1)

IsFakeDiscount(obs, today, price) ==
  IF DistinctDays(obs) < MinDays \/ Within(obs, today, Recent) = {}
  THEN RequireHistory
  ELSE 100 * price >= Percent * Median(Within(obs, today, Recent))
=============================================================================

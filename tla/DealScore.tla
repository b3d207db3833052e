------------------------------ MODULE DealScore ------------------------------
(***************************************************************************)
(* DealScoreService on top of price-analytics: the points a deal earns at a  *)
(* price against its history.  The level, which only logs and cards read,    *)
(* and the trend and last price, which nobody reads, are left out.           *)
(***************************************************************************)
EXTENDS PriceHistory

CONSTANTS
  Week, Fortnight,                \* shorter windows, 7 and 14 days
  PeakWindow, BaselineWindow,     \* PRICE_RAISE_..._WINDOW_DAYS
  PeakPercent, CurrentPercent,    \* PRICE_RAISE_..._RATIO
  Exclusion,                      \* RECENT_EXCLUSION_MS
  W,                              \* DEAL_SCORE_W_...
  ScoreMin                        \* DEAL_SCORE_MIN

ASSUME ScoreAssumption ==
  /\ {Week, Fortnight, PeakWindow, BaselineWindow, PeakPercent, CurrentPercent} \subseteq Nat
  /\ {Exclusion, ScoreMin} \subseteq Nat
  /\ Week <= Fortnight /\ Fortnight <= Recent
  /\ W \in [discountMax : Nat, belowMedianMax : Nat, lowest30d : Nat, lowest14d : Nat,
            lowest7d : Nat, officialStore : Nat, sellerReputationMax : Nat, unknownSeller : Nat,
            freeShipping : Nat, installmentsNoInterest : Nat, highSoldQtyMax : Nat,
            priceStability : Nat, priceRaisePenalty : Nat, usedPenalty : Nat,
            originalOnly : Nat, aboveMedianPenalty : Nat, insufficientHistory : Nat]

(* What the score reads of a deal besides its prices; "none" is a seller that
   is not known. *)
Traits == [official : BOOLEAN, trust : {"high", "medium", "low", "unknown", "none"},
           freeShipping : BOOLEAN, noInterest : BOOLEAN,
           volume : {"high", "mid", "low", "none"}, new : BOOLEAN]

Clamp(n, lo, hi) == IF n < lo THEN lo ELSE IF n > hi THEN hi ELSE n

(* Math.round(a / b): halves go up. *)
Round(a, b) == (2 * a + b) \div (2 * b)

Abs(n) == IF n < 0 THEN -n ELSE n

If(condition, points) == IF condition THEN points ELSE 0

-----------------------------------------------------------------------------
(* The windows the statistics are taken from. *)
Analyze(obs, today) ==
  [days |-> DistinctDays(obs), month |-> Within(obs, today, Recent),
   fortnight |-> Within(obs, today, Fortnight), week |-> Within(obs, today, Week)]

DiscountPoints(off) == Clamp(Round((off - 25) * W.discountMax, 25), 0, W.discountMax)

MedianPoints(a, price) ==
  LET m == Median(a.month)
  IN IF a.month = {} \/ m = 0 THEN 0
     ELSE IF price > m THEN -W.aboveMedianPenalty
     ELSE Clamp(Round(100 * (m - price), m), 0, W.belowMedianMax)

Lowest(window, price) == window # {} /\ \A o \in window : price <= o.price

(* The longest window whose lowest price this is. *)
LowestPoints(a, price) ==
  IF Lowest(a.month, price) THEN W.lowest30d
  ELSE IF Lowest(a.fortnight, price) THEN W.lowest14d
  ELSE If(Lowest(a.week, price), W.lowest7d)

SellerPoints(trust) ==
  CASE trust = "high" -> W.sellerReputationMax
    [] trust = "medium" -> Round(3 * W.sellerReputationMax, 10)
    [] trust = "low" -> -Round(3 * W.sellerReputationMax, 2)
    [] trust = "unknown" -> 0
    [] trust = "none" -> -W.unknownSeller

VolumePoints(volume) ==
  CASE volume = "high" -> W.highSoldQtyMax
    [] volume = "mid" -> Round(3 * W.highSoldQtyMax, 5)
    [] volume = "low" -> Round(W.highSoldQtyMax, 5)
    [] volume = "none" -> 0

(* The points that do not look at prices, and whether some are good ones. *)
MeritOf(t) ==
  LET good == If(t.official, W.officialStore) + If(t.freeShipping, W.freeShipping)
              + If(t.noInterest, W.installmentsNoInterest) + VolumePoints(t.volume)
  IN [points |-> good + SellerPoints(t.trust) - If(~t.new, W.usedPenalty),
      some |-> \/ t.official \/ t.freeShipping \/ t.noInterest
               \/ VolumePoints(t.volume) > 0 \/ SellerPoints(t.trust) > 0]

StabilityPoints(a) ==
  LET m == Median(a.month)
  IN If(a.fortnight # {} /\ 20 * Abs(m - Median(a.fortnight)) < m, W.priceStability)

(* Mutant of PriceRaised: a price below the old one is the suspicious one. *)
PriceRaisedWrongWay(obs, today, price) ==
  \E peak \in {o \in Within(obs, today, PeakWindow) : today - o.at >= Exclusion} :
    \E low \in Within(obs, today, BaselineWindow) \ Within(obs, today, PeakWindow) :
      /\ 100 * peak.price >= PeakPercent * low.price
      /\ 100 * price <= CurrentPercent * low.price

(* A peak lately, but not just now, over the lowest price before it, while the
   price asked is no better than that one. *)
PriceRaised(obs, today, price) ==
  \E peak \in {o \in Within(obs, today, PeakWindow) : today - o.at >= Exclusion} :
    \E low \in Within(obs, today, BaselineWindow) \ Within(obs, today, PeakWindow) :
      /\ 100 * peak.price >= PeakPercent * low.price
      /\ 100 * price >= CurrentPercent * low.price

(* Little history; none, and nothing but the discount to go by. *)
HistoryPoints(a, off, merit) ==
  -If(a.days < MinDays, W.insufficientHistory)
  - If(a.days = 0 /\ DiscountPoints(off) > 0 /\ ~merit.some, W.originalOnly)

(* computeWithObservations: the factors add up. *)
RawScore(obs, today, price, off, merit) ==
  LET a == Analyze(obs, today)
  IN DiscountPoints(off) + MedianPoints(a, price) + LowestPoints(a, price) + merit.points
     + StabilityPoints(a) + HistoryPoints(a, off, merit)
     - If(PriceRaised(obs, today, price), W.priceRaisePenalty)

Passes(raw) == Clamp(raw, 0, 100) >= ScoreMin
=============================================================================

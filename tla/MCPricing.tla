------------------------------ MODULE MCPricing ------------------------------
(* Pricing for TLC. *)
EXTENDS Pricing, TLC

CONSTANTS r1, r2

(* The defaults of .env.example. *)
Defaults == [discountMax |-> 20, belowMedianMax |-> 25, lowest30d |-> 15, lowest14d |-> 10,
             lowest7d |-> 5, officialStore |-> 10, sellerReputationMax |-> 10, unknownSeller |-> 5,
             freeShipping |-> 5, installmentsNoInterest |-> 5, highSoldQtyMax |-> 5,
             priceStability |-> 5, priceRaisePenalty |-> 30, usedPenalty |-> 15,
             originalOnly |-> 10, aboveMedianPenalty |-> 10, insufficientHistory |-> 25]

GoodDeal == [official |-> TRUE, trust |-> "high", freeShipping |-> TRUE, noInterest |-> FALSE,
             volume |-> "none", new |-> TRUE]

Known(days) == {[price |-> days[d], at |-> d, by |-> 0] : d \in DOMAIN days}

(* Nothing, steady prices, a jump. *)
PastPrices == {{}, Known([d \in {-2, -1} |-> 100]), Known([d \in {-3, -1} |-> IF d = -3 THEN 70 ELSE 130])}

TwoPages == {[price |-> 80, pix |-> 70], [price |-> 100, pix |-> 100]}

Percent10 == [code |-> "PCT10", product |-> FALSE, kind |-> "PERCENT", value |-> 10, cap |-> {},
              min |-> 0, once |-> FALSE, until |-> 9]
Fixed20 == [code |-> "OFF20", product |-> FALSE, kind |-> "FIXED", value |-> 20, cap |-> {},
            min |-> 90, once |-> FALSE, until |-> 2]
Final75 == [code |-> "LAST75", product |-> TRUE, kind |-> "FINAL", value |-> 75, cap |-> {},
            min |-> 0, once |-> FALSE, until |-> 1]
Once50 == [code |-> "FIRST50", product |-> TRUE, kind |-> "PERCENT", value |-> 50, cap |-> {30},
           min |-> 0, once |-> TRUE, until |-> 9]

SomeCoupons == {Percent10, Fixed20, Final75, Once50}

(* A headline, a price, a code, a code and a price. *)
SomeEdits == {[price |-> {}, coupon |-> {}], [price |-> {60}, coupon |-> {}],
              [price |-> {}, coupon |-> {[final |-> {}]}],
              [price |-> {}, coupon |-> {[final |-> {70}]}]}

RunSymmetry == Permutations(Runs)
=============================================================================

------------------------------- MODULE Coupon -------------------------------
(***************************************************************************)
(* coupon-math, CouponService and the curator's coupon: which coupon line a  *)
(* deal gets and what price it announces.  A value that may be absent is a   *)
(* set with at most one element.  Rows other deals' coupons are in are left  *)
(* out, and so are labels.                                                   *)
(***************************************************************************)
EXTENDS Integers, Sequences, FiniteSets, SequencesExt

CONSTANT Hand    \* the code a curator types

The(maybe) == CHOOSE x \in maybe : TRUE

Least(a, b) == IF a < b THEN a ELSE b
AtLeastZero(n) == IF n < 0 THEN 0 ELSE n

(* A row of the table; `once` for first purchase and one per user. *)
Rows == [code : STRING, product : BOOLEAN, kind : {"PERCENT", "FIXED", "FINAL"}, value : Nat,
         cap : SUBSET Nat, min : Nat, once : BOOLEAN, until : Int]

PercentOff(base, c) ==
  LET off == (base * c.value + 50) \div 100
  IN IF c.cap = {} THEN off ELSE Least(off, The(c.cap))

(* applyCoupon *)
Reduced(base, c) ==
  CASE c.kind = "FINAL" -> Least(c.value, base)
    [] c.kind = "PERCENT" -> AtLeastZero(base - PercentOff(base, c))
    [] c.kind = "FIXED" -> AtLeastZero(base - c.value)

(* What a deal shows of a coupon. *)
ViewOf(c, mode, final) ==
  [code |-> c.code, product |-> c.product, mode |-> mode, final |-> final, kind |-> c.kind,
   value |-> c.value, cap |-> c.cap, until |-> c.until]

Usable(c, today) == c.until > today /\ ~c.once

(* computeCouponView *)
Views(c, price, today) ==
  CASE ~Usable(c, today) -> {}
    [] Usable(c, today) /\ c.kind = "FINAL" ->
         IF c.product /\ price > c.value THEN {ViewOf(c, "PRICE", {c.value})} ELSE {}
    [] OTHER ->
         IF price >= c.min THEN {ViewOf(c, "PRICE", {Reduced(price, c)})}
                           ELSE {ViewOf(c, "CTA", {})}

(* Mutant of Beats: the scopes do not matter. *)
BeatsOnPrice(v, best) ==
  v.mode = "PRICE" /\ (best.mode = "CTA" \/ The(v.final) < The(best.final))

(* The product's coupons first, then the lower price; a code without a price
   beats nothing. *)
Beats(v, best) ==
  IF v.product # best.product THEN v.product
  ELSE v.mode = "PRICE" /\ (best.mode = "CTA" \/ The(v.final) < The(best.final))

(* One turn of the loop of resolveForDeal. *)
Better(best, c, price, today) ==
  LET v == Views(c, price, today)
  IN IF v = {} \/ (best # {} /\ ~Beats(The(v), The(best))) THEN best ELSE v

(* resolveForDeal: the rows as the database returns them, one after the
   other. *)
Resolve(rows, price, today) ==
  LET best[n \in 0..Len(rows)] ==
        IF n = 0 THEN {} ELSE Better(best[n - 1], rows[n], price, today)
  IN best[Len(rows)]

(* couponViewFromCuratorEdit: `final` is what the curator typed, if anything. *)
CuratorView(final, price, today) ==
  LET beats == {f \in final : f < price}
  IN [code |-> Hand, product |-> TRUE, mode |-> IF beats = {} THEN "CTA" ELSE "PRICE",
      final |-> beats, kind |-> "FINAL", value |-> IF final = {} THEN 0 ELSE The(final),
      cap |-> {}, until |-> today + 1]

(* couponFinalOver: a FINAL price stands, whatever the base. *)
FinalOver(base, v) == IF v.kind = "FINAL" THEN The(v.final) ELSE Reduced(base, v)

(* couponLine: the price it prints, only below the one printed above it. *)
PrintedFinal(promo, v) ==
  IF v.mode = "PRICE" /\ FinalOver(promo, v) < promo THEN {FinalOver(promo, v)} ELSE {}
=============================================================================

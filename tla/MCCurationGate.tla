--------------------------- MODULE MCCurationGate ---------------------------
(* CurationGate for TLC: two categories, a manual trigger and an approval next
   to the tick, a price that drifts by 3%. *)
EXTENDS CurationGate

CONSTANTS d1, d2, d3, d4, tick, manual, approval

MCDeals    == {d1, d2, d3, d4}
MCRuns     == {tick, manual, approval}
MCCategory == d1 :> "phones" @@ d2 :> "phones" @@ d3 :> "games" @@ d4 :> "games"

Deal(d, price, score, raised, known) ==
  [deal |-> d, price |-> price, score |-> score, raised |-> raised, known |-> known]

Top     == Deal(d2, 100, 3, FALSE, TRUE)
New     == Deal(d2, 100, 3, FALSE, FALSE)
Gray    == Deal(d1, 100, 2, FALSE, TRUE)
Dearer  == Deal(d1, 103, 2, FALSE, TRUE)
Other   == Deal(d3, 100, 1, FALSE, TRUE)
Warm    == Deal(d4, 100, 1, FALSE, TRUE)
Raised  == Deal(d3, 102, 1, TRUE, TRUE)

MCOffers == {<<Top, Gray, Other>>, <<New, Dearer, Warm>>, <<Gray, Raised>>, <<New>>}
=============================================================================

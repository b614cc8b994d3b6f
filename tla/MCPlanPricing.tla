------------------------------ MODULE MCPlanPricing ------------------------------
(* Small instances of PlanPricing for TLC. *)
EXTENDS PlanPricing, TLC

CONSTANTS c1, c2, g1, g2

\* Prices whose tax at 18 and 5 percent has a remainder on either side of a half,
\* one of them not on offer.
OddPrices == {0, 9999, 49903}
TwoRates == {5, 18}
ThirdOff == {[kind |-> "PERCENT_OFF", off |-> 33], [kind |-> "FLAT_OFF", off |-> 9950]}
Symmetry == Permutations({g1, g2})
================================================================================

------------------------------- MODULE MCPurchases -------------------------------
(* Small instances of Purchases for TLC: one seller, passes with a coupon. *)
EXTENDS Purchases

CONSTANTS s1, feature, passA, passB, freePass, c1, r1, r2

OneSeller == [p \in Purchases |-> s1]
Kinds == [p \in Purchases |-> IF p = feature THEN "FEATURE" ELSE "PLAN_PASS"]
\* A feature and passes at a rupee, and a pass for nothing.
Totals == [p \in Purchases |-> IF p = freePass THEN 0 ELSE 100]
PassesC1 == [p \in Purchases |-> IF p \in Passes THEN c1 ELSE NoCoupon]
Ones == [c \in Coupons |-> 1]
Twos == [c \in Coupons |-> 2]
================================================================================

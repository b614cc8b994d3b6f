----------------------------- MODULE MCLeadCredits -----------------------------
(* Small instances of LeadCredits for TLC. *)
EXTENDS LeadCredits, TLC

CONSTANTS s1, m1, d1, free, pro, gold, platinum, r1, r2, r3, r4

OwnedByS1 == [l \in Leads |-> s1]
LadderCredits == [p \in Plans |-> CASE p = free -> 0 [] p = pro -> 1 [] p = gold -> 2 [] OTHER -> 3]
\* A pack adds a credit, so an adjustment only has to take one away.
MinusOne == {-1}
RequestSymmetry == Permutations(Requests)
================================================================================

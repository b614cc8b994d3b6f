----------------------------- MODULE MCSubscriptions -----------------------------
(* Small instances of Subscriptions for TLC. *)
EXTENDS Subscriptions, TLC

CONSTANTS s1, s2, h1, r1, r2, job, pro, gold

\* A monthly Pro, a yearly Gold, and a Gold plan given by hand.
PlanOfValue == [s \in Subs |-> IF s = s1 THEN pro ELSE gold]
RankValue == (pro :> 1) @@ (gold :> 2)

Symmetric == Permutations(Requests \ {Nightly})
================================================================================

----------------------------- MODULE MCLeadDelivery -----------------------------
(* Small instances of LeadDelivery for TLC. *)
EXTENDS LeadDelivery, TLC

CONSTANTS p1, x1, x2, x3, w1, w2

\* x1 and x2 are WhatsApp rows of reachable sellers.
Symmetric == Permutations({x1, x2}) \cup Permutations(Workers)
================================================================================

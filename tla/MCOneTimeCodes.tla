------------------------------ MODULE MCOneTimeCodes ------------------------------
(* Small instances of OneTimeCodes for TLC. *)
EXTENDS OneTimeCodes, TLC

CONSTANTS c1, c2, l1, l2, r1, r2, r3

Interchangeable == Permutations(Requests) \cup Permutations(Codes) \cup Permutations(Links)
================================================================================

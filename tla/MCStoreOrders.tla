------------------------------ MODULE MCStoreOrders ------------------------------
(* Small instances of StoreOrders for TLC. *)
EXTENDS StoreOrders, TLC

CONSTANTS p1, o1, o2, r1, r2, r3

Symmetric == Permutations(Orders) \cup Permutations(Requests)
================================================================================

------------------------------ MODULE MCCatalogue ------------------------------
(* Small instances of Catalogue for TLC. *)
EXTENDS Catalogue, TLC

CONSTANTS p1, p2, r1, r2

Interchangeable == Permutations(Products) \cup Permutations(Requests)
================================================================================

------------------------------ MODULE MCPlanRefunds ------------------------------
(* Small instances of PlanRefunds for TLC. *)
EXTENDS PlanRefunds

CONSTANTS p1, p2, f1, f2, r1, r2
================================================================================

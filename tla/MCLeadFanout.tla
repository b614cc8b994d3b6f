------------------------------ MODULE MCLeadFanout ------------------------------
(* Small instances of LeadFanout for TLC. *)
EXTENDS LeadFanout, TLC

CONSTANTS q1, q2, q3, a, b, c, w1, w2, j1

\* q1 and q2 are the same wish of the same buyer, q3 is another one; q3 came
\* from the page of seller a.
TwoWishes == [q \in Requirements |-> IF q = q3 THEN 2 ELSE 1]
ThreeWishes == [q \in Requirements |-> CASE q = q1 -> 1 [] q = q2 -> 2 [] OTHER -> 3]
FromPageOfA == [q \in Requirements |-> IF q = q3 THEN a ELSE NoSeller]
Everyone == [q \in Requirements |-> Sellers]
OnePerWeek == [s \in Sellers |-> 1]
UncappedA == [s \in Sellers |-> IF s = a THEN Uncapped ELSE 1]
OneADayForB == [s \in Sellers |-> IF s = b THEN 1 ELSE 0]
================================================================================

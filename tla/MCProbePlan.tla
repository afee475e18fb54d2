----------------------------- MODULE MCProbePlan -----------------------------
(* A network of two addresses whose order as numbers (9, 10) is not that of *)
(* their texts, one address of loopback and one outside of the scope.       *)
EXTENDS ProbePlan

Text == [a \in Addresses |-> IF a = 9 THEN 12 ELSE a]
=============================================================================

---------------------------- MODULE MCZeroKnowledge ----------------------------
(* Model values for the run of ZeroKnowledge. *)
EXTENDS ZeroKnowledge

\* Two keys, and other coefficients of which one is zero.
TwoPolynomials ==
  {[i \in Indices |-> IF i = 0 THEN key ELSE IF i = 1 THEN 5 ELSE 0] : key \in {3, Q - 1}}
=============================================================================

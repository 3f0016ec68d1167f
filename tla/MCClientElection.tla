---------------------------- MODULE MCClientElection ----------------------------
(* Model values for the runs of ClientElection. *)
EXTENDS ClientElection, TLC

CONSTANTS g1, g2, g3

\* One guardian may lose its credentials and generate others.
OneAgain == (g1 :> 2) @@ (g2 :> 1) @@ (g3 :> 1)

\* Nobody generates credentials twice.
OnlyOnce == [g \in Guardians |-> 1]
=============================================================================

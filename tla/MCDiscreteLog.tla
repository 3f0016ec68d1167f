----------------------------- MODULE MCDiscreteLog -----------------------------
(* Model values for the runs of DiscreteLog. *)
EXTENDS DiscreteLog, TLC

Symmetry == Permutations(Threads)
=============================================================================

----------------------------- MODULE MCKeyCeremony -----------------------------
(* Model values for the run of KeyCeremony. *)
EXTENDS KeyCeremony, TLC

Symmetry == Permutations(Guardians)

\* Bound: one guardian is created anew, and from then on the first two rounds are
\* followed; KeyCeremonyRounds has the third.
RenewedInFirstRounds ==
  LET renewed == {g \in Guardians : key[g] > 1}
  IN  renewed # {} =>
        /\ Cardinality(renewed) = 1
        /\ \A p \in Pairs : inFlight[p] = NoVerification /\ p \notin Verified \union challenged
=============================================================================

------------------------------ MODULE MCDecryption ------------------------------
(* Model values for the runs of DecryptionMediator and DecryptionCeremony. *)
EXTENDS DecryptionCeremony, TLC

Symmetry == Permutations(Guardians) \union Permutations(Ballots)
=============================================================================

-------------------------- MODULE MCKeyCeremonyRounds --------------------------
(* Model values for the run of KeyCeremonyRounds. *)
EXTENDS KeyCeremonyRounds, TLC
=============================================================================

-------------------------- MODULE ThresholdDecryption --------------------------
(***************************************************************************)
(* What decryption by a quorum promises: guardians come forward, an item   *)
(* is opened only after a quorum of them has, and opening it yields its    *)
(* true content, which stands from then on.  Something wrong may come out  *)
(* instead only if the ceremony was disturbed.                             *)
(***************************************************************************)
CONSTANTS
  Guardians,
  Quorums,   \* the sets of guardians that can open an item together
  Items

VARIABLES
  present,   \* guardians that came forward
  opened,    \* what is known of each item
  disturbed  \* whether the ceremony went against its preconditions

vars == <<present, opened, disturbed>>

Init ==
  /\ present = {}
  /\ opened = [i \in Items |-> "none"]
  /\ disturbed \in BOOLEAN

Join(g) ==
  /\ present' = present \union {g}
  /\ disturbed => disturbed'
  /\ UNCHANGED opened

Disturb ==
  /\ disturbed'
  /\ UNCHANGED <<present, opened>>

QuorumIsPresent == \E Q \in Quorums : Q \subseteq present

Open(i) ==
  /\ QuorumIsPresent
  /\ opened' = [opened EXCEPT ![i] = "decrypted"]
  /\ UNCHANGED <<present, disturbed>>

Spoil(i) ==
  /\ QuorumIsPresent
  /\ disturbed
  /\ opened[i] # "decrypted"
  /\ opened' = [opened EXCEPT ![i] = "garbage"]
  /\ UNCHANGED <<present, disturbed>>

Next ==
  \/ \E g \in Guardians : Join(g)
  \/ Disturb
  \/ \E i \in Items : Open(i) \/ Spoil(i)

Spec == Init /\ [][Next]_vars
=============================================================================

-------------------------- MODULE DecryptionMediator --------------------------
(***************************************************************************)
(* electionguard/decryption_mediator.py.  Guardians that are present       *)
(* announce with their decryption shares of the tally and of the spoiled   *)
(* ballots; the others are announced as missing, and the present ones send *)
(* compensated shares on their behalf, from which the mediator             *)
(* reconstructs the missing shares.  With one share per guardian the tally *)
(* or ballot is decrypted.                                                 *)
(*                                                                         *)
(* Every method works alike on the tally and on a ballot, so both are      *)
(* "items".  A share is abstracted to how it came about.  The product of   *)
(* the compensated shares of the guardians in parts, each raised to its    *)
(* Lagrange coefficient over the guardians in over, is the missing share   *)
(* exactly when the two sets agree and hold at least a quorum; the module  *)
(* SecretSharing checks this arithmetic on a small field.                  *)
(***************************************************************************)
EXTENDS Integers, FiniteSets

CONSTANTS
  Guardians,  \* the guardians of the election context
  Quorum,     \* CiphertextElectionContext.quorum
  Ballots,    \* the spoiled ballots to decrypt
  Tally       \* the ciphertext tally

ASSUME GuardiansAssumption ==
  /\ IsFiniteSet(Guardians)
  /\ Quorum \in 1 .. Cardinality(Guardians)
ASSUME ItemsAssumption == Tally \notin Ballots

VARIABLES
  available,    \* keys of _available_guardians
  missing,      \* keys of _missing_guardians
  shares,       \* _tally_shares and _ballot_shares, by item and guardian
  compensated,  \* keys of _compensated_tally_shares and _compensated_ballot_shares
  plaintext     \* what the last get_plaintext_* returned for the item

vars == <<available, missing, shares, compensated, plaintext>>

Items == Ballots \union {Tally}
NumberOfGuardians == Cardinality(Guardians)

\* GuardianPair: the compensating guardian and the missing one.
Pairs == {p \in Guardians \X Guardians : p[1] # p[2]}

Shares == [kind : {"none", "own", "reconstructed"},
           parts : SUBSET Guardians, over : SUBSET Guardians]
NoShare == [kind |-> "none", parts |-> {}, over |-> {}]
OwnShare == [kind |-> "own", parts |-> {}, over |-> {}]
Reconstructed(parts, over) ==
  [kind |-> "reconstructed", parts |-> parts, over |-> over]

\* The share is the guardian's true partial decryption of the item.
IsTrue(share) ==
  \/ share.kind = "own"
  \/ /\ share.kind = "reconstructed"
     /\ share.parts = share.over
     /\ Cardinality(share.over) >= Quorum

TypeOK ==
  /\ available \in SUBSET Guardians
  /\ missing \in SUBSET Guardians
  /\ shares \in [Items -> [Guardians -> Shares]]
  /\ compensated \in [Items -> SUBSET Pairs]
  /\ plaintext \in [Items -> {"none", "decrypted", "garbage"}]

\* Mutant of AnnouncementComplete: the quorum is not asked for.
EveryoneReported == Cardinality(available) + Cardinality(missing) = NumberOfGuardians

\* announcement_complete: two counts, never the guardians themselves
AnnouncementComplete ==
  /\ Cardinality(available) >= Quorum
  /\ Cardinality(available) + Cardinality(missing) = NumberOfGuardians

Present(i) == {g \in Guardians : shares[i][g] # NoShare}
\* Mutant of ReadyToDecrypt: a strict comparison.
MoreThanReady(i) == Cardinality(Present(i)) > NumberOfGuardians

ReadyToDecrypt(i) == Cardinality(Present(i)) = NumberOfGuardians

\* _filter_by_missing_guardian
Parts(i, m) == {g \in Guardians : <<g, m>> \in compensated[i]}

-----------------------------------------------------------------------------
Init ==
  /\ available = {}
  /\ missing = {}
  /\ shares = [i \in Items |-> [g \in Guardians |-> NoShare]]
  /\ compensated = [i \in Items |-> {}]
  /\ plaintext = [i \in Items |-> "none"]

\* Mutant of Announce: a guardian reported missing before stays missing.
AnnounceStillMissing(g, bs) ==
  /\ g \notin available
  /\ shares' = [i \in Items |->
       IF i \in bs \union {Tally} THEN [shares[i] EXCEPT ![g] = OwnShare]
       ELSE shares[i]]
  /\ available' = available \union {g}
  /\ UNCHANGED <<missing, compensated, plaintext>>

\* announce with a share of the tally and of the ballots in bs: a reconstructed
\* share of the same guardian is replaced.  A second announcement is ignored.
Announce(g, bs) ==
  /\ g \notin available
  /\ shares' = [i \in Items |->
       IF i \in bs \union {Tally} THEN [shares[i] EXCEPT ![g] = OwnShare]
       ELSE shares[i]]
  /\ available' = available \union {g}
  /\ missing' = missing \ {g}
  /\ UNCHANGED <<compensated, plaintext>>

AnnounceMissing(g) ==
  /\ g \notin available
  /\ missing' = missing \union {g}
  /\ UNCHANGED <<available, shares, compensated, plaintext>>

\* validate_missing_guardians with keys that agree with those already reported
ValidateMissing(gs) ==
  /\ missing' = missing \union (gs \ available)
  /\ UNCHANGED <<available, shares, compensated, plaintext>>

\* receive_tally_compensation_share, receive_ballot_compensation_shares:
\* neither asks whether the sender is available or the other one missing.
ReceiveCompensation(g, m, i) ==
  /\ g # m
  /\ compensated' = [compensated EXCEPT ![i] = @ \union {<<g, m>>}]
  /\ UNCHANGED <<available, missing, shares, plaintext>>

\* Mutants of ToReconstruct: everyone that was compensated for, and no ballots.
EveryoneCompensatedFor(i) == {m \in Guardians : Parts(i, m) # {}}
OnlyOfTheTally(i) == IF i # Tally THEN {} ELSE {m \in missing : shares[i][m] = NoShare}

\* The missing guardians whose share of the item has not been reconstructed.
\* A ballot for which no guardian gave a share is skipped.
ToReconstruct(i) ==
  IF i # Tally /\ Present(i) = {} THEN {}
  ELSE {m \in missing : shares[i][m] = NoShare}

\* Mutant of Raises: a coefficient that is not found is skipped.
SkipsUnknown(i, m) == i # Tally /\ compensated[i] = {}

\* The lookup of a Lagrange coefficient raises for a compensating guardian that
\* is not available, the lookup of the ballot when nobody compensated for it.
Raises(i, m) ==
  \/ ~(Parts(i, m) \subseteq available)
  \/ i # Tally /\ compensated[i] = {}

WithReconstructed(i, ms) ==
  [shares EXCEPT ![i] = [g \in Guardians |->
     IF g \in ms THEN Reconstructed(Parts(i, g), available) ELSE @[g]]]

Failing(i) == {m \in ToReconstruct(i) : Raises(i, m)}

\* reconstruct_shares_for_tally, reconstruct_shares_for_ballots: an exception
\* leaves the shares reconstructed before it, in the order of the dictionary.
Reconstruct(i) ==
  /\ \E ms \in SUBSET (ToReconstruct(i) \ Failing(i)) :
       /\ Failing(i) = {} => ms = ToReconstruct(i)
       /\ shares' = WithReconstructed(i, ms)
  /\ UNCHANGED <<available, missing, compensated, plaintext>>

\* get_plaintext_tally, get_plaintext_ballots.  The shares' proofs are not
\* checked (suppress_validity_check), so one wrong share spoils the result.
GetPlaintext(i) ==
  /\ AnnouncementComplete
  /\ ReadyToDecrypt(i)
  /\ plaintext' = [plaintext EXCEPT ![i] =
       IF \A g \in Present(i) : IsTrue(shares[i][g]) THEN "decrypted" ELSE "garbage"]
  /\ UNCHANGED <<available, missing, shares, compensated>>

Next ==
  \/ \E g \in Guardians, bs \in SUBSET Ballots : Announce(g, bs)
  \/ \E g \in Guardians : AnnounceMissing(g)
  \/ \E gs \in SUBSET Guardians : ValidateMissing(gs)
  \/ \E g, m \in Guardians, i \in Items : ReceiveCompensation(g, m, i)
  \/ \E i \in Items : Reconstruct(i) \/ GetPlaintext(i)

Spec == Init /\ [][Next]_vars

-----------------------------------------------------------------------------
(* Properties. *)

\* The counts of announcement_complete account for every guardian: nobody is
\* both available and missing, whatever the order in which guardians are
\* reported missing, validated and announced.
EveryoneAccountedFor ==
  /\ available \intersect missing = {}
  /\ AnnouncementComplete => available \union missing = Guardians

\* Once a guardian has given its own share, no reconstruction replaces it:
\* "Share already reconstructed" also protects a guardian that was reported
\* missing after a compensated share was computed for it.
OwnSharesKept ==
  [][\A i \in Items, g \in Guardians :
       shares[i][g] = OwnShare => shares'[i][g] = OwnShare]_vars
=============================================================================

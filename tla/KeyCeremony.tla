------------------------------ MODULE KeyCeremony ------------------------------
(***************************************************************************)
(* The key ceremony of electionguard/key_ceremony_mediator.py and          *)
(* electionguard/guardian.py: guardians announce their election public     *)
(* keys to a mediator, exchange encrypted partial key backups through it,  *)
(* report whether each backup lies on the polynomial its owner committed   *)
(* to, and the mediator combines the announced keys into the joint key.    *)
(*                                                                         *)
(* A key pair with its polynomial is the number of times its guardian has  *)
(* generated one; a backup is the polynomial its coordinate was taken from *)
(* and the receiver's key it is encrypted to.  These two numbers decide    *)
(* everything the code asks of a backup: it decrypts when it is encrypted  *)
(* to the receiver's key pair, and it verifies when its polynomial is the  *)
(* one the saved commitments came from.                                    *)
(***************************************************************************)
EXTENDS Integers, FiniteSets

CONSTANTS
  Guardians,          \* ids of the guardians that may take part
  NumberOfGuardians,  \* CeremonyDetails.number_of_guardians
  MaxKey,             \* bound: key pairs a guardian generates
  MaxChallenges,      \* bound: backups that are challenged
  MaxResets           \* bound: calls of KeyCeremonyMediator.reset

ASSUME GuardiansAssumption ==
  /\ IsFiniteSet(Guardians)
  /\ NumberOfGuardians \in 1 .. Cardinality(Guardians)
ASSUME BoundsAssumption ==
  /\ MaxKey \in Nat \ {0}
  /\ MaxChallenges \in Nat
  /\ MaxResets \in Nat

VARIABLES
  key,              \* Guardian._election_keys: generation of g's key pair
  guardianKeys,     \* Guardian._guardian_election_public_keys
  backupsToShare,   \* Guardian._backups_to_share, by designated guardian
  guardianBackups,  \* Guardian._guardian_election_partial_key_backups, by owner
  inFlight,         \* verifications computed and not yet given to the mediator
  electionPublicKeys,                  \* mediator, round 1
  electionPartialKeyBackups,           \* mediator, round 2
  electionPartialKeyVerifications,     \* mediator, round 3
  jointKey,         \* the keys that the last published joint key combines
  challenged,       \* pairs whose challenge the mediator has verified
  resets            \* number of resets so far

guardianVars == <<key, guardianKeys, backupsToShare, guardianBackups>>
mediatorVars == <<electionPublicKeys, electionPartialKeyBackups,
                  electionPartialKeyVerifications>>
vars == <<guardianVars, inFlight, mediatorVars, jointKey, challenged, resets>>

(***************************************************************************)
(* Data.  NoKey, NoBackup and NoVerification stand for an absent           *)
(* dictionary entry.                                                       *)
(***************************************************************************)
NoKey == 0
Keys == 1 .. MaxKey

Backups == [polynomial : Keys, encryptedTo : Keys]
NoBackup == [polynomial |-> NoKey, encryptedTo |-> NoKey]

\* ElectionPartialKeyVerification.  subject is the polynomial the verified
\* value was taken from; the code does not store it and no action reads it.
Verifications == [verified : BOOLEAN, subject : Keys]
NoVerification == [verified |-> FALSE, subject |-> NoKey]

\* GuardianPair: owner of the key, designated receiver of the backup.
Pairs == {p \in Guardians \X Guardians : p[1] # p[2]}

TypeOK ==
  /\ key \in [Guardians -> Keys]
  /\ guardianKeys \in [Guardians -> [Guardians -> Keys \union {NoKey}]]
  /\ backupsToShare \in [Guardians -> [Guardians -> Backups \union {NoBackup}]]
  /\ guardianBackups \in [Guardians -> [Guardians -> Backups \union {NoBackup}]]
  /\ inFlight \in [Pairs -> Verifications \union {NoVerification}]
  /\ electionPublicKeys \in [Guardians -> Keys \union {NoKey}]
  /\ electionPartialKeyBackups \in [Pairs -> Backups \union {NoBackup}]
  /\ electionPartialKeyVerifications
       \in [Pairs -> Verifications \union {NoVerification}]
  /\ jointKey \in [Guardians -> Keys \union {NoKey}]
  /\ challenged \in SUBSET Pairs
  /\ resets \in 0 .. MaxResets

(***************************************************************************)
(* The mediator's predicates.  The code counts dictionary entries; it      *)
(* never asks whose entries they are.                                      *)
(***************************************************************************)
Announced == {g \in Guardians : electionPublicKeys[g] # NoKey}
Received == {p \in Pairs : electionPartialKeyBackups[p] # NoBackup}
Verified == {p \in Pairs : electionPartialKeyVerifications[p] # NoVerification}

\* Mutant of RequiredPairs: a backup for oneself is expected.
RequiredPairsSelf == NumberOfGuardians * NumberOfGuardians

RequiredPairs == (NumberOfGuardians - 1) * NumberOfGuardians

AllGuardiansAnnounced == Cardinality(Announced) = NumberOfGuardians

AllBackupsAvailable ==
  /\ AllGuardiansAnnounced
  /\ Cardinality(Received) = RequiredPairs

FailedVerifications ==
  {p \in Verified : ~electionPartialKeyVerifications[p].verified}

\* Mutant of AllBackupsVerified: only failures are looked for.
NoneFailed == AllBackupsAvailable /\ FailedVerifications = {}

\* get_verification_state().all_verified
AllBackupsVerified ==
  /\ AllBackupsAvailable
  /\ Cardinality(Verified) = RequiredPairs
  /\ FailedVerifications = {}

\* share_backups(g): the guard tests the bound method all_backups_available
\* without calling it, so only the announcement is tested, and a backup that
\* has not arrived makes the lookup of the pair raise.
ShareBackups(g) ==
  IF ~AllGuardiansAnnounced THEN "None"
  ELSE IF \A h \in Announced \ {g} : <<h, g>> \in Received THEN "backups"
  ELSE "KeyError"

-----------------------------------------------------------------------------
OnlyOwnKey(g, k) == [h \in Guardians |-> IF h = g THEN k ELSE NoKey]

Init ==
  /\ key = [g \in Guardians |-> 1]
  /\ guardianKeys = [g \in Guardians |-> OnlyOwnKey(g, 1)]
  /\ backupsToShare = [g \in Guardians |-> [h \in Guardians |-> NoBackup]]
  /\ guardianBackups = [g \in Guardians |-> [h \in Guardians |-> NoBackup]]
  /\ inFlight = [p \in Pairs |-> NoVerification]
  /\ electionPublicKeys = [g \in Guardians |-> NoKey]
  /\ electionPartialKeyBackups = [p \in Pairs |-> NoBackup]
  /\ electionPartialKeyVerifications = [p \in Pairs |-> NoVerification]
  /\ jointKey = [g \in Guardians |-> NoKey]
  /\ challenged = {}
  /\ resets = 0

\* A guardian is created again under its id, with a new key pair: everything
\* the previous object had received is gone.
Regenerate(g) ==
  /\ key[g] < MaxKey
  /\ key' = [key EXCEPT ![g] = @ + 1]
  /\ guardianKeys' = [guardianKeys EXCEPT ![g] = OnlyOwnKey(g, key[g] + 1)]
  /\ backupsToShare' =
       [backupsToShare EXCEPT ![g] = [h \in Guardians |-> NoBackup]]
  /\ guardianBackups' =
       [guardianBackups EXCEPT ![g] = [h \in Guardians |-> NoBackup]]
  /\ UNCHANGED <<inFlight, mediatorVars, jointKey, challenged, resets>>

-----------------------------------------------------------------------------
(* Round 1. *)

\* Mutant of Announce: the backups a guardian sent go with its old key.
AnnounceAnew(g) ==
  /\ electionPublicKeys' = [electionPublicKeys EXCEPT ![g] = key[g]]
  /\ electionPartialKeyBackups' =
       [p \in Pairs |-> IF p[1] = g THEN NoBackup ELSE electionPartialKeyBackups[p]]
  /\ UNCHANGED <<guardianVars, inFlight, electionPartialKeyVerifications, jointKey,
                 challenged, resets>>

\* mediator.announce(g.share_key())
Announce(g) ==
  /\ electionPublicKeys' = [electionPublicKeys EXCEPT ![g] = key[g]]
  /\ UNCHANGED <<guardianVars, inFlight, electionPartialKeyBackups,
                 electionPartialKeyVerifications, jointKey, challenged, resets>>

\* g saves every key of mediator.share_announced(g)
SaveAnnouncedKeys(g) ==
  /\ AllGuardiansAnnounced
  /\ guardianKeys' = [guardianKeys EXCEPT ![g] =
       [h \in Guardians |-> IF h \in Announced \ {g}
                              THEN electionPublicKeys[h] ELSE @[h]]]
  /\ UNCHANGED <<key, backupsToShare, guardianBackups, inFlight, mediatorVars,
                 jointKey, challenged, resets>>

-----------------------------------------------------------------------------
(* Round 2. *)

\* A backup for every key the guardian holds, its own included.
Generated(g) ==
  [h \in Guardians |->
     IF guardianKeys[g][h] = NoKey THEN backupsToShare[g][h]
     ELSE [polynomial |-> key[g], encryptedTo |-> guardianKeys[g][h]]]

GenerateBackups(g) ==
  /\ backupsToShare' = [backupsToShare EXCEPT ![g] = Generated(g)]
  /\ UNCHANGED <<key, guardianKeys, guardianBackups, inFlight, mediatorVars,
                 jointKey, challenged, resets>>

\* The mediator's backups with those of g.  A later backup replaces an earlier
\* one; its verification stays.
WithBackups(g, backups) ==
  [p \in Pairs |-> IF p[1] = g /\ backups[p[2]] # NoBackup
                     THEN backups[p[2]] ELSE electionPartialKeyBackups[p]]

\* mediator.receive_backups(g.share_election_partial_key_backups())
ReceiveBackups(g) ==
  /\ AllGuardiansAnnounced
  /\ electionPartialKeyBackups' = WithBackups(g, backupsToShare[g])
  /\ UNCHANGED <<guardianVars, inFlight, electionPublicKeys,
                 electionPartialKeyVerifications, jointKey, challenged, resets>>

\* g saves every backup of mediator.share_backups(g)
SaveBackups(g) ==
  /\ ShareBackups(g) = "backups"
  /\ guardianBackups' = [guardianBackups EXCEPT ![g] =
       [h \in Guardians |-> IF h \in Announced \ {g}
                              THEN electionPartialKeyBackups[<<h, g>>]
                              ELSE @[h]]]
  /\ UNCHANGED <<key, guardianKeys, backupsToShare, inFlight, mediatorVars,
                 jointKey, challenged, resets>>

-----------------------------------------------------------------------------
(* Round 3. *)

\* designated guardian d verifies the backup of owner o.  It raises, and
\* nothing changes, when a backup or a key is missing or the backup was
\* encrypted to another key pair than d's.
CanVerify(o, d) ==
  /\ guardianBackups[d][o] # NoBackup
  /\ guardianKeys[d][o] # NoKey
  /\ guardianBackups[d][o].encryptedTo = key[d]

Verification(o, d) ==
  [verified |-> guardianBackups[d][o].polynomial = guardianKeys[d][o],
   subject |-> guardianBackups[d][o].polynomial]

VerifyBackup(o, d) ==
  /\ inFlight[<<o, d>>] = NoVerification
  /\ CanVerify(o, d)
  /\ inFlight' = [inFlight EXCEPT ![<<o, d>>] = Verification(o, d)]
  /\ UNCHANGED <<guardianVars, mediatorVars, jointKey, challenged, resets>>

\* mediator.receive_backup_verifications: dropped until all backups are there
ReceiveVerification(p) ==
  /\ inFlight[p] # NoVerification
  /\ inFlight' = [inFlight EXCEPT ![p] = NoVerification]
  /\ electionPartialKeyVerifications' =
       IF AllBackupsAvailable
       THEN [electionPartialKeyVerifications EXCEPT ![p] = inFlight[p]]
       ELSE electionPartialKeyVerifications
  /\ UNCHANGED <<guardianVars, electionPublicKeys, electionPartialKeyBackups,
                 jointKey, challenged, resets>>

-----------------------------------------------------------------------------
(* Round 4 and publication. *)

\* Mutant of VerifyChallenge: the key's owner may be the designated guardian.
VerifyAnyChallenge(o, d) ==
  /\ Cardinality(challenged \union {<<o, d>>}) <= MaxChallenges
  /\ backupsToShare[o][d] # NoBackup
  /\ electionPartialKeyVerifications' =
       [electionPartialKeyVerifications EXCEPT ![<<o, d>>] =
          [verified |-> TRUE, subject |-> key[o]]]
  /\ challenged' = challenged \union {<<o, d>>}
  /\ UNCHANGED <<guardianVars, inFlight, electionPublicKeys,
                 electionPartialKeyBackups, jointKey, resets>>

\* mediator.verify_challenge(o.publish_election_backup_challenge(d)).  The
\* challenge carries the owner's current coordinate and the commitments of the
\* same polynomial, so it verifies; no round is required to be complete.
VerifyChallenge(o, d) ==
  /\ o # d
  /\ Cardinality(challenged \union {<<o, d>>}) <= MaxChallenges
  /\ backupsToShare[o][d] # NoBackup
  /\ electionPartialKeyVerifications' =
       [electionPartialKeyVerifications EXCEPT ![<<o, d>>] =
          [verified |-> TRUE, subject |-> key[o]]]
  /\ challenged' = challenged \union {<<o, d>>}
  /\ UNCHANGED <<guardianVars, inFlight, electionPublicKeys,
                 electionPartialKeyBackups, jointKey, resets>>

PublishJointKey ==
  /\ AllBackupsVerified
  /\ jointKey' = electionPublicKeys
  /\ UNCHANGED <<guardianVars, inFlight, mediatorVars, challenged, resets>>

\* mediator.reset: the guardians keep what they have.
Reset ==
  /\ resets < MaxResets
  /\ resets' = resets + 1
  /\ electionPublicKeys' = [g \in Guardians |-> NoKey]
  /\ electionPartialKeyBackups' = [p \in Pairs |-> NoBackup]
  /\ electionPartialKeyVerifications' = [p \in Pairs |-> NoVerification]
  /\ UNCHANGED <<guardianVars, inFlight, jointKey, challenged>>

GuardianStep(g) ==
  \/ Announce(g)
  \/ SaveAnnouncedKeys(g)
  \/ GenerateBackups(g)
  \/ ReceiveBackups(g)
  \/ SaveBackups(g)

Next ==
  \/ \E g \in Guardians : GuardianStep(g) \/ Regenerate(g)
  \/ \E o, d \in Guardians : o # d /\ VerifyBackup(o, d)
  \/ \E p \in Pairs : ReceiveVerification(p)
  \/ \E o, d \in Guardians : VerifyChallenge(o, d)
  \/ PublishJointKey
  \/ Reset

Spec == Init /\ [][Next]_vars

-----------------------------------------------------------------------------
(* Properties. *)

NoJointKey == [g \in Guardians |-> NoKey]

\* While every guardian still has its first key pair, a joint key that was
\* published can be recovered without any one guardian: each other guardian
\* holds a backup of it that decrypts and lies on its polynomial, or the
\* coordinate was made public by a challenge (publish_joint_key).
JointKeyRecoverable ==
  (jointKey # NoJointKey /\ \A g \in Guardians : key[g] = 1) =>
    /\ \A g \in Guardians : jointKey[g] = 1
    /\ \A p \in Pairs :
         \/ guardianBackups[p[2]][p[1]] = [polynomial |-> 1, encryptedTo |-> 1]
         \/ p \in challenged

\* Only a reset takes the ceremony back: no announcement, backup or
\* verification, repeated or late, makes the backups unavailable again.
BackupsStayAvailable ==
  [][AllBackupsAvailable /\ resets' = resets => AllBackupsAvailable']_vars
=============================================================================

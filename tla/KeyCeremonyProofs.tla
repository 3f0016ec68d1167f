--------------------------- MODULE KeyCeremonyProofs ---------------------------
(***************************************************************************)
(* Proofs about KeyCeremony and KeyCeremonyRounds for any number of        *)
(* guardians, key pairs, challenges, resets and ceremonies.                *)
(***************************************************************************)
EXTENDS KeyCeremonyRounds, FiniteSetTheorems, TLAPS

(***************************************************************************)
(* Type correctness.                                                       *)
(***************************************************************************)

\* A key is never the absent key, so a backup is never the absent backup and a
\* verification never the absent verification.
LEMMA AbsentIsDistinct ==
  /\ NoKey \notin Keys
  /\ NoBackup \notin Backups
  /\ NoVerification \notin Verifications
BY BoundsAssumption DEF NoKey, Keys, NoBackup, Backups, NoVerification, Verifications

LEMMA InitTypeOK == Init => TypeOK
<1> SUFFICES ASSUME Init PROVE TypeOK
  OBVIOUS
<1>1. 1 \in Keys
  BY BoundsAssumption DEF Keys
<1>2. \A g \in Guardians : OnlyOwnKey(g, 1) \in [Guardians -> Keys \union {NoKey}]
  BY <1>1 DEF OnlyOwnKey
<1>3. QED
  BY <1>1, <1>2, BoundsAssumption DEF Init, TypeOK

LEMMA TypeStep == TypeOK /\ [Next]_vars => TypeOK'
<1> SUFFICES ASSUME TypeOK, [Next]_vars PROVE TypeOK'
  OBVIOUS
<1> USE DEF TypeOK
<1>1. ASSUME NEW g \in Guardians, Announce(g) PROVE TypeOK'
  BY <1>1 DEF Announce, guardianVars
<1>2. ASSUME NEW g \in Guardians, SaveAnnouncedKeys(g) PROVE TypeOK'
  BY <1>2 DEF SaveAnnouncedKeys, mediatorVars
<1>3. ASSUME NEW g \in Guardians, GenerateBackups(g) PROVE TypeOK'
  <2>1. \A h \in Guardians : guardianKeys[g][h] # NoKey =>
          [polynomial |-> key[g], encryptedTo |-> guardianKeys[g][h]] \in Backups
    BY DEF Backups
  <2>2. QED
    BY <1>3, <2>1 DEF GenerateBackups, Generated, mediatorVars
<1>4. ASSUME NEW g \in Guardians, ReceiveBackups(g) PROVE TypeOK'
  <2>1. \A p \in Pairs : p[2] \in Guardians
    BY DEF Pairs
  <2>2. QED
    BY <1>4, <2>1 DEF ReceiveBackups, WithBackups, guardianVars
<1>5. ASSUME NEW g \in Guardians, SaveBackups(g) PROVE TypeOK'
  <2>1. \A h \in Announced \ {g} : <<h, g>> \in Pairs
    BY DEF Announced, Pairs
  <2>2. QED
    BY <1>5, <2>1 DEF SaveBackups, mediatorVars
<1>6. ASSUME NEW g \in Guardians, Regenerate(g) PROVE TypeOK'
  <2>1. key[g] + 1 \in Keys
    BY <1>6, BoundsAssumption DEF Regenerate, Keys
  <2>2. OnlyOwnKey(g, key[g] + 1) \in [Guardians -> Keys \union {NoKey}]
    BY <2>1 DEF OnlyOwnKey
  <2>3. QED
    BY <1>6, <2>1, <2>2 DEF Regenerate, mediatorVars
<1>7. ASSUME NEW o \in Guardians, NEW d \in Guardians, o # d, VerifyBackup(o, d)
      PROVE  TypeOK'
  <2>1. [verified |-> guardianBackups[d][o].polynomial = guardianKeys[d][o],
         subject |-> guardianBackups[d][o].polynomial] \in Verifications
    BY <1>7 DEF VerifyBackup, CanVerify, Verifications, Backups
  <2>2. QED
    BY <1>7, <2>1 DEF VerifyBackup, Verification, guardianVars, mediatorVars
<1>8. ASSUME NEW p \in Pairs, ReceiveVerification(p) PROVE TypeOK'
  BY <1>8 DEF ReceiveVerification, guardianVars
<1>9. ASSUME NEW o \in Guardians, NEW d \in Guardians, VerifyChallenge(o, d)
      PROVE  TypeOK'
  <2>1. <<o, d>> \in Pairs /\ [verified |-> TRUE, subject |-> key[o]] \in Verifications
    BY <1>9 DEF VerifyChallenge, Pairs, Verifications
  <2>2. QED
    BY <1>9, <2>1 DEF VerifyChallenge, guardianVars
<1>10. CASE PublishJointKey
  BY <1>10 DEF PublishJointKey, guardianVars, mediatorVars
<1>11. CASE Reset
  BY <1>11, BoundsAssumption DEF Reset, guardianVars
<1>12. CASE UNCHANGED vars
  BY <1>12 DEF vars, guardianVars, mediatorVars
<1>13. QED
  BY <1>1, <1>2, <1>3, <1>4, <1>5, <1>6, <1>7, <1>8, <1>9, <1>10, <1>11, <1>12
     DEF Next, GuardianStep

\* Every call of the ceremony keeps the guardians' and the mediator's
\* dictionaries well formed.
THEOREM TypeCorrect == Spec => []TypeOK
<1>1. QED
  BY InitTypeOK, TypeStep, PTL DEF Spec

(***************************************************************************)
(* Counting entries.  The mediator compares the number of its entries with *)
(* n * (n - 1); with n guardians there are exactly that many ordered pairs.*)
(***************************************************************************)

PairsOf(P) == {p \in P \X P : p[1] # p[2]}

\* Among finitely many guardians there are n * (n - 1) ordered pairs.
LEMMA PairsCardinality ==
  ASSUME NEW P, IsFiniteSet(P)
  PROVE  /\ IsFiniteSet(PairsOf(P))
         /\ Cardinality(PairsOf(P)) = Cardinality(P) * Cardinality(P) - Cardinality(P)
<1> DEFINE Diagonal == {p \in P \X P : p[1] = p[2]}
           f == [g \in P |-> <<g, g>>]
<1>1. IsFiniteSet(P \X P) /\ Cardinality(P \X P) = Cardinality(P) * Cardinality(P)
  BY FS_Product
<1>2. f \in Bijection(P, Diagonal)
  <2>1. f \in [P -> Diagonal]
    OBVIOUS
  <2>2. \A a, b \in P : f[a] = f[b] => a = b
    OBVIOUS
  <2>3. \A p \in Diagonal : \E g \in P : f[g] = p
    OBVIOUS
  <2>4. QED
    BY <2>1, <2>2, <2>3 DEF Bijection, Injection, Surjection, IsInjective
<1>3. Cardinality(Diagonal) = Cardinality(P)
  BY <1>2, FS_Bijection DEF ExistsBijection
<1>4. PairsOf(P) = (P \X P) \ Diagonal
  BY DEF PairsOf
<1>5. (P \X P) \cap Diagonal = Diagonal
  OBVIOUS
<1> HIDE DEF Diagonal, f
<1>6. /\ IsFiniteSet((P \X P) \ Diagonal)
      /\ Cardinality((P \X P) \ Diagonal) =
           Cardinality(P \X P) - Cardinality((P \X P) \cap Diagonal)
  BY <1>1, FS_Difference
<1>7. QED
  BY <1>1, <1>3, <1>4, <1>5, <1>6

\* For as many guardians as the ceremony is meant for, that is what is required.
LEMMA PairsAreRequired ==
  ASSUME NEW P \in SUBSET Guardians, Cardinality(P) = NumberOfGuardians
  PROVE  IsFiniteSet(PairsOf(P)) /\ Cardinality(PairsOf(P)) = RequiredPairs
<1>1. IsFiniteSet(P) /\ Cardinality(P) \in Nat
  BY FS_Subset, FS_CardinalityType, GuardiansAssumption
<1>2. QED
  BY <1>1, PairsCardinality DEF RequiredPairs

\* With exactly the configured number of guardians, a set of pairs that has the
\* required number of members is the set of all pairs.
LEMMA RequiredMeansAll ==
  ASSUME Cardinality(Guardians) = NumberOfGuardians,
         NEW S \in SUBSET Pairs, Cardinality(S) = RequiredPairs
  PROVE  S = Pairs
<1>1. Pairs = PairsOf(Guardians)
  BY DEF Pairs, PairsOf
<1>2. QED
  BY <1>1, PairsAreRequired, FS_Subset

\* Then the counts of all_backups_available and all_verified mean that every
\* guardian and every pair of guardians is there.
LEMMA CountsMeanComplete ==
  ASSUME Cardinality(Guardians) = NumberOfGuardians
  PROVE  /\ AllBackupsAvailable => Announced = Guardians /\ Received = Pairs
         /\ AllBackupsVerified => Verified = Pairs
<1>1. AllGuardiansAnnounced => Announced = Guardians
  <2>1. Announced \in SUBSET Guardians
    BY DEF Announced
  <2>2. QED
    BY <2>1, FS_Subset, GuardiansAssumption DEF AllGuardiansAnnounced
<1>2. AllBackupsAvailable => Received = Pairs
  <2>1. Received \in SUBSET Pairs
    BY DEF Received
  <2>2. QED
    BY <2>1, RequiredMeansAll DEF AllBackupsAvailable
<1>3. AllBackupsVerified => Verified = Pairs
  <2>1. Verified \in SUBSET Pairs
    BY DEF Verified
  <2>2. QED
    BY <2>1, RequiredMeansAll DEF AllBackupsVerified
<1>4. QED
  BY <1>1, <1>2, <1>3 DEF AllBackupsAvailable

(***************************************************************************)
(* Recoverability.  Before anyone replaces a key pair there is only one    *)
(* possible key and one possible backup for each pair, and a verification  *)
(* exists, in flight or at the mediator, only for a pair whose designated  *)
(* guardian has saved that backup or whose owner answered a challenge.     *)
(***************************************************************************)
FirstBackup == [polynomial |-> 1, encryptedTo |-> 1]

FirstKeys == \A g \in Guardians : key[g] = 1

Held(p) == guardianBackups[p[2]][p[1]] = FirstBackup

FirstKeysInv ==
  FirstKeys =>
    /\ \A g, h \in Guardians : guardianKeys[g][h] \in {NoKey, 1}
    /\ \A g, h \in Guardians : backupsToShare[g][h] \in {NoBackup, FirstBackup}
    /\ \A g, h \in Guardians : guardianBackups[g][h] \in {NoBackup, FirstBackup}
    /\ \A g \in Guardians : electionPublicKeys[g] \in {NoKey, 1}
    /\ \A p \in Pairs : electionPartialKeyBackups[p] \in {NoBackup, FirstBackup}
    /\ \A p \in Pairs : inFlight[p] # NoVerification => Held(p)
    /\ \A p \in Pairs :
         electionPartialKeyVerifications[p] # NoVerification =>
           Held(p) \/ p \in challenged
    /\ jointKey # NoJointKey =>
         /\ \A g \in Guardians : jointKey[g] = 1
         /\ \A p \in Pairs : Held(p) \/ p \in challenged

\* A key pair that was replaced never becomes the first one again.
LEMMA FirstKeysStable ==
  ASSUME TypeOK, [Next]_vars, FirstKeys'
  PROVE  key' = key
<1>1. ASSUME NEW g \in Guardians PROVE ~Regenerate(g)
  <2>1. SUFFICES ASSUME Regenerate(g) PROVE FALSE
    OBVIOUS
  <2>2. key'[g] = key[g] + 1 /\ key[g] \in Nat \ {0}
    BY <2>1 DEF Regenerate, TypeOK, Keys
  <2>3. QED
    BY <2>2 DEF FirstKeys
<1>2. QED
  BY <1>1 DEF Next, GuardianStep, vars, guardianVars, Announce, SaveAnnouncedKeys,
     GenerateBackups, ReceiveBackups, SaveBackups, VerifyBackup, ReceiveVerification,
     VerifyChallenge, PublishJointKey, Reset

LEMMA FirstKeysStep ==
  ASSUME Cardinality(Guardians) = NumberOfGuardians,
         TypeOK, FirstKeysInv, [Next]_vars
  PROVE  FirstKeysInv'
<1> SUFFICES ASSUME FirstKeys' PROVE FirstKeysInv'
  BY DEF FirstKeysInv
<1>a. key' = key /\ FirstKeys
  BY FirstKeysStable DEF FirstKeys
<1> USE <1>a DEF FirstKeysInv, Held, NoJointKey
<1>b. \A p \in Pairs : p \in Guardians \X Guardians /\ p[1] \in Guardians /\ p[2] \in Guardians
  BY DEF Pairs
<1>1. ASSUME NEW g \in Guardians, Announce(g) PROVE FirstKeysInv'
  BY <1>1 DEF Announce, guardianVars, FirstKeys, TypeOK
<1>2. ASSUME NEW g \in Guardians, SaveAnnouncedKeys(g) PROVE FirstKeysInv'
  BY <1>2 DEF SaveAnnouncedKeys, mediatorVars, TypeOK
<1>3. ASSUME NEW g \in Guardians, GenerateBackups(g) PROVE FirstKeysInv'
  <2>1. \A h \in Guardians : backupsToShare'[g][h] \in {NoBackup, FirstBackup}
    BY <1>3 DEF GenerateBackups, Generated, TypeOK, FirstKeys, FirstBackup
  <2>2. \A h, k \in Guardians : backupsToShare'[h][k] \in {NoBackup, FirstBackup}
    BY <1>3, <2>1 DEF GenerateBackups, TypeOK
  <2>3. QED
    BY <1>3, <2>2 DEF GenerateBackups, mediatorVars
<1>4. ASSUME NEW g \in Guardians, ReceiveBackups(g) PROVE FirstKeysInv'
  BY <1>4, <1>b DEF ReceiveBackups, WithBackups, guardianVars, TypeOK
<1>5. ASSUME NEW g \in Guardians, SaveBackups(g) PROVE FirstKeysInv'
  <2>1. \A h \in Announced \ {g} : <<h, g>> \in Pairs /\ <<h, g>> \in Received
    BY <1>5 DEF SaveBackups, ShareBackups, Received, Announced, Pairs
  <2>2. \A h \in Announced \ {g} : electionPartialKeyBackups[<<h, g>>] = FirstBackup
    BY <2>1 DEF Received
  <2>3. \A h \in Guardians : guardianBackups'[g][h] \in {guardianBackups[g][h], FirstBackup}
    BY <1>5, <2>2 DEF SaveBackups, TypeOK
  <2>4. \A h, k \in Guardians : guardianBackups'[h][k] \in {guardianBackups[h][k], FirstBackup}
    BY <1>5, <2>3 DEF SaveBackups, TypeOK
  <2>5. \A p \in Pairs : Held(p) => Held(p)'
    BY <1>b, <2>4
  <2>6. QED
    BY <1>5, <2>4, <2>5 DEF SaveBackups, mediatorVars
<1>6. ASSUME NEW g \in Guardians, Regenerate(g) PROVE FirstKeysInv'
  <2>1. key'[g] = key[g] + 1 /\ key[g] = 1
    BY <1>6 DEF Regenerate, TypeOK, FirstKeys
  <2>2. QED
    BY <2>1
<1>7. ASSUME NEW o \in Guardians, NEW d \in Guardians, o # d, VerifyBackup(o, d)
      PROVE  FirstKeysInv'
  <2>1. guardianBackups[d][o] = FirstBackup
    BY <1>7 DEF VerifyBackup, CanVerify
  <2>2. \A p \in Pairs : p # <<o, d>> => inFlight'[p] = inFlight[p]
    BY <1>7 DEF VerifyBackup, TypeOK
  <2>3. \A p \in Pairs : inFlight'[p] # NoVerification => Held(p)
    BY <2>1, <2>2
  <2>4. QED
    BY <1>7, <2>3 DEF VerifyBackup, guardianVars, mediatorVars
<1>8. ASSUME NEW p \in Pairs, ReceiveVerification(p) PROVE FirstKeysInv'
  BY <1>8 DEF ReceiveVerification, guardianVars, TypeOK
<1>9. ASSUME NEW o \in Guardians, NEW d \in Guardians, VerifyChallenge(o, d)
      PROVE  FirstKeysInv'
  BY <1>9 DEF VerifyChallenge, guardianVars, TypeOK
<1>10. CASE PublishJointKey
  <2>1. Announced = Guardians /\ Verified = Pairs
    BY <1>10, CountsMeanComplete DEF PublishJointKey, AllBackupsVerified
  <2>2. \A g \in Guardians : jointKey'[g] = 1
    BY <1>10, <2>1 DEF PublishJointKey, Announced
  <2>3. \A p \in Pairs : Held(p) \/ p \in challenged
    BY <2>1 DEF Verified
  <2>4. QED
    BY <1>10, <2>2, <2>3 DEF PublishJointKey, guardianVars, mediatorVars
<1>11. CASE Reset
  BY <1>11 DEF Reset, guardianVars
<1>12. CASE UNCHANGED vars
  BY <1>12 DEF vars, guardianVars, mediatorVars
<1>13. QED
  BY <1>1, <1>2, <1>3, <1>4, <1>5, <1>6, <1>7, <1>8, <1>9, <1>10, <1>11, <1>12
     DEF Next, GuardianStep

\* While no guardian has replaced its key pair, a published joint key is the
\* combination of everyone's key and every guardian's share of it is backed up
\* by each other guardian or was made public by a challenge.
THEOREM PublishedKeyRecoverable ==
  ASSUME Cardinality(Guardians) = NumberOfGuardians
  PROVE  Spec => []JointKeyRecoverable
<1>1. Init => FirstKeysInv
  BY DEF Init, FirstKeysInv, OnlyOwnKey, NoJointKey
<1>2. TypeOK /\ FirstKeysInv /\ [Next]_vars => FirstKeysInv'
  BY FirstKeysStep
<1>3. FirstKeysInv => JointKeyRecoverable
  BY DEF FirstKeysInv, JointKeyRecoverable, FirstKeys, Held, FirstBackup
<1>4. QED
  BY <1>1, <1>2, <1>3, TypeCorrect, PTL DEF Spec

(***************************************************************************)
(* Progress is kept.                                                       *)
(***************************************************************************)

\* No call but reset makes backups unavailable again.
THEOREM BackupsAreKept ==
  ASSUME Cardinality(Guardians) = NumberOfGuardians
  PROVE  Spec => BackupsStayAvailable
<1>1. ASSUME TypeOK, [Next]_vars, AllBackupsAvailable, resets' = resets
      PROVE  AllBackupsAvailable'
  <2>1. Announced = Guardians /\ Received = Pairs
    BY <1>1, CountsMeanComplete
  <2>2. ~Reset
    BY <1>1 DEF Reset, TypeOK
  <2>3. Announced' = Guardians
    <3>1. ASSUME NEW g \in Guardians, Announce(g) PROVE Announced' = Guardians
      BY <1>1, <2>1, <3>1, AbsentIsDistinct DEF Announce, Announced, TypeOK
    <3>2. CASE UNCHANGED electionPublicKeys
      BY <2>1, <3>2 DEF Announced
    <3>3. QED
      BY <1>1, <2>2, <3>1, <3>2
         DEF Next, GuardianStep, vars, guardianVars, mediatorVars, SaveAnnouncedKeys,
             GenerateBackups, ReceiveBackups, SaveBackups, VerifyBackup,
             ReceiveVerification, VerifyChallenge, PublishJointKey, Regenerate
  <2>4. Received' = Pairs
    <3>1. ASSUME NEW g \in Guardians, ReceiveBackups(g) PROVE Received' = Pairs
      BY <2>1, <3>1 DEF ReceiveBackups, WithBackups, Received
    <3>2. CASE UNCHANGED electionPartialKeyBackups
      BY <2>1, <3>2 DEF Received
    <3>3. QED
      BY <1>1, <2>2, <3>1, <3>2
         DEF Next, GuardianStep, vars, guardianVars, mediatorVars, SaveAnnouncedKeys,
             GenerateBackups, Announce, SaveBackups, VerifyBackup,
             ReceiveVerification, VerifyChallenge, PublishJointKey, Regenerate
  <2>5. QED
    BY <1>1, <2>1, <2>3, <2>4 DEF AllBackupsAvailable, AllGuardiansAnnounced
<1>2. QED
  BY <1>1, TypeCorrect, PTL DEF Spec, BackupsStayAvailable
=============================================================================

----------------------------- MODULE SecretSharing -----------------------------
(***************************************************************************)
(* The arithmetic behind the ceremonies: electionguard/election_polynomial *)
(* and the parts of electionguard/decryption.py that work in the exponent. *)
(* One guardian, the owner, shares its secret key with the others through  *)
(* the coordinates of its polynomial, as key_ceremony.py does; later some of them raise the pad of  *)
(* a ciphertext to their coordinate and the owner's partial decryption is  *)
(* reconstructed.  A guardian is its sequence order.                       *)
(***************************************************************************)
EXTENDS ElGamal, FiniteSets

CONSTANTS
  Guardians,  \* sequence orders of the guardians
  Quorum,     \* number of coefficients of a polynomial
  Owner,      \* the guardian whose key is shared
  Pads        \* pads of ciphertexts to decrypt

ASSUME SharingAssumption ==
  /\ Guardians \subseteq 1 .. Q - 1
  /\ Owner \in Guardians
  /\ Quorum \in 1 .. Cardinality(Guardians)
  /\ Pads \subseteq Residues

VARIABLES
  polynomial,     \* the owner's coefficients; the first is its secret key
  pad,            \* of the ciphertext to decrypt
  coordinates,    \* backups the others hold
  compensated,    \* compensated partial decryptions
  reconstructed   \* the share computed last, and from whom

vars == <<polynomial, pad, coordinates, compensated, reconstructed>>

Others == Guardians \ {Owner}
Indices == 0 .. Quorum - 1
Polynomials == [Indices -> ElementModQ]
None == -1
NotReconstructed == [parts |-> {}, share |-> None]

-----------------------------------------------------------------------------
(* The algorithms. *)

\* Mutant of ComputePolynomialCoordinate: the last coefficient is forgotten.
ShortCoordinate(x, poly) ==
  AddQ([i \in DOMAIN poly \ {Quorum - 1} |-> (poly[i] * PowQ(x, i)) % Q])

ComputePolynomialCoordinate(x, poly) ==
  AddQ([i \in DOMAIN poly |-> (poly[i] * PowQ(x, i)) % Q])

Commitments(poly) == [i \in DOMAIN poly |-> GPowP(poly[i])]

\* Mutant of VerifyPolynomialCoordinate: indices start at one.
VerifyFromOne(value, x, commitments) ==
  GPowP(value) = MultP([i \in DOMAIN commitments |-> PowP(commitments[i], PowP(x, i + 1))])

\* The exponents are taken mod P here.
VerifyPolynomialCoordinate(value, x, commitments) ==
  GPowP(value) = MultP([i \in DOMAIN commitments |-> PowP(commitments[i], PowP(x, i))])

\* Mutant of ComputeRecoveryPublicKey: powers of the index, not of the order.
RecoverWithIndexPowers(x, commitments) ==
  MultP([i \in DOMAIN commitments |-> PowP(commitments[i], PowQ(i, x))])

\* And mod Q here.
ComputeRecoveryPublicKey(x, commitments) ==
  MultP([i \in DOMAIN commitments |-> PowP(commitments[i], PowQ(x, i))])

\* Mutant of ComputeLagrangeCoefficient: the fraction upside down.
InvertedCoefficient(x, degrees) ==
  DivQ(MultQ([d \in degrees |-> (d - x) % Q]), MultQ([d \in degrees |-> d % Q]))

\* Of one guardian, against the sequence orders of the other available ones.
ComputeLagrangeCoefficient(x, degrees) ==
  DivQ(MultQ([d \in degrees |-> d % Q]), MultQ([d \in degrees |-> (d - x) % Q]))

LagrangeCoefficients(available) ==
  [x \in available |-> ComputeLagrangeCoefficient(x, available \ {x})]

\* The product of the compensated shares raised to their coefficients.
ReconstructShare(shares, coefficients) ==
  MultP([x \in DOMAIN shares |-> PowP(shares[x], coefficients[x])])

-----------------------------------------------------------------------------
(* Backups and challenges. *)

\* get_backup_seed: of the recipient.
BackupSeed(x) == x

\* generate_election_partial_key_backup for the guardian x with a public key.
GenerateBackup(x, poly, nonce, public_key) ==
  [designated |-> x,
   encrypted |-> HashedElGamalEncrypt(ComputePolynomialCoordinate(x, poly), nonce,
                                      public_key, BackupSeed(x))]

\* verify_election_partial_key_backup: it raises when there is nothing to decode.
VerifyBackup(backup, commitments, secret_key) ==
  LET opened == HashedElGamalDecrypt(backup.encrypted, secret_key, BackupSeed(backup.designated))
  IN  IF opened = NoMessage THEN "raises"
      ELSE IF VerifyPolynomialCoordinate(opened.message, backup.designated, commitments)
      THEN "verified" ELSE "not verified"

\* generate_election_partial_key_challenge: the coordinate is computed again.
GenerateChallenge(x, poly) ==
  [designated |-> x, value |-> ComputePolynomialCoordinate(x, poly), commitments |-> Commitments(poly)]

\* verify_election_partial_key_challenge.
VerifyChallenge(challenge) ==
  VerifyPolynomialCoordinate(challenge.value, challenge.designated, challenge.commitments)

-----------------------------------------------------------------------------
Init ==
  /\ polynomial \in Polynomials
  /\ pad \in Pads
  /\ coordinates = [x \in Others |-> None]
  /\ compensated = [x \in Others |-> None]
  /\ reconstructed = NotReconstructed

\* Every other guardian decrypts and keeps its backup.
ShareBackups ==
  /\ \A x \in Others : coordinates[x] = None
  /\ coordinates' = [x \in Others |-> ComputePolynomialCoordinate(x, polynomial)]
  /\ UNCHANGED <<polynomial, pad, compensated, reconstructed>>

\* decrypt_with_threshold
Compensate(x) ==
  /\ coordinates[x] # None
  /\ compensated[x] = None
  /\ compensated' = [compensated EXCEPT ![x] = PowP(pad, coordinates[x])]
  /\ UNCHANGED <<polynomial, pad, coordinates, reconstructed>>

\* From everyone who has compensated so far.
Reconstruct ==
  LET available == {x \in Others : compensated[x] # None}
  IN  /\ available \notin {{}, reconstructed.parts}
      /\ reconstructed' =
           [parts |-> available,
            share |-> ReconstructShare([x \in available |-> compensated[x]],
                                       LagrangeCoefficients(available))]
      /\ UNCHANGED <<polynomial, pad, coordinates, compensated>>

Next ==
  \/ ShareBackups
  \/ \E x \in Others : Compensate(x)
  \/ Reconstruct

Spec == Init /\ [][Next]_vars

-----------------------------------------------------------------------------
(* Properties. *)

\* What the recipient x makes of a backup, which another secret key and a backup for
\* another guardian do not open.  The nonce rand_q() returns may be zero; then the
\* key is no secret.
BackupOpensFor(x, nonce, secret) ==
  LET backup == GenerateBackup(x, polynomial, nonce, GPowP(secret))
      Verify(b, key) == VerifyBackup(b, Commitments(polynomial), key)
  IN  /\ Verify(backup, secret) = "verified"
      /\ nonce # 0 => \A key \in ElementModQ \ {secret} : Verify(backup, key) = "raises"
      /\ \A y \in Others \ {x} : Verify([backup EXCEPT !.designated = y], secret) = "raises"

\* A backup passes its verification exactly when it is the coordinate: the
\* commitments of the owner's polynomial admit no other value.  It comes through
\* its encryption to the recipient and to nobody else, and in a challenge anyone
\* finds the same.
OnlyCoordinatesVerify ==
  LET commitments == Commitments(polynomial)
  IN  \A x \in Others : coordinates[x] # None =>
        /\ \A value \in ElementModQ :
             VerifyPolynomialCoordinate(value, x, commitments) <=> value = coordinates[x]
        /\ \A y \in Others : VerifyChallenge([GenerateChallenge(y, polynomial) EXCEPT !.designated = x])
                              <=> coordinates[y] = coordinates[x]
        /\ (\A y \in Others : compensated[y] = None) =>
             \A nonce, secret \in ElementModQ : BackupOpensFor(x, nonce, secret)

\* The recovery public key against which a compensated share is proved is the
\* key of the coordinate it was computed with.
RecoveryKeysMatch ==
  \A x \in Others : coordinates[x] # None =>
    ComputeRecoveryPublicKey(x, Commitments(polynomial)) = GPowP(coordinates[x])

\* From any quorum of the others, whichever they are, the reconstructed share
\* is the partial decryption the owner would have computed.
QuorumReconstructs ==
  Cardinality(reconstructed.parts) >= Quorum =>
    reconstructed.share = PowP(pad, polynomial[0])

\* When decryption begins, fewer than a quorum of backups leave every secret key
\* possible: some polynomial has that key and those backups.
BelowQuorumNothingIsKnown ==
  (\A x \in Others : compensated[x] = None) =>
    \A known \in SUBSET Others :
      (Cardinality(known) < Quorum /\ \A x \in known : coordinates[x] # None) =>
        \A secret \in ElementModQ : \E rest \in [Indices \ {0} -> ElementModQ] :
          LET poly == [i \in Indices |-> IF i = 0 THEN secret ELSE rest[i]]
          IN  \A x \in known : ComputePolynomialCoordinate(x, poly) = coordinates[x]
===============================================================================

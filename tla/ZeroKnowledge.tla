----------------------------- MODULE ZeroKnowledge -----------------------------
(***************************************************************************)
(* The proofs that come with keys, ballots and shares, made by the code    *)
(* and given to its validation, in the group of SecretSharing: the owner's *)
(* key is the election key, its polynomial that of the ceremony.           *)
(***************************************************************************)
EXTENDS SecretSharing

CONSTANTS
  ProvedPolynomials,  \* bound: the polynomials for which proofs are made
  MaxSelections       \* bound: selections of a contest

ASSUME ProofAssumption ==
  /\ ProvedPolynomials \subseteq Polynomials
  /\ MaxSelections \in 1 .. Q - 1

VARIABLE proof  \* the statement proved last, and its proof

NoProof == [kind |-> "none"]

KeyPair == ElGamalKeyPair(polynomial[0])
PublicKey == KeyPair.public_key

\* A nonce of an encryption is not zero.
Nonces == ElementModQ \ {0}

\* create_ciphertext_decryption_selection: a share with a proof or with the parts it
\* was recovered from, of those who compensated.  Both are options: sets of at most
\* one.
DecryptionSelection(share, proofs, parts) == [share |-> share, proofs |-> proofs, parts |-> parts]

\* CiphertextDecryptionSelection.is_valid: one of the two, and whichever it is has
\* valid proofs.  Whether the share is the product of its parts is not asked.
DecryptionSelectionIsValid(selection, message, public_key, hash) ==
  /\ (selection.proofs = {}) # (selection.parts = {})
  /\ \A made \in selection.proofs :
       ChaumPedersenIsValid(made, message, public_key, selection.share, hash)
  /\ \A parts \in selection.parts : \A x \in DOMAIN parts :
       LET part == parts[x]
       IN  ChaumPedersenIsValid(part.made, message, part.recovery_key, part.share, hash)

-----------------------------------------------------------------------------
(* Any random numbers, and any hash. *)

\* generate_polynomial
ProveCoefficient(i) ==
  LET pair == ElGamalKeyPair(polynomial[i])
  IN  \E r, hash \in ElementModQ :
        proof' = [kind |-> "coefficient", public_key |-> pair.public_key,
                  hash |-> hash, made |-> MakeSchnorrProof(pair, r, hash)]

\* encrypt_selection
ProveSelection ==
  \E message \in {0, 1}, r \in Nonces, nonces \in ElementModQ \X ElementModQ \X ElementModQ,
     hash \in ElementModQ :
    LET ciphertext == ElGamalEncrypt(message, r, PublicKey)
    IN  proof' = [kind |-> "selection", ciphertext |-> ciphertext, nonces |-> nonces,
                  hash |-> hash,
                  made |-> MakeDisjunctive(ciphertext, r, PublicKey, nonces, message, hash)]

\* encrypt_contest, of the accumulation of its selections
ProveContest ==
  \E messages \in [1 .. MaxSelections -> {0, 1}], nonces \in [1 .. MaxSelections -> Nonces],
     u, hash \in ElementModQ :
    LET ciphertext == ElGamalAdd([s \in 1 .. MaxSelections |->
                        ElGamalEncrypt(messages[s], nonces[s], PublicKey)])
    IN  proof' = [kind |-> "contest", ciphertext |-> ciphertext, hash |-> hash,
                  made |-> MakeConstantChaumPedersen(ciphertext, AddQ(messages),
                             AddQ(nonces), PublicKey, u, hash)]

\* partially_decrypt
ProveShare ==
  \E r \in Nonces, u, hash \in ElementModQ :
    LET ciphertext == ElGamalEncrypt(1, r, PublicKey)
        share == PartialDecrypt(ciphertext, KeyPair.secret_key)
        made == MakeChaumPedersen(ciphertext, KeyPair.secret_key, u, hash)
    IN  proof' = [kind |-> "share", ciphertext |-> ciphertext, hash |-> hash,
                  made |-> DecryptionSelection(share, {made}, {})]

\* decrypt_with_threshold by x: a part, with its recovery public key
ProveCompensation(x) ==
  \E r \in Nonces, u, hash \in ElementModQ :
    LET ciphertext == ElGamalEncrypt(1, r, PublicKey)
        coordinate == ComputePolynomialCoordinate(x, polynomial)
        share == PartialDecrypt(ciphertext, coordinate)
        part == [share |-> share,
                 recovery_key |-> ComputeRecoveryPublicKey(x, Commitments(polynomial)),
                 made |-> MakeChaumPedersen(ciphertext, coordinate, u, hash)]
    IN  proof' = [kind |-> "share", ciphertext |-> ciphertext, hash |-> hash,
                  made |-> DecryptionSelection(PowP(share, ComputeLagrangeCoefficient(x, {})),
                                               {}, {[y \in {x} |-> part]})]

\* Statements that are false as well as true ones, without a proof.
Claim ==
  \E message, share \in ElementModQ, r \in Nonces :
    proof' = [kind |-> "claim", message |-> message,
              ciphertext |-> ElGamalEncrypt(message, r, PublicKey), share |-> GPowP(share)]

Prove ==
  /\ polynomial \in ProvedPolynomials
  /\ proof = NoProof
  /\ \A x \in Others : coordinates[x] = None
  /\ \/ \E i \in Indices : ProveCoefficient(i)
     \/ ProveSelection \/ ProveContest \/ ProveShare \/ Claim
     \/ \E x \in Others : ProveCompensation(x)
  /\ UNCHANGED vars

\* Sharing goes on without the proofs.
Share ==
  /\ proof = NoProof
  /\ Next
  /\ UNCHANGED proof

ProofInit == Init /\ proof = NoProof
ProofNext == Prove \/ Share
ProofSpec == ProofInit /\ [][ProofNext]_<<vars, proof>>

-----------------------------------------------------------------------------
(* Properties. *)

Holds ==
  CASE proof.kind = "coefficient" -> SchnorrIsValid(proof.made, proof.public_key, proof.hash)
    [] proof.kind = "selection" ->
         DisjunctiveIsValid(proof.made, proof.ciphertext, PublicKey, proof.hash)
    [] proof.kind = "contest" ->
         ConstantIsValid(proof.made, proof.ciphertext, PublicKey, proof.hash)
    [] proof.kind = "share" ->
         DecryptionSelectionIsValid(proof.made, proof.ciphertext, PublicKey, proof.hash)
    [] OTHER -> TRUE

\* What the code proves, it accepts: every proof of a true statement is valid,
\* whatever random numbers and hash go into it.  Only the proof of an encrypted
\* one is not made when the first random number is zero, since negate_q(0) is
\* not an element.
HonestProofsVerify ==
  IF proof.kind = "selection" /\ proof.made = Raised
  THEN proof.nonces[1] = 0 /\ proof.ciphertext.data # PowP(proof.ciphertext.pad, polynomial[0])
  ELSE Holds

\* The challenges that some response answers, for commitments a and b.
Answered(Valid(_), a, b) ==
  {c \in ElementModQ : \E response \in ElementModQ :
     Valid([pad |-> a, data |-> b, challenge |-> c, response |-> response])}

\* Nobody answers two challenges about a false statement.
Refuted(Valid(_)) ==
  \A a, b \in Residues : Cardinality(Answered(Valid, a, b)) <= 1

\* What the code accepts is true: a share that is not the partial decryption, a
\* number of votes that is not the encrypted one, or an encrypted vote that is
\* not the one of a half, leaves at most one challenge of the hash that can be
\* answered.
AcceptedProofsAreTrue ==
  proof.kind = "claim" =>
    LET ciphertext == proof.ciphertext
        IsShare(p) == ChaumPedersenIsValid(p, ciphertext, PublicKey, proof.share, p.challenge)
        IsCount(p) == ConstantIsValid([field \in DOMAIN p \union {"constant"} |->
                        IF field = "constant" THEN 1 ELSE p[field]], ciphertext, PublicKey, p.challenge)
        IsZero(p) == HalfIsConsistent(p, ciphertext, PublicKey, 0)
        IsOne(p) == HalfIsConsistent(p, ciphertext, PublicKey, 1)
    IN  /\ proof.share # PartialDecrypt(ciphertext, polynomial[0]) => Refuted(IsShare)
        /\ proof.message # 1 => Refuted(IsCount) /\ Refuted(IsOne)
        /\ proof.message # 0 => Refuted(IsZero)
=============================================================================

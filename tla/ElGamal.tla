--------------------------------- MODULE ElGamal ---------------------------------
(***************************************************************************)
(* electionguard/elgamal.py, schnorr.py and chaum_pedersen.py over the     *)
(* group of any size.  hash_elems is an arbitrary function: what it        *)
(* returns for the commitments of a proof is a parameter.                  *)
(***************************************************************************)
EXTENDS Group

\* The operations of group.py on two or three elements.
MulP(a, b) == (a * b) % P
PlusQ(a, b) == (a + b) % Q
AMinusBQ(a, b) == (a - b) % Q
APlusBCQ(a, b, c) == (a + b * c) % Q
\* Not reduced: an element raises when it is not below Q.
NegateQ(a) == Q - a

\* The pair of a coefficient and its commitment, without the guards of
\* elgamal_keypair_from_secret.
ElGamalKeyPair(secret) == [secret_key |-> secret, public_key |-> GPowP(secret)]

NoCiphertext == [failed |-> TRUE]

ElGamalEncrypt(message, nonce, public_key) ==
  IF nonce = 0 THEN NoCiphertext
  ELSE [pad |-> GPowP(nonce), data |-> MulP(GPowP(message), PowP(public_key, nonce))]

\* Of a function of ciphertexts.
ElGamalAdd(ciphertexts) ==
  [pad |-> MultP([i \in DOMAIN ciphertexts |-> ciphertexts[i].pad]),
   data |-> MultP([i \in DOMAIN ciphertexts |-> ciphertexts[i].data])]

PartialDecrypt(ciphertext, secret_key) == PowP(ciphertext.pad, secret_key)

-----------------------------------------------------------------------------
(* Hashed ElGamal: the session key is the hash of the pad and the pad      *)
(* raised to the secret key; it and the seed yield the key stream of the   *)
(* data and the key of the MAC.                                            *)

NoMessage == [failed |-> TRUE]
SessionKey(pad, shared) == [pad |-> pad, shared |-> shared]

HashedElGamalEncrypt(message, nonce, public_key, encryption_seed) ==
  LET session_key == SessionKey(GPowP(nonce), PowP(public_key, nonce))
  IN  [pad |-> GPowP(nonce),
       data |-> [message |-> message, under |-> <<session_key, encryption_seed>>],
       mac |-> <<session_key, encryption_seed>>]

\* Mutant of HashedElGamalDecrypt: the seed plays no part.
DecryptAnySeed(ciphertext, secret_key, encryption_seed) ==
  LET session_key == SessionKey(ciphertext.pad, PowP(ciphertext.pad, secret_key))
  IN  IF session_key # ciphertext.mac[1] THEN NoMessage
      ELSE [message |-> ciphertext.data.message]

\* None when the MAC, which pad and data go into, is another one.
HashedElGamalDecrypt(ciphertext, secret_key, encryption_seed) ==
  LET session_key == SessionKey(ciphertext.pad, PowP(ciphertext.pad, secret_key))
  IN  IF <<session_key, encryption_seed>> # ciphertext.mac THEN NoMessage
      ELSE [message |-> ciphertext.data.message]

-----------------------------------------------------------------------------
(* Schnorr: the prover knows the secret key. *)

MakeSchnorrProof(keypair, r, hash) ==
  [commitment |-> GPowP(r), challenge |-> hash,
   response |-> APlusBCQ(r, keypair.secret_key, hash)]

SchnorrIsValid(proof, public_key, hash) ==
  /\ public_key \in Residues
  /\ proof.challenge = hash
  /\ GPowP(proof.response) = MulP(proof.commitment, PowP(public_key, proof.challenge))

-----------------------------------------------------------------------------
(* Chaum-Pedersen: m is the pad raised to the secret of the key k. *)

MakeChaumPedersen(message, s, u, hash) ==
  [pad |-> GPowP(u), data |-> PowP(message.pad, u), challenge |-> hash,
   response |-> APlusBCQ(u, hash, s)]

\* Mutant of ChaumPedersenIsValid: the equation about m is left out.
KeyIsConsistent(proof, message, k, m, hash) ==
  /\ {message.pad, message.data, k, m, proof.pad, proof.data} \subseteq Residues
  /\ proof.challenge = hash
  /\ GPowP(proof.response) = MulP(proof.pad, PowP(k, proof.challenge))

ChaumPedersenIsValid(proof, message, k, m, hash) ==
  /\ {message.pad, message.data, k, m, proof.pad, proof.data} \subseteq Residues
  /\ proof.challenge = hash
  /\ GPowP(proof.response) = MulP(proof.pad, PowP(k, proof.challenge))
  /\ PowP(message.pad, proof.response) = MulP(proof.data, PowP(m, proof.challenge))

-----------------------------------------------------------------------------
(* Constant Chaum-Pedersen: the ciphertext is of the given constant. *)

MakeConstantChaumPedersen(message, constant, r, k, u, hash) ==
  [pad |-> GPowP(u), data |-> PowP(k, u), challenge |-> hash,
   response |-> APlusBCQ(u, hash, r), constant |-> constant]

\* sane_constant: "an arbitrary constant check to verify that decryption will be
\* performant" (chaum_pedersen.py:314).
SaneConstants == 0 .. 1000 * 1000 * 1000 - 1

\* The exponent of the generator is a product mod P.
ConstantIsValid(proof, message, k, hash) ==
  LET c == proof.challenge
  IN  /\ {message.pad, message.data, proof.pad, proof.data} \subseteq Residues
      /\ c = hash
      /\ proof.constant \in ElementModQ \intersect SaneConstants
      /\ GPowP(proof.response) = MulP(proof.pad, PowP(message.pad, c))
      /\ MulP(GPowP(MulP(c, proof.constant)), PowP(k, proof.response))
           = MulP(proof.data, PowP(message.data, c))

-----------------------------------------------------------------------------
(* Disjunctive Chaum-Pedersen: the ciphertext is of zero or of one.  The   *)
(* half that is false is simulated with a challenge chosen beforehand.     *)

Raised == [raised |-> TRUE]

\* The random numbers are c1, v and u0.
MakeDisjunctiveZero(message, r, k, nonces, hash) ==
  LET c1 == nonces[1]
      v == nonces[2]
      u0 == nonces[3]
      c0 == AMinusBQ(hash, c1)
  IN  [zero |-> [pad |-> GPowP(u0), data |-> PowP(k, u0),
                 challenge |-> c0, response |-> APlusBCQ(u0, c0, r)],
       one |-> [pad |-> GPowP(v), data |-> MulP(PowP(k, v), GPowP(c1)),
                challenge |-> c1, response |-> APlusBCQ(v, c1, r)],
       challenge |-> hash]

\* Mutant of MakeDisjunctiveOne: the simulated challenge keeps its sign.
SameSign(message, r, k, nonces, hash) ==
  LET w == nonces[1]
      v == nonces[2]
      u1 == nonces[3]
      c1 == AMinusBQ(hash, w)
  IN  [zero |-> [pad |-> GPowP(v), data |-> MulP(PowP(k, v), GPowP(w)),
                 challenge |-> w, response |-> APlusBCQ(v, w, r)],
       one |-> [pad |-> GPowP(u1), data |-> PowP(k, u1),
                challenge |-> c1, response |-> APlusBCQ(u1, c1, r)],
       challenge |-> hash]

\* And here w, v and u1.
MakeDisjunctiveOne(message, r, k, nonces, hash) ==
  LET w == nonces[1]
      v == nonces[2]
      u1 == nonces[3]
      c0 == NegateQ(w)
      c1 == PlusQ(hash, w)
  IN  IF c0 \notin ElementModQ THEN Raised ELSE
      [zero |-> [pad |-> GPowP(v), data |-> MulP(PowP(k, v), GPowP(w)),
                 challenge |-> c0, response |-> APlusBCQ(v, c0, r)],
       one |-> [pad |-> GPowP(u1), data |-> PowP(k, u1),
                challenge |-> c1, response |-> APlusBCQ(u1, c1, r)],
       challenge |-> hash]

MakeDisjunctive(message, r, k, nonces, plaintext, hash) ==
  IF plaintext = 0 THEN MakeDisjunctiveZero(message, r, k, nonces, hash)
  ELSE MakeDisjunctiveOne(message, r, k, nonces, hash)

\* The two equations of a half, which claims that the message is v.
HalfIsConsistent(half, message, k, v) ==
  LET c == half.challenge
  IN  /\ GPowP(half.response) = MulP(half.pad, PowP(message.pad, c))
      /\ MulP(GPowP(v * c), PowP(k, half.response))
           = MulP(half.data, PowP(message.data, c))

DisjunctiveIsValid(proof, message, k, hash) ==
  /\ {message.pad, message.data, proof.zero.pad, proof.zero.data,
      proof.one.pad, proof.one.data} \subseteq Residues
  /\ PlusQ(proof.zero.challenge, proof.one.challenge) = proof.challenge
  /\ proof.challenge = hash
  /\ HalfIsConsistent(proof.zero, message, k, 0)
  /\ HalfIsConsistent(proof.one, message, k, 1)
=============================================================================

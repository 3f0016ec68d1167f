---------------------------- MODULE SharingProofs ---------------------------
(***************************************************************************)
(* What SecretSharing states, proved for every group, every quorum, every  *)
(* set of guardians and every polynomial: which backups are accepted, that *)
(* any quorum of guardians decrypts for a missing one (interpolation mod Q),*)
(* and that fewer know nothing of its key.  Then what ZeroKnowledge states *)
(* of the proofs of knowledge: the validations accept what the code        *)
(* proves, and nobody answers two challenges about a false statement.      *)
(***************************************************************************)
EXTENDS ZeroKnowledge, GroupProofs

-----------------------------------------------------------------------------
(* Guardians and coefficients. *)

LEMMA GuardianOrders ==
  /\ IsFiniteSet(Guardians)
  /\ \A x \in Guardians : x \in ElementModQ \ {0} /\ x \in Int /\ x % Q = x
  /\ \A x, y \in Guardians : x # y => (y - x) % Q \in ElementModQ \ {0}
<1>1. IsFiniteSet(Guardians)
  <2>1. Guardians \subseteq 1 .. Q - 1 /\ 1 \in Int /\ Q - 1 \in Int
    BY SharingAssumption, Parameters
  <2>2. QED
    BY <2>1, FS_Interval, FS_Subset
<1>2. ASSUME NEW x \in Guardians PROVE x \in ElementModQ \ {0} /\ x \in Int /\ x % Q = x
  <2>1. x \in 1 .. Q - 1
    BY SharingAssumption
  <2>2. x \in 0 .. Q - 1 /\ x # 0
    BY <2>1, Parameters
  <2>3. QED
    BY <2>2, Parameters, Small DEF ElementModQ
<1>3. ASSUME NEW x \in Guardians, NEW y \in Guardians, x # y
      PROVE  (y - x) % Q \in ElementModQ \ {0}
  BY <1>2, <1>3, DifferenceQ DEF AMinusBQ
<1>4. QED
  BY <1>1, <1>2, <1>3

LEMMA IndicesAreFinite ==
  /\ IsFiniteSet(Indices) /\ Indices \subseteq Nat /\ 0 \in Indices
  /\ Guardians \subseteq Nat
<1>1. IsFiniteSet(Guardians)
  <2>1. Guardians \subseteq 1 .. Q - 1 /\ 1 \in Int /\ Q - 1 \in Int
    BY SharingAssumption, Parameters
  <2>2. QED
    BY <2>1, FS_Interval, FS_Subset
<1>2. Quorum \in Nat /\ Quorum >= 1
  BY <1>1, SharingAssumption, FS_CardinalityType
<1>3. IsFiniteSet(0 .. Quorum - 1)
  <2>1. 0 \in Int /\ Quorum - 1 \in Int
    BY <1>2
  <2>2. QED
    BY <2>1, FS_Interval
<1>4. QED
  BY <1>2, <1>3, SharingAssumption, Parameters DEF Indices

LEMMA IndicesUpTo ==
  /\ Quorum \in Nat /\ Quorum >= 1 /\ Indices \subseteq Nat /\ IsFiniteSet(Indices)
  /\ \A i \in Indices : i # 0 => i - 1 \in Indices
  /\ 0 \in Indices /\ Quorum - 1 \in Indices
<1>1. Cardinality(Guardians) \in Nat
  BY GuardianOrders, FS_CardinalityType
<1>2. Quorum \in Nat /\ Quorum >= 1
  BY <1>1, SharingAssumption
<1>3. QED
  BY <1>2, IndicesAreFinite DEF Indices

LEMMA OthersAreGuardians ==
  /\ \A x \in Others : x \in Guardians /\ x \in Nat
  /\ None \notin ElementModQ
BY IndicesAreFinite, Elements DEF Others, None

-----------------------------------------------------------------------------
(* The polynomial in the exponent. *)

\* A coordinate is an element.
LEMMA CoordinateType ==
  ASSUME NEW poly \in Polynomials, NEW x \in Nat
  PROVE  /\ ComputePolynomialCoordinate(x, poly) \in ElementModQ
         /\ DOMAIN poly = Indices
         /\ [i \in Indices |-> (poly[i] * PowQ(x, i)) % Q] \in [Indices -> Nat]
<1> DEFINE f == [i \in Indices |-> (poly[i] * PowQ(x, i)) % Q]
<1>1. DOMAIN poly = Indices
  BY DEF Polynomials
<1>2. ASSUME NEW i \in Indices PROVE (poly[i] * PowQ(x, i)) % Q \in Nat
  <2>1. poly[i] \in Int /\ PowQ(x, i) \in Int
    <3>1. poly[i] \in ElementModQ /\ i \in Nat /\ x \in Int
      BY IndicesAreFinite DEF Polynomials
    <3>2. PowQ(x, i) \in ElementModQ
      BY <3>1, PowQType
    <3>3. QED
      BY <3>1, <3>2, Elements
  <2>2. poly[i] * PowQ(x, i) \in Int
    BY <2>1
  <2>3. QED
    BY <2>2, Parameters, Divided
<1>3. f \in [Indices -> Nat]
  BY <1>2
<1>4. f \in [Indices -> Int]
  BY <1>3
<1> HIDE DEF f
<1>5. AddQ(f) \in ElementModQ
  BY <1>4, IndicesAreFinite, AddQType
<1>6. QED
  BY <1>1, <1>3, <1>5 DEF f, ComputePolynomialCoordinate

\* Whatever the exponents are, as long as they are the powers of x mod Q.
LEMMA CommitmentsYieldKey ==
  ASSUME NEW poly \in Polynomials, NEW x \in Nat, NEW e \in [Indices -> Nat],
         \A i \in Indices : e[i] % Q = PowQ(x, i)
  PROVE  MultP([i \in Indices |-> PowP(GPowP(poly[i]), e[i])])
           = GPowP(ComputePolynomialCoordinate(x, poly))
<1> DEFINE f == [i \in Indices |-> (poly[i] * PowQ(x, i)) % Q]
<1>1. f \in [Indices -> Nat] /\ DOMAIN poly = Indices
  BY CoordinateType
<1>2. ASSUME NEW i \in Indices PROVE PowP(GPowP(poly[i]), e[i]) = PowP(G, f[i])
  <2>1. poly[i] \in Nat /\ e[i] \in Nat /\ G \in Int /\ poly[i] * e[i] \in Nat
    <3>1. poly[i] \in ElementModQ /\ e[i] \in Nat
      BY DEF Polynomials
    <3>2. poly[i] \in Nat
      BY <3>1, Elements
    <3>3. QED
      BY <3>1, <3>2, Parameters
  <2>2. PowP(GPowP(poly[i]), e[i]) = PowP(G, poly[i] * e[i])
    BY <2>1, PowPTimes DEF GPowP
  <2>3. PowP(G, (poly[i] * e[i]) % Q) = PowP(G, poly[i] * e[i])
    BY <2>1, GeneratorIsResidue, PowReduced
  <2>4. (poly[i] * (e[i] % Q)) % Q = (poly[i] * e[i]) % Q
    <3>1. poly[i] \in Int /\ e[i] \in Int
      BY <2>1
    <3>2. QED
      BY <3>1, Parameters, ModTimes, Zenon
  <2>5. QED
    BY <2>2, <2>3, <2>4
<1>3. [i \in Indices |-> PowP(GPowP(poly[i]), e[i])] = [i \in Indices |-> PowP(G, f[i])]
  BY <1>2
<1>4. AddQ(f) = ComputePolynomialCoordinate(x, poly)
  BY <1>1 DEF ComputePolynomialCoordinate
<1> HIDE DEF f
<1>5. MultP([i \in Indices |-> PowP(G, f[i])]) = PowP(G, AddQ(f))
  BY <1>1, IndicesAreFinite, GeneratorIsResidue, ProductOfOnePower
<1>6. QED
  BY <1>3, <1>4, <1>5 DEF GPowP

\* The commitments yield the key of a coordinate.
LEMMA RecoveryKey ==
  ASSUME NEW poly \in Polynomials, NEW x \in Nat
  PROVE  ComputeRecoveryPublicKey(x, Commitments(poly))
           = GPowP(ComputePolynomialCoordinate(x, poly))
<1> DEFINE e == [i \in Indices |-> PowQ(x, i)]
<1>1. ASSUME NEW i \in Indices PROVE e[i] \in Nat /\ e[i] % Q = PowQ(x, i)
  <2>1. PowQ(x, i) \in ElementModQ
    BY IndicesAreFinite, PowQType
  <2>2. QED
    BY <2>1, Elements, Parameters, Small DEF ElementModQ
<1>2. e \in [Indices -> Nat]
  BY <1>1
<1>3. \A i \in Indices : e[i] = PowQ(x, i)
  OBVIOUS
<1> HIDE DEF e
<1>4. MultP([i \in Indices |-> PowP(GPowP(poly[i]), e[i])])
        = GPowP(ComputePolynomialCoordinate(x, poly))
  BY <1>1, <1>2, CommitmentsYieldKey
<1>5. DOMAIN Commitments(poly) = Indices /\ \A i \in Indices : Commitments(poly)[i] = GPowP(poly[i])
  BY DEF Commitments, Polynomials
<1>6. [i \in DOMAIN Commitments(poly) |-> PowP(Commitments(poly)[i], PowQ(x, i))]
        = [i \in Indices |-> PowP(GPowP(poly[i]), e[i])]
  BY <1>3, <1>5
<1>7. QED
  BY <1>4, <1>6 DEF ComputeRecoveryPublicKey

-----------------------------------------------------------------------------
(* Backups. *)

\* The powers of the sequence orders, taken mod P, are still right mod Q: they are as
\* long as they are below P.
SmallOrders == \A x \in Guardians, i \in Indices : PowP(x, i) % Q = PowQ(x, i)

LEMMA VerificationIsExact ==
  ASSUME SmallOrders, NEW poly \in Polynomials, NEW x \in Guardians, NEW value \in ElementModQ
  PROVE  VerifyPolynomialCoordinate(value, x, Commitments(poly))
           <=> value = ComputePolynomialCoordinate(x, poly)
<1> DEFINE e == [i \in Indices |-> PowP(x, i)]
           coordinate == ComputePolynomialCoordinate(x, poly)
<1>1. x \in Nat /\ x \in Int
  BY IndicesAreFinite
<1>2. e \in [Indices -> Nat]
  <2>1. ASSUME NEW i \in Indices PROVE PowP(x, i) \in Nat
    <3>1. i \in Nat
      BY IndicesAreFinite
    <3>2. QED
      BY <1>1, <3>1, PowPType, Elements
  <2>2. QED
    BY <2>1
<1>3. \A i \in Indices : e[i] = PowP(x, i) /\ e[i] % Q = PowQ(x, i)
  BY DEF SmallOrders
<1> HIDE DEF e
<1>4. MultP([i \in Indices |-> PowP(GPowP(poly[i]), e[i])]) = GPowP(coordinate)
  BY <1>1, <1>2, <1>3, CommitmentsYieldKey
<1>5. DOMAIN Commitments(poly) = Indices /\ \A i \in Indices : Commitments(poly)[i] = GPowP(poly[i])
  BY DEF Commitments, Polynomials
<1>6. [i \in DOMAIN Commitments(poly) |-> PowP(Commitments(poly)[i], PowP(x, i))]
        = [i \in Indices |-> PowP(GPowP(poly[i]), e[i])]
  BY <1>3, <1>5
<1>7. coordinate \in ElementModQ
  BY <1>1, CoordinateType
<1>8. VerifyPolynomialCoordinate(value, x, Commitments(poly)) <=> GPowP(value) = GPowP(coordinate)
  BY <1>4, <1>6 DEF VerifyPolynomialCoordinate
<1> HIDE DEF coordinate
<1>9. value = coordinate <=> GPowP(value) = GPowP(coordinate)
  BY <1>7, GeneratorExponent
<1>10. QED
  BY <1>8, <1>9 DEF coordinate

\* The same for a challenge.
LEMMA ChallengeIsExact ==
  ASSUME SmallOrders, NEW poly \in Polynomials, NEW x \in Guardians, NEW y \in Guardians
  PROVE  VerifyChallenge([GenerateChallenge(y, poly) EXCEPT !.designated = x])
           <=> ComputePolynomialCoordinate(y, poly) = ComputePolynomialCoordinate(x, poly)
<1> DEFINE value == ComputePolynomialCoordinate(y, poly)
<1>1. y \in Nat
  BY IndicesAreFinite
<1>2. value \in ElementModQ
  BY <1>1, CoordinateType
<1>3. [GenerateChallenge(y, poly) EXCEPT !.designated = x]
        = [designated |-> x, value |-> value, commitments |-> Commitments(poly)]
  BY DEF GenerateChallenge
<1> HIDE DEF value
<1>4. VerifyChallenge([GenerateChallenge(y, poly) EXCEPT !.designated = x])
        <=> VerifyPolynomialCoordinate(value, x, Commitments(poly))
  BY <1>3 DEF VerifyChallenge
<1>5. QED
  BY <1>2, <1>4, VerificationIsExact DEF value

\* A message opens with the seed and the secret key it was encrypted for.
LEMMA OpensExactly ==
  ASSUME NEW message, NEW nonce \in ElementModQ, NEW secret \in ElementModQ,
         NEW key \in ElementModQ, NEW seed, NEW other
  PROVE  LET sent == HashedElGamalEncrypt(message, nonce, GPowP(secret), seed)
             opened == HashedElGamalDecrypt(sent, key, other)
         IN  /\ key = secret /\ other = seed => opened = [message |-> message]
             /\ other # seed => opened = NoMessage
             /\ key # secret /\ nonce # 0 => opened = NoMessage
<1> DEFINE sent == HashedElGamalEncrypt(message, nonce, GPowP(secret), seed)
           mine == SessionKey(GPowP(nonce), PowP(GPowP(nonce), key))
           theirs == SessionKey(GPowP(nonce), PowP(GPowP(secret), nonce))
<1>1. nonce \in Nat /\ secret \in Nat /\ key \in Nat
  BY Elements
<1>2. PowP(GPowP(secret), nonce) = PowP(GPowP(nonce), secret)
  BY <1>1, GeneratorIsResidue, PowSwap DEF GPowP
<1>3. sent.pad = GPowP(nonce) /\ sent.mac = <<theirs, seed>> /\ sent.data.message = message
  BY DEF HashedElGamalEncrypt
<1>4. key = secret => mine = theirs
  BY <1>2
<1>5. ASSUME key # secret, nonce # 0 PROVE mine # theirs
  <2>1. GPowP(nonce) # 1
    <3>1. nonce \in 1 .. Q - 1
      BY <1>5, Parameters DEF ElementModQ
    <3>2. QED
      BY <3>1, GeneratorIsResidue, OrderIsPrime, Parameters DEF GPowP
  <2>2. GPowP(nonce) \in Residues
    BY <1>1, GPowResidue
  <2>3. PowP(GPowP(nonce), key) # PowP(GPowP(nonce), secret)
    BY <1>5, <2>1, <2>2, ExponentIsUnique
  <2>4. mine.shared # theirs.shared
    BY <1>2, <2>3 DEF SessionKey
  <2>5. QED
    BY <2>4
<1> HIDE DEF sent
<1>6. HashedElGamalDecrypt(sent, key, other)
        = IF <<mine, other>> # <<theirs, seed>> THEN NoMessage ELSE [message |-> message]
  BY <1>3 DEF HashedElGamalDecrypt
<1> HIDE DEF mine, theirs
<1>7. QED
  BY <1>4, <1>5, <1>6 DEF sent

\* What a recipient makes of a backup: OnlyCoordinatesVerify asks it of each.
LEMMA BackupsOpenForTheirRecipient ==
  ASSUME SmallOrders, polynomial \in Polynomials, NEW x \in Others,
         NEW nonce \in ElementModQ, NEW secret \in ElementModQ
  PROVE  BackupOpensFor(x, nonce, secret)
<1> DEFINE coordinate == ComputePolynomialCoordinate(x, polynomial)
           backup == GenerateBackup(x, polynomial, nonce, GPowP(secret))
           commitments == Commitments(polynomial)
           Verify(b, key) == VerifyBackup(b, commitments, key)
           sent == HashedElGamalEncrypt(coordinate, nonce, GPowP(secret), x)
<1>1. x \in Guardians /\ coordinate \in ElementModQ
  BY IndicesAreFinite, CoordinateType DEF Others
<1>2. backup = [designated |-> x, encrypted |-> sent]
  BY DEF GenerateBackup, BackupSeed
<1>3. [message |-> coordinate] # NoMessage
  <2>1. DOMAIN [message |-> coordinate] # DOMAIN NoMessage
    BY DEF NoMessage
  <2>2. QED
    BY <2>1
<1>4. VerifyPolynomialCoordinate(coordinate, x, commitments)
  BY <1>1, VerificationIsExact
<1> HIDE DEF sent, coordinate, commitments
<1>5. Verify(backup, secret) = "verified"
  <2>1. HashedElGamalDecrypt(sent, secret, x) = [message |-> coordinate]
    BY OpensExactly DEF sent
  <2>2. QED
    BY <1>2, <1>3, <1>4, <2>1 DEF VerifyBackup, BackupSeed
<1>6. ASSUME nonce # 0, NEW key \in ElementModQ \ {secret} PROVE Verify(backup, key) = "raises"
  <2>1. HashedElGamalDecrypt(sent, key, x) = NoMessage
    BY <1>6, OpensExactly DEF sent
  <2>2. QED
    BY <1>2, <2>1 DEF VerifyBackup, BackupSeed
<1>7. ASSUME NEW y \in Others \ {x}
      PROVE  Verify([backup EXCEPT !.designated = y], secret) = "raises"
  <2>1. HashedElGamalDecrypt(sent, secret, y) = NoMessage
    BY OpensExactly DEF sent
  <2>2. [backup EXCEPT !.designated = y] = [designated |-> y, encrypted |-> sent]
    BY <1>2
  <2>3. QED
    BY <2>1, <2>2 DEF VerifyBackup, BackupSeed
<1>8. QED
  BY <1>5, <1>6, <1>7 DEF BackupOpensFor, commitments

-----------------------------------------------------------------------------
(* The Lagrange coefficients of the orders in a set, and what they sum to. *)

\* Numerator and denominator of a coefficient.
Above(others) == MultQ([d \in others |-> d % Q])

Below(x, others) == MultQ([d \in others |-> (d - x) % Q])

\* A factor taken out of either.
LEMMA AboveWithout ==
  ASSUME NEW B \in SUBSET Guardians
  PROVE  /\ Above(B) \in ElementModQ
         /\ B = {} => Above(B) = 1
         /\ \A a \in B : Above(B) = TimesQ(a, Above(B \ {a}))
<1> DEFINE f == [d \in B |-> d % Q]
<1>1. IsFiniteSet(B) /\ f \in [B -> ElementModQ]
  BY GuardianOrders, FS_Subset
<1>2. \A a \in B : f[a] = a /\ Part(f, B \ {a}) = [d \in B \ {a} |-> d % Q]
  BY GuardianOrders DEF Part
<1> HIDE DEF f
<1>3. /\ MultQ(f) \in ElementModQ
      /\ B = {} => MultQ(f) = 1
      /\ \A a \in B : MultQ(f) = TimesQ(f[a], MultQ(Part(f, B \ {a})))
  BY <1>1, ProductWithout
<1>4. QED
  BY <1>2, <1>3 DEF Above, f

LEMMA BelowWithout ==
  ASSUME NEW B \in SUBSET Guardians, NEW x \in Guardians, x \notin B
  PROVE  /\ Below(x, B) \in ElementModQ \ {0}
         /\ B = {} => Below(x, B) = 1
         /\ \A a \in B : Below(x, B) = TimesQ(AMinusBQ(a, x), Below(x, B \ {a}))
<1> DEFINE f == [d \in B |-> (d - x) % Q]
<1>1. IsFiniteSet(B) /\ f \in [B -> ElementModQ \ {0}]
  BY GuardianOrders, FS_Subset
<1>2. \A a \in B : f[a] = AMinusBQ(a, x) /\ Part(f, B \ {a}) = [d \in B \ {a} |-> (d - x) % Q]
  BY DEF Part, AMinusBQ
<1> HIDE DEF f
<1>3. f \in [B -> ElementModQ]
  BY <1>1
<1>4. MultQ(f) \in ElementModQ \ {0}
  BY <1>1, ProductIsNotZero
<1>5. /\ B = {} => MultQ(f) = 1
      /\ \A a \in B : MultQ(f) = TimesQ(f[a], MultQ(Part(f, B \ {a})))
  BY <1>1, <1>3, ProductWithout
<1>6. QED
  BY <1>2, <1>4, <1>5 DEF Below, f

LEMMA CoefficientOf ==
  ASSUME NEW B \in SUBSET Guardians, NEW x \in Guardians, x \notin B
  PROVE  /\ ComputeLagrangeCoefficient(x, B) \in ElementModQ
         /\ TimesQ(Below(x, B), ComputeLagrangeCoefficient(x, B)) = Above(B)
<1> DEFINE n == Above(B)
           d == Below(x, B)
           w == InverseQ(d)
<1>1. ComputeLagrangeCoefficient(x, B) = TimesQ(n, w)
  BY DEF ComputeLagrangeCoefficient, DivQ, TimesQ, Above, Below
<1>2. n \in ElementModQ /\ d \in ElementModQ \ {0}
  BY AboveWithout, BelowWithout
<1> HIDE DEF n, d
<1>3. w \in ElementModQ /\ TimesQ(d, w) = 1
  BY <1>2, InverseOf
<1> HIDE DEF w
<1>4. TimesQ(n, w) \in ElementModQ /\ TimesQ(n, w) = TimesQ(w, n)
  BY <1>2, <1>3, RingQ
<1>5. TimesQ(d, TimesQ(w, n)) = TimesQ(TimesQ(d, w), n)
  BY <1>2, <1>3, RingQ
<1>6. TimesQ(1, n) = n
  BY <1>2, UnitsQ
<1>7. QED
  BY <1>1, <1>3, <1>4, <1>5, <1>6 DEF n, d

\* Of the guardian x in the set A.
Weight(x, A) == ComputeLagrangeCoefficient(x, A \ {x})

LEMMA WeightType ==
  ASSUME NEW A \in SUBSET Guardians, NEW x \in A
  PROVE  Weight(x, A) \in ElementModQ
BY CoefficientOf DEF Weight

\* What a guardian more makes of the coefficient of x.
LEMMA OneMore ==
  ASSUME NEW A \in SUBSET Guardians, NEW x \in A, NEW a \in A, x # a
  PROVE  TimesQ(a, Weight(x, A)) = PlusQ(TimesQ(x, Weight(x, A)), TimesQ(a, Weight(x, A \ {a})))
<1> DEFINE B == (A \ {x}) \ {a}
           e == AMinusBQ(a, x)
           d == Below(x, B)
           n == Above(B)
           v == Weight(x, A)
           w == Weight(x, A \ {a})
<1>1. B \in SUBSET Guardians /\ x \notin B /\ (A \ {a}) \ {x} = B
  OBVIOUS
<1>2. /\ v \in ElementModQ /\ TimesQ(Below(x, A \ {x}), v) = Above(A \ {x})
      /\ w \in ElementModQ /\ TimesQ(d, w) = n
      /\ d \in ElementModQ \ {0} /\ n \in ElementModQ
  <2>1. v \in ElementModQ /\ TimesQ(Below(x, A \ {x}), v) = Above(A \ {x})
    BY CoefficientOf DEF Weight
  <2>2. w = ComputeLagrangeCoefficient(x, B)
    BY <1>1 DEF Weight
  <2> HIDE DEF v, w, B
  <2>3. QED
    BY <1>1, <2>1, <2>2, CoefficientOf, BelowWithout, AboveWithout
<1>3. Below(x, A \ {x}) = TimesQ(e, d) /\ Above(A \ {x}) = TimesQ(a, n)
  BY AboveWithout, BelowWithout
<1>4. a \in ElementModQ /\ x \in ElementModQ /\ e \in ElementModQ /\ PlusQ(e, x) = a
  BY GuardianOrders, DifferenceQ
<1> HIDE DEF B, e, d, n, v, w
<1>5. TimesQ(e, v) = TimesQ(a, w)
  <2>1. TimesQ(d, TimesQ(e, v)) = TimesQ(TimesQ(e, d), v)
    <3>1. TimesQ(d, TimesQ(e, v)) = TimesQ(TimesQ(d, e), v)
      BY <1>2, <1>4, RingQ
    <3>2. TimesQ(d, e) = TimesQ(e, d)
      BY <1>2, <1>4, RingQ
    <3>3. QED
      BY <3>1, <3>2
  <2>2. TimesQ(d, TimesQ(a, w)) = TimesQ(a, TimesQ(d, w))
    <3>1. TimesQ(d, TimesQ(a, w)) = TimesQ(TimesQ(d, a), w)
      BY <1>2, <1>4, RingQ
    <3>2. TimesQ(a, TimesQ(d, w)) = TimesQ(TimesQ(a, d), w)
      BY <1>2, <1>4, RingQ
    <3>3. TimesQ(d, a) = TimesQ(a, d)
      BY <1>2, <1>4, RingQ
    <3>4. QED
      BY <3>1, <3>2, <3>3
  <2>3. TimesQ(d, TimesQ(e, v)) = TimesQ(d, TimesQ(a, w))
    BY <1>2, <1>3, <2>1, <2>2
  <2>4. TimesQ(e, v) \in ElementModQ /\ TimesQ(a, w) \in ElementModQ
    BY <1>2, <1>4, RingQ
  <2>5. QED
    BY <1>2, <2>3, <2>4, TimesCancels
<1>6. TimesQ(v, PlusQ(x, e)) = PlusQ(TimesQ(v, x), TimesQ(v, e))
  BY <1>2, <1>4, RingQ
<1>7. /\ PlusQ(x, e) = PlusQ(e, x) /\ TimesQ(v, a) = TimesQ(a, v)
      /\ TimesQ(v, x) = TimesQ(x, v) /\ TimesQ(v, e) = TimesQ(e, v)
  BY <1>2, <1>4, RingQ
<1>8. QED
  BY <1>4, <1>5, <1>6, <1>7 DEF v, w

LEMMA PowQLaws ==
  ASSUME NEW x \in Guardians, NEW i \in Nat
  PROVE  /\ PowQ(x, 0) = 1
         /\ PowQ(x, i) \in ElementModQ
         /\ PowQ(x, i + 1) = TimesQ(x, PowQ(x, i))
BY GuardianOrders, PowQType, PowZero, PowSucc, Parameters DEF PowQ, TimesQ

\* The coefficients weigh the i-th powers of the orders.
Terms(A, i) == [x \in A |-> TimesQ(Weight(x, A), PowQ(x, i))]

Weighed(A, i) == AddQ(Terms(A, i))

LEMMA TermsType ==
  ASSUME NEW A \in SUBSET Guardians, NEW i \in Nat
  PROVE  /\ IsFiniteSet(A) /\ Terms(A, i) \in [A -> ElementModQ]
         /\ Weighed(A, i) \in ElementModQ
         /\ A = {} => Weighed(A, i) = 0
<1>1. IsFiniteSet(A)
  BY GuardianOrders, FS_Subset
<1>2. ASSUME NEW x \in A PROVE TimesQ(Weight(x, A), PowQ(x, i)) \in ElementModQ
  BY WeightType, PowQLaws, RingQ
<1>3. Terms(A, i) \in [A -> ElementModQ]
  BY <1>2 DEF Terms
<1>4. QED
  BY <1>1, <1>3, SumWithout DEF Weighed

LEMMA OneMoreTerm ==
  ASSUME NEW A \in SUBSET Guardians, NEW x \in A, NEW a \in A, NEW i \in Nat
  PROVE  TimesQ(a, Terms(A, i)[x])
           = PlusQ(Terms(A, i + 1)[x], IF x = a THEN 0 ELSE TimesQ(a, Terms(A \ {a}, i)[x]))
<1> DEFINE v == Weight(x, A)
           w == Weight(x, A \ {a})
           p == PowQ(x, i)
<1>1. /\ v \in ElementModQ /\ p \in ElementModQ /\ a \in ElementModQ /\ x \in ElementModQ
      /\ x # a => w \in ElementModQ
      /\ PowQ(x, i + 1) = TimesQ(x, p)
  BY WeightType, PowQLaws, GuardianOrders
<1>2. /\ Terms(A, i)[x] = TimesQ(v, p) /\ Terms(A, i + 1)[x] = TimesQ(v, TimesQ(x, p))
      /\ x # a => Terms(A \ {a}, i)[x] = TimesQ(w, p)
  BY <1>1 DEF Terms
<1>3. x # a => TimesQ(a, v) = PlusQ(TimesQ(x, v), TimesQ(a, w))
  BY OneMore
<1> HIDE DEF v, w, p
<1>4. TimesQ(a, TimesQ(v, p)) = TimesQ(TimesQ(a, v), p)
  BY <1>1, RingQ
<1>5. TimesQ(v, TimesQ(x, p)) = TimesQ(TimesQ(x, v), p)
  <2>1. TimesQ(v, TimesQ(x, p)) = TimesQ(TimesQ(v, x), p) /\ TimesQ(v, x) = TimesQ(x, v)
    BY <1>1, RingQ
  <2>2. QED
    BY <2>1
<1>6. CASE x = a
  <2>1. TimesQ(TimesQ(x, v), p) \in ElementModQ
    BY <1>1, RingQ
  <2>2. PlusQ(TimesQ(TimesQ(x, v), p), 0) = TimesQ(TimesQ(x, v), p)
    BY <2>1, UnitsQ
  <2>3. QED
    BY <1>2, <1>4, <1>5, <1>6, <2>2
<1>7. CASE x # a
  <2> DEFINE xv == TimesQ(x, v)
             aw == TimesQ(a, w)
  <2>1. xv \in ElementModQ /\ aw \in ElementModQ
    BY <1>1, <1>7, RingQ
  <2>2. TimesQ(a, TimesQ(w, p)) = TimesQ(aw, p)
    BY <1>1, <1>7, RingQ
  <2> HIDE DEF xv, aw
  <2>3. TimesQ(p, PlusQ(xv, aw)) = PlusQ(TimesQ(p, xv), TimesQ(p, aw))
    BY <1>1, <2>1, RingQ
  <2>4. /\ TimesQ(p, xv) = TimesQ(xv, p) /\ TimesQ(p, aw) = TimesQ(aw, p)
        /\ TimesQ(p, PlusQ(xv, aw)) = TimesQ(PlusQ(xv, aw), p)
    BY <1>1, <2>1, RingQ
  <2>5. TimesQ(TimesQ(a, v), p) = PlusQ(TimesQ(xv, p), TimesQ(aw, p))
    BY <1>3, <1>7, <2>3, <2>4 DEF xv, aw
  <2>6. QED
    BY <1>2, <1>4, <1>5, <1>7, <2>2, <2>5 DEF xv
<1>8. QED
  BY <1>6, <1>7

\* A guardian taken out of a set: its weighed powers recurse.
LEMMA WeighedWithout ==
  ASSUME NEW A \in SUBSET Guardians, NEW a \in A, NEW i \in Nat
  PROVE  TimesQ(a, Weighed(A, i)) = PlusQ(Weighed(A, i + 1), TimesQ(a, Weighed(A \ {a}, i)))
<1> DEFINE B == A \ {a}
           f == Terms(A, i)
           k == Terms(A, i + 1)
           t == Terms(B, i)
           g == [x \in A |-> IF x = a THEN 0 ELSE TimesQ(a, t[x])]
           h == [x \in A |-> TimesQ(a, f[x])]
           r == [x \in B |-> TimesQ(a, t[x])]
<1>1. B \in SUBSET Guardians /\ i + 1 \in Nat
  OBVIOUS
<1>2. /\ IsFiniteSet(A) /\ IsFiniteSet(B) /\ f \in [A -> ElementModQ] /\ k \in [A -> ElementModQ]
      /\ t \in [B -> ElementModQ] /\ a \in ElementModQ
  <2> HIDE DEF B
  <2>1. QED
    BY <1>1, TermsType, GuardianOrders
<1>3. \A x \in A : TimesQ(a, f[x]) = PlusQ(k[x], IF x = a THEN 0 ELSE TimesQ(a, t[x]))
  BY OneMoreTerm
<1> HIDE DEF f, k, t
<1>4. g \in [A -> ElementModQ] /\ h \in [A -> ElementModQ] /\ r \in [B -> ElementModQ]
  BY <1>2, RingQ
<1>5. /\ \A x \in A : h[x] = TimesQ(a, f[x]) /\ h[x] = PlusQ(k[x], g[x])
      /\ \A x \in B : r[x] = TimesQ(a, t[x])
      /\ g[a] = 0 /\ Part(g, B) = r
  BY <1>3 DEF Part
<1> HIDE DEF g, h, r
<1>6. AddQ(h) = TimesQ(a, AddQ(f))
  BY <1>2, <1>4, <1>5, SumTimes
<1>7. AddQ(h) = PlusQ(AddQ(k), AddQ(g))
  BY <1>2, <1>4, <1>5, SumPlus
<1>8. AddQ(g) = PlusQ(g[a], AddQ(Part(g, B)))
  BY <1>2, <1>4, SumWithout
<1>9. AddQ(r) = TimesQ(a, AddQ(t)) /\ AddQ(r) \in ElementModQ
  <2>1. AddQ(r) = TimesQ(a, AddQ(t))
    <3> HIDE DEF B
    <3>1. IsFiniteSet(B) /\ t \in [B -> ElementModQ] /\ r \in [B -> ElementModQ] /\ a \in ElementModQ
      BY <1>2, <1>4
    <3>2. \A x \in B : r[x] = TimesQ(a, t[x])
      BY <1>5
    <3>3. QED
      BY <3>1, <3>2, SumTimes
  <2>2. QED
    BY <1>2, <1>4, <2>1, SumWithout
<1>10. PlusQ(0, AddQ(r)) = AddQ(r)
  BY <1>9, UnitsQ
<1>11. QED
  BY <1>5, <1>6, <1>7, <1>8, <1>9, <1>10 DEF Weighed, f, k, t, B

\* The weights of a set sum to one, and to zero with the lower powers of the orders.
Interpolates(A) ==
  A # {} => /\ Weighed(A, 0) = 1
            /\ \A i \in Nat : i + 2 <= Cardinality(A) => Weighed(A, i + 1) = 0

LEMMA WeightOfOne ==
  ASSUME NEW a \in Guardians
  PROVE  Weighed({a}, 0) = 1
<1> DEFINE A == {a}
           v == Weight(a, A)
           t == Terms(A, 0)
<1>1. A \in SUBSET Guardians /\ a \in A /\ A \ {a} = {}
  OBVIOUS
<1>2. v = 1
  <2>1. /\ v \in ElementModQ /\ TimesQ(Below(a, {}), v) = Above({})
        /\ Below(a, {}) = 1 /\ Above({}) = 1
    BY <1>1, CoefficientOf, BelowWithout, AboveWithout DEF Weight
  <2>2. TimesQ(1, v) = v
    BY <2>1, UnitsQ
  <2>3. QED
    BY <2>1, <2>2
<1>3. t[a] = 1 /\ PowQ(a, 0) = 1
  <2>1. PowQ(a, 0) = 1
    BY PowQLaws
  <2>2. TimesQ(1, 1) = 1
    BY RingQ, UnitsQ
  <2>3. QED
    BY <1>2, <2>1, <2>2 DEF Terms
<1>4. IsFiniteSet(A) /\ t \in [A -> ElementModQ]
  BY <1>1, TermsType
<1>5. Part(t, A \ {a}) \in [{} -> ElementModQ] /\ IsFiniteSet({})
  BY <1>1, <1>4, FS_EmptySet DEF Part
<1>6. AddQ(Part(t, A \ {a})) = 0
  BY <1>5, SumWithout
<1> HIDE DEF t, A
<1>7. AddQ(t) = PlusQ(t[a], AddQ(Part(t, A \ {a})))
  BY <1>1, <1>4, SumWithout
<1>8. PlusQ(1, 0) = 1
  BY RingQ, UnitsQ
<1>9. QED
  BY <1>3, <1>6, <1>7, <1>8 DEF Weighed, t, A

LEMMA WeightsOfMore ==
  ASSUME NEW A \in SUBSET Guardians, NEW a \in A, NEW b \in A, a # b,
         Weighed(A \ {a}, 0) = 1, Weighed(A \ {b}, 0) = 1
  PROVE  Weighed(A, 0) = 1 /\ Weighed(A, 1) = 0
<1> DEFINE t == Weighed(A, 0)
           u == Weighed(A, 1)
           e == AMinusBQ(a, b)
<1>1. t \in ElementModQ /\ u \in ElementModQ
  BY TermsType
<1>2. /\ a \in ElementModQ /\ b \in ElementModQ /\ e \in ElementModQ \ {0}
      /\ PlusQ(e, b) = a /\ PlusQ(b, e) = a
  <2>1. a \in ElementModQ /\ b \in ElementModQ
    BY GuardianOrders
  <2>2. e \in ElementModQ \ {0} /\ PlusQ(e, b) = a
    BY <2>1, DifferenceQ
  <2> HIDE DEF e
  <2>3. QED
    BY <2>1, <2>2, RingQ
<1>3. TimesQ(a, t) = PlusQ(u, a) /\ TimesQ(b, t) = PlusQ(u, b)
  <2>1. /\ TimesQ(a, Weighed(A, 0)) = PlusQ(Weighed(A, 0 + 1), TimesQ(a, 1))
        /\ TimesQ(b, Weighed(A, 0)) = PlusQ(Weighed(A, 0 + 1), TimesQ(b, 1))
    <3>1. 0 \in Nat
      OBVIOUS
    <3>2. /\ TimesQ(a, Weighed(A, 0)) = PlusQ(Weighed(A, 0 + 1), TimesQ(a, Weighed(A \ {a}, 0)))
          /\ TimesQ(b, Weighed(A, 0)) = PlusQ(Weighed(A, 0 + 1), TimesQ(b, Weighed(A \ {b}, 0)))
      BY <3>1, WeighedWithout, Zenon
    <3>3. QED
      BY <3>2
  <2>2. TimesQ(a, 1) = a /\ TimesQ(b, 1) = b
    BY <1>2, UnitsQ
  <2>3. QED
    BY <2>1, <2>2
<1> HIDE DEF t, u, e
<1> DEFINE w == PlusQ(u, b)
<1>4. w \in ElementModQ /\ TimesQ(e, t) \in ElementModQ
  BY <1>1, <1>2, RingQ
<1>5. TimesQ(a, t) = PlusQ(w, TimesQ(e, t))
  <2>1. TimesQ(t, PlusQ(b, e)) = PlusQ(TimesQ(t, b), TimesQ(t, e))
    BY <1>1, <1>2, RingQ
  <2>2. TimesQ(t, a) = TimesQ(a, t) /\ TimesQ(t, b) = TimesQ(b, t) /\ TimesQ(t, e) = TimesQ(e, t)
    BY <1>1, <1>2, RingQ
  <2>3. QED
    BY <1>2, <1>3, <2>1, <2>2
<1>6. PlusQ(u, a) = PlusQ(w, e)
  <2>1. PlusQ(u, PlusQ(b, e)) = PlusQ(PlusQ(u, b), e)
    BY <1>1, <1>2, RingQ
  <2>2. QED
    BY <1>2, <2>1
<1> HIDE DEF w
<1>7. TimesQ(e, t) = e
  BY <1>2, <1>3, <1>4, <1>5, <1>6, PlusCancels
<1>8. TimesQ(e, 1) = e /\ TimesQ(a, 1) = a /\ PlusQ(a, 0) = a /\ 1 \in ElementModQ /\ 0 \in ElementModQ
  BY <1>2, UnitsQ, RingQ
<1>9. t = 1
  BY <1>1, <1>2, <1>7, <1>8, TimesCancels
<1>10. PlusQ(a, u) = PlusQ(a, 0)
  <2>1. PlusQ(u, a) = PlusQ(a, u)
    BY <1>1, <1>2, RingQ
  <2>2. QED
    BY <1>3, <1>8, <1>9, <2>1
<1>11. u = 0
  BY <1>1, <1>2, <1>8, <1>10, PlusCancels
<1>12. QED
  BY <1>9, <1>11 DEF t, u

\* A larger set has them from the sets with one guardian less.
LEMMA InterpolationStep ==
  ASSUME NEW A \in SUBSET Guardians, A # {}, \A a \in A : Interpolates(A \ {a})
  PROVE  Interpolates(A)
<1>1. PICK a \in A : TRUE
  OBVIOUS
<1>2. IsFiniteSet(A) /\ Cardinality(A) \in Nat /\ a \in Guardians /\ A \ {a} \in SUBSET Guardians
  BY GuardianOrders, FS_Subset, FS_CardinalityType
<1>3. CASE A = {a}
  <2>1. Weighed(A, 0) = 1
    BY <1>2, <1>3, WeightOfOne
  <2>2. Cardinality(A) = 1
    BY <1>3, FS_Singleton
  <2>3. QED
    BY <2>1, <2>2 DEF Interpolates
<1>4. CASE A # {a}
  <2>1. PICK b \in A : b # a
    BY <1>4
  <2>2. Weighed(A \ {a}, 0) = 1 /\ Weighed(A \ {b}, 0) = 1
    BY <2>1 DEF Interpolates
  <2>3. Weighed(A, 0) = 1 /\ Weighed(A, 1) = 0
    BY <2>1, <2>2, WeightsOfMore
  <2> DEFINE N == {n \in Nat : n + 2 <= Cardinality(A) => Weighed(A, n + 1) = 0}
  <2>4. 0 \in N
    BY <2>3
  <2>5. ASSUME NEW n \in N PROVE n + 1 \in N
    <3>1. SUFFICES ASSUME n + 1 + 2 <= Cardinality(A) PROVE Weighed(A, n + 1 + 1) = 0
      OBVIOUS
    <3>2. Weighed(A, n + 1) = 0
      BY <1>2, <3>1
    <3>3. Weighed(A \ {a}, n + 1) = 0
      <4>1. Cardinality(A \ {a}) = Cardinality(A) - 1 /\ A \ {a} # {}
        BY <1>2, <2>1, FS_RemoveElement
      <4>2. n + 2 <= Cardinality(A \ {a})
        BY <1>2, <3>1, <4>1
      <4>3. QED
        BY <4>1, <4>2 DEF Interpolates
    <3>4. n + 1 \in Nat
      OBVIOUS
    <3> HIDE DEF N
    <3>5. TimesQ(a, 0) = PlusQ(Weighed(A, n + 1 + 1), TimesQ(a, 0))
      BY <3>2, <3>3, <3>4, WeighedWithout
    <3>6. TimesQ(a, 0) = 0
      BY <1>2, GuardianOrders, UnitsQ
    <3>7. Weighed(A, n + 1 + 1) \in ElementModQ
      BY <3>4, TermsType
    <3>8. PlusQ(Weighed(A, n + 1 + 1), 0) = Weighed(A, n + 1 + 1)
      BY <3>7, UnitsQ
    <3>9. QED
      BY <3>5, <3>6, <3>8
  <2>6. N \in SUBSET Nat
    OBVIOUS
  <2> HIDE DEF N
  <2>7. \A n \in Nat : n \in N
    BY <2>4, <2>5, <2>6, Induction
  <2>8. QED
    BY <2>3, <2>7 DEF N, Interpolates
<1>5. QED
  BY <1>3, <1>4

\* The weights of every set of guardians interpolate.
LEMMA Interpolation == \A A \in SUBSET Guardians : Interpolates(A)
<1> DEFINE Good == {s \in SUBSET Guardians : Interpolates(s)}
<1>1. {} \in Good
  BY DEF Interpolates
<1>2. ASSUME NEW s \in SUBSET Guardians, s # {}, \A a \in s : s \ {a} \in Good PROVE s \in Good
  BY <1>2, InterpolationStep
<1>3. Good \in SUBSET (SUBSET Guardians)
  OBVIOUS
<1> HIDE DEF Good
<1>4. \A s \in SUBSET Guardians : s \in Good
  BY <1>1, <1>2, <1>3, GuardianOrders, SetInduction
<1>5. QED
  BY <1>4 DEF Good

-----------------------------------------------------------------------------
(* What a quorum of coordinates makes. *)

\* A coordinate is a sum over the coefficients.
LEMMA CoordinateIsSum ==
  ASSUME NEW poly \in Polynomials, NEW x \in Guardians
  PROVE  /\ \A i \in Indices : poly[i] \in ElementModQ /\ i \in Nat /\ PowQ(x, i) \in ElementModQ
         /\ [i \in Indices |-> TimesQ(poly[i], PowQ(x, i))] \in [Indices -> ElementModQ]
         /\ ComputePolynomialCoordinate(x, poly) = AddQ([i \in Indices |-> TimesQ(poly[i], PowQ(x, i))])
         /\ ComputePolynomialCoordinate(x, poly) \in ElementModQ
<1>1. ASSUME NEW i \in Indices PROVE poly[i] \in ElementModQ /\ i \in Nat
  BY IndicesAreFinite DEF Polynomials
<1>2. \A i \in Indices : PowQ(x, i) \in ElementModQ
  BY <1>1, PowQLaws
<1>3. [i \in Indices |-> TimesQ(poly[i], PowQ(x, i))] \in [Indices -> ElementModQ]
  BY <1>1, <1>2, RingQ
<1>4. DOMAIN poly = Indices
  BY DEF Polynomials
<1>5. ComputePolynomialCoordinate(x, poly) = AddQ([i \in Indices |-> TimesQ(poly[i], PowQ(x, i))])
  BY <1>4 DEF ComputePolynomialCoordinate, TimesQ
<1>6. QED
  BY <1>1, <1>2, <1>3, <1>5, IndicesAreFinite, SumWithout

\* The weighted coordinates of a quorum are the secret.
LEMMA Interpolated ==
  ASSUME NEW poly \in Polynomials, NEW A \in SUBSET Guardians, Cardinality(A) >= Quorum
  PROVE  AddQ([x \in A |-> TimesQ(Weight(x, A), ComputePolynomialCoordinate(x, poly))]) = poly[0]
<1> DEFINE term(x, i) == TimesQ(Weight(x, A), TimesQ(poly[i], PowQ(x, i)))
           f == [x \in A |-> [i \in Indices |-> term(x, i)]]
           g == [i \in Indices |-> [x \in A |-> term(x, i)]]
           m == [i \in Indices |-> AddQ(g[i])]
<1>1. IsFiniteSet(A) /\ IsFiniteSet(Indices) /\ A # {} /\ 0 \in Indices
  <2>1. Quorum \in Nat /\ Quorum >= 1 /\ IsFiniteSet(A)
    <3>1. Cardinality(Guardians) \in Nat /\ IsFiniteSet(A)
      BY GuardianOrders, FS_Subset, FS_CardinalityType
    <3>2. QED
      BY <3>1, SharingAssumption
  <2>2. A # {}
    BY <2>1, FS_EmptySet
  <2>3. QED
    BY <2>1, <2>2, IndicesAreFinite
<1>2. ASSUME NEW x \in A, NEW i \in Indices
      PROVE  /\ Weight(x, A) \in ElementModQ /\ poly[i] \in ElementModQ /\ PowQ(x, i) \in ElementModQ
             /\ TimesQ(poly[i], PowQ(x, i)) \in ElementModQ
             /\ term(x, i) \in ElementModQ
  BY WeightType, CoordinateIsSum, RingQ
<1>3. IsMatrix(f, A, Indices) /\ IsMatrix(g, Indices, A) /\ Transposed(f, g, A, Indices)
  <2>1. \A x \in A, i \in Indices : term(x, i) \in ElementModQ
    BY <1>2
  <2> HIDE DEF term
  <2>2. QED
    BY <2>1 DEF IsMatrix, Transposed
<1>4. ASSUME NEW x \in A
      PROVE  AddQ(f[x]) = TimesQ(Weight(x, A), ComputePolynomialCoordinate(x, poly))
  <2> DEFINE h == [i \in Indices |-> term(x, i)]
             k == [i \in Indices |-> TimesQ(poly[i], PowQ(x, i))]
             w == Weight(x, A)
  <2>1. /\ h \in [Indices -> ElementModQ] /\ k \in [Indices -> ElementModQ] /\ w \in ElementModQ
        /\ \A i \in Indices : h[i] = TimesQ(w, k[i])
    BY <1>1, <1>2
  <2>2. f[x] = h /\ AddQ(k) = ComputePolynomialCoordinate(x, poly)
    BY CoordinateIsSum
  <2> HIDE DEF h, k, w, f, g, m, term
  <2>3. AddQ(h) = TimesQ(w, AddQ(k))
    BY <1>1, <2>1, SumTimes
  <2>4. QED
    BY <2>2, <2>3 DEF w
<1>5. ASSUME NEW i \in Indices PROVE m[i] = TimesQ(poly[i], Weighed(A, i)) /\ m[i] \in ElementModQ
  <2> DEFINE h == [x \in A |-> term(x, i)]
             k == Terms(A, i)
             c == poly[i]
  <2>1. c \in ElementModQ /\ i \in Nat
    BY <1>1, CoordinateIsSum
  <2>2. k \in [A -> ElementModQ]
    BY <2>1, TermsType
  <2>3. h \in [A -> ElementModQ]
    BY <1>2
  <2>4. ASSUME NEW x \in A PROVE h[x] = TimesQ(c, k[x])
    <3> DEFINE w == Weight(x, A)
               p == PowQ(x, i)
    <3>1. w \in ElementModQ /\ p \in ElementModQ
      BY <1>2
    <3>2. h[x] = TimesQ(w, TimesQ(c, p)) /\ k[x] = TimesQ(w, p)
      BY DEF Terms
    <3> HIDE DEF w, p, h, k, c
    <3>3. TimesQ(w, TimesQ(c, p)) = TimesQ(TimesQ(w, c), p)
      BY <2>1, <3>1, RingQ
    <3>4. TimesQ(c, TimesQ(w, p)) = TimesQ(TimesQ(c, w), p)
      BY <2>1, <3>1, RingQ
    <3>5. TimesQ(c, w) = TimesQ(w, c)
      BY <2>1, <3>1, RingQ
    <3>6. QED
      BY <3>2, <3>3, <3>4, <3>5
  <2>5. m[i] = AddQ(h)
    OBVIOUS
  <2> HIDE DEF h, k, c, f, g, m, term
  <2>6. AddQ(h) = TimesQ(c, AddQ(k))
    BY <1>1, <2>1, <2>2, <2>3, <2>4, SumTimes
  <2>7. AddQ(h) \in ElementModQ
    BY <1>1, <2>3, SumWithout
  <2>8. QED
    BY <2>5, <2>6, <2>7 DEF c, k, Weighed
<1>6. AddQ([x \in A |-> TimesQ(Weight(x, A), ComputePolynomialCoordinate(x, poly))]) = AddQ(m)
  <2>1. AddQ([x \in A |-> AddQ(f[x])]) = AddQ([i \in Indices |-> AddQ(g[i])])
    <3> HIDE DEF f, g
    <3>1. QED
      BY <1>1, <1>3, SumExchange
  <2> HIDE DEF f, g
  <2>2. [x \in A |-> AddQ(f[x])] = [x \in A |-> TimesQ(Weight(x, A), ComputePolynomialCoordinate(x, poly))]
    BY <1>4
  <2>3. QED
    BY <2>1, <2>2
<1> HIDE DEF term, f, g
<1>7. m \in [Indices -> ElementModQ]
  BY <1>5
<1> HIDE DEF m
<1>8. m[0] = poly[0] /\ poly[0] \in ElementModQ
  <2>1. Weighed(A, 0) = 1
    BY <1>1, Interpolation DEF Interpolates
  <2>2. poly[0] \in ElementModQ
    BY <1>1 DEF Polynomials
  <2>3. QED
    BY <1>1, <1>5, <2>1, <2>2, UnitsQ
<1>9. ASSUME NEW i \in Indices \ {0} PROVE m[i] = 0
  <2>1. Quorum \in Nat /\ Cardinality(A) \in Nat
    BY <1>1, GuardianOrders, SharingAssumption, FS_CardinalityType
  <2>2. i - 1 \in Nat /\ (i - 1) + 2 <= Cardinality(A) /\ (i - 1) + 1 = i
    BY <2>1 DEF Indices
  <2>3. Weighed(A, (i - 1) + 1) = 0
    BY <1>1, <2>2, Interpolation DEF Interpolates
  <2>4. poly[i] \in ElementModQ
    BY DEF Polynomials
  <2>5. QED
    BY <1>5, <2>2, <2>3, <2>4, UnitsQ
<1> DEFINE r == Part(m, Indices \ {0})
<1>10. AddQ(r) = 0
  <2>1. IsFiniteSet(Indices \ {0}) /\ r \in [Indices \ {0} -> ElementModQ] /\ \A i \in Indices \ {0} : r[i] = 0
    BY <1>1, <1>7, <1>9, FS_Subset DEF Part
  <2> HIDE DEF r
  <2>2. QED
    BY <2>1, SumOfZeros
<1>11. AddQ(m) = PlusQ(m[0], AddQ(r))
  BY <1>1, <1>7, SumWithout
<1>12. QED
  BY <1>6, <1>8, <1>10, <1>11, UnitsQ

\* The shares of a set, raised to the weights.
LEMMA SharesCombine ==
  ASSUME NEW A \in SUBSET Guardians, NEW a \in Residues, NEW c \in [A -> ElementModQ]
  PROVE  ReconstructShare([x \in A |-> PowP(a, c[x])], LagrangeCoefficients(A))
           = PowP(a, AddQ([x \in A |-> TimesQ(Weight(x, A), c[x])]))
<1> DEFINE f == [x \in A |-> TimesQ(Weight(x, A), c[x])]
<1>1. IsFiniteSet(A)
  BY GuardianOrders, FS_Subset
<1>2. ASSUME NEW x \in A PROVE f[x] \in Nat /\ PowP(PowP(a, c[x]), Weight(x, A)) = PowP(a, f[x])
  <2> DEFINE w == Weight(x, A)
             d == c[x]
  <2>1. w \in Nat /\ d \in Nat /\ a \in Int /\ f[x] = TimesQ(w, d) /\ TimesQ(w, d) \in Nat
    <3>1. w \in ElementModQ /\ d \in ElementModQ /\ a \in Int
      BY WeightType, ResidueType
    <3>2. TimesQ(w, d) \in ElementModQ
      BY <3>1, RingQ
    <3>3. QED
      BY <3>1, <3>2, Elements
  <2> HIDE DEF w, d, f
  <2>2. d * w \in Nat /\ w * d = d * w
    BY <2>1
  <2>3. PowP(PowP(a, d), w) = PowP(a, d * w)
    BY <2>1, PowPTimes, Zenon
  <2>4. PowP(a, (d * w) % Q) = PowP(a, d * w)
    BY <2>2, PowReduced, Zenon
  <2>5. f[x] \in Nat /\ PowP(PowP(a, d), w) = PowP(a, f[x])
    BY <2>1, <2>2, <2>3, <2>4 DEF TimesQ
  <2>6. QED
    BY <2>5 DEF d, w
<1>3. f \in [A -> Nat]
  BY <1>2
<1>4. ReconstructShare([x \in A |-> PowP(a, c[x])], LagrangeCoefficients(A))
        = MultP([x \in A |-> PowP(PowP(a, c[x]), Weight(x, A))])
  <2> DEFINE shares == [x \in A |-> PowP(a, c[x])]
             weights == LagrangeCoefficients(A)
  <2>1. /\ DOMAIN shares = A
        /\ \A x \in A : shares[x] = PowP(a, c[x]) /\ weights[x] = Weight(x, A)
    BY DEF LagrangeCoefficients, Weight
  <2> HIDE DEF shares, weights
  <2>2. [x \in DOMAIN shares |-> PowP(shares[x], weights[x])]
          = [x \in A |-> PowP(PowP(a, c[x]), Weight(x, A))]
    BY <2>1
  <2>3. ReconstructShare(shares, weights) = MultP([x \in A |-> PowP(PowP(a, c[x]), Weight(x, A))])
    BY <2>2 DEF ReconstructShare
  <2>4. QED
    BY <2>3 DEF shares, weights
<1> HIDE DEF f
<1>5. [x \in A |-> PowP(PowP(a, c[x]), Weight(x, A))] = [x \in A |-> PowP(a, f[x])]
  BY <1>2
<1>6. MultP([x \in A |-> PowP(a, f[x])]) = PowP(a, AddQ(f))
  BY <1>1, <1>3, ProductOfOnePower
<1>7. QED
  BY <1>4, <1>5, <1>6 DEF f

-----------------------------------------------------------------------------
(* Polynomials of the owner's degree: how their coordinates add up. *)

\* Sum, multiple and constant.
Added(p, q) == [i \in Indices |-> PlusQ(p[i], q[i])]

Multiple(c, p) == [i \in Indices |-> TimesQ(c, p[i])]

Constant(c) == [i \in Indices |-> IF i = 0 THEN c ELSE 0]

\* The coefficients one place up: the polynomial times its variable.
Shifted(p) == [i \in Indices |-> IF i = 0 THEN 0 ELSE p[i - 1]]

LEMMA PolynomialTypes ==
  /\ \A p, q \in Polynomials : Added(p, q) \in Polynomials
  /\ \A c \in ElementModQ, p \in Polynomials : Multiple(c, p) \in Polynomials
  /\ \A c \in ElementModQ : Constant(c) \in Polynomials
  /\ \A p \in Polynomials : Shifted(p) \in Polynomials
<1>1. ASSUME NEW p \in Polynomials, NEW q \in Polynomials PROVE Added(p, q) \in Polynomials
  <2>1. \A i \in Indices : p[i] \in ElementModQ /\ q[i] \in ElementModQ
    BY DEF Polynomials
  <2>2. \A i \in Indices : PlusQ(p[i], q[i]) \in ElementModQ
    BY <2>1, RingQ
  <2>3. QED
    BY <2>2 DEF Polynomials, Added
<1>2. ASSUME NEW c \in ElementModQ, NEW p \in Polynomials PROVE Multiple(c, p) \in Polynomials
  <2>1. \A i \in Indices : p[i] \in ElementModQ
    BY DEF Polynomials
  <2>2. \A i \in Indices : TimesQ(c, p[i]) \in ElementModQ
    BY <2>1, RingQ
  <2>3. QED
    BY <2>2 DEF Polynomials, Multiple
<1>3. ASSUME NEW c \in ElementModQ PROVE Constant(c) \in Polynomials
  BY RingQ DEF Polynomials, Constant
<1>4. ASSUME NEW p \in Polynomials PROVE Shifted(p) \in Polynomials
  BY RingQ, IndicesUpTo DEF Polynomials, Shifted
<1>5. QED
  BY <1>1, <1>2, <1>3, <1>4

LEMMA PartOfIndices ==
  ASSUME NEW f \in [Indices -> ElementModQ], NEW s \in SUBSET Indices, NEW a \in s
  PROVE  /\ f[a] \in ElementModQ /\ AddQ(Part(f, s \ {a})) \in ElementModQ
         /\ AddQ(Part(f, s)) = PlusQ(f[a], AddQ(Part(f, s \ {a})))
<1>1. IsFiniteSet(Indices)
  BY IndicesUpTo
<1>2. QED
  BY <1>1, SumOfPart

\* The terms of the coordinate at x.
Monomials(p, x) == [i \in Indices |-> TimesQ(p[i], PowQ(x, i))]

LEMMA MonomialsSum ==
  ASSUME NEW p \in Polynomials, NEW x \in Guardians
  PROVE  /\ Monomials(p, x) \in [Indices -> ElementModQ]
         /\ ComputePolynomialCoordinate(x, p) = AddQ(Monomials(p, x))
         /\ ComputePolynomialCoordinate(x, p) \in ElementModQ
         /\ \A i \in Indices : /\ p[i] \in ElementModQ /\ PowQ(x, i) \in ElementModQ
                               /\ Monomials(p, x)[i] = TimesQ(p[i], PowQ(x, i))
BY CoordinateIsSum DEF Monomials

LEMMA CoordinateOfSum ==
  ASSUME NEW p \in Polynomials, NEW q \in Polynomials, NEW x \in Guardians
  PROVE  ComputePolynomialCoordinate(x, Added(p, q))
           = PlusQ(ComputePolynomialCoordinate(x, p), ComputePolynomialCoordinate(x, q))
<1> DEFINE s == Added(p, q)
           f == Monomials(p, x)
           g == Monomials(q, x)
           h == Monomials(s, x)
<1>1. s \in Polynomials /\ \A i \in Indices : s[i] = PlusQ(p[i], q[i])
  BY PolynomialTypes DEF Added
<1> HIDE DEF s
<1>2. /\ f \in [Indices -> ElementModQ] /\ g \in [Indices -> ElementModQ] /\ h \in [Indices -> ElementModQ]
  BY <1>1, MonomialsSum
<1>3. ASSUME NEW i \in Indices PROVE h[i] = PlusQ(f[i], g[i])
  <2> DEFINE a == p[i]
             b == q[i]
             w == PowQ(x, i)
  <2>1. /\ a \in ElementModQ /\ b \in ElementModQ /\ w \in ElementModQ
        /\ f[i] = TimesQ(a, w) /\ g[i] = TimesQ(b, w) /\ h[i] = TimesQ(PlusQ(a, b), w)
    BY <1>1, MonomialsSum
  <2> HIDE DEF a, b, w, f, g, h
  <2>2. TimesQ(w, PlusQ(a, b)) = PlusQ(TimesQ(w, a), TimesQ(w, b))
    BY <2>1, RingQ
  <2>3. /\ TimesQ(w, a) = TimesQ(a, w) /\ TimesQ(w, b) = TimesQ(b, w)
        /\ TimesQ(w, PlusQ(a, b)) = TimesQ(PlusQ(a, b), w)
    BY <2>1, RingQ
  <2>4. QED
    BY <2>1, <2>2, <2>3
<1> HIDE DEF f, g, h
<1>4. AddQ(h) = PlusQ(AddQ(f), AddQ(g))
  <2>1. IsFiniteSet(Indices)
    BY IndicesUpTo
  <2>2. QED
    BY <1>2, <1>3, <2>1, SumPlus
<1>5. QED
  BY <1>1, <1>4, MonomialsSum DEF f, g, h, s

LEMMA CoordinateOfMultiple ==
  ASSUME NEW c \in ElementModQ, NEW p \in Polynomials, NEW x \in Guardians
  PROVE  ComputePolynomialCoordinate(x, Multiple(c, p)) = TimesQ(c, ComputePolynomialCoordinate(x, p))
<1> DEFINE s == Multiple(c, p)
           f == Monomials(p, x)
           h == Monomials(s, x)
<1>1. s \in Polynomials /\ \A i \in Indices : s[i] = TimesQ(c, p[i])
  BY PolynomialTypes DEF Multiple
<1> HIDE DEF s
<1>2. f \in [Indices -> ElementModQ] /\ h \in [Indices -> ElementModQ]
  BY <1>1, MonomialsSum
<1>3. ASSUME NEW i \in Indices PROVE h[i] = TimesQ(c, f[i])
  <2> DEFINE a == p[i]
             w == PowQ(x, i)
  <2>1. /\ a \in ElementModQ /\ w \in ElementModQ
        /\ f[i] = TimesQ(a, w) /\ h[i] = TimesQ(TimesQ(c, a), w)
    BY <1>1, MonomialsSum
  <2> HIDE DEF a, w, f, h
  <2>2. TimesQ(c, TimesQ(a, w)) = TimesQ(TimesQ(c, a), w)
    BY <2>1, RingQ
  <2>3. QED
    BY <2>1, <2>2
<1> HIDE DEF f, h
<1>4. AddQ(h) = TimesQ(c, AddQ(f))
  <2>1. IsFiniteSet(Indices)
    BY IndicesUpTo
  <2>2. QED
    BY <1>2, <1>3, <2>1, SumTimes
<1>5. QED
  BY <1>1, <1>4, MonomialsSum DEF f, h, s

LEMMA CoordinateOfConstant ==
  ASSUME NEW c \in ElementModQ, NEW x \in Guardians
  PROVE  ComputePolynomialCoordinate(x, Constant(c)) = c
<1> DEFINE s == Constant(c)
           f == Monomials(s, x)
           r == Part(f, Indices \ {0})
<1>1. /\ s \in Polynomials /\ s[0] = c /\ \A i \in Indices \ {0} : s[i] = 0
  BY PolynomialTypes, IndicesUpTo DEF Constant
<1> HIDE DEF s
<1>2. f \in [Indices -> ElementModQ]
  BY <1>1, MonomialsSum
<1>3. f[0] = c
  <2>1. f[0] = TimesQ(c, PowQ(x, 0))
    BY <1>1, IndicesUpTo, MonomialsSum
  <2>2. PowQ(x, 0) = 1
    BY PowQLaws
  <2>3. QED
    BY <2>1, <2>2, UnitsQ
<1>4. \A i \in Indices \ {0} : f[i] = 0
  BY <1>1, MonomialsSum, UnitsQ
<1> HIDE DEF f
<1>5. AddQ(r) = 0
  <2>1. /\ IsFiniteSet(Indices \ {0}) /\ r \in [Indices \ {0} -> ElementModQ]
        /\ \A i \in Indices \ {0} : r[i] = 0
    BY <1>2, <1>4, IndicesUpTo, FS_Subset DEF Part
  <2> HIDE DEF r
  <2>2. QED
    BY <2>1, SumOfZeros
<1>6. AddQ(f) = PlusQ(f[0], AddQ(r))
  BY <1>2, IndicesUpTo, SumWithout
<1>7. AddQ(f) = c
  BY <1>3, <1>5, <1>6, UnitsQ
<1>8. QED
  BY <1>1, <1>7, MonomialsSum DEF f, s

LEMMA CoordinateOfShifted ==
  ASSUME NEW p \in Polynomials, p[Quorum - 1] = 0, NEW x \in Guardians
  PROVE  ComputePolynomialCoordinate(x, Shifted(p)) = TimesQ(x, ComputePolynomialCoordinate(x, p))
<1> DEFINE s == Shifted(p)
           f == Monomials(s, x)
           h == Monomials(p, x)
<1>1. /\ s \in Polynomials /\ s[0] = 0 /\ \A i \in Indices \ {0} : s[i] = p[i - 1]
  BY PolynomialTypes, IndicesUpTo DEF Shifted
<1> HIDE DEF s
<1>2. f \in [Indices -> ElementModQ] /\ h \in [Indices -> ElementModQ] /\ x \in ElementModQ
  BY <1>1, MonomialsSum, GuardianOrders
<1>3. f[0] = 0
  BY <1>1, MonomialsSum, IndicesUpTo, UnitsQ
<1>4. ASSUME NEW i \in Indices, i # 0 PROVE f[i] = TimesQ(x, h[i - 1])
  <2> DEFINE j == i - 1
             a == p[j]
             w == PowQ(x, j)
  <2>1. j \in Indices /\ j \in Nat /\ i = j + 1
    BY <1>4, IndicesUpTo
  <2>2. f[i] = TimesQ(a, PowQ(x, i))
    BY <1>1, <1>4, MonomialsSum
  <2> HIDE DEF j
  <2>3. a \in ElementModQ /\ w \in ElementModQ /\ h[j] = TimesQ(a, w)
    BY <2>1, MonomialsSum
  <2>4. PowQ(x, i) = TimesQ(x, w)
    BY <2>1, PowQLaws
  <2> HIDE DEF a, w, f, h
  <2>5. /\ TimesQ(a, TimesQ(x, w)) = TimesQ(TimesQ(a, x), w)
        /\ TimesQ(x, TimesQ(a, w)) = TimesQ(TimesQ(x, a), w)
        /\ TimesQ(a, x) = TimesQ(x, a)
    BY <1>2, <2>3, RingQ
  <2>6. QED
    BY <2>2, <2>3, <2>4, <2>5 DEF j
<1>5. h[Quorum - 1] = 0
  BY MonomialsSum, IndicesUpTo, UnitsQ
<1> HIDE DEF f, h
<1> DEFINE N == {n \in Nat : n \in Indices =>
                   AddQ(Part(f, 0 .. n)) = TimesQ(x, AddQ(Part(h, 0 .. n - 1)))}
<1>6. ASSUME NEW n \in Indices PROVE 0 .. n \in SUBSET Indices /\ 0 .. n - 1 \in SUBSET Indices
  BY IndicesUpTo DEF Indices
<1>7. 0 \in N
  <2>1. 0 .. 0 = {0} /\ 0 .. 0 - 1 = {} /\ {0} \ {0} = {} /\ 0 \in Indices
    BY IndicesUpTo
  <2>2. AddQ(Part(f, {0})) = PlusQ(f[0], AddQ(Part(f, {0} \ {0})))
    <3>1. {0} \in SUBSET Indices /\ 0 \in {0}
      BY IndicesUpTo
    <3>2. QED
      BY <1>2, <3>1, PartOfIndices, Zenon
  <2>3. AddQ(Part(f, {})) = 0 /\ AddQ(Part(h, {})) = 0
    BY <1>2, IndicesUpTo, SumOfPart
  <2>4. PlusQ(0, 0) = 0 /\ TimesQ(x, 0) = 0
    BY <1>2, RingQ, UnitsQ
  <2>5. QED
    BY <1>3, <2>1, <2>2, <2>3, <2>4
<1>8. ASSUME NEW n \in N PROVE n + 1 \in N
  <2>1. SUFFICES ASSUME n + 1 \in Indices
                 PROVE  AddQ(Part(f, 0 .. n + 1)) = TimesQ(x, AddQ(Part(h, 0 .. n + 1 - 1)))
    OBVIOUS
  <2>2. /\ n \in Nat /\ n \in Indices /\ n + 1 # 0 /\ n + 1 - 1 = n
        /\ (0 .. n + 1) \ {n + 1} = 0 .. n /\ (0 .. n) \ {n} = 0 .. n - 1
        /\ n + 1 \in 0 .. n + 1 /\ n \in 0 .. n
    BY <2>1, IndicesUpTo
  <2>3. 0 .. n + 1 \in SUBSET Indices /\ 0 .. n \in SUBSET Indices
    BY <1>6, <2>1, <2>2
  <2> DEFINE fn == AddQ(Part(f, 0 .. n))
             hn == AddQ(Part(h, 0 .. n - 1))
  <2>4. fn = TimesQ(x, hn)
    BY <2>2
  <2> HIDE DEF N
  <2>5. AddQ(Part(f, 0 .. n + 1)) = PlusQ(f[n + 1], AddQ(Part(f, (0 .. n + 1) \ {n + 1})))
    <3> DEFINE t == 0 .. n + 1
               a == n + 1
    <3>1. f \in [Indices -> ElementModQ] /\ t \in SUBSET Indices /\ a \in t
      BY <1>2, <2>2, <2>3
    <3> HIDE DEF t, a
    <3>2. AddQ(Part(f, t)) = PlusQ(f[a], AddQ(Part(f, t \ {a})))
      BY <3>1, PartOfIndices
    <3>3. QED
      BY <3>2 DEF t, a
  <2>6. /\ AddQ(Part(h, 0 .. n)) = PlusQ(h[n], AddQ(Part(h, (0 .. n) \ {n})))
        /\ h[n] \in ElementModQ /\ AddQ(Part(h, (0 .. n) \ {n})) \in ElementModQ
    <3> DEFINE t == 0 .. n
    <3>1. h \in [Indices -> ElementModQ] /\ t \in SUBSET Indices /\ n \in t
      BY <1>2, <2>2, <2>3
    <3> HIDE DEF t
    <3>2. /\ AddQ(Part(h, t)) = PlusQ(h[n], AddQ(Part(h, t \ {n})))
          /\ h[n] \in ElementModQ /\ AddQ(Part(h, t \ {n})) \in ElementModQ
      BY <3>1, PartOfIndices
    <3>3. QED
      BY <3>2 DEF t
  <2>7. f[n + 1] = TimesQ(x, h[n])
    BY <1>4, <2>1, <2>2
  <2>8. hn \in ElementModQ
    BY <2>2, <2>6
  <2>9. AddQ(Part(f, 0 .. n + 1)) = PlusQ(TimesQ(x, h[n]), TimesQ(x, hn))
    BY <2>2, <2>4, <2>5, <2>7
  <2>10. AddQ(Part(h, 0 .. n + 1 - 1)) = PlusQ(h[n], hn)
    BY <2>2, <2>6
  <2> DEFINE v == h[n]
  <2>11. TimesQ(x, PlusQ(v, hn)) = PlusQ(TimesQ(x, v), TimesQ(x, hn))
    <3>1. v \in ElementModQ
      BY <2>6
    <3> HIDE DEF v, hn
    <3>2. QED
      BY <1>2, <2>8, <3>1, RingQ
  <2> HIDE DEF fn, hn
  <2>12. QED
    BY <2>9, <2>10, <2>11
<1>9. N \in SUBSET Nat
  OBVIOUS
<1> HIDE DEF N
<1>10. \A n \in Nat : n \in N
  BY <1>7, <1>8, <1>9, Induction
<1> DEFINE k == Quorum - 1
<1>11. k \in Nat /\ k \in Indices /\ 0 .. k = Indices /\ Indices \ {k} = 0 .. k - 1
  BY IndicesUpTo DEF Indices
<1>12. AddQ(Part(f, 0 .. k)) = TimesQ(x, AddQ(Part(h, 0 .. k - 1)))
  BY <1>10, <1>11 DEF N
<1>13. AddQ(h) = PlusQ(h[k], AddQ(Part(h, Indices \ {k})))
  <2> HIDE DEF k
  <2>1. QED
    BY <1>2, <1>11, IndicesUpTo, SumWithout
<1>14. AddQ(Part(h, Indices \ {k})) \in ElementModQ /\ Part(f, Indices) = f
  <2>1. Indices \ {k} \in SUBSET Indices /\ IsFiniteSet(Indices)
    BY IndicesUpTo
  <2> HIDE DEF k
  <2>2. QED
    BY <1>2, <2>1, SumOfPart, Zenon
<1>15. AddQ(h) = AddQ(Part(h, Indices \ {k}))
  BY <1>5, <1>13, <1>14, UnitsQ
<1>16. AddQ(f) = TimesQ(x, AddQ(h))
  BY <1>11, <1>12, <1>14, <1>15
<1>17. QED
  BY <1>1, <1>16, MonomialsSum DEF f, h, s

-----------------------------------------------------------------------------
(* Through as many points as there are coefficients goes a polynomial. *)

\* Of the degree that the number of points asks for.
GoesThrough(p, v, K) ==
  /\ \A i \in Indices : i >= Cardinality(K) => p[i] = 0
  /\ \A x \in K : ComputePolynomialCoordinate(x, p) = v[x]

\* Whatever the points are.
Fits(K) ==
  Cardinality(K) <= Quorum =>
    \A v \in [Guardians -> ElementModQ] : \E p \in Polynomials : GoesThrough(p, v, K)

\* The polynomial c + (X - a) q, and its coordinates.
Anchored(c, a, q) == Added(Constant(c), Added(Shifted(q), Multiple(AMinusBQ(0, a), q)))

LEMMA CoordinateOfAnchored ==
  ASSUME NEW c \in ElementModQ, NEW a \in Guardians, NEW q \in Polynomials, q[Quorum - 1] = 0,
         NEW x \in Guardians
  PROVE  /\ Anchored(c, a, q) \in Polynomials
         /\ ComputePolynomialCoordinate(x, Anchored(c, a, q))
              = PlusQ(c, TimesQ(AMinusBQ(x, a), ComputePolynomialCoordinate(x, q)))
<1> DEFINE n == AMinusBQ(0, a)
           e == AMinusBQ(x, a)
           y == ComputePolynomialCoordinate(x, q)
           s == Shifted(q)
           m == Multiple(n, q)
           k == Constant(c)
<1>1. a \in ElementModQ /\ x \in ElementModQ /\ n \in ElementModQ /\ e \in ElementModQ
  BY GuardianOrders, RingQ, DifferenceQ
<1>2. PlusQ(x, n) = e
  <2>1. PlusQ(n, a) = 0 /\ PlusQ(e, a) = x
    BY <1>1, RingQ, DifferenceQ
  <2> HIDE DEF n, e
  <2>2. PlusQ(x, n) \in ElementModQ /\ PlusQ(a, e) = PlusQ(e, a) /\ PlusQ(a, n) = PlusQ(n, a)
    BY <1>1, RingQ
  <2>3. PlusQ(a, PlusQ(x, n)) = x
    <3>1. PlusQ(x, PlusQ(a, n)) = PlusQ(PlusQ(x, a), n)
      BY <1>1, RingQ
    <3>2. PlusQ(a, PlusQ(x, n)) = PlusQ(PlusQ(a, x), n)
      BY <1>1, RingQ
    <3>3. PlusQ(x, a) = PlusQ(a, x) /\ PlusQ(x, 0) = x
      BY <1>1, RingQ, UnitsQ
    <3>4. QED
      BY <2>1, <2>2, <3>1, <3>2, <3>3
  <2>4. QED
    BY <1>1, <2>1, <2>2, <2>3, PlusCancels
<1> HIDE DEF n, e
<1>3. k \in Polynomials /\ s \in Polynomials /\ m \in Polynomials
  BY <1>1, PolynomialTypes
<1>4. /\ ComputePolynomialCoordinate(x, k) = c
      /\ ComputePolynomialCoordinate(x, s) = TimesQ(x, y)
      /\ ComputePolynomialCoordinate(x, m) = TimesQ(n, y)
      /\ y \in ElementModQ
  BY <1>1, CoordinateOfConstant, CoordinateOfShifted, CoordinateOfMultiple, MonomialsSum
<1> HIDE DEF s, m, k, y
<1>5. Added(s, m) \in Polynomials /\ Added(k, Added(s, m)) \in Polynomials
  <2>1. Added(s, m) \in Polynomials
    BY <1>3, PolynomialTypes
  <2>2. QED
    BY <1>3, <2>1, PolynomialTypes
<1>6. ComputePolynomialCoordinate(x, Added(k, Added(s, m))) = PlusQ(c, PlusQ(TimesQ(x, y), TimesQ(n, y)))
  <2>1. ComputePolynomialCoordinate(x, Added(s, m)) = PlusQ(TimesQ(x, y), TimesQ(n, y))
    BY <1>3, <1>4, CoordinateOfSum
  <2>2. QED
    BY <1>3, <1>4, <1>5, <2>1, CoordinateOfSum
<1>7. PlusQ(TimesQ(x, y), TimesQ(n, y)) = TimesQ(e, y)
  <2>1. TimesQ(y, PlusQ(x, n)) = PlusQ(TimesQ(y, x), TimesQ(y, n))
    BY <1>1, <1>4, RingQ
  <2>2. TimesQ(y, x) = TimesQ(x, y) /\ TimesQ(y, n) = TimesQ(n, y) /\ TimesQ(y, e) = TimesQ(e, y)
    BY <1>1, <1>4, RingQ
  <2>3. QED
    BY <1>2, <2>1, <2>2
<1>8. QED
  BY <1>5, <1>6, <1>7 DEF Anchored, n, e, y, s, m, k

\* Its coefficients beyond those that q has.
LEMMA DegreeOfAnchored ==
  ASSUME NEW c \in ElementModQ, NEW a \in Guardians, NEW q \in Polynomials, NEW d \in Nat,
         \A i \in Indices : i >= d => q[i] = 0,
         NEW i \in Indices, i >= d + 1
  PROVE  Anchored(c, a, q)[i] = 0
<1>1. i # 0 /\ i - 1 \in Indices /\ q[i] = 0 /\ q[i - 1] = 0
  <2>1. i \in Nat /\ i # 0 /\ i >= d /\ i - 1 >= d
    BY IndicesUpTo
  <2>2. i - 1 \in Indices
    BY <2>1, IndicesUpTo
  <2>3. QED
    BY <2>1, <2>2
<1>2. AMinusBQ(0, a) \in ElementModQ /\ PlusQ(0, 0) = 0
  BY GuardianOrders, RingQ, UnitsQ, DifferenceQ
<1>3. TimesQ(AMinusBQ(0, a), 0) = 0
  BY <1>2, UnitsQ
<1>4. Constant(c)[i] = 0 /\ Shifted(q)[i] = 0 /\ Multiple(AMinusBQ(0, a), q)[i] = 0
  BY <1>1, <1>3 DEF Constant, Shifted, Multiple
<1>5. Added(Shifted(q), Multiple(AMinusBQ(0, a), q))[i] = 0
  BY <1>2, <1>4 DEF Added
<1>6. QED
  BY <1>2, <1>4, <1>5 DEF Added, Anchored

\* A value to be reached over a distance other than zero.
LEMMA Slope ==
  ASSUME NEW c \in ElementModQ, NEW e \in ElementModQ \ {0}, NEW y \in ElementModQ
  PROVE  \E w \in ElementModQ : PlusQ(c, TimesQ(e, w)) = y
<1> DEFINE m == AMinusBQ(0, c)
           r == InverseQ(e)
           d == PlusQ(y, m)
           w == TimesQ(r, d)
<1>1. m \in ElementModQ /\ PlusQ(m, c) = 0
  BY RingQ, DifferenceQ
<1>2. r \in ElementModQ /\ TimesQ(e, r) = 1
  BY InverseOf
<1> HIDE DEF m, r
<1>3. d \in ElementModQ
  BY <1>1, RingQ
<1>4. PlusQ(c, d) = y
  <2>1. PlusQ(c, PlusQ(y, m)) = PlusQ(PlusQ(c, y), m)
    BY <1>1, RingQ
  <2>2. PlusQ(y, PlusQ(c, m)) = PlusQ(PlusQ(y, c), m)
    BY <1>1, RingQ
  <2>3. PlusQ(c, y) = PlusQ(y, c) /\ PlusQ(c, m) = PlusQ(m, c) /\ PlusQ(y, 0) = y
    BY <1>1, RingQ, UnitsQ
  <2>4. QED
    BY <1>1, <2>1, <2>2, <2>3
<1> HIDE DEF d
<1>5. TimesQ(e, TimesQ(r, d)) = TimesQ(TimesQ(e, r), d) /\ TimesQ(r, d) \in ElementModQ
  BY <1>2, <1>3, RingQ
<1>6. TimesQ(e, w) = d /\ w \in ElementModQ
  BY <1>2, <1>3, <1>5, UnitsQ
<1>7. QED
  BY <1>4, <1>6

\* What q must be at x, for c + (X - a) q to be v there.
LEMMA Slopes ==
  ASSUME NEW v \in [Guardians -> ElementModQ], NEW a \in Guardians
  PROVE  \E w \in [Guardians -> ElementModQ] :
           \A x \in Guardians \ {a} : PlusQ(v[a], TimesQ(AMinusBQ(x, a), w[x])) = v[x]
<1> DEFINE IsAt(x, z) == x # a => PlusQ(v[a], TimesQ(AMinusBQ(x, a), z)) = v[x]
           w == [x \in Guardians |-> CHOOSE z \in ElementModQ : IsAt(x, z)]
<1>1. ASSUME NEW x \in Guardians PROVE \E z \in ElementModQ : IsAt(x, z)
  <2>1. CASE x = a
    BY <2>1, RingQ
  <2>2. CASE x # a
    <3>1. AMinusBQ(x, a) \in ElementModQ \ {0}
      BY <2>2, GuardianOrders, DifferenceQ
    <3>2. v[a] \in ElementModQ /\ v[x] \in ElementModQ
      OBVIOUS
    <3>3. \E z \in ElementModQ : PlusQ(v[a], TimesQ(AMinusBQ(x, a), z)) = v[x]
      BY <3>1, <3>2, Slope
    <3>4. QED
      BY <3>3
  <2>3. QED
    BY <2>1, <2>2
<1> HIDE DEF IsAt
<1>2. \A x \in Guardians : w[x] \in ElementModQ /\ IsAt(x, w[x])
  BY <1>1
<1>3. w \in [Guardians -> ElementModQ]
  BY <1>2
<1> HIDE DEF w
<1>4. \A x \in Guardians \ {a} : PlusQ(v[a], TimesQ(AMinusBQ(x, a), w[x])) = v[x]
  BY <1>2 DEF IsAt
<1>5. QED
  BY <1>3, <1>4

\* A point more, through the polynomial for the slopes from it.
LEMMA FittingStep ==
  ASSUME NEW K \in SUBSET Guardians, K # {}, \A a \in K : Fits(K \ {a})
  PROVE  Fits(K)
<1>1. PICK a \in K : TRUE
  OBVIOUS
<1> DEFINE B == K \ {a}
           d == Cardinality(B)
<1>2. d \in Nat /\ Cardinality(K) = d + 1 /\ B \in SUBSET Guardians
  <2>1. IsFiniteSet(K)
    BY GuardianOrders, FS_Subset
  <2>2. Cardinality(K \ {a}) = Cardinality(K) - 1 /\ Cardinality(K) \in Nat
    BY <2>1, FS_RemoveElement, FS_CardinalityType
  <2>3. IsFiniteSet(B)
    BY <2>1, FS_Subset
  <2>4. d \in Nat
    BY <2>3, FS_CardinalityType
  <2>5. QED
    BY <2>2, <2>4
<1>3. SUFFICES ASSUME Cardinality(K) <= Quorum, NEW v \in [Guardians -> ElementModQ]
               PROVE  \E p \in Polynomials : GoesThrough(p, v, K)
  BY DEF Fits
<1>4. Fits(B)
  OBVIOUS
<1> HIDE DEF d, B
<1>5. PICK w \in [Guardians -> ElementModQ] :
        \A x \in Guardians \ {a} : PlusQ(v[a], TimesQ(AMinusBQ(x, a), w[x])) = v[x]
  BY <1>1, Slopes
<1>6. d <= Quorum /\ Quorum - 1 >= d
  BY <1>2, <1>3, IndicesUpTo
<1>7. PICK q \in Polynomials : GoesThrough(q, w, B)
  BY <1>4, <1>6 DEF Fits, d
<1>8. (\A i \in Indices : i >= d => q[i] = 0) /\ q[Quorum - 1] = 0
  BY <1>6, <1>7, IndicesUpTo DEF GoesThrough, d
<1>9. a \in Guardians /\ v[a] \in ElementModQ
  BY <1>1
<1> DEFINE p == Anchored(v[a], a, q)
<1>10. /\ p \in Polynomials
       /\ \A x \in Guardians :
            ComputePolynomialCoordinate(x, p)
              = PlusQ(v[a], TimesQ(AMinusBQ(x, a), ComputePolynomialCoordinate(x, q)))
  BY <1>8, <1>9, CoordinateOfAnchored
<1>11. \A i \in Indices : i >= Cardinality(K) => p[i] = 0
  BY <1>2, <1>8, <1>9, DegreeOfAnchored
<1> HIDE DEF p
<1>12. ComputePolynomialCoordinate(a, p) = v[a]
  <2>1. AMinusBQ(a, a) = 0
    <3>1. a \in Int /\ a - a = 0
      BY <1>9, GuardianOrders
    <3>2. 0 % Q = 0
      BY Parameters, Small
    <3>3. QED
      BY <3>1, <3>2 DEF AMinusBQ
  <2>2. ComputePolynomialCoordinate(a, q) \in ElementModQ
    BY <1>9, MonomialsSum
  <2>3. QED
    BY <1>9, <1>10, <2>1, <2>2, UnitsQ
<1>13. ASSUME NEW x \in B PROVE ComputePolynomialCoordinate(x, p) = v[x]
  <2>1. x \in Guardians \ {a}
    BY <1>2 DEF B
  <2>2. ComputePolynomialCoordinate(x, q) = w[x]
    BY <1>7 DEF GoesThrough
  <2>3. QED
    BY <1>5, <1>10, <2>1, <2>2
<1>14. GoesThrough(p, v, K)
  BY <1>11, <1>12, <1>13 DEF GoesThrough, B
<1>15. QED
  BY <1>10, <1>14

\* Up to a quorum of points always lie on a polynomial.
LEMMA Fitting == \A K \in SUBSET Guardians : Fits(K)
<1> DEFINE Good == {s \in SUBSET Guardians : Fits(s)}
<1>1. {} \in Good
  <2>1. ASSUME NEW v \in [Guardians -> ElementModQ] PROVE \E p \in Polynomials : GoesThrough(p, v, {})
    <3>1. Constant(0) \in Polynomials
      BY PolynomialTypes, RingQ
    <3>2. \A i \in Indices : Constant(0)[i] = 0
      BY DEF Constant
    <3>3. QED
      BY <3>1, <3>2 DEF GoesThrough
  <2>2. QED
    BY <2>1 DEF Fits
<1>2. ASSUME NEW s \in SUBSET Guardians, s # {}, \A a \in s : s \ {a} \in Good PROVE s \in Good
  BY <1>2, FittingStep
<1>3. Good \in SUBSET (SUBSET Guardians)
  OBVIOUS
<1> HIDE DEF Good
<1>4. \A s \in SUBSET Guardians : s \in Good
  BY <1>1, <1>2, <1>3, GuardianOrders, SetInduction
<1>5. QED
  BY <1>4 DEF Good

\* With fewer points than coefficients, the secret remains free.
LEMMA AnySecretFits ==
  ASSUME NEW K \in SUBSET Guardians, Cardinality(K) < Quorum,
         NEW v \in [Guardians -> ElementModQ], NEW secret \in ElementModQ
  PROVE  \E p \in Polynomials : /\ p[0] = secret
                                /\ \A x \in K : ComputePolynomialCoordinate(x, p) = v[x]
<1>1. ASSUME NEW x \in Guardians
      PROVE  \E w \in ElementModQ : PlusQ(secret, TimesQ(x, w)) = v[x]
  <2>1. x \in ElementModQ \ {0} /\ v[x] \in ElementModQ
    BY GuardianOrders
  <2>2. QED
    BY <2>1, Slope
<1> DEFINE u == [x \in Guardians |-> CHOOSE w \in ElementModQ : PlusQ(secret, TimesQ(x, w)) = v[x]]
<1>2. \A x \in Guardians : u[x] \in ElementModQ /\ PlusQ(secret, TimesQ(x, u[x])) = v[x]
  BY <1>1
<1>3. u \in [Guardians -> ElementModQ]
  BY <1>2
<1> HIDE DEF u
<1>4. Cardinality(K) \in Nat /\ Cardinality(K) <= Quorum /\ Quorum - 1 >= Cardinality(K)
  <2>1. IsFiniteSet(K)
    BY GuardianOrders, FS_Subset
  <2>2. Cardinality(K) \in Nat
    BY <2>1, FS_CardinalityType
  <2>3. QED
    BY <2>2, IndicesUpTo
<1>5. PICK q \in Polynomials : GoesThrough(q, u, K)
  BY <1>3, <1>4, Fitting DEF Fits
<1>6. q[Quorum - 1] = 0
  BY <1>4, <1>5, IndicesUpTo DEF GoesThrough
<1> DEFINE c == Constant(secret)
           s == Shifted(q)
           p == Added(c, s)
<1>7. c \in Polynomials /\ s \in Polynomials /\ p \in Polynomials
  <2>1. c \in Polynomials /\ s \in Polynomials
    BY PolynomialTypes
  <2>2. QED
    BY <2>1, PolynomialTypes
<1>8. p[0] = secret
  BY IndicesUpTo, UnitsQ DEF Added, Constant, Shifted
<1>9. ASSUME NEW x \in K PROVE ComputePolynomialCoordinate(x, p) = v[x]
  <2>1. x \in Guardians
    OBVIOUS
  <2>2. ComputePolynomialCoordinate(x, c) = secret
    BY <2>1, CoordinateOfConstant
  <2>3. ComputePolynomialCoordinate(x, s) = TimesQ(x, u[x])
    BY <1>5, <1>6, <2>1, CoordinateOfShifted DEF GoesThrough
  <2> HIDE DEF c, s
  <2>4. ComputePolynomialCoordinate(x, p) = PlusQ(secret, TimesQ(x, u[x]))
    BY <1>7, <2>1, <2>2, <2>3, CoordinateOfSum
  <2>5. QED
    BY <1>2, <2>1, <2>4
<1> HIDE DEF p
<1>10. QED
  BY <1>7, <1>8, <1>9

-----------------------------------------------------------------------------
(* The invariants. *)

\* The backups the others hold are the coordinates of the polynomial.
SharingInv ==
  /\ polynomial \in Polynomials
  /\ \/ \A x \in Others : coordinates[x] = None
     \/ \A x \in Others : coordinates[x] = ComputePolynomialCoordinate(x, polynomial)

LEMMA SharingStep == SharingInv /\ [Next]_vars => SharingInv'
<1> SUFFICES ASSUME SharingInv, [Next]_vars
             PROVE  SharingInv'
  OBVIOUS
<1>1. UNCHANGED polynomial
  BY DEF Next, ShareBackups, Compensate, Reconstruct, vars
<1>2. CASE ShareBackups
  BY <1>1, <1>2 DEF SharingInv, ShareBackups
<1>3. CASE UNCHANGED coordinates
  BY <1>1, <1>3 DEF SharingInv
<1>4. QED
  BY <1>2, <1>3 DEF Next, Compensate, Reconstruct, vars

LEMMA SharingInvariant == Spec => []SharingInv
<1>1. Init => SharingInv
  BY DEF Init, SharingInv
<1>2. QED
  BY <1>1, SharingStep, PTL DEF Spec

LEMMA CoordinatesAreElements ==
  ASSUME SharingInv, NEW x \in Others, coordinates[x] # None
  PROVE  coordinates[x] \in ElementModQ /\ coordinates[x] = ComputePolynomialCoordinate(x, polynomial)
BY OthersAreGuardians, CoordinateIsSum DEF SharingInv

\* A compensated share is the pad to the power of the coordinate,
CompensationInv ==
  /\ pad \in Residues
  /\ compensated \in [Others -> ElementModP \cup {None}]
  /\ \A x \in Others : compensated[x] # None =>
       coordinates[x] # None /\ compensated[x] = PowP(pad, coordinates[x])

\* and the reconstructed share is of those who had compensated.
ReconstructionInv ==
  /\ reconstructed.parts \in SUBSET Others
  /\ reconstructed.parts # {} =>
       /\ \A x \in reconstructed.parts : coordinates[x] # None
       /\ reconstructed.share =
            ReconstructShare([x \in reconstructed.parts |-> PowP(pad, coordinates[x])],
                             LagrangeCoefficients(reconstructed.parts))

\* Inductive: what a reconstruction rests on.
DecryptionInv == SharingInv /\ CompensationInv /\ ReconstructionInv

LEMMA DecryptionStep == DecryptionInv /\ [Next]_vars => DecryptionInv'
<1> SUFFICES ASSUME DecryptionInv, [Next]_vars
             PROVE  DecryptionInv'
  OBVIOUS
<1>1. SharingInv /\ SharingInv'
  BY SharingStep DEF DecryptionInv
<1>2. UNCHANGED <<polynomial, pad>>
  BY DEF Next, ShareBackups, Compensate, Reconstruct, vars
<1>3. CASE ShareBackups
  <2>1. \A x \in Others : compensated[x] = None
    BY <1>3 DEF ShareBackups, DecryptionInv, CompensationInv
  <2>2. reconstructed.parts = {}
    BY <1>3 DEF ShareBackups, DecryptionInv, ReconstructionInv
  <2>3. UNCHANGED <<compensated, reconstructed>>
    BY <1>3 DEF ShareBackups
  <2>4. QED
    BY <1>1, <1>2, <2>1, <2>2, <2>3 DEF DecryptionInv, CompensationInv, ReconstructionInv
<1>4. ASSUME NEW x \in Others, Compensate(x) PROVE DecryptionInv'
  <2>1. /\ coordinates[x] # None /\ UNCHANGED <<pad, coordinates, reconstructed>>
        /\ compensated' = [compensated EXCEPT ![x] = PowP(pad, coordinates[x])]
    BY <1>4 DEF Compensate
  <2>2. PowP(pad, coordinates[x]) \in ElementModP
    BY <1>1, <2>1, CoordinatesAreElements, Elements, ResidueType, PowPType
       DEF DecryptionInv, CompensationInv
  <2>3. CompensationInv'
    BY <2>1, <2>2 DEF DecryptionInv, CompensationInv
  <2>4. ReconstructionInv'
    BY <2>1 DEF DecryptionInv, ReconstructionInv
  <2>5. QED
    BY <1>1, <2>3, <2>4 DEF DecryptionInv
<1>5. CASE Reconstruct
  <2> DEFINE available == {x \in Others : compensated[x] # None}
  <2>1. /\ UNCHANGED <<pad, coordinates, compensated>>
        /\ reconstructed' = [parts |-> available,
                             share |-> ReconstructShare([x \in available |-> compensated[x]],
                                                        LagrangeCoefficients(available))]
    BY <1>5 DEF Reconstruct
  <2>2. available \in SUBSET Others
    OBVIOUS
  <2>3. \A x \in available : coordinates[x] # None /\ compensated[x] = PowP(pad, coordinates[x])
    BY DEF DecryptionInv, CompensationInv
  <2> HIDE DEF available
  <2>4. [x \in available |-> compensated[x]] = [x \in available |-> PowP(pad, coordinates[x])]
    BY <2>3
  <2>5. ReconstructionInv'
    BY <2>1, <2>2, <2>3, <2>4 DEF ReconstructionInv
  <2>6. CompensationInv'
    BY <2>1 DEF DecryptionInv, CompensationInv
  <2>7. QED
    BY <1>1, <2>5, <2>6 DEF DecryptionInv
<1>6. CASE UNCHANGED vars
  BY <1>1, <1>6 DEF DecryptionInv, CompensationInv, ReconstructionInv, vars
<1>7. QED
  BY <1>3, <1>4, <1>5, <1>6 DEF Next

LEMMA DecryptionInvariant == Spec => []DecryptionInv
<1>1. Init => DecryptionInv
  <2> SUFFICES ASSUME Init PROVE DecryptionInv
    OBVIOUS
  <2>1. SharingInv
    BY DEF Init, SharingInv
  <2>2. CompensationInv
    BY SharingAssumption DEF Init, CompensationInv
  <2>3. ReconstructionInv
    BY DEF Init, ReconstructionInv, NotReconstructed
  <2>4. QED
    BY <2>1, <2>2, <2>3 DEF DecryptionInv
<1>2. QED
  BY <1>1, DecryptionStep, PTL DEF Spec

-----------------------------------------------------------------------------
(* The theorems. *)

\* The recovery public key that api.py and the decryption services hand to the
\* verifiers is the key of the coordinate, for every polynomial of every group.
THEOREM RecoveryKeysAreRight == Spec => []RecoveryKeysMatch
<1>1. SharingInv => RecoveryKeysMatch
  BY OthersAreGuardians, RecoveryKey DEF SharingInv, RecoveryKeysMatch
<1>2. QED
  BY <1>1, SharingInvariant, PTL

\* While the powers of the sequence orders are below P, a backup verifies, by itself or
\* in a challenge, if and only if it is the owner's coordinate, and it opens for its
\* recipient alone.
THEOREM OnlyCoordinatesAreVerified ==
  ASSUME SmallOrders
  PROVE  Spec => []OnlyCoordinatesVerify
<1>1. ASSUME SharingInv PROVE OnlyCoordinatesVerify
  <2> DEFINE Coordinate(x) == ComputePolynomialCoordinate(x, polynomial)
  <2>1. polynomial \in Polynomials
    BY <1>1 DEF SharingInv
  <2>2. SUFFICES ASSUME NEW x \in Others, coordinates[x] # None
                 PROVE  /\ \A value \in ElementModQ :
                             VerifyPolynomialCoordinate(value, x, Commitments(polynomial))
                               <=> value = coordinates[x]
                        /\ \A y \in Others :
                             VerifyChallenge([GenerateChallenge(y, polynomial) EXCEPT !.designated = x])
                               <=> coordinates[y] = coordinates[x]
                        /\ \A nonce, secret \in ElementModQ : BackupOpensFor(x, nonce, secret)
    BY DEF OnlyCoordinatesVerify
  <2>3. \A y \in Others : coordinates[y] = Coordinate(y)
    BY <1>1, <2>2 DEF SharingInv
  <2>4. x \in Guardians
    BY OthersAreGuardians
  <2> HIDE DEF Coordinate
  <2>5. ASSUME NEW value \in ElementModQ
        PROVE  VerifyPolynomialCoordinate(value, x, Commitments(polynomial))
                 <=> value = coordinates[x]
    BY <2>1, <2>3, <2>4, VerificationIsExact DEF Coordinate
  <2>6. ASSUME NEW y \in Others
        PROVE  VerifyChallenge([GenerateChallenge(y, polynomial) EXCEPT !.designated = x])
                 <=> coordinates[y] = coordinates[x]
    <3>1. y \in Guardians
      BY OthersAreGuardians
    <3>2. QED
      BY <2>1, <2>3, <2>4, <3>1, ChallengeIsExact DEF Coordinate
  <2>7. ASSUME NEW nonce \in ElementModQ, NEW secret \in ElementModQ
        PROVE  BackupOpensFor(x, nonce, secret)
    BY <2>1, BackupsOpenForTheirRecipient
  <2>8. QED
    BY <2>5, <2>6, <2>7
<1>2. SharingInv => OnlyCoordinatesVerify
  BY <1>1
<1>3. QED
  BY <1>2, SharingInvariant, PTL

\* Whoever is missing: any quorum of the others, whichever they are, recovers the
\* partial decryption that the missing guardian would have made, of any ciphertext.
THEOREM AnyQuorumDecrypts == Spec => []QuorumReconstructs
<1>1. ASSUME DecryptionInv PROVE QuorumReconstructs
  <2> DEFINE A == reconstructed.parts
             c == [x \in A |-> coordinates[x]]
  <2>1. SUFFICES ASSUME Cardinality(A) >= Quorum
                 PROVE  reconstructed.share = PowP(pad, polynomial[0])
    BY DEF QuorumReconstructs
  <2>2. A \in SUBSET Others /\ A \in SUBSET Guardians /\ polynomial \in Polynomials /\ pad \in Residues
    BY <1>1 DEF DecryptionInv, SharingInv, CompensationInv, ReconstructionInv, Others
  <2>3. A # {}
    <3>1. Cardinality(Guardians) \in Nat
      BY GuardianOrders, FS_CardinalityType
    <3>2. Quorum \in Nat /\ Quorum >= 1
      BY <3>1, SharingAssumption
    <3>3. Cardinality({}) = 0
      BY FS_EmptySet
    <3>4. QED
      BY <2>1, <3>2, <3>3
  <2>4. /\ \A x \in A : coordinates[x] # None
        /\ reconstructed.share = ReconstructShare([x \in A |-> PowP(pad, coordinates[x])],
                                                  LagrangeCoefficients(A))
    BY <1>1, <2>3 DEF DecryptionInv, ReconstructionInv
  <2> HIDE DEF A
  <2>5. \A x \in A : /\ coordinates[x] \in ElementModQ
                     /\ coordinates[x] = ComputePolynomialCoordinate(x, polynomial)
    BY <1>1, <2>2, <2>4, CoordinatesAreElements DEF DecryptionInv
  <2>6. c \in [A -> ElementModQ] /\ \A x \in A : c[x] = coordinates[x]
    BY <2>5
  <2>7. [x \in A |-> PowP(pad, coordinates[x])] = [x \in A |-> PowP(pad, c[x])]
    BY <2>6
  <2>8. [x \in A |-> TimesQ(Weight(x, A), c[x])]
          = [x \in A |-> TimesQ(Weight(x, A), ComputePolynomialCoordinate(x, polynomial))]
    BY <2>5, <2>6
  <2> HIDE DEF c
  <2>9. ReconstructShare([x \in A |-> PowP(pad, c[x])], LagrangeCoefficients(A))
          = PowP(pad, AddQ([x \in A |-> TimesQ(Weight(x, A), c[x])]))
    BY <2>2, <2>6, SharesCombine
  <2>10. AddQ([x \in A |-> TimesQ(Weight(x, A), ComputePolynomialCoordinate(x, polynomial))])
           = polynomial[0]
    BY <2>1, <2>2, Interpolated
  <2>11. QED
    BY <2>4, <2>7, <2>8, <2>9, <2>10
<1>2. DecryptionInv => QuorumReconstructs
  BY <1>1
<1>3. QED
  BY <1>2, DecryptionInvariant, PTL

\* The threshold from below: the backups of fewer than a quorum, whichever they are,
\* fit every secret key, so nothing about the owner's follows from them.
THEOREM FewerKnowNothing == Spec => []BelowQuorumNothingIsKnown
<1>1. ASSUME SharingInv PROVE BelowQuorumNothingIsKnown
  <2>1. polynomial \in Polynomials
    BY <1>1 DEF SharingInv
  <2>2. SUFFICES ASSUME NEW known \in SUBSET Others, Cardinality(known) < Quorum,
                        \A x \in known : coordinates[x] # None,
                        NEW secret \in ElementModQ
                 PROVE  \E rest \in [Indices \ {0} -> ElementModQ] :
                          LET poly == [i \in Indices |-> IF i = 0 THEN secret ELSE rest[i]]
                          IN  \A x \in known : ComputePolynomialCoordinate(x, poly) = coordinates[x]
    BY DEF BelowQuorumNothingIsKnown
  <2>3. known \in SUBSET Guardians
    BY DEF Others
  <2> DEFINE v == [x \in Guardians |-> ComputePolynomialCoordinate(x, polynomial)]
  <2>4. v \in [Guardians -> ElementModQ]
    BY <2>1, MonomialsSum
  <2>5. \A x \in known : v[x] = coordinates[x]
    BY <1>1, <2>2, <2>3, CoordinatesAreElements
  <2> HIDE DEF v
  <2>6. PICK p \in Polynomials : /\ p[0] = secret
                                 /\ \A x \in known : ComputePolynomialCoordinate(x, p) = v[x]
    BY <2>2, <2>3, <2>4, AnySecretFits
  <2> DEFINE rest == [i \in Indices \ {0} |-> p[i]]
             poly == [i \in Indices |-> IF i = 0 THEN secret ELSE rest[i]]
  <2>7. rest \in [Indices \ {0} -> ElementModQ]
    BY DEF Polynomials
  <2>8. poly = p
    BY <2>6 DEF Polynomials
  <2>9. \A x \in known : ComputePolynomialCoordinate(x, poly) = coordinates[x]
    BY <2>5, <2>6, <2>8
  <2> HIDE DEF rest
  <2>10. QED
    BY <2>7, <2>9
<1>2. SharingInv => BelowQuorumNothingIsKnown
  BY <1>1
<1>3. QED
  BY <1>2, SharingInvariant, PTL

-----------------------------------------------------------------------------
(* What honest provers make is accepted. *)

\* A Schnorr proof by who has the secret key is valid.
LEMMA HonestSchnorr ==
  ASSUME NEW s \in ElementModQ, NEW r \in ElementModQ, NEW hash \in ElementModQ
  PROVE  SchnorrIsValid(MakeSchnorrProof(ElGamalKeyPair(s), r, hash), GPowP(s), hash)
<1>1. s \in Nat /\ r \in Nat /\ hash \in Nat
  BY Elements
<1>2. GPowP(APlusBCQ(r, s, hash)) = MulP(GPowP(r), PowP(GPowP(hash), s))
  BY <1>1, GeneratorIsResidue, PowResponse DEF GPowP
<1>3. PowP(GPowP(hash), s) = PowP(GPowP(s), hash)
  BY <1>1, GeneratorIsResidue, PowSwap DEF GPowP
<1>4. GPowP(s) \in Residues
  BY <1>1, GPowResidue
<1>5. QED
  BY <1>2, <1>3, <1>4 DEF SchnorrIsValid, MakeSchnorrProof, ElGamalKeyPair

\* A proof that the pad was raised to the secret key is valid.
LEMMA HonestChaumPedersen ==
  ASSUME NEW message, message.pad \in Residues, message.data \in Residues,
         NEW s \in ElementModQ, NEW u \in ElementModQ, NEW hash \in ElementModQ
  PROVE  ChaumPedersenIsValid(MakeChaumPedersen(message, s, u, hash), message, GPowP(s),
                              PowP(message.pad, s), hash)
<1> DEFINE a == message.pad
           v == APlusBCQ(u, hash, s)
<1>1. s \in Nat /\ u \in Nat /\ hash \in Nat
  BY Elements
<1>2. GPowP(v) = MulP(GPowP(u), PowP(GPowP(s), hash))
  BY <1>1, GeneratorIsResidue, PowResponse DEF GPowP
<1>3. PowP(a, v) = MulP(PowP(a, u), PowP(PowP(a, s), hash))
  BY <1>1, PowResponse
<1>4. GPowP(s) \in Residues /\ GPowP(u) \in Residues
  BY <1>1, GPowResidue
<1>5. PowP(a, s) \in Residues /\ PowP(a, u) \in Residues
  BY <1>1, PowResidue
<1>6. QED
  BY <1>2, <1>3, <1>4, <1>5 DEF ChaumPedersenIsValid, MakeChaumPedersen

\* The encryption of a number with a nonce under a key.
LEMMA EncryptionIsResidues ==
  ASSUME NEW message \in Nat, NEW nonce \in Nat, nonce # 0, NEW key \in Residues
  PROVE  /\ ElGamalEncrypt(message, nonce, key).pad \in Residues
         /\ ElGamalEncrypt(message, nonce, key).data \in Residues
BY GPowResidue, PowResidue, MulResidue DEF ElGamalEncrypt

\* Both sides of the equation about the data of a constant proof and of each half of a
\* disjunctive one, for a ciphertext of n: it claims n to be v and its data commitment
\* makes up for a difference with the exponent w.
LEMMA DataEquation ==
  ASSUME NEW k \in Residues, NEW r \in Nat, NEW u \in Nat, NEW c \in Nat,
         NEW n \in Nat, NEW w \in Nat, NEW e \in Nat, PowP(G, e) = PowP(G, w + n * c)
  PROVE  MulP(GPowP(e), PowP(k, APlusBCQ(u, c, r)))
           = MulP(MulP(PowP(k, u), GPowP(w)), PowP(MulP(GPowP(n), PowP(k, r)), c))
<1> DEFINE gw == GPowP(w)
           gnc == PowP(GPowP(n), c)
           ku == PowP(k, u)
           krc == PowP(PowP(k, r), c)
<1>1. /\ GPowP(n) \in Int /\ gw \in Int /\ gnc \in Int
      /\ PowP(k, r) \in Int /\ ku \in Int /\ krc \in Int
  BY GPowResidue, PowResidue, ResidueType
<1>2. PowP(MulP(GPowP(n), PowP(k, r)), c) = MulP(gnc, krc)
  BY <1>1, PowPMul
<1>3. PowP(k, APlusBCQ(u, c, r)) = MulP(ku, krc)
  BY PowResponse
<1>4. GPowP(e) = MulP(gw, gnc)
  <2>1. G \in Int /\ n * c \in Nat
    BY Parameters
  <2>2. PowP(G, w + n * c) = MulP(PowP(G, w), PowP(G, n * c))
    BY <2>1, PowPAdd, Zenon
  <2>3. PowP(PowP(G, n), c) = PowP(G, n * c)
    BY <2>1, PowPTimes
  <2>4. QED
    BY <2>2, <2>3 DEF GPowP
<1> HIDE DEF gw, gnc, ku, krc
<1>5. MulP(MulP(gw, gnc), MulP(ku, krc)) = MulP(MulP(gw, ku), MulP(gnc, krc))
  BY <1>1, MulPairs
<1>6. MulP(gw, ku) = MulP(ku, gw)
  BY <1>1, MulCommutes
<1>7. QED
  BY <1>2, <1>3, <1>4, <1>5, <1>6 DEF gw, ku

\* The equation about the pad, in all proofs about ciphertexts.
LEMMA PadEquation ==
  ASSUME NEW r \in Nat, NEW u \in Nat, NEW c \in Nat
  PROVE  GPowP(APlusBCQ(u, c, r)) = MulP(GPowP(u), PowP(GPowP(r), c))
BY GeneratorIsResidue, PowResponse DEF GPowP

\* Without a difference, the factor is left out.
LEMMA GPowZero ==
  ASSUME NEW k \in Residues, NEW u \in Nat
  PROVE  GPowP(0) = 1 /\ MulP(PowP(k, u), GPowP(0)) = PowP(k, u)
<1>1. PowP(k, u) \in ElementModP
  BY PowResidue, ResidueType
<1>2. QED
  BY <1>1, PowPZero, MulOne DEF GPowP

\* A proof of the number of votes is valid, when the product with its challenge fits.
LEMMA HonestConstant ==
  ASSUME NEW n \in ElementModQ, NEW r \in ElementModQ, NEW k \in Residues,
         NEW u \in ElementModQ, NEW hash \in ElementModQ, hash * n < P, n \in SaneConstants
  PROVE  LET message == [pad |-> GPowP(r), data |-> MulP(GPowP(n), PowP(k, r))]
         IN  ConstantIsValid(MakeConstantChaumPedersen(message, n, r, k, u, hash),
                             message, k, hash)
<1> DEFINE message == [pad |-> GPowP(r), data |-> MulP(GPowP(n), PowP(k, r))]
           v == APlusBCQ(u, hash, r)
<1>1. n \in Nat /\ r \in Nat /\ u \in Nat /\ hash \in Nat
  BY Elements
<1>2. {message.pad, message.data, GPowP(u), PowP(k, u)} \subseteq Residues
  BY <1>1, GPowResidue, PowResidue, MulResidue
<1>3. GPowP(v) = MulP(GPowP(u), PowP(message.pad, hash))
  BY <1>1, PadEquation
<1>4. MulP(hash, n) = 0 + n * hash
  <2>1. hash * n \in Nat /\ hash * n = n * hash /\ 0 + n * hash = n * hash
    BY <1>1
  <2>2. hash * n \in 0 .. P - 1
    BY <2>1, Parameters
  <2>3. QED
    BY <2>1, <2>2, Parameters, Small DEF MulP
<1>5. MulP(GPowP(MulP(hash, n)), PowP(k, v))
        = MulP(MulP(PowP(k, u), GPowP(0)), PowP(MulP(GPowP(n), PowP(k, r)), hash))
  <2>1. MulP(hash, n) \in Nat /\ 0 \in Nat
    BY <1>1, <1>4
  <2>2. PowP(G, MulP(hash, n)) = PowP(G, 0 + n * hash)
    BY <1>4
  <2>3. QED
    BY <1>1, <2>1, <2>2, DataEquation
<1>6. MulP(PowP(k, u), GPowP(0)) = PowP(k, u)
  BY <1>1, GPowZero
<1>7. QED
  BY <1>2, <1>3, <1>5, <1>6 DEF ConstantIsValid, MakeConstantChaumPedersen

\* One half of a proof, with the challenge it has: true (w = 0 and n = v) or simulated.
Half(k, r, u, c, w) ==
  [pad |-> GPowP(u), data |-> MulP(PowP(k, u), GPowP(w)),
   challenge |-> c, response |-> APlusBCQ(u, c, r)]

\* A half is consistent when the exponent it adds makes up for its false claim.
LEMMA HalfHolds ==
  ASSUME NEW k \in Residues, NEW r \in Nat, r # 0, NEW u \in Nat, NEW c \in Nat, NEW n \in Nat,
         NEW v \in Nat, NEW w \in Nat, PowP(G, v * c) = PowP(G, w + n * c)
  PROVE  HalfIsConsistent(Half(k, r, u, c, w), ElGamalEncrypt(n, r, k), k, v)
<1>1. v * c \in Nat
  OBVIOUS
<1>2. GPowP(APlusBCQ(u, c, r)) = MulP(GPowP(u), PowP(GPowP(r), c))
  BY PadEquation
<1>3. MulP(GPowP(v * c), PowP(k, APlusBCQ(u, c, r)))
        = MulP(MulP(PowP(k, u), GPowP(w)), PowP(MulP(GPowP(n), PowP(k, r)), c))
  BY <1>1, DataEquation
<1>4. QED
  BY <1>2, <1>3 DEF HalfIsConsistent, Half, ElGamalEncrypt

\* Its commitments are residues.
LEMMA HalfIsResidues ==
  ASSUME NEW k \in Residues, NEW r \in Nat, NEW u \in Nat, NEW c \in Nat, NEW w \in Nat
  PROVE  Half(k, r, u, c, w).pad \in Residues /\ Half(k, r, u, c, w).data \in Residues
BY GPowResidue, PowResidue, MulResidue DEF Half

\* Both halves of the proof of a zero are valid,
LEMMA HonestDisjunctiveZero ==
  ASSUME NEW k \in Residues, NEW r \in ElementModQ, r # 0, NEW hash \in ElementModQ,
         NEW nonces \in ElementModQ \X ElementModQ \X ElementModQ
  PROVE  LET message == ElGamalEncrypt(0, r, k)
         IN  DisjunctiveIsValid(MakeDisjunctiveZero(message, r, k, nonces, hash), message, k, hash)
<1> DEFINE message == ElGamalEncrypt(0, r, k)
           c1 == nonces[1]
           v == nonces[2]
           u == nonces[3]
           c0 == AMinusBQ(hash, c1)
           proof0 == MakeDisjunctiveZero(message, r, k, nonces, hash)
<1>1. c1 \in ElementModQ /\ v \in ElementModQ /\ u \in ElementModQ
  OBVIOUS
<1>2. c0 \in ElementModQ /\ PlusQ(c0, c1) = hash
  BY <1>1, ChallengeTypes
<1>3. c1 \in Nat /\ v \in Nat /\ u \in Nat /\ c0 \in Nat /\ r \in Nat
  BY <1>1, <1>2, Elements
<1>4. /\ proof0.zero = Half(k, r, u, c0, 0) /\ proof0.zero.challenge = c0
      /\ proof0.one = Half(k, r, v, c1, c1) /\ proof0.one.challenge = c1
      /\ proof0.challenge = hash
  BY <1>3, GPowZero DEF MakeDisjunctiveZero, Half
<1>5. message.pad \in Residues /\ message.data \in Residues
  BY <1>3, EncryptionIsResidues
<1>6. /\ proof0.zero.pad \in Residues /\ proof0.zero.data \in Residues
       /\ proof0.one.pad \in Residues /\ proof0.one.data \in Residues
  <2>1. 0 \in Nat
    OBVIOUS
  <2>2. Half(k, r, u, c0, 0).pad \in Residues /\ Half(k, r, u, c0, 0).data \in Residues
    BY <1>3, <2>1, HalfIsResidues, Zenon
  <2>3. Half(k, r, v, c1, c1).pad \in Residues /\ Half(k, r, v, c1, c1).data \in Residues
    BY <1>3, <2>1, HalfIsResidues, Zenon
  <2>4. QED
    BY <1>4, <2>2, <2>3, Zenon
<1> HIDE DEF proof0, message, c0, c1, u, v
<1>7. HalfIsConsistent(proof0.zero, message, k, 0)
  <2>1. PowP(G, 0 * c0) = PowP(G, 0 + 0 * c0)
    BY <1>3
  <2>2. 0 \in Nat
    OBVIOUS
  <2>3. HalfIsConsistent(Half(k, r, u, c0, 0), ElGamalEncrypt(0, r, k), k, 0)
    BY <1>3, <2>1, <2>2, HalfHolds, Zenon
  <2>4. QED
    BY <1>4, <2>3 DEF message
<1>8. HalfIsConsistent(proof0.one, message, k, 1)
  <2>1. PowP(G, 1 * c1) = PowP(G, c1 + 0 * c1)
    BY <1>3
  <2>2. 0 \in Nat /\ 1 \in Nat
    OBVIOUS
  <2>3. HalfIsConsistent(Half(k, r, v, c1, c1), ElGamalEncrypt(0, r, k), k, 1)
    BY <1>3, <2>1, <2>2, HalfHolds, Zenon
  <2>4. QED
    BY <1>4, <2>3 DEF message
<1>9. QED
  BY <1>2, <1>4, <1>5, <1>7, <1>8, <1>6 DEF DisjunctiveIsValid, message, proof0

\* and both of a one, unless the first random number is zero.
LEMMA HonestDisjunctiveOne ==
  ASSUME NEW k \in Residues, NEW r \in ElementModQ, r # 0, NEW hash \in ElementModQ,
         NEW nonces \in ElementModQ \X ElementModQ \X ElementModQ, nonces[1] # 0
  PROVE  LET message == ElGamalEncrypt(1, r, k)
         IN  DisjunctiveIsValid(MakeDisjunctiveOne(message, r, k, nonces, hash), message, k, hash)
<1> DEFINE message == ElGamalEncrypt(1, r, k)
           w == nonces[1]
           v == nonces[2]
           u == nonces[3]
           c0 == NegateQ(w)
           c1 == PlusQ(hash, w)
           proof1 == MakeDisjunctiveOne(message, r, k, nonces, hash)
<1>1. w \in ElementModQ /\ v \in ElementModQ /\ u \in ElementModQ
  OBVIOUS
<1>2. c0 \in ElementModQ /\ c1 \in ElementModQ /\ PlusQ(c0, c1) = hash
  BY <1>1, ChallengeTypes
<1>3. w \in Nat /\ v \in Nat /\ u \in Nat /\ c0 \in Nat /\ c1 \in Nat /\ r \in Nat
  BY <1>1, <1>2, Elements
<1>4. /\ proof1.zero = Half(k, r, v, c0, w) /\ proof1.zero.challenge = c0
      /\ proof1.one = Half(k, r, u, c1, 0) /\ proof1.one.challenge = c1
      /\ proof1.challenge = hash
  BY <1>2, <1>3, GPowZero DEF MakeDisjunctiveOne, Half
<1>5. message.pad \in Residues /\ message.data \in Residues
  BY <1>3, EncryptionIsResidues
<1>6. w + 1 * c0 = Q
  BY <1>3, Parameters DEF NegateQ
<1>7. /\ proof1.zero.pad \in Residues /\ proof1.zero.data \in Residues
       /\ proof1.one.pad \in Residues /\ proof1.one.data \in Residues
  <2>1. 0 \in Nat
    OBVIOUS
  <2>2. Half(k, r, v, c0, w).pad \in Residues /\ Half(k, r, v, c0, w).data \in Residues
    BY <1>3, <2>1, HalfIsResidues, Zenon
  <2>3. Half(k, r, u, c1, 0).pad \in Residues /\ Half(k, r, u, c1, 0).data \in Residues
    BY <1>3, <2>1, HalfIsResidues, Zenon
  <2>4. QED
    BY <1>4, <2>2, <2>3, Zenon
<1> HIDE DEF proof1, message, c0, c1, u, v, w
<1>8. HalfIsConsistent(proof1.zero, message, k, 0)
  <2>1. PowP(G, 0 * c0) = PowP(G, w + 1 * c0)
    <3>1. 0 * c0 = 0
      BY <1>3
    <3>2. PowP(G, 0) = 1 /\ PowP(G, Q) = 1
      BY PowPZero, GeneratorAssumption DEF GPowP
    <3>3. QED
      BY <1>6, <3>1, <3>2
  <2>2. 0 \in Nat /\ 1 \in Nat
    OBVIOUS
  <2>3. HalfIsConsistent(Half(k, r, v, c0, w), ElGamalEncrypt(1, r, k), k, 0)
    BY <1>3, <2>1, <2>2, HalfHolds, Zenon
  <2>4. QED
    BY <1>4, <2>3 DEF message
<1>9. HalfIsConsistent(proof1.one, message, k, 1)
  <2>1. PowP(G, 1 * c1) = PowP(G, 0 + 1 * c1)
    BY <1>3
  <2>2. 0 \in Nat /\ 1 \in Nat
    OBVIOUS
  <2>3. HalfIsConsistent(Half(k, r, u, c1, 0), ElGamalEncrypt(1, r, k), k, 1)
    BY <1>3, <2>1, <2>2, HalfHolds, Zenon
  <2>4. QED
    BY <1>4, <2>3 DEF message
<1>10. QED
  BY <1>2, <1>4, <1>5, <1>8, <1>9, <1>7 DEF DisjunctiveIsValid, message, proof1

-----------------------------------------------------------------------------
(* Every proof the code makes, of whatever statement. *)

\* The key of the election is that of the secret coefficient.
LEMMA KeyOfPolynomial ==
  ASSUME polynomial \in Polynomials
  PROVE  /\ polynomial[0] \in ElementModQ
         /\ PublicKey = GPowP(polynomial[0])
         /\ PublicKey \in Residues
         /\ KeyPair.secret_key = polynomial[0]
<1>1. polynomial[0] \in ElementModQ
  BY IndicesAreFinite DEF Polynomials
<1>2. PublicKey = GPowP(polynomial[0]) /\ KeyPair.secret_key = polynomial[0]
  BY DEF PublicKey, KeyPair, ElGamalKeyPair
<1>3. QED
  BY <1>1, <1>2, GPowResidue, Elements

\* The proofs of the coefficients are valid.
LEMMA CoefficientHolds ==
  ASSUME polynomial \in Polynomials, UNCHANGED polynomial, NEW i \in Indices, ProveCoefficient(i)
  PROVE  HonestProofsVerify'
<1>1. PICK r \in ElementModQ, hash \in ElementModQ :
        proof' = [kind |-> "coefficient",
                  public_key |-> ElGamalKeyPair(polynomial[i]).public_key,
                  hash |-> hash,
                  made |-> MakeSchnorrProof(ElGamalKeyPair(polynomial[i]), r, hash)]
  BY DEF ProveCoefficient
<1>2. polynomial[i] \in ElementModQ
  BY DEF Polynomials
<1>3. ElGamalKeyPair(polynomial[i]).public_key = GPowP(polynomial[i])
  BY DEF ElGamalKeyPair
<1>4. SchnorrIsValid(proof'.made, proof'.public_key, proof'.hash)
  BY <1>1, <1>2, <1>3, HonestSchnorr
<1>5. proof'.kind = "coefficient"
  BY <1>1
<1>6. QED
  BY <1>4, <1>5 DEF HonestProofsVerify, Holds

\* The proof of an encrypted one is not made with a first nonce of zero.
LEMMA RaisedOnlyForOne ==
  ASSUME NEW k \in Residues, NEW r \in ElementModQ, NEW hash \in ElementModQ,
         NEW nonces \in ElementModQ \X ElementModQ \X ElementModQ, NEW message
  PROVE  /\ MakeDisjunctiveZero(message, r, k, nonces, hash) # Raised
         /\ nonces[1] # 0 => MakeDisjunctiveOne(message, r, k, nonces, hash) # Raised
         /\ nonces[1] = 0 => MakeDisjunctiveOne(message, r, k, nonces, hash) = Raised
<1>1. ASSUME NEW p, DOMAIN p = {"zero", "one", "challenge"}
      PROVE  p # Raised
  BY <1>1 DEF Raised
<1>2. DOMAIN MakeDisjunctiveZero(message, r, k, nonces, hash) = {"zero", "one", "challenge"}
  BY DEF MakeDisjunctiveZero
<1>3. ASSUME nonces[1] # 0
      PROVE  DOMAIN MakeDisjunctiveOne(message, r, k, nonces, hash) = {"zero", "one", "challenge"}
  <2>1. nonces[1] \in ElementModQ
    OBVIOUS
  <2>2. NegateQ(nonces[1]) \in ElementModQ
    BY <1>3, <2>1, ChallengeTypes
  <2>3. QED
    BY <2>2 DEF MakeDisjunctiveOne
<1>4. ASSUME nonces[1] = 0
      PROVE  MakeDisjunctiveOne(message, r, k, nonces, hash) = Raised
  <2>1. NegateQ(nonces[1]) \notin ElementModQ
    BY <1>4, Parameters DEF NegateQ, ElementModQ
  <2>2. QED
    BY <2>1 DEF MakeDisjunctiveOne
<1>5. QED
  BY <1>1, <1>2, <1>3, <1>4

\* The proofs of the selections are valid or not made.
LEMMA SelectionHolds ==
  ASSUME polynomial \in Polynomials, UNCHANGED polynomial, ProveSelection
  PROVE  HonestProofsVerify'
<1> DEFINE k == PublicKey
<1>1. PICK message \in {0, 1}, r \in Nonces,
           nonces \in ElementModQ \X ElementModQ \X ElementModQ, hash \in ElementModQ :
        proof' = [kind |-> "selection", ciphertext |-> ElGamalEncrypt(message, r, k),
                  nonces |-> nonces, hash |-> hash,
                  made |-> MakeDisjunctive(ElGamalEncrypt(message, r, k), r, k, nonces,
                                           message, hash)]
  BY DEF ProveSelection
<1>2. k \in Residues /\ k = GPowP(polynomial[0]) /\ polynomial[0] \in ElementModQ
  BY KeyOfPolynomial
<1>3. PublicKey' = k
  BY DEF PublicKey, KeyPair
<1> HIDE DEF k
<1>4. r \in ElementModQ /\ r # 0
  BY DEF Nonces
<1>5. /\ proof'.kind = "selection" /\ proof'.ciphertext = ElGamalEncrypt(message, r, k)
      /\ proof'.nonces = nonces /\ proof'.hash = hash
      /\ proof'.made = MakeDisjunctive(ElGamalEncrypt(message, r, k), r, k, nonces, message, hash)
  BY <1>1
<1>6. CASE message = 0
  <2>1. proof'.made = MakeDisjunctiveZero(ElGamalEncrypt(0, r, k), r, k, nonces, hash)
    BY <1>5, <1>6 DEF MakeDisjunctive
  <2>2. proof'.made # Raised
    BY <1>2, <1>4, <2>1, RaisedOnlyForOne
  <2>3. DisjunctiveIsValid(proof'.made, proof'.ciphertext, k, hash)
    BY <1>2, <1>4, <1>5, <1>6, <2>1, HonestDisjunctiveZero
  <2>4. QED
    BY <1>3, <1>5, <2>2, <2>3 DEF HonestProofsVerify, Holds
<1>7. CASE message = 1 /\ nonces[1] # 0
  <2>1. proof'.made = MakeDisjunctiveOne(ElGamalEncrypt(1, r, k), r, k, nonces, hash)
    BY <1>5, <1>7 DEF MakeDisjunctive
  <2>2. proof'.made # Raised
    BY <1>2, <1>4, <1>7, <2>1, RaisedOnlyForOne
  <2>3. DisjunctiveIsValid(proof'.made, proof'.ciphertext, k, hash)
    BY <1>2, <1>4, <1>5, <1>7, <2>1, HonestDisjunctiveOne
  <2>4. QED
    BY <1>3, <1>5, <2>2, <2>3 DEF HonestProofsVerify, Holds
<1>8. CASE message = 1 /\ nonces[1] = 0
  <2>1. proof'.made = Raised
    <3>1. proof'.made = MakeDisjunctiveOne(ElGamalEncrypt(1, r, k), r, k, nonces, hash)
      BY <1>5, <1>8 DEF MakeDisjunctive
    <3>2. QED
      BY <1>2, <1>4, <1>8, <3>1, RaisedOnlyForOne
  <2> DEFINE s == polynomial[0]
             y == PowP(k, r)
  <2>2. proof'.ciphertext.pad = GPowP(r) /\ proof'.ciphertext.data = MulP(GPowP(1), y)
    BY <1>4, <1>5, <1>8 DEF ElGamalEncrypt
  <2>3. PowP(GPowP(r), s) = y
    BY <1>2, <1>4, Elements, GeneratorIsResidue, PowSwap DEF GPowP
  <2>4. GPowP(1) = G
    BY Parameters, PowPOne DEF GPowP
  <2>5. MulP(G, y) # y
    <3>1. y \in Residues
      BY <1>2, <1>4, Elements, PowResidue
    <3> HIDE DEF y
    <3>2. MulP(y, G) = MulP(G, y) /\ MulP(y, 1) = y
      BY <3>1, Parameters, ResidueType, MulCommutes, MulOne
    <3>3. 1 \in ElementModP /\ G \in ElementModP /\ G # 1
      BY Parameters DEF ElementModP
    <3>4. QED
      BY <3>1, <3>2, <3>3, Cancel
  <2>6. proof'.ciphertext.data # PowP(proof'.ciphertext.pad, polynomial'[0])
    BY <2>2, <2>3, <2>4, <2>5
  <2>7. QED
    BY <1>5, <1>8, <2>1, <2>6 DEF HonestProofsVerify
<1>9. QED
  BY <1>6, <1>7, <1>8

\* Products of challenge and count are not reduced mod P.
ProductsFit == (Q - 1) * MaxSelections < P

\* No contest has more votes than the validation takes for sane.
CountsAreSane == MaxSelections \in SaneConstants

LEMMA Widened ==
  ASSUME NEW S, NEW T, NEW U, T \subseteq U, NEW f \in [S -> T]
  PROVE  f \in [S -> U]
OBVIOUS

\* The product of encryptions is the encryption of the sum, with the sum of the nonces.
LEMMA Accumulation ==
  ASSUME NEW k \in Residues, NEW S, IsFiniteSet(S),
         NEW messages \in [S -> Nat], NEW nonces \in [S -> Nat],
         \A s \in S : nonces[s] # 0
  PROVE  ElGamalAdd([s \in S |-> ElGamalEncrypt(messages[s], nonces[s], k)])
           = [pad |-> GPowP(AddQ(nonces)),
              data |-> MulP(GPowP(AddQ(messages)), PowP(k, AddQ(nonces)))]
<1> DEFINE c == [s \in S |-> ElGamalEncrypt(messages[s], nonces[s], k)]
<1>1. DOMAIN c = S
  OBVIOUS
<1>2. ASSUME NEW i \in S
      PROVE  /\ c[i].pad = PowP(G, nonces[i])
             /\ c[i].data = MulP(PowP(G, messages[i]), PowP(k, nonces[i]))
  BY DEF ElGamalEncrypt, GPowP
<1> HIDE DEF c
<1>3. [i \in DOMAIN c |-> c[i].pad] = [i \in S |-> PowP(G, nonces[i])]
  BY <1>1, <1>2
<1>4. [i \in DOMAIN c |-> c[i].data]
        = [i \in S |-> MulP(PowP(G, messages[i]), PowP(k, nonces[i]))]
  BY <1>1, <1>2
<1>5. MultP([i \in S |-> PowP(G, nonces[i])]) = PowP(G, AddQ(nonces))
  BY GeneratorIsResidue, ProductOfOnePower
<1>6. MultP([i \in S |-> MulP(PowP(G, messages[i]), PowP(k, nonces[i]))])
        = MulP(PowP(G, AddQ(messages)), PowP(k, AddQ(nonces)))
  BY GeneratorIsResidue, ProductOfPowers
<1>7. ElGamalAdd(c) = [pad |-> GPowP(AddQ(nonces)),
                       data |-> MulP(GPowP(AddQ(messages)), PowP(k, AddQ(nonces)))]
  BY <1>3, <1>4, <1>5, <1>6 DEF ElGamalAdd, GPowP
<1>8. QED
  BY <1>7 DEF c

\* The proofs of the contests are valid.
LEMMA ContestHolds ==
  ASSUME ProductsFit, CountsAreSane, polynomial \in Polynomials, UNCHANGED polynomial, ProveContest
  PROVE  HonestProofsVerify'
<1> DEFINE k == PublicKey
           S == 1 .. MaxSelections
<1>1. PICK messages \in [S -> {0, 1}], nonces \in [S -> Nonces],
           u \in ElementModQ, hash \in ElementModQ :
        proof' = [kind |-> "contest",
                  ciphertext |-> ElGamalAdd([s \in S |-> ElGamalEncrypt(messages[s], nonces[s], k)]),
                  hash |-> hash,
                  made |-> MakeConstantChaumPedersen(
                             ElGamalAdd([s \in S |-> ElGamalEncrypt(messages[s], nonces[s], k)]),
                             AddQ(messages), AddQ(nonces), k, u, hash)]
  BY DEF ProveContest
<1>2. k \in Residues
  BY KeyOfPolynomial
<1>3. PublicKey' = k
  BY DEF PublicKey, KeyPair
<1> HIDE DEF k
<1> DEFINE n == AddQ(messages)
           r == AddQ(nonces)
           message == [pad |-> GPowP(r), data |-> MulP(GPowP(n), PowP(k, r))]
<1>4. IsFiniteSet(S) /\ Cardinality(S) = MaxSelections /\ MaxSelections \in Nat
  <2>1. 1 \in Int /\ MaxSelections \in Nat
    BY ProofAssumption, Parameters
  <2>2. QED
    BY <2>1, FS_Interval
<1>5. messages \in [S -> Nat] /\ nonces \in [S -> Nat] /\ \A s \in S : nonces[s] # 0
  <2>1. {0, 1} \subseteq Nat /\ Nonces \subseteq Nat
    BY Elements DEF Nonces
  <2>2. messages \in [S -> {0, 1}] /\ nonces \in [S -> Nonces]
    OBVIOUS
  <2>3. messages \in [S -> Nat] /\ nonces \in [S -> Nat]
    BY <2>1, <2>2, Widened, Zenon
  <2>4. \A s \in S : nonces[s] # 0
    BY <2>2 DEF Nonces
  <2>5. QED
    BY <2>3, <2>4
<1>6. ElGamalAdd([s \in S |-> ElGamalEncrypt(messages[s], nonces[s], k)]) = message
  <2> HIDE DEF S
  <2>1. QED
    BY <1>2, <1>4, <1>5, Accumulation
<1>7. n \in ElementModQ /\ n <= MaxSelections
  <2>1. messages \in [S -> Int]
    OBVIOUS
  <2> HIDE DEF S
  <2>2. QED
    BY <1>4, <2>1, AddQType, SumIsAtMost
<1>8. r \in ElementModQ
  <2>1. nonces \in [S -> Int]
    BY Elements DEF Nonces
  <2> HIDE DEF S
  <2>2. QED
    BY <1>4, <2>1, AddQType
<1>9. /\ proof'.kind = "contest" /\ proof'.ciphertext = message /\ proof'.hash = hash
      /\ proof'.made = MakeConstantChaumPedersen(message, n, r, k, u, hash)
  BY <1>1, <1>6
<1>10. hash * n < P
  <2>1. hash \in Nat /\ hash <= Q - 1 /\ n \in Nat /\ Q - 1 \in Nat
    BY <1>7, Elements, Parameters DEF ElementModQ
  <2> HIDE DEF n
  <2>2. hash * n <= (Q - 1) * n
    <3>1. \A a, b, c \in Nat : a <= b => a * c <= b * c
      OBVIOUS
    <3>2. QED
      BY <2>1, <3>1
  <2>3. (Q - 1) * n <= (Q - 1) * MaxSelections
    <3>1. \A a, b, c \in Nat : a <= b => c * a <= c * b
      OBVIOUS
    <3>2. QED
      BY <1>4, <1>7, <2>1, <3>1
  <2>4. hash * n \in Int /\ (Q - 1) * n \in Int /\ (Q - 1) * MaxSelections \in Int /\ P \in Int
    BY <1>4, <2>1, Parameters
  <2>5. QED
    BY <2>2, <2>3, <2>4 DEF ProductsFit
<1>11. n \in SaneConstants
  <2> HIDE DEF n
  <2>1. n \in Nat /\ n <= MaxSelections
    BY <1>7, Elements
  <2> DEFINE bound == 1000 * 1000 * 1000 - 1
  <2>2. SaneConstants = 0 .. bound
    BY Zenon DEF SaneConstants
  <2>3. bound \in Int
    OBVIOUS
  <2> HIDE DEF bound
  <2>4. QED
    BY <1>4, <2>1, <2>2, <2>3 DEF CountsAreSane
<1> HIDE DEF n, r
<1>12. ConstantIsValid(proof'.made, proof'.ciphertext, k, hash)
  BY <1>2, <1>7, <1>8, <1>9, <1>10, <1>11, HonestConstant
<1>13. QED
  BY <1>3, <1>9, <1>12 DEF HonestProofsVerify, Holds

\* The proofs of the shares are valid,
LEMMA ShareHolds ==
  ASSUME polynomial \in Polynomials, UNCHANGED polynomial, ProveShare
  PROVE  HonestProofsVerify'
<1> DEFINE k == PublicKey
           s == polynomial[0]
<1>1. PICK r \in Nonces, u \in ElementModQ, hash \in ElementModQ :
        LET ciphertext == ElGamalEncrypt(1, r, k)
            made == MakeChaumPedersen(ciphertext, s, u, hash)
        IN  proof' = [kind |-> "share", ciphertext |-> ciphertext, hash |-> hash,
                      made |-> DecryptionSelection(PartialDecrypt(ciphertext, s), {made}, {})]
  BY KeyOfPolynomial DEF ProveShare
<1>2. k \in Residues /\ k = GPowP(s) /\ s \in ElementModQ
  BY KeyOfPolynomial
<1>3. PublicKey' = k
  BY DEF PublicKey, KeyPair
<1> HIDE DEF k, s
<1> DEFINE ciphertext == ElGamalEncrypt(1, r, k)
           made == MakeChaumPedersen(ciphertext, s, u, hash)
<1>4. r \in Nat /\ r # 0
  BY Elements DEF Nonces
<1>5. ciphertext.pad \in Residues /\ ciphertext.data \in Residues
  BY <1>2, <1>4, EncryptionIsResidues
<1>6. /\ proof'.kind = "share" /\ proof'.ciphertext = ciphertext /\ proof'.hash = hash
      /\ proof'.made.share = PowP(ciphertext.pad, s)
      /\ proof'.made.proofs = {made} /\ proof'.made.parts = {}
  BY <1>1 DEF DecryptionSelection, PartialDecrypt
<1> HIDE DEF ciphertext
<1>7. ChaumPedersenIsValid(made, ciphertext, k, PowP(ciphertext.pad, s), hash)
  BY <1>2, <1>5, HonestChaumPedersen
<1>8. proof'.made.parts = {}
  BY <1>6
<1> HIDE DEF made
<1>9. DecryptionSelectionIsValid(proof'.made, proof'.ciphertext, k, hash)
  BY <1>6, <1>7, <1>8 DEF DecryptionSelectionIsValid
<1>10. QED
  BY <1>3, <1>6, <1>9 DEF HonestProofsVerify, Holds

\* and those of the compensated parts.
LEMMA CompensationHolds ==
  ASSUME polynomial \in Polynomials, UNCHANGED polynomial, NEW x \in Others, ProveCompensation(x)
  PROVE  HonestProofsVerify'
<1> DEFINE k == PublicKey
           coordinate == ComputePolynomialCoordinate(x, polynomial)
           recovery == ComputeRecoveryPublicKey(x, Commitments(polynomial))
           lagrange == ComputeLagrangeCoefficient(x, {})
<1>1. PICK r \in Nonces, u \in ElementModQ, hash \in ElementModQ :
        LET ciphertext == ElGamalEncrypt(1, r, k)
            share == PartialDecrypt(ciphertext, coordinate)
            part == [share |-> share, recovery_key |-> recovery,
                     made |-> MakeChaumPedersen(ciphertext, coordinate, u, hash)]
        IN  proof' = [kind |-> "share", ciphertext |-> ciphertext, hash |-> hash,
                      made |-> DecryptionSelection(PowP(share, lagrange), {}, {[y \in {x} |-> part]})]
  BY DEF ProveCompensation
<1>2. k \in Residues
  BY KeyOfPolynomial
<1>3. PublicKey' = k
  BY DEF PublicKey, KeyPair
<1>4. coordinate \in ElementModQ /\ recovery = GPowP(coordinate)
  <2>1. x \in Nat
    BY IndicesAreFinite DEF Others
  <2>2. QED
    BY <2>1, CoordinateType, RecoveryKey
<1> HIDE DEF k, coordinate, recovery, lagrange
<1> DEFINE ciphertext == ElGamalEncrypt(1, r, k)
           part == [share |-> PowP(ciphertext.pad, coordinate), recovery_key |-> recovery,
                    made |-> MakeChaumPedersen(ciphertext, coordinate, u, hash)]
<1>5. r \in Nat /\ r # 0
  BY Elements DEF Nonces
<1>6. ciphertext.pad \in Residues /\ ciphertext.data \in Residues
  BY <1>2, <1>5, EncryptionIsResidues
<1>7. /\ proof'.kind = "share" /\ proof'.ciphertext = ciphertext /\ proof'.hash = hash
      /\ proof'.made.proofs = {} /\ proof'.made.parts = {[y \in {x} |-> part]}
  BY <1>1 DEF DecryptionSelection, PartialDecrypt
<1> HIDE DEF ciphertext
<1>8. ChaumPedersenIsValid(part.made, ciphertext, part.recovery_key, part.share, hash)
  BY <1>4, <1>6, HonestChaumPedersen
<1> HIDE DEF part
<1>9. \A parts \in proof'.made.parts : DOMAIN parts = {x} /\ parts[x] = part
  BY <1>7
<1>10. DecryptionSelectionIsValid(proof'.made, proof'.ciphertext, k, hash)
  BY <1>7, <1>8, <1>9 DEF DecryptionSelectionIsValid
<1>11. QED
  BY <1>3, <1>7, <1>10 DEF HonestProofsVerify, Holds

\* The proofs do not interfere with the sharing: what SharingProofs shows of Spec
\* holds while they are made.
THEOREM ProofsOnlyLookOn == ProofSpec => Spec
<1>1. ProofInit => Init
  BY DEF ProofInit
<1>2. [ProofNext]_<<vars, proof>> => [Next]_vars
  BY DEF ProofNext, Prove, Share, vars
<1>3. QED
  BY <1>1, <1>2, PTL DEF ProofSpec, Spec

\* A proof that was made stays, and so does the polynomial.
HonestInv == polynomial \in Polynomials /\ HonestProofsVerify

\* Every step keeps the last proof valid.
LEMMA HonestStep ==
  ASSUME ProductsFit, CountsAreSane, HonestInv, [ProofNext]_<<vars, proof>>
  PROVE  HonestInv'
<1>1. polynomial \in Polynomials
  BY DEF HonestInv
<1>2. UNCHANGED polynomial
  BY DEF ProofNext, Prove, Share, Next, ShareBackups, Compensate, Reconstruct, vars
<1>3. ASSUME UNCHANGED proof PROVE HonestProofsVerify'
  <2>1. PublicKey' = PublicKey
    BY <1>2 DEF PublicKey, KeyPair
  <2>2. HonestProofsVerify
    BY DEF HonestInv
  <2>3. QED
    BY <1>2, <1>3, <2>1, <2>2 DEF HonestProofsVerify, Holds
<1>4. ASSUME Share PROVE HonestProofsVerify'
  BY <1>3, <1>4 DEF Share
<1>5. ASSUME NEW i \in Indices, ProveCoefficient(i) PROVE HonestProofsVerify'
  BY <1>1, <1>2, <1>5, CoefficientHolds
<1>6. ASSUME ProveSelection PROVE HonestProofsVerify'
  BY <1>1, <1>2, <1>6, SelectionHolds
<1>7. ASSUME ProveContest PROVE HonestProofsVerify'
  BY <1>1, <1>2, <1>7, ContestHolds
<1>8. ASSUME ProveShare PROVE HonestProofsVerify'
  BY <1>1, <1>2, <1>8, ShareHolds
<1>9. ASSUME Claim PROVE HonestProofsVerify'
  <2>1. proof'.kind = "claim"
    BY <1>9 DEF Claim
  <2>2. QED
    BY <2>1 DEF HonestProofsVerify, Holds
<1>10. ASSUME NEW x \in Others, ProveCompensation(x) PROVE HonestProofsVerify'
  BY <1>1, <1>2, <1>10, CompensationHolds
<1>11. ASSUME UNCHANGED <<vars, proof>> PROVE HonestProofsVerify'
  BY <1>3, <1>11
<1>12. HonestProofsVerify'
  BY <1>4, <1>5, <1>6, <1>7, <1>8, <1>9, <1>10, <1>11 DEF ProofNext, Prove
<1>13. QED
  BY <1>1, <1>2, <1>12 DEF HonestInv

\* For every group, polynomial, random number and hash, the validations accept what the
\* code proves: keys, selections, contests, decryption shares and compensations.  They
\* do for contests of fewer than 10^9 votes, which is what the validation of the constant
\* proof takes for sane, and as long as a challenge times a number of votes stays below
\* P, since its exponent is taken mod P.
THEOREM WhatIsProvedIsAccepted ==
  ASSUME ProductsFit, CountsAreSane
  PROVE  ProofSpec => []HonestProofsVerify
<1>1. ProofInit => HonestInv
  BY DEF ProofInit, Init, NoProof, HonestInv, HonestProofsVerify, Holds
<1>2. HonestInv /\ [ProofNext]_<<vars, proof>> => HonestInv'
  BY HonestStep
<1>3. HonestInv => HonestProofsVerify
  BY DEF HonestInv
<1>4. QED
  BY <1>1, <1>2, <1>3, PTL DEF ProofSpec

-----------------------------------------------------------------------------
(* What can be answered.  Two answers to different challenges for the same *)
(* commitments contain the exponent that is claimed to be known.           *)

\* v answers the challenge c: y is claimed to be a power of x, a is the commitment.
Answers(x, y, a, v, c) == PowP(x, v) = MulP(a, PowP(y, c))

\* Dividing powers of x subtracts the exponents.
LEMMA Quotient ==
  ASSUME NEW x \in Residues, NEW a \in ElementModQ, NEW b \in ElementModQ
  PROVE  /\ AMinusBQ(a, b) \in Nat
         /\ PowP(x, a) = MulP(PowP(x, b), PowP(x, AMinusBQ(a, b)))
<1> DEFINE d == AMinusBQ(a, b)
<1>1. d \in ElementModQ /\ PlusQ(d, b) = a
  BY ChallengeTypes
<1> HIDE DEF d
<1>2. d \in Nat /\ b \in Nat /\ b + d \in Nat /\ b + d = d + b /\ x \in Int
  <2>1. d \in Nat /\ b \in Nat
    BY <1>1, Elements
  <2>2. x \in Int
    BY ResidueType
  <2>3. QED
    BY <2>1, <2>2
<1>3. PowP(x, a) = PowP(x, b + d)
  BY <1>1, <1>2, PowReduced DEF PlusQ
<1>4. PowP(x, b + d) = MulP(PowP(x, b), PowP(x, d))
  BY <1>2, PowPAdd, Zenon
<1>5. QED
  BY <1>2, <1>3, <1>4 DEF d

\* Dividing the two answers removes the commitment.
LEMMA Divides ==
  ASSUME NEW x \in Residues, NEW y \in Residues, NEW a \in Residues,
         NEW v \in ElementModQ, NEW w \in ElementModQ,
         NEW c \in ElementModQ, NEW d \in ElementModQ,
         Answers(x, y, a, v, c), Answers(x, y, a, w, d)
  PROVE  PowP(x, AMinusBQ(v, w)) = PowP(y, AMinusBQ(c, d))
<1> DEFINE p == PowP(x, AMinusBQ(v, w))
           q == PowP(y, AMinusBQ(c, d))
           ad == MulP(a, PowP(y, d))
<1>1. PowP(x, v) = MulP(PowP(x, w), p) /\ PowP(y, c) = MulP(PowP(y, d), q)
  BY Quotient
<1>2. /\ p \in ElementModP /\ q \in ElementModP /\ PowP(y, d) \in Residues /\ ad \in Residues
      /\ a \in Int /\ q \in Int /\ PowP(y, d) \in Int
  <2>1. AMinusBQ(v, w) \in Nat /\ AMinusBQ(c, d) \in Nat /\ d \in Nat
    BY Quotient, Elements
  <2>2. PowP(y, d) \in Residues /\ p \in Residues /\ q \in Residues
    BY <2>1, PowResidue
  <2>3. ad \in Residues
    BY <2>2, MulResidue
  <2>4. QED
    BY <2>2, <2>3, ResidueType
<1> HIDE DEF p, q
<1>3. MulP(ad, p) = MulP(a, MulP(PowP(y, d), q))
  BY <1>1 DEF Answers
<1>4. MulP(a, MulP(PowP(y, d), q)) = MulP(ad, q)
  BY <1>2, MulAssociates
<1> HIDE DEF ad
<1>5. p = q
  BY <1>2, <1>3, <1>4, Cancel
<1>6. QED
  BY <1>5 DEF p, q

\* t is the exponent in every claim that v and w answer, of the challenges c and d.
IsExponent(t, v, w, c, d) ==
  \A x, y, a \in Residues : Answers(x, y, a, v, c) /\ Answers(x, y, a, w, d) => y = PowP(x, t)

\* The exponent is the same for every claim that the answers are about.
LEMMA Extracted ==
  ASSUME NEW v \in ElementModQ, NEW w \in ElementModQ,
         NEW c \in ElementModQ, NEW d \in ElementModQ, c # d
  PROVE  \E t \in ElementModQ : IsExponent(t, v, w, c, d)
<1> DEFINE f == AMinusBQ(c, d)
           u == AMinusBQ(v, w)
<1>1. f \in ElementModQ /\ u \in ElementModQ /\ PlusQ(f, d) = c
  BY ChallengeTypes
<1>2. f \in 1 .. Q - 1
  <2>1. f # 0
    <3>1. SUFFICES ASSUME f = 0 PROVE FALSE
      OBVIOUS
    <3>2. PlusQ(0, d) = d
      <4>1. 0 + d = d /\ d % Q = d
        BY Parameters, Small DEF ElementModQ
      <4>2. QED
        BY <4>1 DEF PlusQ
    <3>3. QED
      BY <1>1, <3>1, <3>2
  <2> HIDE DEF f
  <2>2. QED
    BY <1>1, <2>1, Parameters DEF ElementModQ
<1> HIDE DEF f, u
<1>3. PICK e \in ElementModQ : (f * e) % Q = 1
  BY <1>2, PrimeAssumption
<1>4. f \in Nat /\ u \in Nat /\ e \in Nat /\ f * e \in Nat /\ u * e \in Nat
  BY <1>1, Elements
<1>5. (u * e) % Q \in ElementModQ
  BY <1>4, Parameters, Divided DEF ElementModQ
<1>6. ASSUME NEW x \in Residues, NEW y \in Residues, NEW a \in Residues,
             Answers(x, y, a, v, c), Answers(x, y, a, w, d)
      PROVE  y = PowP(x, (u * e) % Q)
  <2>1. PowP(x, u) = PowP(y, f)
    BY <1>6, Divides DEF u, f
  <2>2. x \in Int /\ y \in Int /\ y \in ElementModP
    BY ResidueType
  <2>3. PowP(PowP(x, u), e) = PowP(x, u * e) /\ PowP(PowP(y, f), e) = PowP(y, f * e)
    BY <1>4, <2>2, PowPTimes
  <2>4. PowP(y, 1) = PowP(y, f * e) /\ PowP(x, (u * e) % Q) = PowP(x, u * e)
    BY <1>3, <1>4, PowReduced
  <2>5. PowP(y, 1) = y
    BY <2>2, PowPOne
  <2>6. QED
    BY <2>1, <2>3, <2>4, <2>5
<1>7. QED
  BY <1>5, <1>6 DEF IsExponent

\* A share that is not the partial decryption.
LEMMA ShareIsTrue ==
  ASSUME NEW s \in ElementModQ, NEW pad0 \in Residues, NEW share \in Residues,
         NEW a \in Residues, NEW b \in Residues,
         NEW v \in ElementModQ, NEW w \in ElementModQ,
         NEW c \in ElementModQ, NEW d \in ElementModQ, c # d,
         Answers(G, GPowP(s), a, v, c), Answers(G, GPowP(s), a, w, d),
         Answers(pad0, share, b, v, c), Answers(pad0, share, b, w, d)
  PROVE  share = PowP(pad0, s)
<1>1. PICK t \in ElementModQ : IsExponent(t, v, w, c, d)
  BY Extracted
<1>2. GPowP(s) \in Residues
  BY GPowResidue, Elements
<1>3. GPowP(s) = GPowP(t)
  BY <1>1, <1>2, GeneratorIsResidue DEF GPowP, IsExponent
<1>4. s = t
  BY <1>3, GeneratorExponent
<1>5. QED
  BY <1>1, <1>4 DEF IsExponent

\* A number that is not the encrypted one: the equation about the data is an answer
\* about the data without g to that number.
\* v answers the challenge c: the data, without g to the number n, is claimed to be a
\* power of k.
DataAnswers(k, data, n, b, v, c) == MulP(GPowP(n * c), PowP(k, v)) = MulP(b, PowP(data, c))

LEMMA CountIsTrue ==
  ASSUME NEW k \in Residues, NEW r \in ElementModQ, NEW m \in ElementModQ, NEW n \in ElementModQ,
         NEW a \in Residues, NEW b \in Residues,
         NEW v \in ElementModQ, NEW w \in ElementModQ,
         NEW c \in ElementModQ, NEW d \in ElementModQ, c # d,
         Answers(G, GPowP(r), a, v, c), Answers(G, GPowP(r), a, w, d),
         DataAnswers(k, MulP(GPowP(m), PowP(k, r)), n, b, v, c),
         DataAnswers(k, MulP(GPowP(m), PowP(k, r)), n, b, w, d)
  PROVE  m = n
<1> DEFINE data == MulP(GPowP(m), PowP(k, r))
           gn == GPowP(n)
           h == MulP(PowP(gn, Q - 1), data)
<1>1. PICK t \in ElementModQ : IsExponent(t, v, w, c, d)
  BY Extracted
<1>2. gn \in Residues /\ GPowP(m) \in Residues /\ GPowP(r) \in Residues
  BY GPowResidue, Elements
<1>3. PowP(k, r) \in Residues /\ data \in Residues
  BY <1>2, Elements, PowResidue, MulResidue
<1> HIDE DEF data
<1>4. PowP(gn, Q - 1) \in Residues /\ MulP(PowP(gn, Q - 1), gn) = 1
  BY <1>2, InversePower
<1>5. h \in Residues
  BY <1>3, <1>4, MulResidue
<1>6. data = MulP(gn, h)
  <2>1. gn \in Int /\ data \in Int /\ PowP(gn, Q - 1) \in Int /\ data \in ElementModP
    BY <1>2, <1>3, <1>4, ResidueType
  <2>2. MulP(gn, h) = MulP(MulP(gn, PowP(gn, Q - 1)), data)
    BY <2>1, MulAssociates
  <2>3. MulP(gn, PowP(gn, Q - 1)) = 1
    BY <1>4, <2>1, MulCommutes
  <2>4. QED
    BY <2>1, <2>2, <2>3, MulOne
<1> HIDE DEF h
<1>7. ASSUME NEW e \in ElementModQ, NEW z \in ElementModQ,
             DataAnswers(k, data, n, b, z, e)
      PROVE  Answers(k, h, b, z, e)
  <2> DEFINE ge == PowP(gn, e)
  <2>1. e \in Nat /\ z \in Nat /\ n \in Nat /\ n * e \in Nat /\ G \in Int
    BY Elements, Parameters
  <2>2. PowP(gn, e) = GPowP(n * e)
    BY <2>1, PowPTimes DEF GPowP
  <2>3. gn \in Int /\ h \in Int /\ b \in Int
    BY <1>2, <1>5, ResidueType
  <2>4. PowP(data, e) = MulP(ge, PowP(h, e))
    BY <1>6, <2>1, <2>3, PowPMul
  <2>5. /\ ge \in Residues /\ PowP(h, e) \in Residues /\ PowP(k, z) \in Residues
        /\ MulP(b, PowP(h, e)) \in Residues
    <3>1. ge \in Residues
      BY <1>2, <2>1, PowResidue
    <3>2. PowP(h, e) \in Residues /\ PowP(k, z) \in Residues
      BY <1>5, <2>1, PowResidue
    <3>3. MulP(b, PowP(h, e)) \in Residues
      BY <3>2, MulResidue
    <3>4. QED
      BY <3>1, <3>2, <3>3
  <2> HIDE DEF ge
  <2>6. MulP(b, MulP(ge, PowP(h, e))) = MulP(ge, MulP(b, PowP(h, e)))
    <3>1. ge \in Int /\ PowP(h, e) \in Int
      BY <2>5, ResidueType
    <3>2. MulP(b, MulP(ge, PowP(h, e))) = MulP(MulP(b, ge), PowP(h, e))
      BY <2>3, <3>1, MulAssociates
    <3>3. MulP(ge, MulP(b, PowP(h, e))) = MulP(MulP(ge, b), PowP(h, e))
      BY <2>3, <3>1, MulAssociates
    <3>4. QED
      BY <2>3, <3>1, <3>2, <3>3, MulCommutes
  <2>7. MulP(ge, PowP(k, z)) = MulP(ge, MulP(b, PowP(h, e)))
    BY <1>7, <2>2, <2>4, <2>6 DEF ge, DataAnswers
  <2>8. PowP(k, z) = MulP(b, PowP(h, e))
    BY <2>5, <2>7, ResidueType, Cancel
  <2>9. QED
    BY <2>8 DEF Answers
<1>8. Answers(k, h, b, v, c) /\ Answers(k, h, b, w, d)
  BY <1>7 DEF data
<1>9. h = PowP(k, t)
  BY <1>1, <1>5, <1>8 DEF IsExponent
<1>10. t = r
  <2>1. GPowP(r) = GPowP(t)
    BY <1>1, <1>2, GeneratorIsResidue DEF GPowP, IsExponent
  <2>2. QED
    BY <2>1, GeneratorExponent
<1>11. gn = GPowP(m)
  <2>1. MulP(GPowP(m), PowP(k, r)) = MulP(gn, PowP(k, r))
    BY <1>6, <1>9, <1>10 DEF data
  <2>2. GPowP(m) \in ElementModP /\ gn \in ElementModP /\ GPowP(m) \in Int /\ gn \in Int
    BY <1>2, ResidueType
  <2>3. MulP(PowP(k, r), GPowP(m)) = MulP(PowP(k, r), gn)
    BY <1>3, <2>1, <2>2, ResidueType, MulCommutes
  <2> HIDE DEF gn
  <2>4. QED
    BY <1>3, <2>2, <2>3, Cancel
<1>12. QED
  BY <1>11, GeneratorExponent

-----------------------------------------------------------------------------
(* No false statement has answers to two challenges. *)

\* A set without two elements.
LEMMA AtMostOne ==
  ASSUME NEW S, \A x, y \in S : x = y
  PROVE  Cardinality(S) <= 1
<1>1. CASE S = {}
  BY <1>1, FS_EmptySet
<1>2. CASE S # {}
  <2>1. PICK x \in S : S = {x}
    BY <1>2
  <2>2. QED
    BY <2>1, FS_Singleton
<1>3. QED
  BY <1>1, <1>2

\* The proof with the given commitments and answer.
Answer(a, b, c, v) == [pad |-> a, data |-> b, challenge |-> c, response |-> v]

\* Two challenges about a share are the same unless it is the partial decryption.
LEMMA ShareIsRefuted ==
  ASSUME NEW s \in ElementModQ, NEW message, NEW share,
         NEW a \in Residues, NEW b \in Residues,
         NEW c \in ElementModQ, NEW d \in ElementModQ,
         NEW v \in ElementModQ, NEW w \in ElementModQ,
         ChaumPedersenIsValid(Answer(a, b, c, v), message, GPowP(s), share, c),
         ChaumPedersenIsValid(Answer(a, b, d, w), message, GPowP(s), share, d),
         share # PartialDecrypt(message, s)
  PROVE  c = d
<1> SUFFICES ASSUME c # d PROVE FALSE
  OBVIOUS
<1> DEFINE pad0 == message.pad
<1>1. pad0 \in Residues /\ share \in Residues
  BY DEF ChaumPedersenIsValid
<1>2. Answers(G, GPowP(s), a, v, c) /\ Answers(pad0, share, b, v, c)
  BY DEF ChaumPedersenIsValid, Answer, Answers, GPowP
<1>3. Answers(G, GPowP(s), a, w, d) /\ Answers(pad0, share, b, w, d)
  BY DEF ChaumPedersenIsValid, Answer, Answers, GPowP
<1> HIDE DEF pad0
<1>4. share = PowP(pad0, s)
  BY <1>1, <1>2, <1>3, ShareIsTrue
<1>5. QED
  BY <1>4 DEF pad0, PartialDecrypt

\* Two challenges about a half are the same unless it is of the encrypted number.
LEMMA HalfIsRefuted ==
  ASSUME NEW k \in Residues, NEW r \in ElementModQ, r # 0, NEW m \in ElementModQ, NEW n \in ElementModQ,
         NEW a \in Residues, NEW b \in Residues,
         NEW c \in ElementModQ, NEW d \in ElementModQ,
         NEW v \in ElementModQ, NEW w \in ElementModQ,
         HalfIsConsistent(Answer(a, b, c, v), ElGamalEncrypt(m, r, k), k, n),
         HalfIsConsistent(Answer(a, b, d, w), ElGamalEncrypt(m, r, k), k, n),
         m # n
  PROVE  c = d
<1> SUFFICES ASSUME c # d PROVE FALSE
  OBVIOUS
<1>1. /\ Answers(G, GPowP(r), a, v, c)
      /\ DataAnswers(k, MulP(GPowP(m), PowP(k, r)), n, b, v, c)
  BY DEF HalfIsConsistent, Answer, Answers, DataAnswers, GPowP, ElGamalEncrypt
<1>2. /\ Answers(G, GPowP(r), a, w, d)
      /\ DataAnswers(k, MulP(GPowP(m), PowP(k, r)), n, b, w, d)
  BY DEF HalfIsConsistent, Answer, Answers, DataAnswers, GPowP, ElGamalEncrypt
<1>3. QED
  BY <1>1, <1>2, CountIsTrue

\* The constant proof of one vote asks what the half of one asks.
LEMMA CountOfOne ==
  ASSUME NEW message, NEW k, NEW p, NEW c \in ElementModQ,
         p.challenge = c, p.constant = 1, ConstantIsValid(p, message, k, c)
  PROVE  HalfIsConsistent(p, message, k, 1)
<1>1. c \in Nat /\ 1 * c = c /\ c * 1 = c /\ c % P = c
  BY Elements, Small, Parameters DEF ElementModQ
<1>2. MulP(c, 1) = 1 * c
  BY <1>1 DEF MulP
<1>3. QED
  BY <1>2 DEF ConstantIsValid, HalfIsConsistent

\* What is claimed is about an encryption under the owner's key.
IsClaim(message, share, r) ==
  proof = [kind |-> "claim", message |-> message,
           ciphertext |-> ElGamalEncrypt(message, r, PublicKey), share |-> GPowP(share)]

\* Every claim is about an encryption of some message and the key of some share.
ClaimInv ==
  /\ polynomial \in Polynomials
  /\ proof.kind = "claim" =>
       \E message, share \in ElementModQ, r \in Nonces : IsClaim(message, share, r)

\* Every step keeps the form of a claim.
LEMMA ClaimStep ==
  ASSUME ClaimInv, [ProofNext]_<<vars, proof>>
  PROVE  ClaimInv'
<1>1. UNCHANGED polynomial
  BY DEF ProofNext, Prove, Share, Next, ShareBackups, Compensate, Reconstruct, vars
<1>2. PublicKey' = PublicKey
  BY <1>1 DEF PublicKey, KeyPair
<1>3. ASSUME UNCHANGED proof PROVE ClaimInv'
  BY <1>1, <1>2, <1>3 DEF ClaimInv, IsClaim
<1>4. ASSUME Claim PROVE ClaimInv'
  BY <1>1, <1>2, <1>4 DEF ClaimInv, IsClaim, Claim
<1>5. ASSUME proof'.kind # "claim" PROVE ClaimInv'
  BY <1>1, <1>5 DEF ClaimInv
<1>6. ASSUME Prove, ~Claim PROVE proof'.kind # "claim"
  <2>1. ASSUME NEW i \in Indices, ProveCoefficient(i) PROVE proof'.kind # "claim"
    BY <2>1 DEF ProveCoefficient
  <2>2. ProveSelection => proof'.kind # "claim"
    BY DEF ProveSelection
  <2>3. ProveContest => proof'.kind # "claim"
    BY DEF ProveContest
  <2>4. ProveShare => proof'.kind # "claim"
    BY DEF ProveShare
  <2>5. ASSUME NEW x \in Others, ProveCompensation(x) PROVE proof'.kind # "claim"
    BY <2>5 DEF ProveCompensation
  <2>6. QED
    BY <1>6, <2>1, <2>2, <2>3, <2>4, <2>5 DEF Prove
<1>7. QED
  BY <1>3, <1>4, <1>5, <1>6 DEF ProofNext, Share

\* No claim that is false has two answers.
LEMMA ClaimsAreRefuted == ClaimInv => AcceptedProofsAreTrue
<1> SUFFICES ASSUME ClaimInv, proof.kind = "claim"
             PROVE  AcceptedProofsAreTrue
  BY DEF AcceptedProofsAreTrue
<1>1. PICK message \in ElementModQ, share \in ElementModQ, r \in Nonces : IsClaim(message, share, r)
  BY DEF ClaimInv
<1>2. /\ proof.message = message /\ proof.share = GPowP(share)
      /\ proof.ciphertext = ElGamalEncrypt(message, r, PublicKey)
  BY <1>1 DEF IsClaim
<1>3. /\ polynomial[0] \in ElementModQ /\ PublicKey = GPowP(polynomial[0])
      /\ PublicKey \in Residues /\ r \in ElementModQ /\ r # 0
  BY KeyOfPolynomial DEF ClaimInv, Nonces
<1>4. 0 \in ElementModQ /\ 1 \in ElementModQ
  BY Parameters DEF ElementModQ
<1> DEFINE ciphertext == proof.ciphertext
           IsShare(p) == ChaumPedersenIsValid(p, ciphertext, PublicKey, proof.share, p.challenge)
           OfOne(p) == [field \in DOMAIN p \union {"constant"} |->
                          IF field = "constant" THEN 1 ELSE p[field]]
           IsCount(p) == ConstantIsValid(OfOne(p), ciphertext, PublicKey, p.challenge)
           IsZero(p) == HalfIsConsistent(p, ciphertext, PublicKey, 0)
           IsOne(p) == HalfIsConsistent(p, ciphertext, PublicKey, 1)
<1>5. ASSUME proof.share # PartialDecrypt(ciphertext, polynomial[0]) PROVE Refuted(IsShare)
  <2> SUFFICES ASSUME NEW a \in Residues, NEW b \in Residues
               PROVE  Cardinality(Answered(IsShare, a, b)) <= 1
    BY DEF Refuted
  <2>1. ASSUME NEW c \in ElementModQ, NEW d \in ElementModQ,
               NEW v \in ElementModQ, NEW w \in ElementModQ,
               IsShare(Answer(a, b, c, v)), IsShare(Answer(a, b, d, w))
        PROVE  c = d
    <3>1. /\ Answer(a, b, c, v).challenge = c /\ Answer(a, b, d, w).challenge = d
      BY DEF Answer
    <3> HIDE DEF ciphertext
    <3>2. QED
      BY <1>3, <1>5, <2>1, <3>1, ShareIsRefuted
  <2> HIDE DEF IsShare
  <2>2. \A c, d \in Answered(IsShare, a, b) : c = d
    BY <2>1 DEF Answered, Answer
  <2>3. QED
    BY <2>2, AtMostOne
<1>6. ASSUME message # 0 PROVE Refuted(IsZero)
  <2> SUFFICES ASSUME NEW a \in Residues, NEW b \in Residues
               PROVE  Cardinality(Answered(IsZero, a, b)) <= 1
    BY DEF Refuted
  <2>1. ASSUME NEW c \in ElementModQ, NEW d \in ElementModQ,
               NEW v \in ElementModQ, NEW w \in ElementModQ,
               IsZero(Answer(a, b, c, v)), IsZero(Answer(a, b, d, w))
        PROVE  c = d
    <3>1. /\ HalfIsConsistent(Answer(a, b, c, v), ElGamalEncrypt(message, r, PublicKey), PublicKey, 0)
          /\ HalfIsConsistent(Answer(a, b, d, w), ElGamalEncrypt(message, r, PublicKey), PublicKey, 0)
      BY <1>2, <2>1
    <3>2. QED
      BY <1>3, <1>4, <1>6, <3>1, HalfIsRefuted, Zenon
  <2> HIDE DEF IsZero
  <2>2. \A c, d \in Answered(IsZero, a, b) : c = d
    BY <2>1 DEF Answered, Answer
  <2>3. QED
    BY <2>2, AtMostOne
<1>7. ASSUME message # 1, NEW a \in Residues, NEW b \in Residues,
             NEW c \in ElementModQ, NEW d \in ElementModQ,
             NEW v \in ElementModQ, NEW w \in ElementModQ,
             IsOne(Answer(a, b, c, v)), IsOne(Answer(a, b, d, w))
      PROVE  c = d
  <2>1. /\ HalfIsConsistent(Answer(a, b, c, v), ElGamalEncrypt(message, r, PublicKey), PublicKey, 1)
        /\ HalfIsConsistent(Answer(a, b, d, w), ElGamalEncrypt(message, r, PublicKey), PublicKey, 1)
    BY <1>2, <1>7
  <2>2. QED
    BY <1>3, <1>4, <1>7, <2>1, HalfIsRefuted, Zenon
<1>8. ASSUME message # 1 PROVE Refuted(IsOne)
  <2> SUFFICES ASSUME NEW a \in Residues, NEW b \in Residues
               PROVE  Cardinality(Answered(IsOne, a, b)) <= 1
    BY DEF Refuted
  <2> HIDE DEF IsOne
  <2>1. \A c, d \in Answered(IsOne, a, b) : c = d
    BY <1>7, <1>8 DEF Answered, Answer
  <2>2. QED
    BY <2>1, AtMostOne
<1>9. ASSUME message # 1 PROVE Refuted(IsCount)
  <2> SUFFICES ASSUME NEW a \in Residues, NEW b \in Residues
               PROVE  Cardinality(Answered(IsCount, a, b)) <= 1
    BY DEF Refuted
  <2>1. ASSUME NEW c \in ElementModQ, NEW v \in ElementModQ, IsCount(Answer(a, b, c, v))
        PROVE  IsOne(Answer(a, b, c, v))
    <3> DEFINE p == OfOne(Answer(a, b, c, v))
    <3>1. /\ p.challenge = c /\ p.constant = 1 /\ Answer(a, b, c, v).challenge = c
          /\ p.pad = a /\ p.data = b /\ p.response = v
      BY DEF Answer
    <3> HIDE DEF p, ciphertext
    <3>2. ConstantIsValid(p, ciphertext, PublicKey, c)
      BY <2>1, <3>1 DEF p
    <3>3. HalfIsConsistent(p, ciphertext, PublicKey, 1)
      BY <3>1, <3>2, CountOfOne
    <3>4. QED
      BY <3>1, <3>3 DEF HalfIsConsistent, Answer
  <2> HIDE DEF IsOne, IsCount
  <2>2. ASSUME NEW c \in Answered(IsCount, a, b)
        PROVE  c \in ElementModQ /\ \E v \in ElementModQ : IsOne(Answer(a, b, c, v))
    <3>1. c \in ElementModQ /\ \E v \in ElementModQ : IsCount(Answer(a, b, c, v))
      BY <2>2 DEF Answered, Answer
    <3>2. QED
      BY <2>1, <3>1
  <2>3. \A c, d \in Answered(IsCount, a, b) : c = d
    BY <1>7, <1>9, <2>2
  <2>4. QED
    BY <2>3, AtMostOne
<1> HIDE DEF IsShare, IsZero, IsOne, IsCount
<1>10. QED
  BY <1>2, <1>5, <1>6, <1>8, <1>9
     DEF AcceptedProofsAreTrue, IsShare, IsZero, IsOne, IsCount

\* Nobody answers two challenges about a share that is not the partial decryption, a
\* number of votes that is not the encrypted one, or a half that is not the encrypted
\* vote, in any group of prime order: what the validations accept is true, but for a
\* hash that happens to be the one challenge with an answer.
THEOREM FalseStatementsAreRefuted == ProofSpec => []AcceptedProofsAreTrue
<1>1. ProofInit => ClaimInv
  BY DEF ProofInit, Init, NoProof, ClaimInv
<1>2. ClaimInv /\ [ProofNext]_<<vars, proof>> => ClaimInv'
  BY ClaimStep
<1>3. QED
  BY <1>1, <1>2, ClaimsAreRefuted, PTL DEF ProofSpec
=============================================================================

----------------------------- MODULE GroupProofs ----------------------------
(***************************************************************************)
(* The laws of Group: powers (a recursive function of the exponent), the   *)
(* subgroup of order Q, the field of the exponents, and sums and products  *)
(* over a finite set (folds).  A fact about all numbers, or about all      *)
(* subsets of a finite set, is proved for the set of those that have it, as*)
(* having no least exception.                                              *)
(***************************************************************************)
EXTENDS ElGamal, FoldProofs

-----------------------------------------------------------------------------
(* Remainders. *)

LEMMA Divided ==
  ASSUME NEW x \in Int, NEW m \in Nat \ {0}
  PROVE  x % m \in 0 .. m - 1 /\ x \div m \in Int /\ x = m * (x \div m) + (x % m)
OBVIOUS

\* A positive multiple of m is at least m.
LEMMA TimesAtLeast ==
  ASSUME NEW m \in Nat \ {0}, NEW d \in Int, d >= 1
  PROVE  m * d >= m
OBVIOUS

\* A number has one quotient and one remainder.
LEMMA RemainderIsUnique ==
  ASSUME NEW m \in Nat \ {0}, NEW q \in Int, NEW r \in 0 .. m - 1,
         NEW p \in Int, NEW s \in 0 .. m - 1, m * q + r = m * p + s
  PROVE  r = s
<1>1. m * (q - p) = s - r /\ m * (p - q) = r - s
  OBVIOUS
<1>2. ~(q - p >= 1) /\ ~(p - q >= 1)
  BY <1>1, TimesAtLeast
<1>3. QED
  BY <1>2

LEMMA Remainder ==
  ASSUME NEW m \in Nat \ {0}, NEW x \in Int, NEW q \in Int, NEW r \in 0 .. m - 1,
         x = m * q + r
  PROVE  x % m = r
BY Divided, RemainderIsUnique

\* Multiples of the modulus do not count,
LEMMA ModMultiple ==
  ASSUME NEW m \in Nat \ {0}, NEW x \in Int, NEW k \in Int
  PROVE  (x + m * k) % m = x % m
<1>1. /\ x % m \in 0 .. m - 1 /\ x \div m \in Int /\ x = m * (x \div m) + (x % m)
  BY Divided
<1>2. x + m * k = m * (x \div m + k) + (x % m)
  BY <1>1
<1>3. x \div m + k \in Int /\ x + m * k \in Int
  BY <1>1
<1>4. QED
  BY <1>1, <1>2, <1>3, Remainder

\* nor does a reduction inside a product
LEMMA ModTimes ==
  ASSUME NEW m \in Nat \ {0}, NEW x \in Int, NEW y \in Int
  PROVE  (x * (y % m)) % m = (x * y) % m
<1> DEFINE q == y \div m
           r == y % m
<1>1. r \in Int /\ q \in Int /\ y = m * q + r
  BY Divided
<1> HIDE DEF q, r
<1>2. x * y = x * r + m * (x * q)
  BY <1>1
<1>3. x * r \in Int /\ x * q \in Int
  BY <1>1
<1>4. (x * y) % m = (x * r) % m
  BY <1>2, <1>3, ModMultiple
<1>5. QED
  BY <1>4 DEF r

\* or inside a sum.
LEMMA ModPlus ==
  ASSUME NEW m \in Nat \ {0}, NEW x \in Int, NEW y \in Int
  PROVE  (x + (y % m)) % m = (x + y) % m
<1> DEFINE q == y \div m
           r == y % m
<1>1. r \in Int /\ q \in Int /\ y = m * q + r
  BY Divided
<1> HIDE DEF q, r
<1>2. x + y = (x + r) + m * q
  BY <1>1
<1>3. ASSUME NEW z \in Int PROVE (z + m * q) % m = z % m
  BY <1>1, ModMultiple
<1>4. (x + y) % m = (x + r) % m
  <2>1. x + r \in Int
    BY <1>1
  <2>2. QED
    BY <1>2, <1>3, <2>1
<1>5. QED
  BY <1>4 DEF r

-----------------------------------------------------------------------------
(* Powers. *)

\* f holds the first n powers of b.
PowersTo(f, b, m, n) ==
  /\ f[0] = 1 % m
  /\ \A k \in 0 .. n - 1 : f[k + 1] = (b * f[k]) % m

\* There is one function of the first n powers
LEMMA PowersAreUnique ==
  ASSUME NEW b, NEW m, NEW n \in Nat, NEW f, NEW g, PowersTo(f, b, m, n), PowersTo(g, b, m, n)
  PROVE  \A k \in 0 .. n : f[k] = g[k]
<1> DEFINE S == {k \in Nat : k <= n => f[k] = g[k]}
<1>1. 0 \in S
  BY DEF PowersTo
<1>2. ASSUME NEW k \in S PROVE k + 1 \in S
  BY <1>2 DEF PowersTo
<1>3. S \in SUBSET Nat
  OBVIOUS
<1> HIDE DEF S
<1>4. \A k \in Nat : k \in S
  BY <1>1, <1>2, <1>3, Induction
<1>5. QED
  BY <1>4 DEF S

\* for every n,
LEMMA PowersExist ==
  ASSUME NEW b, NEW m
  PROVE  \A n \in Nat : \E f : PowersTo(f, b, m, n)
<1> DEFINE S == {n \in Nat : \E f : PowersTo(f, b, m, n)}
<1>1. 0 \in S
  <2>1. PowersTo([k \in {0} |-> 1 % m], b, m, 0)
    BY DEF PowersTo
  <2>2. QED
    BY <2>1
<1>2. ASSUME NEW n \in S PROVE n + 1 \in S
  <2>1. PICK f : PowersTo(f, b, m, n)
    OBVIOUS
  <2> DEFINE g == [k \in 0 .. n + 1 |-> IF k <= n THEN f[k] ELSE (b * f[n]) % m]
  <2>2. PowersTo(g, b, m, n + 1)
    BY <2>1 DEF PowersTo
  <2>3. QED
    BY <2>2
<1>3. S \in SUBSET Nat
  OBVIOUS
<1> HIDE DEF S
<1>4. \A n \in Nat : n \in S
  BY <1>1, <1>2, <1>3, Induction
<1>5. QED
  BY <1>4 DEF S

\* The powers of b mod m,
Power(b, m) ==
  CHOOSE f : f = [n \in Nat |-> IF n = 0 THEN 1 % m ELSE (b * f[n - 1]) % m]

\* so the recursive function of PowMod is defined.
LEMMA PowerExists ==
  ASSUME NEW b, NEW m
  PROVE  Power(b, m) = [n \in Nat |->
                          IF n = 0 THEN 1 % m ELSE (b * Power(b, m)[n - 1]) % m]
<1> DEFINE part(n) == CHOOSE f : PowersTo(f, b, m, n)
           h == [n \in Nat |-> part(n)[n]]
<1>1. \A n \in Nat : PowersTo(part(n), b, m, n)
  BY PowersExist
<1>2. h[0] = 1 % m
  BY <1>1 DEF PowersTo
<1>3. ASSUME NEW n \in Nat PROVE h[n + 1] = (b * h[n]) % m
  <2>1. PowersTo(part(n), b, m, n) /\ PowersTo(part(n + 1), b, m, n + 1)
    BY <1>1
  <2> DEFINE f == part(n)
             g == part(n + 1)
  <2>2. h[n] = f[n] /\ h[n + 1] = g[n + 1]
    OBVIOUS
  <2> HIDE DEF f, g, h
  <2>3. PowersTo(g, b, m, n)
    <3>1. \A k \in 0 .. n - 1 : k \in 0 .. n + 1 - 1
      OBVIOUS
    <3>2. QED
      BY <2>1, <3>1 DEF PowersTo, g
  <2>4. f[n] = g[n]
    BY <2>1, <2>3, PowersAreUnique DEF f
  <2>5. g[n + 1] = (b * g[n]) % m
    BY <2>1 DEF PowersTo, g
  <2>6. QED
    BY <2>2, <2>4, <2>5
<1>4. h = [n \in Nat |-> IF n = 0 THEN 1 % m ELSE (b * h[n - 1]) % m]
  <2>1. \A n \in Nat : h[n] = IF n = 0 THEN 1 % m ELSE (b * h[n - 1]) % m
    <3> TAKE n \in Nat
    <3>1. CASE n = 0
      BY <1>2, <3>1
    <3>2. CASE n # 0
      <4>1. n - 1 \in Nat /\ n - 1 + 1 = n
        BY <3>2
      <4> HIDE DEF h
      <4>2. QED
        BY <1>3, <3>2, <4>1
    <3>3. QED
      BY <3>1, <3>2
  <2>2. h = [n \in Nat |-> h[n]]
    OBVIOUS
  <2> HIDE DEF h
  <2>3. QED
    BY <2>1, <2>2
<1> HIDE DEF h
<1>5. QED
  BY <1>4 DEF Power

\* PowMod is that function.
LEMMA PowModIsPower ==
  ASSUME NEW b, NEW e, NEW m
  PROVE  PowMod(b, e, m) = Power(b, m)[e]
BY DEF PowMod, Power

-----------------------------------------------------------------------------
(* Laws of powers. *)

\* The zeroth power,
LEMMA PowZero ==
  ASSUME NEW b, NEW m
  PROVE  PowMod(b, 0, m) = 1 % m
BY PowModIsPower, PowerExists

\* and each power from the one before.
LEMMA PowSucc ==
  ASSUME NEW b, NEW m, NEW e \in Nat
  PROVE  PowMod(b, e + 1, m) = (b * PowMod(b, e, m)) % m
<1>1. Power(b, m)[e + 1] = (b * Power(b, m)[e]) % m
  <2> DEFINE f == Power(b, m)
  <2>1. f = [n \in Nat |-> IF n = 0 THEN 1 % m ELSE (b * f[n - 1]) % m]
    BY PowerExists
  <2> HIDE DEF f
  <2>2. e + 1 \in Nat /\ e + 1 # 0 /\ e + 1 - 1 = e
    OBVIOUS
  <2>3. f[e + 1] = (b * f[e + 1 - 1]) % m
    BY <2>1, <2>2
  <2>4. QED
    BY <2>2, <2>3 DEF f
<1>2. QED
  BY <1>1, PowModIsPower

\* Powers are reduced.
LEMMA PowType ==
  ASSUME NEW b \in Int, NEW m \in Nat \ {0}
  PROVE  \A e \in Nat : PowMod(b, e, m) \in 0 .. m - 1
<1> DEFINE S == {e \in Nat : PowMod(b, e, m) \in 0 .. m - 1}
<1>1. 0 \in S
  <2>1. 1 % m \in 0 .. m - 1
    BY Divided
  <2>2. QED
    BY <2>1, PowZero
<1>2. ASSUME NEW e \in S PROVE e + 1 \in S
  <2>1. b * PowMod(b, e, m) \in Int
    OBVIOUS
  <2>2. (b * PowMod(b, e, m)) % m \in 0 .. m - 1
    BY <2>1, Divided
  <2>3. QED
    BY <2>2, PowSucc
<1>3. S \in SUBSET Nat
  OBVIOUS
<1> HIDE DEF S
<1>4. \A e \in Nat : e \in S
  BY <1>1, <1>2, <1>3, Induction
<1>5. QED
  BY <1>4 DEF S

\* The power of a sum of exponents.
LEMMA PowAdd ==
  ASSUME NEW b \in Int, NEW m \in Nat \ {0}, NEW e \in Nat
  PROVE  \A d \in Nat : PowMod(b, d + e, m) = (PowMod(b, d, m) * PowMod(b, e, m)) % m
<1> DEFINE S == {d \in Nat : PowMod(b, d + e, m) = (PowMod(b, d, m) * PowMod(b, e, m)) % m}
           pe == PowMod(b, e, m)
<1>1. pe \in Int
  BY PowType
<1>2. 0 \in S
  <2>1. (pe * (1 % m)) % m = (pe * 1) % m
    <3>1. 1 \in Int
      OBVIOUS
    <3>2. QED
      BY <1>1, <3>1, ModTimes, Zenon
  <2>2. pe % m = pe
    <3>1. pe \in 0 .. m - 1
      BY PowType
    <3> HIDE DEF pe
    <3>2. pe = m * 0 + pe
      BY <3>1
    <3>3. QED
      BY <3>1, <3>2, Remainder
  <2>3. (1 % m) * pe = pe * (1 % m) /\ pe * 1 = pe
    BY <1>1
  <2>4. PowMod(b, 0, m) = 1 % m /\ 0 + e = e
    BY PowZero
  <2>5. QED
    BY <2>1, <2>2, <2>3, <2>4
<1>3. ASSUME NEW d \in S PROVE d + 1 \in S
  <2> DEFINE pd == PowMod(b, d, m)
  <2>1. d \in Nat /\ d + e \in Nat /\ (d + 1) + e = (d + e) + 1 /\ pd \in Int
    BY PowType
  <2>2. PowMod(b, (d + 1) + e, m) = (b * ((pd * pe) % m)) % m
    BY <2>1, PowSucc
  <2>3. PowMod(b, d + 1, m) = (b * pd) % m
    BY PowSucc
  <2> HIDE DEF pd, pe
  <2>4. (b * ((pd * pe) % m)) % m = (b * (pd * pe)) % m
    <3>1. pd * pe \in Int
      BY <1>1, <2>1
    <3>2. QED
      BY <3>1, ModTimes, Zenon
  <2>5. (pe * ((b * pd) % m)) % m = (pe * (b * pd)) % m
    <3>1. b * pd \in Int
      BY <2>1
    <3>2. QED
      BY <1>1, <3>1, ModTimes, Zenon
  <2>6. pe * (b * pd) = b * (pd * pe) /\ pe * ((b * pd) % m) = ((b * pd) % m) * pe
    BY <1>1, <2>1
  <2>7. PowMod(b, (d + 1) + e, m) = (PowMod(b, d + 1, m) * pe) % m
    BY <2>2, <2>3, <2>4, <2>5, <2>6
  <2>8. QED
    BY <2>1, <2>7 DEF pe
<1>4. S \in SUBSET Nat
  OBVIOUS
<1> HIDE DEF S
<1>5. \A d \in Nat : d \in S
  BY <1>2, <1>3, <1>4, Induction
<1>6. QED
  BY <1>5 DEF S

-----------------------------------------------------------------------------
(* The integers mod P. *)

\* What is below the modulus is its own remainder.
LEMMA Small ==
  ASSUME NEW m \in Nat \ {0}, NEW x \in 0 .. m - 1
  PROVE  x % m = x
<1>1. x = m * 0 + x
  OBVIOUS
<1>2. QED
  BY <1>1, Remainder

\* What the assumption on the group says of its parameters.
LEMMA Parameters ==
  /\ P \in Nat \ {0} /\ Q \in Nat \ {0} /\ P > Q /\ Q > 1
  /\ G \in Nat /\ G \in ElementModP /\ G # 1 /\ 1 % P = 1 /\ 1 % Q = 1
<1>1. P \in Nat \ {0} /\ Q \in Nat \ {0} /\ P > Q /\ Q > 1 /\ G \in 2 .. P - 1
  BY GroupAssumption
<1>2. 1 \in 0 .. P - 1 /\ 1 \in 0 .. Q - 1
  BY <1>1
<1>3. 1 % P = 1 /\ 1 % Q = 1
  BY <1>1, <1>2, Small
<1>4. QED
  BY <1>1, <1>3 DEF ElementModP

LEMMA Elements ==
  /\ ElementModP \subseteq Int /\ ElementModP \subseteq Nat
  /\ ElementModQ \subseteq Int /\ ElementModQ \subseteq Nat
BY Parameters DEF ElementModP, ElementModQ

LEMMA MulType ==
  ASSUME NEW x \in Int, NEW y \in Int
  PROVE  MulP(x, y) \in ElementModP
<1>1. x * y \in Int
  OBVIOUS
<1>2. QED
  BY <1>1, Parameters, Divided DEF MulP, ElementModP

LEMMA MulCommutes ==
  ASSUME NEW x \in Int, NEW y \in Int
  PROVE  MulP(x, y) = MulP(y, x)
<1>1. x * y = y * x
  OBVIOUS
<1>2. QED
  BY <1>1 DEF MulP

\* A product mod P may be taken in any order.
LEMMA MulAssociates ==
  ASSUME NEW x \in Int, NEW y \in Int, NEW z \in Int
  PROVE  MulP(x, MulP(y, z)) = MulP(MulP(x, y), z)
<1>1. x * y \in Int /\ y * z \in Int
  OBVIOUS
<1>2. (x * ((y * z) % P)) % P = (x * (y * z)) % P
  BY <1>1, Parameters, ModTimes, Zenon
<1>3. (z * ((x * y) % P)) % P = (z * (x * y)) % P
  BY <1>1, Parameters, ModTimes, Zenon
<1>4. z * ((x * y) % P) = ((x * y) % P) * z
  <2>1. (x * y) % P \in Int
    BY <1>1, Parameters, Divided
  <2>2. QED
    BY <2>1
<1>5. z * (x * y) = x * (y * z)
  OBVIOUS
<1>6. QED
  BY <1>2, <1>3, <1>4, <1>5 DEF MulP

LEMMA MulOne ==
  ASSUME NEW x \in ElementModP
  PROVE  MulP(1, x) = x /\ MulP(x, 1) = x
<1>1. x \in Int /\ 1 * x = x /\ x * 1 = x
  BY Elements
<1>2. x % P = x
  BY Parameters, Small DEF ElementModP
<1>3. QED
  BY <1>1, <1>2 DEF MulP

\* The same laws, mod P.
LEMMA PowPType ==
  ASSUME NEW x \in Int, NEW e \in Nat
  PROVE  PowP(x, e) \in ElementModP
BY PowType, Parameters DEF PowP, ElementModP

LEMMA PowPZero ==
  ASSUME NEW x
  PROVE  PowP(x, 0) = 1
BY PowZero, Parameters DEF PowP

LEMMA PowPSucc ==
  ASSUME NEW x, NEW e \in Nat
  PROVE  PowP(x, e + 1) = MulP(x, PowP(x, e))
BY PowSucc DEF PowP, MulP

LEMMA PowPOne ==
  ASSUME NEW x \in ElementModP
  PROVE  PowP(x, 1) = x
<1>1. PowP(x, 0 + 1) = MulP(x, PowP(x, 0))
  BY PowPSucc
<1>2. QED
  BY <1>1, PowPZero, MulOne

LEMMA PowPAdd ==
  ASSUME NEW x \in Int, NEW d \in Nat, NEW e \in Nat
  PROVE  PowP(x, d + e) = MulP(PowP(x, d), PowP(x, e))
BY PowAdd, Parameters DEF PowP, MulP

\* A power of a power,
LEMMA PowPTimes ==
  ASSUME NEW x \in Int, NEW d \in Nat
  PROVE  \A e \in Nat : PowP(PowP(x, d), e) = PowP(x, d * e)
<1> DEFINE S == {e \in Nat : PowP(PowP(x, d), e) = PowP(x, d * e)}
<1>1. 0 \in S
  BY PowPZero
<1>2. ASSUME NEW e \in S PROVE e + 1 \in S
  <2>1. e \in Nat /\ d * e \in Nat /\ d * (e + 1) = d + d * e
    OBVIOUS
  <2>2. PowP(PowP(x, d), e + 1) = MulP(PowP(x, d), PowP(x, d * e))
    BY PowPSucc
  <2>3. PowP(x, d + d * e) = MulP(PowP(x, d), PowP(x, d * e))
    BY <2>1, PowPAdd, Zenon
  <2>4. PowP(PowP(x, d), e + 1) = PowP(x, d * (e + 1))
    BY <2>1, <2>2, <2>3
  <2>5. QED
    BY <2>4
<1>3. S \in SUBSET Nat
  OBVIOUS
<1> HIDE DEF S
<1>4. \A e \in Nat : e \in S
  BY <1>1, <1>2, <1>3, Induction
<1>5. QED
  BY <1>4 DEF S

\* Four factors, in pairs.
LEMMA MulPairs ==
  ASSUME NEW a \in Int, NEW b \in Int, NEW c \in Int, NEW d \in Int
  PROVE  MulP(MulP(a, b), MulP(c, d)) = MulP(MulP(a, c), MulP(b, d))
<1>1. /\ MulP(a, b) \in Int /\ MulP(c, d) \in Int /\ MulP(b, d) \in Int /\ MulP(b, c) \in Int
      /\ MulP(c, b) \in Int /\ MulP(a, c) \in Int
  BY MulType, Elements
<1>2. MulP(MulP(a, b), MulP(c, d)) = MulP(a, MulP(b, MulP(c, d)))
  BY <1>1, MulAssociates
<1>3. MulP(b, MulP(c, d)) = MulP(c, MulP(b, d))
  BY MulAssociates, MulCommutes
<1>4. MulP(a, MulP(c, MulP(b, d))) = MulP(MulP(a, c), MulP(b, d))
  BY <1>1, MulAssociates
<1>5. QED
  BY <1>2, <1>3, <1>4

\* and the power of a product.
LEMMA PowPMul ==
  ASSUME NEW x \in Int, NEW y \in Int
  PROVE  \A e \in Nat : PowP(MulP(x, y), e) = MulP(PowP(x, e), PowP(y, e))
<1> DEFINE S == {e \in Nat : PowP(MulP(x, y), e) = MulP(PowP(x, e), PowP(y, e))}
<1>1. 0 \in S
  <2>1. 1 \in ElementModP
    BY Parameters DEF ElementModP
  <2>2. QED
    BY <2>1, PowPZero, MulOne
<1>2. ASSUME NEW e \in S PROVE e + 1 \in S
  <2> DEFINE px == PowP(x, e)
             py == PowP(y, e)
  <2>1. px \in Int /\ py \in Int
    BY PowPType, Elements
  <2>2. /\ PowP(MulP(x, y), e + 1) = MulP(MulP(x, y), MulP(px, py))
        /\ PowP(x, e + 1) = MulP(x, px)
        /\ PowP(y, e + 1) = MulP(y, py)
    BY PowPSucc
  <2> HIDE DEF px, py
  <2>3. MulP(MulP(x, y), MulP(px, py)) = MulP(MulP(x, px), MulP(y, py))
    BY <2>1, MulPairs
  <2>4. PowP(MulP(x, y), e + 1) = MulP(PowP(x, e + 1), PowP(y, e + 1))
    BY <2>2, <2>3
  <2>5. QED
    BY <2>4
<1>3. S \in SUBSET Nat
  OBVIOUS
<1> HIDE DEF S
<1>4. \A e \in Nat : e \in S
  BY <1>1, <1>2, <1>3, Induction
<1>5. QED
  BY <1>4 DEF S

\* Powers of one are one.
LEMMA PowPOfOne == \A e \in Nat : PowP(1, e) = 1
<1> DEFINE S == {e \in Nat : PowP(1, e) = 1}
<1>1. 0 \in S
  BY PowPZero
<1>2. ASSUME NEW e \in S PROVE e + 1 \in S
  <2>1. 1 \in ElementModP
    BY Parameters DEF ElementModP
  <2>2. QED
    BY <2>1, PowPSucc, MulOne
<1>3. S \in SUBSET Nat
  OBVIOUS
<1> HIDE DEF S
<1>4. \A e \in Nat : e \in S
  BY <1>1, <1>2, <1>3, Induction
<1>5. QED
  BY <1>4 DEF S

-----------------------------------------------------------------------------
(* The subgroup: its exponents count mod Q. *)

LEMMA ResidueType ==
  ASSUME NEW x \in Residues
  PROVE  x \in Int /\ x \in ElementModP /\ PowP(x, Q) = 1
BY Elements DEF Residues

\* The generator is one of the residues, which products and powers do not leave.
LEMMA GeneratorIsResidue == G \in Residues
BY Parameters, GeneratorAssumption DEF Residues, GPowP

LEMMA MulResidue ==
  ASSUME NEW x \in Residues, NEW y \in Residues
  PROVE  MulP(x, y) \in Residues
<1>1. MulP(x, y) \in ElementModP
  BY ResidueType, MulType
<1>2. PowP(MulP(x, y), Q) = MulP(PowP(x, Q), PowP(y, Q))
  BY ResidueType, PowPMul, Parameters
<1>3. MulP(1, 1) = 1
  BY Parameters, MulOne DEF ElementModP
<1>4. QED
  BY <1>1, <1>2, <1>3, ResidueType DEF Residues

LEMMA PowResidue ==
  ASSUME NEW x \in Residues, NEW e \in Nat
  PROVE  PowP(x, e) \in Residues
<1>1. PowP(x, e) \in ElementModP
  BY ResidueType, PowPType
<1>2. PowP(PowP(x, e), Q) = PowP(PowP(x, Q), e)
  <2>1. Q \in Nat /\ e * Q = Q * e
    BY Parameters
  <2>2. x \in Int
    BY ResidueType
  <2>3. PowP(PowP(x, e), Q) = PowP(x, e * Q) /\ PowP(PowP(x, Q), e) = PowP(x, Q * e)
    BY <2>1, <2>2, PowPTimes
  <2>4. QED
    BY <2>1, <2>3
<1>3. PowP(PowP(x, Q), e) = 1
  BY ResidueType, PowPOfOne
<1>4. QED
  BY <1>1, <1>2, <1>3 DEF Residues

\* Exponents that are multiples of Q make no difference,
LEMMA PowMultiple ==
  ASSUME NEW x \in Residues, NEW k \in Nat
  PROVE  PowP(x, Q * k) = 1
<1>1. Q \in Nat /\ x \in Int
  BY Parameters, ResidueType
<1>2. PowP(PowP(x, Q), k) = PowP(x, Q * k)
  BY <1>1, PowPTimes
<1>3. QED
  BY <1>2, ResidueType, PowPOfOne

LEMMA NaturalQuotient ==
  ASSUME NEW m \in Nat \ {0}, NEW x \in Nat
  PROVE  x \div m \in Nat
<1> DEFINE q == x \div m
<1>1. x % m \in 0 .. m - 1 /\ q \in Int /\ x = m * q + (x % m)
  BY Divided
<1> HIDE DEF q
<1>2. ~(q <= -1)
  <2>1. SUFFICES ASSUME q <= -1 PROVE FALSE
    OBVIOUS
  <2>2. -q \in Int /\ -q >= 1
    BY <1>1, <2>1
  <2>3. m * (-q) >= m
    BY <2>2, TimesAtLeast, Zenon
  <2>4. m * (-q) = -(m * q)
    BY <1>1
  <2>5. QED
    BY <1>1, <2>3, <2>4
<1>3. QED
  BY <1>1, <1>2 DEF q

\* so exponents may be reduced mod Q.
LEMMA PowReduced ==
  ASSUME NEW x \in Residues, NEW e \in Nat
  PROVE  PowP(x, e % Q) = PowP(x, e)
<1> DEFINE q == e \div Q
           r == e % Q
<1>1. q \in Nat /\ r \in Nat /\ e = Q * q + r
  BY Parameters, Divided, NaturalQuotient
<1> HIDE DEF q, r
<1>2. Q * q \in Nat /\ x \in Int
  BY <1>1, Parameters, ResidueType
<1>3. PowP(x, Q * q + r) = MulP(PowP(x, Q * q), PowP(x, r))
  BY <1>1, <1>2, PowPAdd, Zenon
<1>4. PowP(x, Q * q) = 1
  BY <1>1, PowMultiple
<1>5. MulP(1, PowP(x, r)) = PowP(x, r)
  BY <1>1, <1>2, PowPType, MulOne
<1>6. QED
  BY <1>1, <1>3, <1>4, <1>5 DEF r

\* What the validations compute on both sides: x to a response u + c * s.
LEMMA PowResponse ==
  ASSUME NEW x \in Residues, NEW u \in Nat, NEW c \in Nat, NEW s \in Nat
  PROVE  PowP(x, APlusBCQ(u, c, s)) = MulP(PowP(x, u), PowP(PowP(x, s), c))
<1>1. c * s \in Nat /\ u + c * s \in Nat /\ s * c = c * s /\ x \in Int
  BY ResidueType
<1>2. PowP(x, APlusBCQ(u, c, s)) = PowP(x, u + c * s)
  BY <1>1, PowReduced DEF APlusBCQ
<1>3. PowP(x, u + c * s) = MulP(PowP(x, u), PowP(x, c * s))
  BY <1>1, PowPAdd, Zenon
<1>4. PowP(PowP(x, s), c) = PowP(x, s * c)
  BY <1>1, PowPTimes, Zenon
<1>5. QED
  BY <1>1, <1>2, <1>3, <1>4

\* Two powers of one residue whose exponents agree mod Q.
LEMMA PowSwap ==
  ASSUME NEW x \in Residues, NEW d \in Nat, NEW e \in Nat
  PROVE  PowP(PowP(x, d), e) = PowP(PowP(x, e), d)
<1>1. d * e = e * d /\ x \in Int
  BY ResidueType
<1>2. PowP(PowP(x, d), e) = PowP(x, d * e) /\ PowP(PowP(x, e), d) = PowP(x, e * d)
  BY <1>1, PowPTimes, Zenon
<1>3. QED
  BY <1>1, <1>2

LEMMA GPowResidue ==
  ASSUME NEW e \in Nat
  PROVE  GPowP(e) \in Residues
BY GeneratorIsResidue, PowResidue DEF GPowP

\* A power of a residue has an inverse.
LEMMA InversePower ==
  ASSUME NEW x \in Residues
  PROVE  PowP(x, Q - 1) \in Residues /\ MulP(PowP(x, Q - 1), x) = 1
<1>1. Q - 1 \in Nat /\ (Q - 1) + 1 = Q /\ 1 \in Nat
  BY Parameters
<1>2. PowP(x, (Q - 1) + 1) = MulP(PowP(x, Q - 1), PowP(x, 1))
  BY <1>1, ResidueType, PowPAdd, Zenon
<1>3. QED
  BY <1>1, <1>2, ResidueType, PowPOne, PowResidue

\* Residues have inverses, so factors cancel.
LEMMA Cancel ==
  ASSUME NEW x \in Residues, NEW y \in ElementModP, NEW z \in ElementModP,
         MulP(x, y) = MulP(x, z)
  PROVE  y = z
<1> DEFINE w == PowP(x, Q - 1)
<1>1. w \in Int /\ x \in Int /\ y \in Int /\ z \in Int /\ MulP(w, x) = 1
  BY InversePower, ResidueType, Elements
<1> HIDE DEF w
<1>2. MulP(w, MulP(x, y)) = MulP(MulP(w, x), y) /\ MulP(w, MulP(x, z)) = MulP(MulP(w, x), z)
  BY <1>1, MulAssociates
<1>3. QED
  BY <1>1, <1>2, MulOne

-----------------------------------------------------------------------------
(* The order of the subgroup is a prime, so exponents are unique mod Q. *)

\* Only one has an order below Q,
LEMMA OrderIsPrime ==
  ASSUME NEW x \in Residues, NEW d \in 1 .. Q - 1, PowP(x, d) = 1
  PROVE  x = 1
<1>1. PICK e \in ElementModQ : (d * e) % Q = 1
  BY PrimeAssumption
<1>2. d \in Nat /\ e \in Nat /\ x \in Int /\ d * e \in Nat
  BY Elements, ResidueType, Parameters
<1>3. PowP(PowP(x, d), e) = PowP(x, d * e)
  BY <1>2, PowPTimes
<1>4. PowP(x, 1) = PowP(x, d * e)
  BY <1>1, <1>2, PowReduced
<1>5. QED
  BY <1>2, <1>3, <1>4, PowPOfOne, PowPOne, ResidueType

\* so different exponents below Q
LEMMA LargerExponent ==
  ASSUME NEW x \in Residues, NEW a \in ElementModQ, NEW b \in ElementModQ, a < b,
         PowP(x, a) = PowP(x, b)
  PROVE  x = 1
<1> DEFINE d == b - a
<1>1. a \in Nat /\ d \in 1 .. Q - 1 /\ d \in Nat /\ a + d = b /\ x \in Int
  BY ResidueType, Parameters DEF ElementModQ
<1> HIDE DEF d
<1>2. PowP(x, a + d) = MulP(PowP(x, a), PowP(x, d))
  BY <1>1, PowPAdd, Zenon
<1>3. PowP(x, a) \in Residues /\ PowP(x, d) \in ElementModP /\ 1 \in ElementModP
  <2>1. PowP(x, a) \in Residues
    BY <1>1, PowResidue
  <2>2. PowP(x, d) \in ElementModP
    BY <1>1, PowPType
  <2>3. 1 \in ElementModP
    BY Parameters DEF ElementModP
  <2>4. QED
    BY <2>1, <2>2, <2>3
<1>4. MulP(PowP(x, a), PowP(x, d)) = MulP(PowP(x, a), 1)
  BY <1>1, <1>2, <1>3, ResidueType, MulOne
<1>5. PowP(x, d) = 1
  BY <1>3, <1>4, Cancel
<1>6. QED
  BY <1>1, <1>5, OrderIsPrime

\* give different powers of a residue that is not one,
LEMMA ExponentIsUnique ==
  ASSUME NEW x \in Residues, x # 1, NEW a \in ElementModQ, NEW b \in ElementModQ,
         PowP(x, a) = PowP(x, b)
  PROVE  a = b
<1>1. ~(a < b) /\ ~(b < a)
  BY LargerExponent
<1>2. QED
  BY <1>1, Parameters DEF ElementModQ

\* and of the generator.
LEMMA GeneratorExponent ==
  ASSUME NEW a \in ElementModQ, NEW b \in ElementModQ, GPowP(a) = GPowP(b)
  PROVE  a = b
BY GeneratorIsResidue, Parameters, ExponentIsUnique DEF GPowP

-----------------------------------------------------------------------------
(* The integers mod Q are a field. *)

\* What the arithmetic on challenges returns.
LEMMA ChallengeTypes ==
  ASSUME NEW a \in ElementModQ, NEW b \in ElementModQ
  PROVE  /\ AMinusBQ(a, b) \in ElementModQ
         /\ PlusQ(a, b) \in ElementModQ
         /\ PlusQ(AMinusBQ(a, b), b) = a
         /\ b # 0 => NegateQ(b) \in ElementModQ /\ PlusQ(NegateQ(b), PlusQ(a, b)) = a
<1>1. a \in Int /\ b \in Int /\ a - b \in Int /\ a + b \in Int
  BY Elements
<1>2. AMinusBQ(a, b) \in ElementModQ /\ PlusQ(a, b) \in ElementModQ
  BY <1>1, Parameters, Divided DEF AMinusBQ, PlusQ, ElementModQ
<1>3. PlusQ(AMinusBQ(a, b), b) = a
  <2> DEFINE d == a - b
  <2>1. (b + (d % Q)) % Q = (b + d) % Q
    BY <1>1, Parameters, ModPlus, Zenon
  <2>2. b + d = a /\ b + (d % Q) = (d % Q) + b
    <3>1. d % Q \in Int
      BY <1>1, Parameters, Divided
    <3>2. QED
      BY <1>1, <3>1
  <2>3. a % Q = a
    BY Parameters, Small DEF ElementModQ
  <2>4. QED
    BY <2>1, <2>2, <2>3 DEF PlusQ, AMinusBQ
<1>4. ASSUME b # 0 PROVE NegateQ(b) \in ElementModQ /\ PlusQ(NegateQ(b), PlusQ(a, b)) = a
  <2> DEFINE s == a + b
             c == Q - b
  <2>1. c \in ElementModQ /\ c \in Int
    BY <1>4, Parameters DEF ElementModQ
  <2>2. (c + (s % Q)) % Q = (c + s) % Q
    BY <1>1, <2>1, Parameters, ModPlus, Zenon
  <2>3. c + s = a + Q * 1
    BY <1>1, Parameters
  <2>4. (a + Q * 1) % Q = a % Q
    <3>1. 1 \in Int
      OBVIOUS
    <3>2. QED
      BY <1>1, <3>1, Parameters, ModMultiple, Zenon
  <2>5. a % Q = a
    BY Parameters, Small DEF ElementModQ
  <2>6. QED
    BY <2>1, <2>2, <2>3, <2>4, <2>5 DEF PlusQ, NegateQ
<1>5. QED
  BY <1>2, <1>3, <1>4

LEMMA PowQType ==
  ASSUME NEW x \in Int, NEW e \in Nat
  PROVE  PowQ(x, e) \in ElementModQ
BY PowType, Parameters DEF PowQ, ElementModQ

\* The product that mult_q computes.
TimesQ(a, b) == (a * b) % Q

LEMMA TimesType ==
  ASSUME NEW a \in Int, NEW b \in Int
  PROVE  TimesQ(a, b) \in ElementModQ
<1>1. a * b \in Int
  OBVIOUS
<1>2. QED
  BY <1>1, Parameters, Divided DEF TimesQ, ElementModQ

LEMMA TimesCommutes ==
  ASSUME NEW a \in Int, NEW b \in Int
  PROVE  TimesQ(a, b) = TimesQ(b, a)
<1>1. a * b = b * a
  OBVIOUS
<1>2. QED
  BY <1>1 DEF TimesQ

LEMMA TimesAssociates ==
  ASSUME NEW x \in Int, NEW y \in Int, NEW z \in Int
  PROVE  TimesQ(x, TimesQ(y, z)) = TimesQ(TimesQ(x, y), z)
<1>1. x * y \in Int /\ y * z \in Int
  OBVIOUS
<1>2. (x * ((y * z) % Q)) % Q = (x * (y * z)) % Q
  BY <1>1, Parameters, ModTimes, Zenon
<1>3. (z * ((x * y) % Q)) % Q = (z * (x * y)) % Q
  BY <1>1, Parameters, ModTimes, Zenon
<1>4. z * ((x * y) % Q) = ((x * y) % Q) * z
  <2>1. (x * y) % Q \in Int
    BY <1>1, Parameters, Divided
  <2>2. QED
    BY <2>1
<1>5. z * (x * y) = x * (y * z)
  OBVIOUS
<1>6. QED
  BY <1>2, <1>3, <1>4, <1>5 DEF TimesQ

LEMMA PlusType ==
  ASSUME NEW a \in Int, NEW b \in Int
  PROVE  PlusQ(a, b) \in ElementModQ /\ PlusQ(a, b) = PlusQ(b, a)
<1>1. a + b \in Int /\ a + b = b + a
  OBVIOUS
<1>2. QED
  BY <1>1, Parameters, Divided DEF PlusQ, ElementModQ

LEMMA PlusAssociates ==
  ASSUME NEW x \in Int, NEW y \in Int, NEW z \in Int
  PROVE  PlusQ(x, PlusQ(y, z)) = PlusQ(PlusQ(x, y), z)
<1>1. x + y \in Int /\ y + z \in Int
  OBVIOUS
<1>2. (x + ((y + z) % Q)) % Q = (x + (y + z)) % Q
  BY <1>1, Parameters, ModPlus, Zenon
<1>3. (z + ((x + y) % Q)) % Q = (z + (x + y)) % Q
  BY <1>1, Parameters, ModPlus, Zenon
<1>4. z + ((x + y) % Q) = ((x + y) % Q) + z
  <2>1. (x + y) % Q \in Int
    BY <1>1, Parameters, Divided
  <2>2. QED
    BY <2>1
<1>5. z + (x + y) = x + (y + z)
  OBVIOUS
<1>6. QED
  BY <1>2, <1>3, <1>4, <1>5 DEF PlusQ

LEMMA TimesDistributes ==
  ASSUME NEW x \in Int, NEW y \in Int, NEW z \in Int
  PROVE  TimesQ(x, PlusQ(y, z)) = PlusQ(TimesQ(x, y), TimesQ(x, z))
<1> DEFINE u == x * y
           v == x * z
<1>1. u \in Int /\ v \in Int /\ y + z \in Int /\ x * (y + z) = u + v
  OBVIOUS
<1> HIDE DEF u, v
<1>2. (x * ((y + z) % Q)) % Q = (u + v) % Q
  <2>1. (x * ((y + z) % Q)) % Q = (x * (y + z)) % Q
    BY <1>1, Parameters, ModTimes, Zenon
  <2>2. QED
    BY <1>1, <2>1
<1>3. ((u % Q) + (v % Q)) % Q = (u + v) % Q
  <2>1. u % Q \in Int
    BY <1>1, Parameters, Divided
  <2>2. ((u % Q) + (v % Q)) % Q = ((u % Q) + v) % Q
    BY <1>1, <2>1, Parameters, ModPlus, Zenon
  <2>3. (v + (u % Q)) % Q = (v + u) % Q
    BY <1>1, Parameters, ModPlus, Zenon
  <2>4. (u % Q) + v = v + (u % Q) /\ u + v = v + u
    BY <1>1, <2>1
  <2>5. QED
    BY <2>2, <2>3, <2>4
<1>4. QED
  BY <1>2, <1>3 DEF TimesQ, PlusQ, u, v

LEMMA UnitsQ ==
  ASSUME NEW a \in ElementModQ
  PROVE  /\ PlusQ(0, a) = a /\ PlusQ(a, 0) = a
         /\ TimesQ(1, a) = a /\ TimesQ(a, 1) = a
         /\ TimesQ(0, a) = 0 /\ TimesQ(a, 0) = 0
<1>1. a \in Int
  BY Elements
<1>2. 0 + a = a /\ a + 0 = a /\ 1 * a = a /\ a * 1 = a /\ 0 * a = 0 /\ a * 0 = 0
  BY <1>1
<1>3. a % Q = a /\ 0 % Q = 0
  <2>1. a \in 0 .. Q - 1 /\ 0 \in 0 .. Q - 1
    BY Parameters DEF ElementModQ
  <2>2. QED
    BY <2>1, Parameters, Small
<1>4. QED
  BY <1>2, <1>3 DEF PlusQ, TimesQ

\* The laws of a ring, once for every use.
LEMMA RingQ ==
  /\ 0 \in ElementModQ /\ 1 \in ElementModQ /\ 0 # 1
  /\ \A x, y \in ElementModQ :
       /\ PlusQ(x, y) \in ElementModQ /\ PlusQ(x, y) = PlusQ(y, x)
       /\ TimesQ(x, y) \in ElementModQ /\ TimesQ(x, y) = TimesQ(y, x)
  /\ \A x, y, z \in ElementModQ :
       /\ PlusQ(x, PlusQ(y, z)) = PlusQ(PlusQ(x, y), z)
       /\ TimesQ(x, TimesQ(y, z)) = TimesQ(TimesQ(x, y), z)
       /\ TimesQ(x, PlusQ(y, z)) = PlusQ(TimesQ(x, y), TimesQ(x, z))
<1>1. \A x \in ElementModQ : x \in Int
  BY Elements
<1>2. 0 \in ElementModQ /\ 1 \in ElementModQ /\ 0 # 1
  BY Parameters DEF ElementModQ
<1>3. ASSUME NEW x \in ElementModQ, NEW y \in ElementModQ
      PROVE  /\ PlusQ(x, y) \in ElementModQ /\ PlusQ(x, y) = PlusQ(y, x)
             /\ TimesQ(x, y) \in ElementModQ /\ TimesQ(x, y) = TimesQ(y, x)
  BY <1>1, PlusType, TimesType, TimesCommutes
<1>4. ASSUME NEW x \in ElementModQ, NEW y \in ElementModQ, NEW z \in ElementModQ
      PROVE  /\ PlusQ(x, PlusQ(y, z)) = PlusQ(PlusQ(x, y), z)
             /\ TimesQ(x, TimesQ(y, z)) = TimesQ(TimesQ(x, y), z)
             /\ TimesQ(x, PlusQ(y, z)) = PlusQ(TimesQ(x, y), TimesQ(x, z))
  <2>1. x \in Int /\ y \in Int /\ z \in Int
    BY <1>1
  <2>2. QED
    <3>1. PlusQ(x, PlusQ(y, z)) = PlusQ(PlusQ(x, y), z)
      BY <2>1, PlusAssociates
    <3>2. TimesQ(x, TimesQ(y, z)) = TimesQ(TimesQ(x, y), z)
      BY <2>1, TimesAssociates
    <3>3. TimesQ(x, PlusQ(y, z)) = PlusQ(TimesQ(x, y), TimesQ(x, z))
      BY <2>1, TimesDistributes
    <3>4. QED
      BY <3>1, <3>2, <3>3
<1>5. QED
  BY <1>2, <1>3, <1>4

LEMMA PlusCancels ==
  ASSUME NEW x \in ElementModQ, NEW y \in ElementModQ, NEW z \in ElementModQ,
         PlusQ(x, y) = PlusQ(x, z)
  PROVE  y = z
<1> DEFINE n == AMinusBQ(0, x)
<1>1. n \in ElementModQ /\ PlusQ(n, x) = 0
  BY RingQ, ChallengeTypes
<1> HIDE DEF n
<1>2. PlusQ(n, PlusQ(x, y)) = PlusQ(0, y) /\ PlusQ(n, PlusQ(x, z)) = PlusQ(0, z)
  BY <1>1, RingQ
<1>3. QED
  BY <1>2, UnitsQ

LEMMA InverseOf ==
  ASSUME NEW x \in ElementModQ \ {0}
  PROVE  InverseQ(x) \in ElementModQ /\ TimesQ(x, InverseQ(x)) = 1
<1>1. x \in 1 .. Q - 1
  BY Parameters DEF ElementModQ
<1>2. \E b \in ElementModQ : (x * b) % Q = 1
  BY <1>1, PrimeAssumption
<1>3. QED
  BY <1>2 DEF InverseQ, TimesQ

LEMMA TimesCancels ==
  ASSUME NEW x \in ElementModQ \ {0}, NEW y \in ElementModQ, NEW z \in ElementModQ,
         TimesQ(x, y) = TimesQ(x, z)
  PROVE  y = z
<1> DEFINE w == InverseQ(x)
<1>1. w \in ElementModQ /\ TimesQ(w, x) = 1
  BY RingQ, InverseOf
<1> HIDE DEF w
<1>2. TimesQ(w, TimesQ(x, y)) = TimesQ(1, y) /\ TimesQ(w, TimesQ(x, z)) = TimesQ(1, z)
  BY <1>1, RingQ
<1>3. QED
  BY <1>2, UnitsQ

\* Q is a prime: a product is zero only if a factor is.
LEMMA NonzeroProduct ==
  ASSUME NEW x \in ElementModQ \ {0}, NEW y \in ElementModQ \ {0}
  PROVE  TimesQ(x, y) \in ElementModQ \ {0}
<1>1. TimesQ(x, y) \in ElementModQ
  BY RingQ
<1>2. TimesQ(x, y) # TimesQ(x, 0)
  BY RingQ, TimesCancels
<1>3. QED
  BY <1>1, <1>2, UnitsQ

LEMMA DifferenceQ ==
  ASSUME NEW x \in ElementModQ, NEW y \in ElementModQ
  PROVE  /\ AMinusBQ(x, y) \in ElementModQ
         /\ PlusQ(AMinusBQ(x, y), y) = x
         /\ x # y => AMinusBQ(x, y) # 0
BY ChallengeTypes, UnitsQ

\* Terms of a sum of four change places.
LEMMA PlusPairs ==
  ASSUME NEW a \in ElementModQ, NEW b \in ElementModQ, NEW c \in ElementModQ, NEW d \in ElementModQ
  PROVE  PlusQ(PlusQ(a, b), PlusQ(c, d)) = PlusQ(PlusQ(a, c), PlusQ(b, d))
<1>1. /\ PlusQ(b, PlusQ(c, d)) = PlusQ(PlusQ(b, c), d)
      /\ PlusQ(c, PlusQ(b, d)) = PlusQ(PlusQ(c, b), d)
      /\ PlusQ(b, c) = PlusQ(c, b)
      /\ PlusQ(b, d) \in ElementModQ /\ PlusQ(c, d) \in ElementModQ
  BY RingQ
<1>2. /\ PlusQ(PlusQ(a, b), PlusQ(c, d)) = PlusQ(a, PlusQ(b, PlusQ(c, d)))
      /\ PlusQ(PlusQ(a, c), PlusQ(b, d)) = PlusQ(a, PlusQ(c, PlusQ(b, d)))
  BY <1>1, RingQ
<1>3. QED
  BY <1>1, <1>2

-----------------------------------------------------------------------------
(* Folds over a finite set: the order in which they take out its elements  *)
(* does not matter when operands may change places.                        *)

\* it is the fold of the function f by op, over every subset of S.
IsOver(it, f, S, base, op) ==
  it = [s \in SUBSET S |->
          IF s = {} THEN base ELSE op[<<f[Picked(s)], it[s \ {Picked(s)}]>>]]

\* op may take its operands in any order.
IsCommutative(op, T) ==
  /\ op \in [T \X T -> T]
  /\ \A x, y \in T : op[<<x, y>>] = op[<<y, x>>]
  /\ \A x, y, z \in T : op[<<x, op[<<y, z>>]>>] = op[<<op[<<x, y>>], z>>]

LEMMA FoldType ==
  ASSUME NEW S, IsFiniteSet(S), NEW T, NEW base \in T, NEW op, IsCommutative(op, T),
         NEW f \in [S -> T], NEW it, IsOver(it, f, S, base, op)
  PROVE  \A s \in SUBSET S : it[s] \in T
<1> DEFINE Good == {s \in SUBSET S : it[s] \in T}
<1>1. {} \in Good
  BY DEF IsOver
<1>2. ASSUME NEW s \in SUBSET S, s # {}, s \ {Picked(s)} \in Good PROVE s \in Good
  <2>1. f[Picked(s)] \in T /\ it[s \ {Picked(s)}] \in T
    BY <1>2, PickedIsIn
  <2>2. it[s] = op[<<f[Picked(s)], it[s \ {Picked(s)}]>>]
    BY <1>2 DEF IsOver
  <2>3. QED
    BY <2>1, <2>2 DEF IsCommutative
<1>3. Good \in SUBSET (SUBSET S)
  OBVIOUS
<1> HIDE DEF Good
<1>4. \A s \in SUBSET S : s \in Good
  BY <1>1, <1>2, <1>3, PickedInduction
<1>5. QED
  BY <1>4 DEF Good

\* The fold of f by op, which may begin with any element.
AnyFirst(it, f, S, op) == \A s \in SUBSET S : \A a \in s : it[s] = op[<<f[a], it[s \ {a}]>>]

\* Any element may be taken out first.
LEMMA TakenOut ==
  ASSUME NEW S, IsFiniteSet(S), NEW T, NEW base \in T, NEW op, IsCommutative(op, T),
         NEW f \in [S -> T], NEW it, IsOver(it, f, S, base, op)
  PROVE  AnyFirst(it, f, S, op)
<1> DEFINE Good == {s \in SUBSET S : \A a \in s : it[s] = op[<<f[a], it[s \ {a}]>>]}
<1>1. {} \in Good
  OBVIOUS
<1>2. ASSUME NEW s \in SUBSET S, s # {}, \A a \in s : s \ {a} \in Good PROVE s \in Good
  <2> DEFINE p == Picked(s)
  <2>1. p \in s /\ it[s] = op[<<f[p], it[s \ {p}]>>]
    BY <1>2, PickedIsIn DEF IsOver
  <2> HIDE DEF p
  <2>2. ASSUME NEW a \in s, a # p PROVE it[s] = op[<<f[a], it[s \ {a}]>>]
    <3> DEFINE r == s \ {a, p}
    <3>1. (s \ {p}) \ {a} = r /\ (s \ {a}) \ {p} = r /\ r \in SUBSET S
      OBVIOUS
    <3>2. it[s \ {p}] = op[<<f[a], it[r]>>]
      BY <1>2, <2>1, <2>2, <3>1
    <3>3. it[s \ {a}] = op[<<f[p], it[r]>>]
      BY <1>2, <2>1, <2>2, <3>1
    <3>4. f[a] \in T /\ f[p] \in T /\ it[r] \in T
      BY <2>1, <3>1, FoldType
    <3> HIDE DEF r
    <3>5. op[<<f[p], op[<<f[a], it[r]>>]>>] = op[<<op[<<f[p], f[a]>>], it[r]>>]
      BY <3>4 DEF IsCommutative
    <3>6. op[<<f[a], op[<<f[p], it[r]>>]>>] = op[<<op[<<f[a], f[p]>>], it[r]>>]
      BY <3>4 DEF IsCommutative
    <3>7. op[<<f[a], f[p]>>] = op[<<f[p], f[a]>>]
      BY <3>4 DEF IsCommutative
    <3>8. QED
      BY <2>1, <3>2, <3>3, <3>5, <3>6, <3>7
  <2>3. QED
    BY <2>1, <2>2
<1>3. Good \in SUBSET (SUBSET S)
  OBVIOUS
<1> HIDE DEF Good
<1>4. \A s \in SUBSET S : s \in Good
  BY <1>1, <1>2, <1>3, SetInduction
<1>5. QED
  BY <1>4 DEF Good, AnyFirst

\* The fold over a subset does not depend on the rest.
LEMMA FoldOfPart ==
  ASSUME NEW S, IsFiniteSet(S), NEW r \in SUBSET S, NEW base, NEW op,
         NEW f, NEW g, \A x \in r : f[x] = g[x],
         NEW it, IsOver(it, f, S, base, op), NEW part, IsOver(part, g, r, base, op)
  PROVE  it[r] = part[r]
<1> DEFINE Good == {s \in SUBSET r : it[s] = part[s]}
<1>1. IsFiniteSet(r)
  BY FS_Subset
<1>2. {} \in Good
  BY DEF IsOver
<1>3. ASSUME NEW s \in SUBSET r, s # {}, s \ {Picked(s)} \in Good PROVE s \in Good
  <2>1. f[Picked(s)] = g[Picked(s)] /\ it[s \ {Picked(s)}] = part[s \ {Picked(s)}]
    BY <1>3, PickedIsIn
  <2>2. it[s] = op[<<f[Picked(s)], it[s \ {Picked(s)}]>>]
    BY <1>3 DEF IsOver
  <2>3. part[s] = op[<<g[Picked(s)], part[s \ {Picked(s)}]>>]
    BY <1>3 DEF IsOver
  <2>4. QED
    BY <2>1, <2>2, <2>3
<1>4. Good \in SUBSET (SUBSET r)
  OBVIOUS
<1> HIDE DEF Good
<1>5. \A s \in SUBSET r : s \in Good
  BY <1>1, <1>2, <1>3, <1>4, PickedInduction
<1>6. QED
  BY <1>5 DEF Good

-----------------------------------------------------------------------------
(* Sums and products: add_q and mult_p, *)

\* The folds of add_q and mult_p.
AddedUp(f) ==
  CHOOSE it : it = [s \in SUBSET DOMAIN f |->
                      IF s = {} THEN 0 ELSE (f[Picked(s)] + it[s \ {Picked(s)}]) % Q]

Multiplied(f) ==
  CHOOSE it : it = [s \in SUBSET DOMAIN f |->
                      IF s = {} THEN 1 ELSE (f[Picked(s)] * it[s \ {Picked(s)}]) % P]

IsSum(it, f, S) ==
  it = [s \in SUBSET S |->
          IF s = {} THEN 0 ELSE (f[Picked(s)] + it[s \ {Picked(s)}]) % Q]

IsProduct(it, f, S) ==
  it = [s \in SUBSET S |->
          IF s = {} THEN 1 ELSE (f[Picked(s)] * it[s \ {Picked(s)}]) % P]

\* AddQ is the sum so defined,
LEMMA AddQIsFold ==
  ASSUME NEW S, IsFiniteSet(S), NEW f \in [S -> Int]
  PROVE  AddQ(f) = AddedUp(f)[S] /\ IsSum(AddedUp(f), f, S)
<1> DEFINE h == [p \in S \X Int |-> (f[p[1]] + p[2]) % Q]
<1>1. h \in [S \X Int -> Int]
  <2>1. ASSUME NEW x \in S, NEW y \in Int PROVE (f[x] + y) % Q \in Int
    <3>1. f[x] + y \in Int
      OBVIOUS
    <3>2. QED
      BY <3>1, Parameters, Divided
  <2>2. QED
    BY <2>1
<1>2. PICK it \in [SUBSET S -> Int] : IsPickedFold(it, S, 0, h)
  <2>1. 0 \in Int
    OBVIOUS
  <2> HIDE DEF h
  <2>2. QED
    BY <1>1, <2>1, PickedFoldsExist
<1>3. ASSUME NEW s \in SUBSET S, s # {}
      PROVE  h[<<Picked(s), it[s \ {Picked(s)}]>>] = (f[Picked(s)] + it[s \ {Picked(s)}]) % Q
  BY <1>3, PickedIsIn
<1> HIDE DEF h
<1>4. it = [s \in SUBSET S |->
              IF s = {} THEN 0 ELSE (f[Picked(s)] + it[s \ {Picked(s)}]) % Q]
  BY <1>2, <1>3 DEF IsPickedFold
<1>5. DOMAIN f = S
  OBVIOUS
<1>6. AddedUp(f) = [s \in SUBSET S |->
                      IF s = {} THEN 0
                      ELSE (f[Picked(s)] + AddedUp(f)[s \ {Picked(s)}]) % Q]
  BY <1>4, <1>5 DEF AddedUp
<1>7. AddQ(f) = AddedUp(f)[S]
  BY <1>5 DEF AddQ, FoldFunction, FoldFunctionOnSet, MapThenFoldSet, AddedUp, Picked
<1>8. QED
  BY <1>6, <1>7 DEF IsSum

\* and MultP the product.
LEMMA MultPIsFold ==
  ASSUME NEW S, IsFiniteSet(S), NEW f \in [S -> Int]
  PROVE  MultP(f) = Multiplied(f)[S] /\ IsProduct(Multiplied(f), f, S)
<1> DEFINE h == [p \in S \X Int |-> (f[p[1]] * p[2]) % P]
<1>1. h \in [S \X Int -> Int]
  <2>1. ASSUME NEW x \in S, NEW y \in Int PROVE (f[x] * y) % P \in Int
    <3>1. f[x] * y \in Int
      OBVIOUS
    <3>2. QED
      BY <3>1, Parameters, Divided
  <2>2. QED
    BY <2>1
<1>2. PICK it \in [SUBSET S -> Int] : IsPickedFold(it, S, 1, h)
  <2>1. 1 \in Int
    OBVIOUS
  <2> HIDE DEF h
  <2>2. QED
    BY <1>1, <2>1, PickedFoldsExist
<1>3. ASSUME NEW s \in SUBSET S, s # {}
      PROVE  h[<<Picked(s), it[s \ {Picked(s)}]>>] = (f[Picked(s)] * it[s \ {Picked(s)}]) % P
  BY <1>3, PickedIsIn
<1> HIDE DEF h
<1>4. it = [s \in SUBSET S |->
              IF s = {} THEN 1 ELSE (f[Picked(s)] * it[s \ {Picked(s)}]) % P]
  BY <1>2, <1>3 DEF IsPickedFold
<1>5. DOMAIN f = S
  OBVIOUS
<1>6. Multiplied(f) = [s \in SUBSET S |->
                         IF s = {} THEN 1
                         ELSE (f[Picked(s)] * Multiplied(f)[s \ {Picked(s)}]) % P]
  BY <1>4, <1>5 DEF Multiplied
<1>7. MultP(f) = Multiplied(f)[S]
  BY <1>5 DEF MultP, FoldFunction, FoldFunctionOnSet, MapThenFoldSet, Multiplied, Picked
<1>8. QED
  BY <1>6, <1>7 DEF IsProduct

\* Sums are elements.
LEMMA SumType ==
  ASSUME NEW S, IsFiniteSet(S), NEW f \in [S -> Int]
  PROVE  \A s \in SUBSET S : AddedUp(f)[s] \in ElementModQ
<1> DEFINE a == AddedUp(f)
<1>1. a = [s \in SUBSET S |->
             IF s = {} THEN 0 ELSE (f[Picked(s)] + a[s \ {Picked(s)}]) % Q]
  <2>1. IsSum(a, f, S)
    BY AddQIsFold, Zenon
  <2>2. QED
    BY <2>1, Zenon DEF IsSum
<1> HIDE DEF a
<1> DEFINE Good == {s \in SUBSET S : a[s] \in ElementModQ}
<1>2. {} \in Good
  BY <1>1, Parameters DEF ElementModQ
<1>3. ASSUME NEW s \in SUBSET S, s # {}, s \ {Picked(s)} \in Good
      PROVE  s \in Good
  <2>1. f[Picked(s)] \in Int /\ a[s \ {Picked(s)}] \in Int
    BY <1>3, PickedIsIn, Elements
  <2>2. f[Picked(s)] + a[s \ {Picked(s)}] \in Int
    BY <2>1
  <2>3. (f[Picked(s)] + a[s \ {Picked(s)}]) % Q \in ElementModQ
    BY <2>2, Parameters, Divided DEF ElementModQ
  <2>4. QED
    BY <1>1, <1>3, <2>3
<1>4. Good \in SUBSET (SUBSET S)
  OBVIOUS
<1> HIDE DEF Good
<1>5. \A s \in SUBSET S : s \in Good
  BY <1>2, <1>3, <1>4, PickedInduction
<1>6. QED
  BY <1>5 DEF Good, a

LEMMA AddQType ==
  ASSUME NEW S, IsFiniteSet(S), NEW f \in [S -> Int]
  PROVE  AddQ(f) \in ElementModQ
<1>1. AddQ(f) = AddedUp(f)[S] /\ S \in SUBSET S
  BY AddQIsFold, Zenon
<1>2. AddedUp(f)[S] \in ElementModQ
  BY <1>1, SumType, Zenon
<1>3. QED
  BY <1>1, <1>2

\* Powers of two residues: the products of powers are the powers of the sums.
LEMMA ProductOfPowers ==
  ASSUME NEW S, IsFiniteSet(S), NEW f \in [S -> Nat], NEW g \in [S -> Nat],
         NEW x \in Residues, NEW y \in Residues
  PROVE  MultP([i \in S |-> MulP(PowP(x, f[i]), PowP(y, g[i]))])
           = MulP(PowP(x, AddQ(f)), PowP(y, AddQ(g)))
<1> DEFINE m == [i \in S |-> MulP(PowP(x, f[i]), PowP(y, g[i]))]
           a == AddedUp(f)
           b == AddedUp(g)
           p == Multiplied(m)
           Good == {s \in SUBSET S : p[s] = MulP(PowP(x, a[s]), PowP(y, b[s]))}
<1>1. f \in [S -> Int] /\ g \in [S -> Int] /\ x \in Int /\ y \in Int
  BY ResidueType
<1>2. m \in [S -> Int]
  <2>1. ASSUME NEW i \in S PROVE MulP(PowP(x, f[i]), PowP(y, g[i])) \in Int
    BY <1>1, PowPType, MulType, Elements
  <2>2. QED
    BY <2>1
<1>3. /\ AddQ(f) = a[S] /\ IsSum(a, f, S)
      /\ \A s \in SUBSET S : a[s] \in ElementModQ
  BY <1>1, AddQIsFold, SumType, Zenon
<1>4. /\ AddQ(g) = b[S] /\ IsSum(b, g, S)
      /\ \A s \in SUBSET S : b[s] \in ElementModQ
  BY <1>1, AddQIsFold, SumType, Zenon
<1>5. MultP(m) = p[S] /\ IsProduct(p, m, S)
  <2> HIDE DEF m
  <2>1. QED
    BY <1>2, MultPIsFold, Zenon
<1>6. ASSUME NEW c \in S PROVE m[c] = MulP(PowP(x, f[c]), PowP(y, g[c]))
  OBVIOUS
<1> HIDE DEF m, a, b, p
<1>7. {} \in Good
  <2>1. p[{}] = 1 /\ a[{}] = 0 /\ b[{}] = 0
    BY <1>3, <1>4, <1>5 DEF IsSum, IsProduct
  <2>2. PowP(x, 0) = 1 /\ PowP(y, 0) = 1 /\ MulP(1, 1) = 1
    BY PowPZero, MulOne, Parameters DEF ElementModP
  <2>3. QED
    BY <2>1, <2>2
<1>8. ASSUME NEW s \in SUBSET S, s # {}, s \ {Picked(s)} \in Good
      PROVE  s \in Good
  <2> DEFINE c == Picked(s)
             r == s \ {Picked(s)}
  <2>1. c \in S /\ r \in SUBSET S /\ f[c] \in Nat /\ g[c] \in Nat
    BY <1>8, PickedIsIn
  <2>2. /\ a[s] = (f[c] + a[r]) % Q /\ b[s] = (g[c] + b[r]) % Q
        /\ p[s] = MulP(m[c], p[r])
    BY <1>3, <1>4, <1>5, <1>8 DEF MulP, IsSum, IsProduct
  <2>3. p[r] = MulP(PowP(x, a[r]), PowP(y, b[r]))
    BY <1>8
  <2>4. a[r] \in Nat /\ b[r] \in Nat
    BY <1>3, <1>4, <2>1, Elements
  <2> HIDE DEF c, r
  <2>5. /\ PowP(x, f[c]) \in Int /\ PowP(y, g[c]) \in Int
        /\ PowP(x, a[r]) \in Int /\ PowP(y, b[r]) \in Int
    BY <1>1, <2>1, <2>4, PowPType, Elements
  <2>6. p[s] = MulP(MulP(PowP(x, f[c]), PowP(x, a[r])), MulP(PowP(y, g[c]), PowP(y, b[r])))
    BY <1>6, <2>1, <2>2, <2>3, <2>5, MulPairs
  <2>7. f[c] + a[r] \in Nat /\ g[c] + b[r] \in Nat
    BY <2>1, <2>4
  <2>8. /\ MulP(PowP(x, f[c]), PowP(x, a[r])) = PowP(x, f[c] + a[r])
        /\ MulP(PowP(y, g[c]), PowP(y, b[r])) = PowP(y, g[c] + b[r])
    BY <1>1, <2>1, <2>4, PowPAdd, Zenon
  <2>9. PowP(x, f[c] + a[r]) = PowP(x, a[s]) /\ PowP(y, g[c] + b[r]) = PowP(y, b[s])
    BY <2>2, <2>7, PowReduced
  <2>10. p[s] = MulP(PowP(x, a[s]), PowP(y, b[s]))
    BY <2>6, <2>8, <2>9
  <2>11. QED
    BY <2>10
<1>9. Good \in SUBSET (SUBSET S)
  OBVIOUS
<1> HIDE DEF Good
<1>10. \A s \in SUBSET S : s \in Good
  BY <1>7, <1>8, <1>9, PickedInduction
<1>11. p[S] = MulP(PowP(x, a[S]), PowP(y, b[S]))
  BY <1>10 DEF Good
<1>12. QED
  BY <1>3, <1>4, <1>5, <1>11 DEF m

\* The product of powers of one residue is its power to the sum.
LEMMA ProductOfOnePower ==
  ASSUME NEW S, IsFiniteSet(S), NEW f \in [S -> Nat], NEW x \in Residues
  PROVE  MultP([i \in S |-> PowP(x, f[i])]) = PowP(x, AddQ(f))
<1>1. 1 \in Residues
  BY PowPOfOne, Parameters DEF Residues, ElementModP
<1>2. MultP([i \in S |-> MulP(PowP(x, f[i]), PowP(1, f[i]))])
        = MulP(PowP(x, AddQ(f)), PowP(1, AddQ(f)))
  BY <1>1, ProductOfPowers
<1>3. ASSUME NEW e \in Nat PROVE MulP(PowP(x, e), PowP(1, e)) = PowP(x, e)
  BY ResidueType, PowPType, PowPOfOne, MulOne
<1>4. AddQ(f) \in Nat
  <2>1. f \in [S -> Int]
    OBVIOUS
  <2>2. QED
    BY <2>1, AddQType, Elements
<1>5. [i \in S |-> MulP(PowP(x, f[i]), PowP(1, f[i]))] = [i \in S |-> PowP(x, f[i])]
  BY <1>3
<1>6. QED
  BY <1>2, <1>3, <1>4, <1>5

\* A sum of zeros and ones.
LEMMA SumIsAtMost ==
  ASSUME NEW S, IsFiniteSet(S), NEW f \in [S -> {0, 1}]
  PROVE  AddQ(f) <= Cardinality(S)
<1> DEFINE a == AddedUp(f)
           Good == {s \in SUBSET S : a[s] \in Nat /\ a[s] <= Cardinality(s)}
<1>1. f \in [S -> Int]
  OBVIOUS
<1>2. AddQ(f) = a[S] /\ IsSum(a, f, S) /\ \A s \in SUBSET S : a[s] \in ElementModQ
  BY <1>1, AddQIsFold, SumType, Zenon
<1> HIDE DEF a
<1>3. {} \in Good
  BY <1>2, FS_EmptySet DEF IsSum
<1>4. ASSUME NEW s \in SUBSET S, s # {}, s \ {Picked(s)} \in Good
      PROVE  s \in Good
  <2> DEFINE r == s \ {Picked(s)}
             n == f[Picked(s)]
  <2>1. n \in {0, 1}
    BY <1>4, PickedIsIn
  <2>2. a[s] = (n + a[r]) % Q
    BY <1>2, <1>4 DEF IsSum
  <2>3. a[r] \in ElementModQ /\ a[r] <= Cardinality(r)
    BY <1>2, <1>4
  <2>4. Cardinality(s) \in Nat /\ Cardinality(r) = Cardinality(s) - 1
    <3>1. IsFiniteSet(s) /\ Picked(s) \in s
      BY <1>4, FS_Subset, PickedIsIn
    <3>2. QED
      BY <3>1, FS_CardinalityType, FS_RemoveElement
  <2> HIDE DEF n, r
  <2>5. (n + a[r]) % Q <= n + a[r] /\ (n + a[r]) % Q \in Nat
    <3> DEFINE t == n + a[r]
    <3>1. t \in Nat /\ (t < Q \/ t = Q)
      BY <2>1, <2>3, Parameters DEF ElementModQ
    <3>2. CASE t < Q
      <4>1. t \in 0 .. Q - 1
        BY <3>1, <3>2, Parameters
      <4> HIDE DEF t
      <4>2. t % Q = t
        BY <4>1, Parameters, Small
      <4>3. QED
        BY <3>1, <4>2 DEF t
    <3>3. CASE t = Q
      <4> HIDE DEF t
      <4>1. t % Q \in 0 .. Q - 1
        BY <3>1, Parameters, Divided
      <4>2. QED
        BY <3>1, <3>3, <4>1, Parameters DEF t
    <3>4. QED
      BY <3>1, <3>2, <3>3
  <2>6. a[r] \in Nat
    BY <2>3, Elements
  <2>7. a[s] \in Nat /\ a[s] <= Cardinality(s)
    BY <2>1, <2>2, <2>3, <2>4, <2>5, <2>6
  <2>8. QED
    BY <2>7
<1>5. Good \in SUBSET (SUBSET S)
  OBVIOUS
<1> HIDE DEF Good
<1>6. \A s \in SUBSET S : s \in Good
  BY <1>3, <1>4, <1>5, PickedInduction
<1>7. QED
  BY <1>2, <1>6 DEF Good

-----------------------------------------------------------------------------
(* and mult_q; any term may be taken out first. *)

Addition == [p \in ElementModQ \X ElementModQ |-> PlusQ(p[1], p[2])]

Multiplication == [p \in ElementModQ \X ElementModQ |-> TimesQ(p[1], p[2])]

LEMMA OperationsCommute ==
  IsCommutative(Addition, ElementModQ) /\ IsCommutative(Multiplication, ElementModQ)
<1>1. \A x, y \in ElementModQ : Addition[<<x, y>>] = PlusQ(x, y) /\ PlusQ(x, y) \in ElementModQ
  BY RingQ DEF Addition
<1>2. \A x, y \in ElementModQ : Multiplication[<<x, y>>] = TimesQ(x, y) /\ TimesQ(x, y) \in ElementModQ
  BY RingQ DEF Multiplication
<1>3. Addition \in [ElementModQ \X ElementModQ -> ElementModQ]
  BY RingQ DEF Addition
<1>4. Multiplication \in [ElementModQ \X ElementModQ -> ElementModQ]
  BY RingQ DEF Multiplication
<1>5. IsCommutative(Addition, ElementModQ)
  <2>1. \A x, y, z \in ElementModQ :
          /\ Addition[<<x, Addition[<<y, z>>]>>] = PlusQ(x, PlusQ(y, z))
          /\ Addition[<<Addition[<<x, y>>], z>>] = PlusQ(PlusQ(x, y), z)
    BY <1>1
  <2>2. ASSUME NEW x \in ElementModQ, NEW y \in ElementModQ, NEW z \in ElementModQ
        PROVE  Addition[<<x, Addition[<<y, z>>]>>] = Addition[<<Addition[<<x, y>>], z>>]
    <3>1. PlusQ(x, PlusQ(y, z)) = PlusQ(PlusQ(x, y), z)
      BY RingQ
    <3>2. QED
      BY <2>1, <3>1
  <2>3. ASSUME NEW x \in ElementModQ, NEW y \in ElementModQ
        PROVE  Addition[<<x, y>>] = Addition[<<y, x>>]
    <3>1. PlusQ(x, y) = PlusQ(y, x)
      BY RingQ
    <3>2. QED
      BY <1>1, <3>1
  <2>4. QED
    BY <1>3, <2>2, <2>3 DEF IsCommutative
<1>6. IsCommutative(Multiplication, ElementModQ)
  <2>1. \A x, y, z \in ElementModQ :
          /\ Multiplication[<<x, Multiplication[<<y, z>>]>>] = TimesQ(x, TimesQ(y, z))
          /\ Multiplication[<<Multiplication[<<x, y>>], z>>] = TimesQ(TimesQ(x, y), z)
    BY <1>2
  <2>2. ASSUME NEW x \in ElementModQ, NEW y \in ElementModQ, NEW z \in ElementModQ
        PROVE  Multiplication[<<x, Multiplication[<<y, z>>]>>] = Multiplication[<<Multiplication[<<x, y>>], z>>]
    <3>1. TimesQ(x, TimesQ(y, z)) = TimesQ(TimesQ(x, y), z)
      BY RingQ
    <3>2. QED
      BY <2>1, <3>1
  <2>3. ASSUME NEW x \in ElementModQ, NEW y \in ElementModQ
        PROVE  Multiplication[<<x, y>>] = Multiplication[<<y, x>>]
    <3>1. TimesQ(x, y) = TimesQ(y, x)
      BY RingQ
    <3>2. QED
      BY <1>2, <3>1
  <2>4. QED
    BY <1>4, <2>2, <2>3 DEF IsCommutative
<1>7. QED
  BY <1>5, <1>6

MultipliedQ(f) ==
  CHOOSE it : it = [s \in SUBSET DOMAIN f |->
                      IF s = {} THEN 1 ELSE (f[Picked(s)] * it[s \ {Picked(s)}]) % Q]

\* AddQ and MultQ are folds of the two operations.
LEMMA AddQIsOver ==
  ASSUME NEW S, IsFiniteSet(S), NEW f \in [S -> ElementModQ]
  PROVE  AddQ(f) = AddedUp(f)[S] /\ IsOver(AddedUp(f), f, S, 0, Addition)
<1> DEFINE a == AddedUp(f)
<1>1. f \in [S -> Int]
  BY Elements
<1>2. AddQ(f) = a[S] /\ IsSum(a, f, S) /\ \A s \in SUBSET S : a[s] \in ElementModQ
  BY <1>1, AddQIsFold, SumType, Zenon
<1> HIDE DEF a
<1>3. ASSUME NEW s \in SUBSET S, s # {}
      PROVE  Addition[<<f[Picked(s)], a[s \ {Picked(s)}]>>] = (f[Picked(s)] + a[s \ {Picked(s)}]) % Q
  <2>1. f[Picked(s)] \in ElementModQ /\ a[s \ {Picked(s)}] \in ElementModQ
    BY <1>2, <1>3, PickedIsIn
  <2>2. QED
    BY <2>1 DEF Addition, PlusQ
<1>4. a = [s \in SUBSET S |->
             IF s = {} THEN 0 ELSE Addition[<<f[Picked(s)], a[s \ {Picked(s)}]>>]]
  BY <1>2, <1>3 DEF IsSum
<1>5. QED
  BY <1>2, <1>4 DEF IsOver, a

LEMMA MultQIsOver ==
  ASSUME NEW S, IsFiniteSet(S), NEW f \in [S -> ElementModQ]
  PROVE  MultQ(f) = MultipliedQ(f)[S] /\ IsOver(MultipliedQ(f), f, S, 1, Multiplication)
<1> DEFINE h == [p \in S \X ElementModQ |-> TimesQ(f[p[1]], p[2])]
<1>1. h \in [S \X ElementModQ -> ElementModQ]
  BY RingQ
<1>2. PICK it \in [SUBSET S -> ElementModQ] : IsPickedFold(it, S, 1, h)
  <2> HIDE DEF h
  <2>1. QED
    BY <1>1, RingQ, PickedFoldsExist
<1>3. ASSUME NEW s \in SUBSET S, s # {}
      PROVE  h[<<Picked(s), it[s \ {Picked(s)}]>>] = (f[Picked(s)] * it[s \ {Picked(s)}]) % Q
  BY <1>3, PickedIsIn DEF TimesQ
<1> HIDE DEF h
<1>4. it = [s \in SUBSET S |->
              IF s = {} THEN 1 ELSE (f[Picked(s)] * it[s \ {Picked(s)}]) % Q]
  BY <1>2, <1>3 DEF IsPickedFold
<1>5. DOMAIN f = S
  OBVIOUS
<1> DEFINE m == MultipliedQ(f)
<1>6. m = [s \in SUBSET S |->
             IF s = {} THEN 1 ELSE (f[Picked(s)] * m[s \ {Picked(s)}]) % Q]
  BY <1>4, <1>5 DEF MultipliedQ
<1>7. MultQ(f) = m[S]
  BY <1>5 DEF MultQ, FoldFunction, FoldFunctionOnSet, MapThenFoldSet, MultipliedQ, Picked
<1> HIDE DEF m
<1> DEFINE Good == {s \in SUBSET S : m[s] \in ElementModQ}
<1>8. {} \in Good
  BY <1>6, RingQ
<1>9. ASSUME NEW s \in SUBSET S, s # {}, s \ {Picked(s)} \in Good PROVE s \in Good
  <2>1. f[Picked(s)] \in ElementModQ /\ m[s \ {Picked(s)}] \in ElementModQ
    BY <1>9, PickedIsIn
  <2>2. m[s] = TimesQ(f[Picked(s)], m[s \ {Picked(s)}])
    BY <1>6, <1>9 DEF TimesQ
  <2>3. \A x, y \in ElementModQ : TimesQ(x, y) \in ElementModQ
    BY RingQ
  <2>4. QED
    BY <2>1, <2>2, <2>3
<1>10. Good \in SUBSET (SUBSET S)
  OBVIOUS
<1>11. \A s \in SUBSET S : m[s] \in ElementModQ
  <2> HIDE DEF Good
  <2>1. \A s \in SUBSET S : s \in Good
    BY <1>8, <1>9, <1>10, PickedInduction
  <2>2. QED
    BY <2>1 DEF Good
<1>12. ASSUME NEW s \in SUBSET S, s # {}
       PROVE  Multiplication[<<f[Picked(s)], m[s \ {Picked(s)}]>>] = (f[Picked(s)] * m[s \ {Picked(s)}]) % Q
  <2>1. f[Picked(s)] \in ElementModQ /\ m[s \ {Picked(s)}] \in ElementModQ
    BY <1>11, <1>12, PickedIsIn
  <2>2. QED
    BY <2>1 DEF Multiplication, TimesQ
<1>13. m = [s \in SUBSET S |->
              IF s = {} THEN 1 ELSE Multiplication[<<f[Picked(s)], m[s \ {Picked(s)}]>>]]
  BY <1>6, <1>12
<1>14. QED
  BY <1>7, <1>13 DEF IsOver, m

\* The terms of f for the elements of s.
Part(f, s) == [x \in s |-> f[x]]

\* A term taken out of a sum
LEMMA SumWithout ==
  ASSUME NEW S, IsFiniteSet(S), NEW f \in [S -> ElementModQ]
  PROVE  /\ AddQ(f) \in ElementModQ
         /\ S = {} => AddQ(f) = 0
         /\ \A a \in S : AddQ(f) = PlusQ(f[a], AddQ(Part(f, S \ {a})))
<1> DEFINE it == AddedUp(f)
<1>1. AddQ(f) = it[S] /\ IsOver(it, f, S, 0, Addition)
  BY AddQIsOver
<1> HIDE DEF it
<1>2. \A s \in SUBSET S : it[s] \in ElementModQ /\ \A a \in s : it[s] = Addition[<<f[a], it[s \ {a}]>>]
  <2>1. IsCommutative(Addition, ElementModQ) /\ 0 \in ElementModQ
    BY OperationsCommute, RingQ
  <2>2. \A s \in SUBSET S : it[s] \in ElementModQ
    BY <1>1, <2>1, FoldType, Zenon
  <2>3. AnyFirst(it, f, S, Addition)
    BY <1>1, <2>1, TakenOut
  <2>4. QED
    BY <2>2, <2>3 DEF AnyFirst
<1>3. ASSUME S = {} PROVE AddQ(f) = 0
  BY <1>1, <1>3 DEF IsOver
<1>4. ASSUME NEW a \in S PROVE AddQ(f) = PlusQ(f[a], AddQ(Part(f, S \ {a})))
  <2> DEFINE r == S \ {a}
             g == Part(f, r)
             part == AddedUp(g)
  <2>1. it[S] = Addition[<<f[a], it[r]>>] /\ it[r] \in ElementModQ
    BY <1>2
  <2>2. r \in SUBSET S /\ g \in [r -> ElementModQ] /\ \A x \in r : f[x] = g[x]
    BY DEF Part
  <2> HIDE DEF g
  <2>3. IsFiniteSet(r)
    BY <2>2, FS_Subset
  <2> HIDE DEF r
  <2>4. AddQ(g) = part[r] /\ IsOver(part, g, r, 0, Addition)
    BY <2>2, <2>3, AddQIsOver
  <2> HIDE DEF part
  <2>5. it[r] = part[r]
    BY <1>1, <2>2, <2>4, FoldOfPart
  <2>6. Addition[<<f[a], it[r]>>] = PlusQ(f[a], it[r])
    BY <2>1 DEF Addition
  <2>7. QED
    BY <1>1, <2>1, <2>4, <2>5, <2>6 DEF g, r
<1>5. QED
  BY <1>1, <1>2, <1>3, <1>4

\* or a factor out of a product.
LEMMA ProductWithout ==
  ASSUME NEW S, IsFiniteSet(S), NEW f \in [S -> ElementModQ]
  PROVE  /\ MultQ(f) \in ElementModQ
         /\ S = {} => MultQ(f) = 1
         /\ \A a \in S : MultQ(f) = TimesQ(f[a], MultQ(Part(f, S \ {a})))
<1> DEFINE it == MultipliedQ(f)
<1>1. MultQ(f) = it[S] /\ IsOver(it, f, S, 1, Multiplication)
  BY MultQIsOver
<1> HIDE DEF it
<1>2. \A s \in SUBSET S : it[s] \in ElementModQ /\ \A a \in s : it[s] = Multiplication[<<f[a], it[s \ {a}]>>]
  <2>1. IsCommutative(Multiplication, ElementModQ) /\ 1 \in ElementModQ
    BY OperationsCommute, RingQ
  <2>2. \A s \in SUBSET S : it[s] \in ElementModQ
    BY <1>1, <2>1, FoldType, Zenon
  <2>3. AnyFirst(it, f, S, Multiplication)
    BY <1>1, <2>1, TakenOut
  <2>4. QED
    BY <2>2, <2>3 DEF AnyFirst
<1>3. ASSUME S = {} PROVE MultQ(f) = 1
  BY <1>1, <1>3 DEF IsOver
<1>4. ASSUME NEW a \in S PROVE MultQ(f) = TimesQ(f[a], MultQ(Part(f, S \ {a})))
  <2> DEFINE r == S \ {a}
             g == Part(f, r)
             part == MultipliedQ(g)
  <2>1. it[S] = Multiplication[<<f[a], it[r]>>] /\ it[r] \in ElementModQ
    BY <1>2
  <2>2. r \in SUBSET S /\ g \in [r -> ElementModQ] /\ \A x \in r : f[x] = g[x]
    BY DEF Part
  <2> HIDE DEF g
  <2>3. IsFiniteSet(r)
    BY <2>2, FS_Subset
  <2> HIDE DEF r
  <2>4. MultQ(g) = part[r] /\ IsOver(part, g, r, 1, Multiplication)
    BY <2>2, <2>3, MultQIsOver
  <2> HIDE DEF part
  <2>5. it[r] = part[r]
    BY <1>1, <2>2, <2>4, FoldOfPart
  <2>6. Multiplication[<<f[a], it[r]>>] = TimesQ(f[a], it[r])
    BY <2>1 DEF Multiplication
  <2>7. QED
    BY <1>1, <2>1, <2>4, <2>5, <2>6 DEF g, r
<1>5. QED
  BY <1>1, <1>2, <1>3, <1>4

-----------------------------------------------------------------------------
(* Sums of sums. *)

LEMMA SumOfPart ==
  ASSUME NEW S, IsFiniteSet(S), NEW f \in [S -> ElementModQ]
  PROVE  /\ Part(f, S) = f
         /\ AddQ(Part(f, {})) = 0
         /\ \A s \in SUBSET S :
              /\ AddQ(Part(f, s)) \in ElementModQ
              /\ \A a \in s : /\ f[a] \in ElementModQ
                              /\ s \ {a} \in SUBSET S
                              /\ AddQ(Part(f, s \ {a})) \in ElementModQ
                              /\ AddQ(Part(f, s)) = PlusQ(f[a], AddQ(Part(f, s \ {a})))
<1>1. ASSUME NEW s \in SUBSET S
      PROVE  /\ AddQ(Part(f, s)) \in ElementModQ
             /\ s = {} => AddQ(Part(f, s)) = 0
             /\ \A a \in s : AddQ(Part(f, s)) = PlusQ(f[a], AddQ(Part(f, s \ {a})))
  <2> DEFINE g == Part(f, s)
  <2>1. IsFiniteSet(s)
    BY FS_Subset
  <2>2. g \in [s -> ElementModQ] /\ \A a \in s : g[a] = f[a]
    BY DEF Part
  <2>3. ASSUME NEW a \in s PROVE Part(g, s \ {a}) = Part(f, s \ {a})
    BY DEF Part
  <2> HIDE DEF g
  <2>4. /\ AddQ(g) \in ElementModQ
        /\ s = {} => AddQ(g) = 0
        /\ \A a \in s : AddQ(g) = PlusQ(g[a], AddQ(Part(g, s \ {a})))
    BY <2>1, <2>2, SumWithout
  <2>5. QED
    BY <2>2, <2>3, <2>4 DEF g
<1>2. Part(f, S) = f
  BY DEF Part
<1>3. QED
  BY <1>1, <1>2

\* A sum of sums,
LEMMA SumPlus ==
  ASSUME NEW S, IsFiniteSet(S), NEW f \in [S -> ElementModQ], NEW g \in [S -> ElementModQ],
         NEW h \in [S -> ElementModQ], \A x \in S : h[x] = PlusQ(f[x], g[x])
  PROVE  AddQ(h) = PlusQ(AddQ(f), AddQ(g))
<1> DEFINE Good == {s \in SUBSET S : AddQ(Part(h, s)) = PlusQ(AddQ(Part(f, s)), AddQ(Part(g, s)))}
<1>1. {} \in Good
  <2>1. PlusQ(0, 0) = 0
    BY RingQ, UnitsQ
  <2>2. QED
    BY <2>1, SumOfPart
<1>2. ASSUME NEW s \in SUBSET S, s # {}, \A a \in s : s \ {a} \in Good PROVE s \in Good
  <2>1. PICK a \in s : TRUE
    BY <1>2
  <2> DEFINE r == s \ {a}
             fr == AddQ(Part(f, r))
             gr == AddQ(Part(g, r))
  <2>2. /\ AddQ(Part(f, s)) = PlusQ(f[a], fr) /\ f[a] \in ElementModQ /\ fr \in ElementModQ
    BY SumOfPart
  <2>3. /\ AddQ(Part(g, s)) = PlusQ(g[a], gr) /\ g[a] \in ElementModQ /\ gr \in ElementModQ
    BY SumOfPart
  <2>4. AddQ(Part(h, s)) = PlusQ(h[a], AddQ(Part(h, r)))
    BY SumOfPart
  <2>5. AddQ(Part(h, r)) = PlusQ(fr, gr)
    BY <1>2
  <2>6. h[a] = PlusQ(f[a], g[a])
    OBVIOUS
  <2> HIDE DEF fr, gr, r
  <2>7. PlusQ(PlusQ(f[a], g[a]), PlusQ(fr, gr)) = PlusQ(PlusQ(f[a], fr), PlusQ(g[a], gr))
    BY <2>2, <2>3, PlusPairs
  <2>8. QED
    BY <2>2, <2>3, <2>4, <2>5, <2>6, <2>7
<1>3. Good \in SUBSET (SUBSET S)
  OBVIOUS
<1> HIDE DEF Good
<1>4. S \in Good
  BY <1>1, <1>2, <1>3, SetInduction
<1>5. QED
  BY <1>4, SumOfPart DEF Good

\* and of multiples.
LEMMA SumTimes ==
  ASSUME NEW S, IsFiniteSet(S), NEW f \in [S -> ElementModQ], NEW c \in ElementModQ,
         NEW h \in [S -> ElementModQ], \A x \in S : h[x] = TimesQ(c, f[x])
  PROVE  AddQ(h) = TimesQ(c, AddQ(f))
<1> DEFINE Good == {s \in SUBSET S : AddQ(Part(h, s)) = TimesQ(c, AddQ(Part(f, s)))}
<1>1. {} \in Good
  <2>1. TimesQ(c, 0) = 0
    BY UnitsQ
  <2>2. QED
    BY <2>1, SumOfPart
<1>2. ASSUME NEW s \in SUBSET S, s # {}, \A a \in s : s \ {a} \in Good PROVE s \in Good
  <2>1. PICK a \in s : TRUE
    BY <1>2
  <2> DEFINE r == s \ {a}
             fr == AddQ(Part(f, r))
  <2>2. /\ AddQ(Part(f, s)) = PlusQ(f[a], fr) /\ f[a] \in ElementModQ /\ fr \in ElementModQ
    BY SumOfPart
  <2>3. AddQ(Part(h, s)) = PlusQ(h[a], AddQ(Part(h, r)))
    BY SumOfPart
  <2>4. AddQ(Part(h, r)) = TimesQ(c, fr)
    BY <1>2
  <2>5. h[a] = TimesQ(c, f[a])
    OBVIOUS
  <2> HIDE DEF fr, r
  <2>6. TimesQ(c, PlusQ(f[a], fr)) = PlusQ(TimesQ(c, f[a]), TimesQ(c, fr))
    BY <2>2, RingQ
  <2>7. QED
    BY <2>2, <2>3, <2>4, <2>5, <2>6
<1>3. Good \in SUBSET (SUBSET S)
  OBVIOUS
<1> HIDE DEF Good
<1>4. S \in Good
  BY <1>1, <1>2, <1>3, SetInduction
<1>5. QED
  BY <1>4, SumOfPart DEF Good

\* A table of elements, and the same table by columns.
IsMatrix(f, S, R) == f \in [S -> [R -> ElementModQ]]

Transposed(f, g, S, R) == \A x \in S, y \in R : f[x][y] = g[y][x]

\* Sums in either order.
LEMMA SumExchange ==
  ASSUME NEW S, IsFiniteSet(S), NEW R, IsFiniteSet(R),
         NEW f, IsMatrix(f, S, R), NEW g, IsMatrix(g, R, S),
         Transposed(f, g, S, R)
  PROVE  AddQ([x \in S |-> AddQ(f[x])]) = AddQ([y \in R |-> AddQ(g[y])])
<1> DEFINE rows == [x \in S |-> AddQ(f[x])]
           Columns(s) == [y \in R |-> AddQ(Part(g[y], s))]
           Good == {s \in SUBSET S : AddQ(Part(rows, s)) = AddQ(Columns(s))}
<1>1. \A x \in S : f[x] \in [R -> ElementModQ]
  BY DEF IsMatrix
<1>2. \A y \in R : g[y] \in [S -> ElementModQ]
  BY DEF IsMatrix
<1>3. rows \in [S -> ElementModQ]
  BY <1>1, SumWithout
<1>4. \A s \in SUBSET S : Columns(s) \in [R -> ElementModQ]
  <2>1. ASSUME NEW s \in SUBSET S, NEW y \in R PROVE AddQ(Part(g[y], s)) \in ElementModQ
    BY <1>2, SumOfPart
  <2>2. QED
    BY <2>1
<1>5. {} \in Good
  <2>1. \A y \in R : AddQ(Part(g[y], {})) = 0
    BY <1>2, SumOfPart
  <2>2. \A y \in R : Columns({})[y] = TimesQ(0, Columns({})[y])
    <3>1. \A y \in R : Columns({})[y] = 0
      BY <2>1
    <3>2. TimesQ(0, 0) = 0
      BY RingQ, UnitsQ
    <3>3. QED
      BY <3>1, <3>2
  <2>3. Columns({}) \in [R -> ElementModQ] /\ {} \in SUBSET S
    BY <1>4
  <2> HIDE DEF Columns, rows
  <2>4. AddQ(Columns({})) = TimesQ(0, AddQ(Columns({})))
    <3>1. 0 \in ElementModQ
      BY RingQ
    <3> DEFINE c == Columns({})
    <3>2. c \in [R -> ElementModQ] /\ \A y \in R : c[y] = TimesQ(0, c[y])
      BY <2>2, <2>3
    <3> HIDE DEF c, Good
    <3>3. AddQ(c) = TimesQ(0, AddQ(c))
      BY <3>1, <3>2, SumTimes
    <3>4. QED
      BY <3>3 DEF c
  <2>5. AddQ(Columns({})) \in ElementModQ
    BY <2>3, SumWithout
  <2>6. AddQ(Columns({})) = 0
    BY <2>4, <2>5, UnitsQ
  <2>7. QED
    BY <1>3, <2>3, <2>6, SumOfPart
<1>6. ASSUME NEW s \in SUBSET S, s # {}, \A a \in s : s \ {a} \in Good PROVE s \in Good
  <2>1. PICK a \in s : TRUE
    BY <1>6
  <2> DEFINE r == s \ {a}
  <2>2. ASSUME NEW y \in R PROVE Columns(s)[y] = PlusQ(f[a][y], Columns(r)[y])
    <3>1. f[a][y] = g[y][a]
      BY DEF Transposed
    <3>2. AddQ(Part(g[y], s)) = PlusQ(g[y][a], AddQ(Part(g[y], s \ {a})))
      <4> DEFINE k == g[y]
      <4>1. k \in [S -> ElementModQ]
        BY <1>2
      <4> HIDE DEF k, Good, Columns
      <4>2. AddQ(Part(k, s)) = PlusQ(k[a], AddQ(Part(k, s \ {a})))
        BY <4>1, SumOfPart
      <4>3. QED
        BY <4>2 DEF k
    <3>3. QED
      BY <3>1, <3>2
  <2>3. AddQ(Part(rows, r)) = AddQ(Columns(r))
    BY <1>6
  <2>4. rows[a] = AddQ(f[a]) /\ f[a] \in [R -> ElementModQ]
    BY <1>1
  <2>5. r \in SUBSET S /\ Columns(r) \in [R -> ElementModQ] /\ Columns(s) \in [R -> ElementModQ]
    BY <1>4
  <2> HIDE DEF Columns, rows
  <2>6. AddQ(Columns(s)) = PlusQ(AddQ(f[a]), AddQ(Columns(r)))
    <3> DEFINE before == Columns(r)
               after == Columns(s)
               term == f[a]
    <3>1. /\ before \in [R -> ElementModQ] /\ after \in [R -> ElementModQ] /\ term \in [R -> ElementModQ]
          /\ \A y \in R : after[y] = PlusQ(term[y], before[y])
      BY <2>2, <2>4, <2>5
    <3> HIDE DEF before, after, term, Good
    <3>2. AddQ(after) = PlusQ(AddQ(term), AddQ(before))
      BY <3>1, SumPlus
    <3>3. QED
      BY <3>2 DEF before, after, term
  <2>7. AddQ(Part(rows, s)) = PlusQ(rows[a], AddQ(Part(rows, r)))
    <3>1. rows \in [S -> ElementModQ]
      BY <1>3
    <3> HIDE DEF Good
    <3>2. QED
      BY <3>1, SumOfPart
  <2>8. QED
    BY <2>3, <2>4, <2>6, <2>7
<1>7. Good \in SUBSET (SUBSET S)
  OBVIOUS
<1>8. \A y \in R : Part(g[y], S) = g[y]
  BY <1>2, SumOfPart
<1>9. Columns(S) = [y \in R |-> AddQ(g[y])]
  BY <1>8
<1> HIDE DEF Good
<1>10. S \in Good
  <2> HIDE DEF Columns, rows
  <2>1. QED
    BY <1>5, <1>6, <1>7, SetInduction
<1>11. Part(rows, S) = rows
  BY <1>3, SumOfPart
<1>12. QED
  BY <1>9, <1>10, <1>11 DEF Good

\* A product of numbers other than zero.
LEMMA ProductIsNotZero ==
  ASSUME NEW S, IsFiniteSet(S), NEW f \in [S -> ElementModQ \ {0}]
  PROVE  MultQ(f) \in ElementModQ \ {0}
<1> DEFINE Good == {s \in SUBSET S : MultQ(Part(f, s)) \in ElementModQ \ {0}}
<1>1. ASSUME NEW s \in SUBSET S
      PROVE  /\ IsFiniteSet(s) /\ Part(f, s) \in [s -> ElementModQ]
             /\ \A a \in s : Part(f, s)[a] = f[a] /\ Part(Part(f, s), s \ {a}) = Part(f, s \ {a})
  BY FS_Subset DEF Part
<1>2. {} \in Good
  <2>1. {} \in SUBSET S
    OBVIOUS
  <2>2. MultQ(Part(f, {})) = 1
    BY <1>1, <2>1, ProductWithout
  <2>3. QED
    BY <2>2, RingQ
<1>3. ASSUME NEW s \in SUBSET S, s # {}, \A a \in s : s \ {a} \in Good PROVE s \in Good
  <2>1. PICK a \in s : TRUE
    BY <1>3
  <2>2. MultQ(Part(f, s)) = TimesQ(Part(f, s)[a], MultQ(Part(Part(f, s), s \ {a})))
    BY <1>1, ProductWithout
  <2>3. MultQ(Part(f, s)) = TimesQ(f[a], MultQ(Part(f, s \ {a})))
    BY <1>1, <2>2
  <2>4. f[a] \in ElementModQ \ {0} /\ MultQ(Part(f, s \ {a})) \in ElementModQ \ {0}
    BY <1>3
  <2>5. QED
    BY <2>3, <2>4, NonzeroProduct
<1>4. Good \in SUBSET (SUBSET S)
  OBVIOUS
<1> HIDE DEF Good
<1>5. S \in Good
  BY <1>2, <1>3, <1>4, SetInduction
<1>6. Part(f, S) = f
  BY DEF Part
<1>7. QED
  BY <1>5, <1>6 DEF Good

\* A sum of nothing but zeros.
LEMMA SumOfZeros ==
  ASSUME NEW S, IsFiniteSet(S), NEW f \in [S -> ElementModQ], \A x \in S : f[x] = 0
  PROVE  AddQ(f) = 0
<1>1. TimesQ(0, 0) = 0 /\ 0 \in ElementModQ
  BY RingQ, UnitsQ
<1>2. \A x \in S : f[x] = TimesQ(0, f[x])
  BY <1>1
<1>3. AddQ(f) = TimesQ(0, AddQ(f))
  BY <1>1, <1>2, SumTimes
<1>4. AddQ(f) \in ElementModQ
  BY SumWithout
<1>5. QED
  BY <1>3, <1>4, UnitsQ
=============================================================================

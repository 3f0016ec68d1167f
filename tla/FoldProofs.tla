------------------------------- MODULE FoldProofs -------------------------------
(***************************************************************************)
(* What the proofs of several modules need of numbers and finite sets:     *)
(* induction as a fact about sets, folds of the community modules, which   *)
(* are recursive functions over the subsets of a set, and counting.        *)
(***************************************************************************)
EXTENDS Integers, FiniteSets, Functions, FiniteSetTheorems, WellFoundedInduction, TLAPS

-----------------------------------------------------------------------------
(* Induction, as a fact about sets of numbers. *)

\* Every set of numbers has a least one,
LEMMA LeastNumber ==
  ASSUME NEW S \in SUBSET Nat, S # {}
  PROVE  \E n \in S : \A m \in S : n <= m
<1> DEFINE R == OpToRel(<, Nat)
<1>1. IsWellFoundedOn(R, Nat)
  BY NatLessThanWellFounded, Zenon
<1>2. \A n, m \in Nat : <<m, n>> \in R <=> m < n
  BY DEF OpToRel
<1> HIDE DEF R
<1>3. PICK n \in S : \A m \in S : <<m, n>> \notin R
  BY <1>1, WFMin
<1>4. ASSUME NEW m \in S PROVE n <= m
  <2>1. m \in Nat /\ n \in Nat
    OBVIOUS
  <2>2. ~(m < n)
    BY <1>2, <1>3, <2>1, Zenon
  <2> QED BY <2>1, <2>2
<1> QED BY <1>4

\* so a set with 0 and every successor holds them all.
LEMMA Induction ==
  ASSUME NEW S \in SUBSET Nat, 0 \in S, \A n \in S : n + 1 \in S
  PROVE  \A n \in Nat : n \in S
<1>1. SUFFICES ASSUME Nat \ S # {} PROVE FALSE
  OBVIOUS
<1>2. PICK n \in Nat \ S : \A k \in Nat \ S : n <= k
  BY <1>1, LeastNumber
<1>3. n # 0 /\ n - 1 \in Nat /\ n - 1 \notin Nat \ S
  BY <1>2
<1>4. n - 1 + 1 \in S
  BY <1>3
<1>5. QED
  BY <1>2, <1>4

-----------------------------------------------------------------------------
(* Folds over a finite set: they take out one element after the other, in  *)
(* an order of their own, which does not matter when operands may change   *)
(* places.                                                                 *)

\* pick has an element of every subset of S.
Picks(pick, S) == \A s \in SUBSET S : s # {} => pick[s] \in s

\* it is the fold of h over every subset of S, the elements taken out as pick says.
IsFold(it, S, pick, base, h) ==
  it = [s \in SUBSET S |-> IF s = {} THEN base ELSE h[<<pick[s], it[s \ {pick[s]}]>>]]

\* Over the subsets of at most n elements.
FoldsTo(it, S, pick, base, h, n) ==
  \A s \in SUBSET S :
    Cardinality(s) <= n =>
      it[s] = IF s = {} THEN base ELSE h[<<pick[s], it[s \ {pick[s]}]>>]

\* The element that a fold takes out leaves a smaller set.
LEMMA WithoutPicked ==
  ASSUME NEW S, IsFiniteSet(S), NEW pick, Picks(pick, S), NEW s \in SUBSET S, s # {}
  PROVE  /\ pick[s] \in S
         /\ s \ {pick[s]} \in SUBSET S
         /\ IsFiniteSet(s)
         /\ Cardinality(s) \in Nat /\ Cardinality(s) >= 1
         /\ Cardinality(s \ {pick[s]}) = Cardinality(s) - 1
<1>1. pick[s] \in s
  BY DEF Picks
<1>2. IsFiniteSet(s)
  BY FS_Subset
<1>3. Cardinality(s) \in Nat /\ Cardinality(s) # 0
  BY <1>2, FS_CardinalityType, FS_EmptySet
<1>4. Cardinality(s \ {pick[s]}) = Cardinality(s) - 1
  BY <1>1, <1>2, FS_RemoveElement
<1>5. QED
  BY <1>1, <1>2, <1>3, <1>4

\* There is a function of the fold over every subset.
LEMMA FoldsExist ==
  ASSUME NEW S, IsFiniteSet(S), NEW T, NEW base \in T, NEW h \in [S \X T -> T],
         NEW pick, Picks(pick, S)
  PROVE  \E it \in [SUBSET S -> T] : IsFold(it, S, pick, base, h)
<1> DEFINE N == {n \in Nat : \E it \in [SUBSET S -> T] : FoldsTo(it, S, pick, base, h, n)}
<1>1. 0 \in N
  <2> DEFINE it == [s \in SUBSET S |-> base]
  <2>1. FoldsTo(it, S, pick, base, h, 0)
    <3>1. ASSUME NEW s \in SUBSET S, s # {} PROVE ~(Cardinality(s) <= 0)
        <4>1. Cardinality(s) \in Nat /\ Cardinality(s) >= 1
          BY <3>1, WithoutPicked, Zenon
        <4>2. QED
          BY <4>1
    <3>2. QED
      BY <3>1 DEF FoldsTo
  <2>2. it \in [SUBSET S -> T]
    OBVIOUS
  <2>3. QED
    BY <2>1, <2>2
<1>2. ASSUME NEW n \in N PROVE n + 1 \in N
  <2>1. PICK it \in [SUBSET S -> T] : FoldsTo(it, S, pick, base, h, n)
    OBVIOUS
  <2> DEFINE it2 == [s \in SUBSET S |->
                       IF s = {} THEN base ELSE h[<<pick[s], it[s \ {pick[s]}]>>]]
  <2>2. it2 \in [SUBSET S -> T]
    <3>1. ASSUME NEW s \in SUBSET S, s # {}
          PROVE  h[<<pick[s], it[s \ {pick[s]}]>>] \in T
      BY <3>1 DEF Picks
    <3>2. QED
      BY <3>1
  <2>3. ASSUME NEW s \in SUBSET S, Cardinality(s) <= n
        PROVE  it2[s] = it[s]
    BY <2>1, <2>3 DEF FoldsTo
  <2>4. ASSUME NEW s \in SUBSET S, Cardinality(s) <= n + 1, s # {}
        PROVE  it2[s \ {pick[s]}] = it[s \ {pick[s]}]
    <3>1. s \ {pick[s]} \in SUBSET S /\ Cardinality(s) \in Nat
      BY <2>4, WithoutPicked, Zenon
    <3>2. pick[s] \in s /\ IsFiniteSet(s)
      BY <2>4, FS_Subset DEF Picks
    <3>3. Cardinality(s \ {pick[s]}) = Cardinality(s) - 1
      BY <3>2, FS_RemoveElement, Zenon
    <3>4. Cardinality(s \ {pick[s]}) <= n
      BY <2>4, <3>1, <3>3
    <3> HIDE DEF it2
    <3>5. QED
      BY <2>3, <3>1, <3>4
  <2>5. ASSUME NEW s \in SUBSET S
        PROVE  it2[s] = IF s = {} THEN base ELSE h[<<pick[s], it[s \ {pick[s]}]>>]
    OBVIOUS
  <2> HIDE DEF it2
  <2>6. FoldsTo(it2, S, pick, base, h, n + 1)
    BY <2>4, <2>5 DEF FoldsTo
  <2>7. QED
    BY <2>2, <2>6
<1>3. N \in SUBSET Nat
  OBVIOUS
<1>4. Cardinality(S) \in Nat
  BY FS_CardinalityType
<1> HIDE DEF N
<1>5. Cardinality(S) \in N
  BY <1>1, <1>2, <1>3, <1>4, Induction
<1>6. PICK it \in [SUBSET S -> T] : FoldsTo(it, S, pick, base, h, Cardinality(S))
  BY <1>5 DEF N
<1>7. ASSUME NEW s \in SUBSET S PROVE Cardinality(s) <= Cardinality(S)
  BY FS_Subset
<1>8. it = [s \in SUBSET S |-> it[s]]
  OBVIOUS
<1>9. \A s \in SUBSET S :
        it[s] = IF s = {} THEN base ELSE h[<<pick[s], it[s \ {pick[s]}]>>]
  BY <1>6, <1>7 DEF FoldsTo
<1>10. IsFold(it, S, pick, base, h)
  BY <1>8, <1>9 DEF IsFold
<1>11. QED
  BY <1>10

\* What holds of a fold, from the empty set up.
LEMMA FoldInduction ==
  ASSUME NEW S, IsFiniteSet(S), NEW pick, Picks(pick, S), NEW Good \in SUBSET (SUBSET S), {} \in Good,
         \A s \in SUBSET S : s # {} /\ s \ {pick[s]} \in Good => s \in Good
  PROVE  \A s \in SUBSET S : s \in Good
<1> DEFINE N == {n \in Nat : \A s \in SUBSET S : Cardinality(s) <= n => s \in Good}
<1>1. 0 \in N
  <2>1. ASSUME NEW s \in SUBSET S, s # {} PROVE ~(Cardinality(s) <= 0)
      <3>1. Cardinality(s) \in Nat /\ Cardinality(s) >= 1
        BY <2>1, WithoutPicked, Zenon
      <3>2. QED
        BY <3>1
  <2>2. QED
    BY <2>1
<1>2. ASSUME NEW n \in N PROVE n + 1 \in N
  <2>1. ASSUME NEW s \in SUBSET S, Cardinality(s) <= n + 1, s # {} PROVE s \in Good
    <3>1. s \ {pick[s]} \in SUBSET S /\ Cardinality(s) \in Nat
      BY <2>1, WithoutPicked, Zenon
    <3>2. pick[s] \in s /\ IsFiniteSet(s)
      BY <2>1, FS_Subset DEF Picks
    <3>3. Cardinality(s \ {pick[s]}) = Cardinality(s) - 1
      BY <3>2, FS_RemoveElement, Zenon
    <3>4. Cardinality(s \ {pick[s]}) <= n
      BY <2>1, <3>1, <3>3
    <3>5. s \ {pick[s]} \in Good
      BY <3>1, <3>4
    <3>6. QED
      BY <2>1, <3>5
  <2>2. \A s \in SUBSET S : Cardinality(s) <= n + 1 => s \in Good
    BY <2>1
  <2>3. n + 1 \in Nat
    OBVIOUS
  <2>4. QED
    BY <2>2, <2>3, Zenon
<1>3. N \in SUBSET Nat
  OBVIOUS
<1>4. Cardinality(S) \in Nat
  BY FS_CardinalityType
<1> HIDE DEF N
<1>5. Cardinality(S) \in N
  BY <1>1, <1>2, <1>3, <1>4, Induction
<1>6. ASSUME NEW s \in SUBSET S PROVE Cardinality(s) <= Cardinality(S)
  BY FS_Subset
<1>7. QED
  BY <1>5, <1>6 DEF N

\* The element that the folds of the community modules take out of s.
Picked(s) == CHOOSE x \in s : TRUE
Picking(S) == [s \in SUBSET S |-> Picked(s)]

LEMMA PickedIsIn ==
  ASSUME NEW s, s # {}
  PROVE  Picked(s) \in s
BY DEF Picked

LEMMA PickingPicks ==
  ASSUME NEW S
  PROVE  Picks(Picking(S), S) /\ \A s \in SUBSET S : Picking(S)[s] = Picked(s)
BY PickedIsIn DEF Picks, Picking

\* it is such a fold of h over every subset of S.
IsPickedFold(it, S, base, h) ==
  it = [s \in SUBSET S |->
          IF s = {} THEN base ELSE h[<<Picked(s), it[s \ {Picked(s)}]>>]]

LEMMA PickedFoldsExist ==
  ASSUME NEW S, IsFiniteSet(S), NEW T, NEW base \in T, NEW h \in [S \X T -> T]
  PROVE  \E it \in [SUBSET S -> T] : IsPickedFold(it, S, base, h)
<1>1. Picks(Picking(S), S) /\ \A s \in SUBSET S : Picking(S)[s] = Picked(s)
  BY PickingPicks
<1>2. PICK it \in [SUBSET S -> T] : IsFold(it, S, Picking(S), base, h)
  BY <1>1, FoldsExist
<1>3. IsPickedFold(it, S, base, h)
  BY <1>1, <1>2 DEF IsFold, IsPickedFold
<1>4. QED
  BY <1>3

LEMMA PickedInduction ==
  ASSUME NEW S, IsFiniteSet(S), NEW Good \in SUBSET (SUBSET S), {} \in Good,
         \A s \in SUBSET S : s # {} /\ s \ {Picked(s)} \in Good => s \in Good
  PROVE  \A s \in SUBSET S : s \in Good
<1>1. Picks(Picking(S), S) /\ \A s \in SUBSET S : Picking(S)[s] = Picked(s)
  BY PickingPicks
<1>2. \A s \in SUBSET S : s # {} /\ s \ {Picking(S)[s]} \in Good => s \in Good
  BY <1>1
<1>3. QED
  BY <1>1, <1>2, FoldInduction

\* What holds of a set if it holds of the set without any one element holds of all
\* finite sets.
LEMMA SetInduction ==
  ASSUME NEW S, IsFiniteSet(S), NEW Good \in SUBSET (SUBSET S), {} \in Good,
         \A s \in SUBSET S : s # {} /\ (\A a \in s : s \ {a} \in Good) => s \in Good
  PROVE  \A s \in SUBSET S : s \in Good
<1> DEFINE N == {n \in Nat : \A s \in SUBSET S : Cardinality(s) <= n => s \in Good}
<1>1. \A s \in SUBSET S : IsFiniteSet(s) /\ Cardinality(s) \in Nat /\ Cardinality(s) <= Cardinality(S)
  BY FS_Subset, FS_CardinalityType
<1>2. 0 \in N
  <2>1. ASSUME NEW s \in SUBSET S, s # {} PROVE ~(Cardinality(s) <= 0)
    BY <1>1, <2>1, FS_EmptySet
  <2>2. QED
    BY <2>1
<1>3. ASSUME NEW n \in N PROVE n + 1 \in N
  <2>1. ASSUME NEW s \in SUBSET S, Cardinality(s) <= n + 1, s # {} PROVE s \in Good
    <3>1. ASSUME NEW a \in s PROVE s \ {a} \in Good
      <4>1. Cardinality(s \ {a}) = Cardinality(s) - 1
        BY <1>1, FS_RemoveElement
      <4>2. s \ {a} \in SUBSET S /\ Cardinality(s \ {a}) <= n
        BY <1>1, <2>1, <4>1
      <4>3. QED
        BY <4>2
    <3>2. QED
      BY <2>1, <3>1
  <2>2. \A s \in SUBSET S : Cardinality(s) <= n + 1 => s \in Good
    BY <2>1
  <2>3. n + 1 \in Nat
    OBVIOUS
  <2>4. QED
    BY <2>2, <2>3, Zenon
<1>4. N \in SUBSET Nat
  OBVIOUS
<1> HIDE DEF N
<1>5. Cardinality(S) \in N
  BY <1>1, <1>2, <1>3, <1>4, Induction
<1>6. QED
  BY <1>1, <1>5 DEF N

-----------------------------------------------------------------------------
(* Counting. *)

\* A set is no larger than one into which it goes without two of its elements meeting,
LEMMA InjectionCounts ==
  ASSUME NEW S, NEW T, IsFiniteSet(T), NEW f \in [S -> T],
         \A x, y \in S : f[x] = f[y] => x = y
  PROVE  IsFiniteSet(S) /\ Cardinality(S) <= Cardinality(T)
<1>1. f \in Injection(S, T)
  BY DEF Injection, IsInjective
<1>2. QED
  BY <1>1, FS_Injection

\* and as large as one that it covers, too.
LEMMA BijectionCounts ==
  ASSUME NEW S, NEW T, IsFiniteSet(S), NEW f \in [S -> T],
         \A x, y \in S : f[x] = f[y] => x = y,
         \A z \in T : \E x \in S : f[x] = z
  PROVE  IsFiniteSet(T) /\ Cardinality(T) = Cardinality(S)
<1>1. f \in Bijection(S, T)
  BY DEF Bijection, Injection, Surjection, IsInjective
<1>2. ExistsBijection(S, T)
  BY <1>1 DEF ExistsBijection
<1>3. QED
  BY <1>2, FS_Bijection

\* The size of a set of two parts.
LEMMA PartsCount ==
  ASSUME NEW S, IsFiniteSet(S), NEW T, IsFiniteSet(T), S \cap T = {}
  PROVE  IsFiniteSet(S \union T) /\ Cardinality(S \union T) = Cardinality(S) + Cardinality(T)
<1> DEFINE Good == {s \in SUBSET S : /\ IsFiniteSet(s \union T)
                                     /\ Cardinality(s \union T) = Cardinality(s) + Cardinality(T)}
<1>1. {} \in Good
  <2>1. {} \union T = T /\ Cardinality({}) = 0 /\ Cardinality(T) \in Nat
    BY FS_EmptySet, FS_CardinalityType
  <2>2. QED
    BY <2>1
<1>2. ASSUME NEW s \in SUBSET S, s # {}, \A a \in s : s \ {a} \in Good PROVE s \in Good
  <2>1. PICK a \in s : TRUE
    BY <1>2
  <2> DEFINE r == s \ {a}
             u == r \union T
  <2>2. r \in Good
    BY <1>2, <2>1
  <2>3. IsFiniteSet(s)
    BY FS_Subset
  <2>4. Cardinality(s) \in Nat /\ Cardinality(r) = Cardinality(s) - 1
    BY <2>1, <2>3, FS_CardinalityType, FS_RemoveElement
  <2>5. s \union T = u \union {a} /\ a \notin u
    BY <2>1
  <2>6. IsFiniteSet(u) /\ Cardinality(u) = Cardinality(r) + Cardinality(T) /\ Cardinality(T) \in Nat
    BY <2>2, FS_CardinalityType
  <2> HIDE DEF r, u
  <2>7. IsFiniteSet(u \union {a}) /\ Cardinality(u \union {a}) = Cardinality(u) + 1
    BY <2>5, <2>6, FS_AddElement
  <2>8. IsFiniteSet(s \union T) /\ Cardinality(s \union T) = Cardinality(u) + 1
    BY <2>5, <2>7, Zenon
  <2>9. Cardinality(s \union T) = Cardinality(s) + Cardinality(T)
    BY <2>4, <2>6, <2>8
  <2>10. QED
    BY <2>8, <2>9
<1>3. Good \in SUBSET (SUBSET S)
  OBVIOUS
<1> HIDE DEF Good
<1>4. S \in Good
  BY <1>1, <1>2, <1>3, SetInduction
<1>5. QED
  BY <1>4 DEF Good

-----------------------------------------------------------------------------
(* Sums of sizes. *)

\* The elements of each x's part, told apart by x.
PairsOf(S, parts) == UNION {{x} \X parts[x] : x \in S}

SummedFrom(v) ==
  CHOOSE it : it = [s \in SUBSET DOMAIN v |->
                      IF s = {} THEN 0 ELSE v[Picked(s)] + it[s \ {Picked(s)}]]

\* it has the sum of v over every subset of S.
HasSums(it, S, v) ==
  /\ it[{}] = 0
  /\ \A s \in SUBSET S : s # {} => it[s] = v[Picked(s)] + it[s \ {Picked(s)}]

LEMMA SumIsFold ==
  ASSUME NEW S, IsFiniteSet(S), NEW v \in [S -> Int]
  PROVE  \E it : HasSums(it, S, v) /\ SumFunction(v) = it[S]
<1> DEFINE h == [p \in S \X Int |-> v[p[1]] + p[2]]
<1>1. h \in [S \X Int -> Int] /\ (\A x \in S, y \in Int : h[<<x, y>>] = v[x] + y) /\ 0 \in Int
  OBVIOUS
<1>2. PICK it \in [SUBSET S -> Int] : IsPickedFold(it, S, 0, h)
  <2> HIDE DEF h
  <2>1. QED
    BY <1>1, PickedFoldsExist
<1> HIDE DEF h
<1>3. ASSUME NEW s \in SUBSET S, s # {}
      PROVE  h[<<Picked(s), it[s \ {Picked(s)}]>>] = v[Picked(s)] + it[s \ {Picked(s)}]
  <2>1. Picked(s) \in S /\ it[s \ {Picked(s)}] \in Int
    BY <1>3, PickedIsIn
  <2>2. QED
    BY <1>1, <2>1
<1>4. DOMAIN v = S
  OBVIOUS
<1>5. it = [s \in SUBSET DOMAIN v |-> IF s = {} THEN 0 ELSE v[Picked(s)] + it[s \ {Picked(s)}]]
  BY <1>2, <1>3, <1>4 DEF IsPickedFold
<1>6. SummedFrom(v) = [s \in SUBSET DOMAIN v |->
                         IF s = {} THEN 0 ELSE v[Picked(s)] + SummedFrom(v)[s \ {Picked(s)}]]
  BY <1>5 DEF SummedFrom
<1>7. SumFunction(v) = SummedFrom(v)[DOMAIN v]
  BY DEF SumFunction, SumFunctionOnSet, FoldFunctionOnSet, MapThenFoldSet, SummedFrom, Picked
<1>8. HasSums(SummedFrom(v), S, v)
  BY <1>4, <1>6 DEF HasSums
<1>9. QED
  BY <1>4, <1>7, <1>8

\* A sum of sizes is the size of the parts together.
LEMMA SumOfSizes ==
  ASSUME NEW S, IsFiniteSet(S), NEW v \in [S -> Int], NEW parts,
         \A x \in S : IsFiniteSet(parts[x]) /\ v[x] = Cardinality(parts[x])
  PROVE  IsFiniteSet(PairsOf(S, parts)) /\ SumFunction(v) = Cardinality(PairsOf(S, parts))
<1>1. PICK it : HasSums(it, S, v) /\ SumFunction(v) = it[S]
  BY SumIsFold
<1> DEFINE Good == {s \in SUBSET S : /\ IsFiniteSet(PairsOf(s, parts))
                                     /\ it[s] = Cardinality(PairsOf(s, parts))}
<1>2. {} \in Good
  <2>1. PairsOf({}, parts) = {}
    BY DEF PairsOf
  <2>2. QED
    BY <1>1, <2>1, FS_EmptySet DEF HasSums
<1>3. ASSUME NEW s \in SUBSET S, s # {}, s \ {Picked(s)} \in Good PROVE s \in Good
  <2> DEFINE x == Picked(s)
             A == {x} \X parts[x]
             B == PairsOf(s \ {x}, parts)
  <2>1. x \in s /\ x \in S
    BY <1>3, PickedIsIn
  <2>2. IsFiniteSet(B) /\ it[s \ {x}] = Cardinality(B)
    BY <1>3
  <2> HIDE DEF x
  <2>3. PairsOf(s, parts) = A \union B
    BY <2>1 DEF PairsOf
  <2>4. A \cap B = {}
    BY DEF PairsOf
  <2>5. IsFiniteSet({x}) /\ Cardinality({x}) = 1 /\ IsFiniteSet(parts[x]) /\ Cardinality(parts[x]) \in Nat
    BY <2>1, FS_Singleton, FS_CardinalityType
  <2>6. IsFiniteSet(A) /\ Cardinality(A) = Cardinality({x}) * Cardinality(parts[x])
    BY <2>5, FS_Product, Zenon
  <2>7. Cardinality(A) = v[x]
    BY <2>1, <2>5, <2>6
  <2> HIDE DEF A, B
  <2>8. IsFiniteSet(A \union B) /\ Cardinality(A \union B) = Cardinality(A) + Cardinality(B)
    BY <2>2, <2>4, <2>6, PartsCount
  <2>9. it[s] = v[x] + it[s \ {x}]
    BY <1>1, <1>3 DEF x, HasSums
  <2>10. QED
    BY <2>2, <2>3, <2>7, <2>8, <2>9
<1>4. Good \in SUBSET (SUBSET S)
  OBVIOUS
<1> HIDE DEF Good
<1>5. S \in Good
  BY <1>2, <1>3, <1>4, PickedInduction
<1>6. QED
  BY <1>1, <1>5 DEF Good

\* A sum of votes of 0 or 1 is how many there are of 1.
LEMMA SumOfVotes ==
  ASSUME NEW S, IsFiniteSet(S), NEW v \in [S -> {0, 1}]
  PROVE  SumFunction(v) = Cardinality({x \in S : v[x] = 1})
<1> DEFINE parts == [x \in S |-> IF v[x] = 1 THEN {0} ELSE {}]
           T == {x \in S : v[x] = 1}
           f == [x \in T |-> <<x, 0>>]
<1>1. ASSUME NEW x \in S PROVE IsFiniteSet(parts[x]) /\ v[x] = Cardinality(parts[x])
  BY FS_EmptySet, FS_Singleton
<1>2. v \in [S -> Int]
  OBVIOUS
<1>3. SumFunction(v) = Cardinality(PairsOf(S, parts)) /\ IsFiniteSet(PairsOf(S, parts))
  <2> HIDE DEF parts
  <2>1. QED
    BY <1>1, <1>2, SumOfSizes
<1>4. \A p : p \in PairsOf(S, parts) <=> \E x \in T : p = <<x, 0>>
  BY DEF PairsOf
<1>5. IsFiniteSet(T)
  BY FS_Subset
<1> HIDE DEF parts, T
<1>6. f \in [T -> PairsOf(S, parts)] /\ \A x \in T : f[x] = <<x, 0>>
  BY <1>4
<1> HIDE DEF f
<1>7. \A x, y \in T : f[x] = f[y] => x = y
  BY <1>6
<1>8. \A p \in PairsOf(S, parts) : \E x \in T : f[x] = p
  BY <1>4, <1>6
<1>9. Cardinality(PairsOf(S, parts)) = Cardinality(T)
  BY <1>5, <1>6, <1>7, <1>8, BijectionCounts
<1>10. QED
  BY <1>3, <1>9 DEF T

\* If each of V names at most k of C, all together the names are at most k times V.
NamedBy(C, W, names) == PairsOf(C, [c \in C |-> {b \in W : c \in names[b]}])

LEMMA NamesCount ==
  ASSUME NEW V, IsFiniteSet(V), NEW C, NEW k \in Nat, NEW names,
         \A b \in V : names[b] \subseteq C /\ IsFiniteSet(names[b]) /\ Cardinality(names[b]) <= k
  PROVE  Cardinality(NamedBy(C, V, names)) <= k * Cardinality(V)
<1>1. \A W, c, b : <<c, b>> \in NamedBy(C, W, names) <=> c \in C /\ b \in W /\ c \in names[b]
  BY DEF NamedBy, PairsOf
<1>2. \A W, p : p \in NamedBy(C, W, names) => \E c, b : p = <<c, b>>
  BY DEF NamedBy, PairsOf
<1> DEFINE N(W) == NamedBy(C, W, names)
           Good == {W \in SUBSET V : IsFiniteSet(N(W)) /\ Cardinality(N(W)) <= k * Cardinality(W)}
<1>3. {} \in Good
  <2>1. NamedBy(C, {}, names) = {}
    BY <1>1, <1>2
  <2>2. QED
    BY <2>1, FS_EmptySet
<1>4. ASSUME NEW W \in SUBSET V, W # {}, \A a \in W : W \ {a} \in Good PROVE W \in Good
  <2>1. PICK b \in W : TRUE
    BY <1>4
  <2> DEFINE R == W \ {b}
             A == names[b] \X {b}
  <2>2. IsFiniteSet(N(R)) /\ Cardinality(N(R)) <= k * Cardinality(R)
    BY <1>4, <2>1
  <2>3. N(W) = A \union N(R)
    <3>1. ASSUME NEW c, NEW d PROVE <<c, d>> \in N(W) <=> <<c, d>> \in A \/ <<c, d>> \in N(R)
      <4>1. <<c, d>> \in A <=> c \in names[b] /\ d = b
        OBVIOUS
      <4>2. <<c, d>> \in N(R) <=> c \in C /\ d \in W /\ d # b /\ c \in names[d]
        BY <1>1
      <4>3. <<c, d>> \in N(W) <=> c \in C /\ d \in W /\ c \in names[d]
        BY <1>1
      <4>4. names[b] \subseteq C
        BY <2>1
      <4> HIDE DEF A, N, R
      <4>5. QED
        BY <2>1, <4>1, <4>2, <4>3, <4>4
    <3>2. \A p : p \in A => \E c, d : p = <<c, d>>
      OBVIOUS
    <3> HIDE DEF A, N, R
    <3>3. \A p : p \in N(W) \/ p \in N(R) => \E c, d : p = <<c, d>>
      BY <1>2 DEF N
    <3>4. QED
      BY <3>1, <3>2, <3>3
  <2>4. A \cap N(R) = {}
    BY <1>1
  <2>5. IsFiniteSet({b}) /\ Cardinality({b}) = 1 /\ IsFiniteSet(names[b])
        /\ Cardinality(names[b]) \in Nat /\ Cardinality(names[b]) <= k
    BY <2>1, FS_Singleton, FS_CardinalityType
  <2>6. IsFiniteSet(A) /\ Cardinality(A) = Cardinality(names[b]) * Cardinality({b})
    BY <2>5, FS_Product, Zenon
  <2>7. Cardinality(A) <= k /\ Cardinality(A) \in Nat
    BY <2>5, <2>6
  <2>8. IsFiniteSet(W) /\ Cardinality(W) \in Nat /\ Cardinality(R) = Cardinality(W) - 1
    <3>1. IsFiniteSet(W)
      BY FS_Subset
    <3>2. QED
      BY <2>1, <3>1, FS_CardinalityType, FS_RemoveElement
  <2> HIDE DEF A, N, R
  <2>9. IsFiniteSet(A \union N(R)) /\ Cardinality(A \union N(R)) = Cardinality(A) + Cardinality(N(R))
    BY <2>2, <2>4, <2>6, PartsCount
  <2>10. Cardinality(N(R)) \in Nat
    BY <2>2, FS_CardinalityType
  <2>11. k * (Cardinality(W) - 1) = k * Cardinality(W) - k
    BY <2>8
  <2>12. Cardinality(N(W)) <= k * Cardinality(W)
    <3>1. PICK q \in Int : q = k * Cardinality(W)
      BY <2>8
    <3>2. QED
      BY <2>2, <2>3, <2>7, <2>8, <2>9, <2>10, <2>11, <3>1
  <2>13. QED
    BY <2>3, <2>9, <2>12
<1>5. Good \in SUBSET (SUBSET V)
  OBVIOUS
<1> HIDE DEF Good
<1>6. V \in Good
  BY <1>3, <1>4, <1>5, SetInduction
<1>7. QED
  BY <1>6 DEF Good
=================================================================================

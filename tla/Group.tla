--------------------------------- MODULE Group ---------------------------------
(***************************************************************************)
(* electionguard/group.py over parameters of any size: the integers mod P, *)
(* the exponents mod Q, and the generator G of the subgroup of order Q.    *)
(***************************************************************************)
EXTENDS Integers, Functions

CONSTANTS P, Q, G

ASSUME GroupAssumption ==
  /\ P \in Nat /\ Q \in Nat /\ P > Q /\ Q > 1
  /\ (P - 1) % Q = 0
  /\ G \in 2 .. P - 1

ElementModP == 0 .. P - 1
ElementModQ == 0 .. Q - 1

\* powmod of gmpy2, for a natural exponent
PowMod(b, e, m) ==
  LET power[n \in Nat] == IF n = 0 THEN 1 % m ELSE (b * power[n - 1]) % m
  IN  power[e]

PowP(b, e) == PowMod(b, e, P)
PowQ(b, e) == PowMod(b, e, Q)
GPowP(e) == PowP(G, e)

\* add_q, mult_q and mult_p of the values of a function
AddQ(f) == FoldFunction(LAMBDA x, y : (x + y) % Q, 0, f)
MultQ(f) == FoldFunction(LAMBDA x, y : (x * y) % Q, 1, f)
MultP(f) == FoldFunction(LAMBDA x, y : (x * y) % P, 1, f)

\* gmpy2's invert
InverseQ(b) == CHOOSE x \in ElementModQ : (b * x) % Q = 1
DivQ(a, b) == (a * InverseQ(b)) % Q

\* The elements of order dividing Q (is_valid_residue).
Residues == {x \in ElementModP : PowP(x, Q) = 1}

\* The generator is one of them (2^r mod p, for the standard constants).
ASSUME GeneratorAssumption == GPowP(Q) = 1

\* Q is a prime: every element but zero has an inverse.
ASSUME PrimeAssumption ==
  \A a \in 1 .. Q - 1 : \E b \in ElementModQ : (a * b) % Q = 1
=============================================================================

--------------------------- MODULE ElectionProofs ---------------------------
(***************************************************************************)
(* Proofs about the decryption of an election, for any number of guardians *)
(* and ballots, any quorum and any calls: DecryptionMediator, called in any*)
(* order; DecryptionCeremony; CombineService, what it answers to any       *)
(* request; and ClientElection, when the answer counts an election whose   *)
(* guardians keep their own keys and which private keys come back from     *)
(* storage.                                                                *)
(***************************************************************************)
EXTENDS ClientElection, DecryptionCeremony, FiniteSetTheorems, TLAPS

(***************************************************************************)
(* The mediator, called in any order.                                      *)
(***************************************************************************)

LEMMA SharesAreTyped ==
  /\ NoShare \in Shares
  /\ OwnShare \in Shares
  /\ \A parts, over \in SUBSET Guardians : Reconstructed(parts, over) \in Shares
BY DEF NoShare, OwnShare, Reconstructed, Shares

\* The three kinds of share are never taken for one another.
LEMMA KindsAreDistinct ==
  /\ NoShare # OwnShare
  /\ \A parts, over : /\ Reconstructed(parts, over) # NoShare
                      /\ Reconstructed(parts, over) # OwnShare
BY DEF NoShare, OwnShare, Reconstructed

\* What is reconstructed for an item replaces absent shares only.
LEMMA ReconstructStep ==
  ASSUME TypeOK, NEW i \in Items, Reconstruct(i)
  PROVE  \E ms \in SUBSET (ToReconstruct(i)) :
           /\ \A m \in ms : ~Raises(i, m)
           /\ shares' = WithReconstructed(i, ms)
           /\ \A j \in Items, g \in Guardians :
                shares'[j][g] = IF j = i /\ g \in ms
                                  THEN Reconstructed(Parts(i, g), available)
                                  ELSE shares[j][g]
           /\ \A m \in ms : shares[i][m] = NoShare
<1>1. PICK ms \in SUBSET (ToReconstruct(i) \ {m \in ToReconstruct(i) : Raises(i, m)}) :
        shares' = WithReconstructed(i, ms)
  BY DEF Reconstruct, Failing
<1>2. \A m \in ms : ~Raises(i, m) /\ shares[i][m] = NoShare
  BY <1>1 DEF ToReconstruct
<1>3. \A j \in Items, g \in Guardians :
        shares'[j][g] = IF j = i /\ g \in ms
                          THEN Reconstructed(Parts(i, g), available)
                          ELSE shares[j][g]
  BY <1>1 DEF WithReconstructed, TypeOK
<1>4. QED
  BY <1>1, <1>2, <1>3

LEMMA MediatorTypeStep == TypeOK /\ [Next]_vars => TypeOK'
<1> SUFFICES ASSUME TypeOK, [Next]_vars PROVE TypeOK'
  OBVIOUS
<1>1. ASSUME NEW g \in Guardians, NEW bs \in SUBSET Ballots, Announce(g, bs)
      PROVE  TypeOK'
  BY <1>1, SharesAreTyped DEF Announce, TypeOK
<1>2. ASSUME NEW g \in Guardians, AnnounceMissing(g) PROVE TypeOK'
  BY <1>2 DEF AnnounceMissing, TypeOK
<1>3. ASSUME NEW gs \in SUBSET Guardians, ValidateMissing(gs) PROVE TypeOK'
  BY <1>3 DEF ValidateMissing, TypeOK
<1>4. ASSUME NEW g \in Guardians, NEW m \in Guardians, NEW i \in Items,
             ReceiveCompensation(g, m, i)
      PROVE  TypeOK'
  BY <1>4 DEF ReceiveCompensation, TypeOK, Pairs
<1>5. ASSUME NEW i \in Items, Reconstruct(i) PROVE TypeOK'
  <2>1. PICK ms \in SUBSET (ToReconstruct(i)) : shares' = WithReconstructed(i, ms)
    BY <1>5, ReconstructStep
  <2>2. \A g \in Guardians : Reconstructed(Parts(i, g), available) \in Shares
    BY SharesAreTyped DEF Parts, TypeOK
  <2>3. shares' \in [Items -> [Guardians -> Shares]]
    BY <2>1, <2>2 DEF WithReconstructed, TypeOK
  <2>4. QED
    BY <1>5, <2>3 DEF Reconstruct, TypeOK
<1>6. ASSUME NEW i \in Items, GetPlaintext(i) PROVE TypeOK'
  BY <1>6 DEF GetPlaintext, TypeOK
<1>7. CASE UNCHANGED vars
  BY <1>7 DEF vars, TypeOK
<1>8. QED
  BY <1>1, <1>2, <1>3, <1>4, <1>5, <1>6, <1>7 DEF Next

\* The mediator's dictionaries stay well formed, whatever is called.
THEOREM MediatorTypeCorrect == Spec => []TypeOK
<1>1. Init => TypeOK
  BY SharesAreTyped DEF Init, TypeOK
<1>2. QED
  BY <1>1, MediatorTypeStep, PTL DEF Spec

\* A guardian is never both available and missing.
Apart == available \intersect missing = {}

LEMMA ApartStep == Apart /\ [Next]_vars => Apart'
<1> SUFFICES ASSUME Apart, [Next]_vars PROVE Apart'
  OBVIOUS
<1>1. ASSUME NEW g \in Guardians, NEW bs \in SUBSET Ballots, Announce(g, bs)
      PROVE  Apart'
  BY <1>1 DEF Announce, Apart
<1>2. ASSUME NEW g \in Guardians, AnnounceMissing(g) PROVE Apart'
  BY <1>2 DEF AnnounceMissing, Apart
<1>3. ASSUME NEW gs \in SUBSET Guardians, ValidateMissing(gs) PROVE Apart'
  BY <1>3 DEF ValidateMissing, Apart
<1>4. CASE UNCHANGED <<available, missing>>
  BY <1>4 DEF Apart
<1>5. QED
  BY <1>1, <1>2, <1>3, <1>4
     DEF Next, ReceiveCompensation, Reconstruct, GetPlaintext, vars

\* Two disjoint sets of guardians that together count as many as there are
\* guardians hold every guardian.
LEMMA ApartCountsMeanAll ==
  ASSUME TypeOK, Apart,
         Cardinality(available) + Cardinality(missing) = NumberOfGuardians
  PROVE  available \union missing = Guardians
<1>1. /\ IsFiniteSet(available) /\ IsFiniteSet(missing)
      /\ available \union missing \in SUBSET Guardians
  BY FS_Subset, GuardiansAssumption DEF TypeOK
<1>2. /\ Cardinality(available \union missing)
           = Cardinality(available) + Cardinality(missing)
               - Cardinality(available \intersect missing)
  BY <1>1, FS_Union
<1>3. Cardinality(available \intersect missing) = 0
  BY FS_EmptySet DEF Apart
<1>4. Cardinality(available) \in Nat /\ Cardinality(missing) \in Nat
  BY <1>1, FS_CardinalityType
<1>5. Cardinality(available \union missing) = Cardinality(Guardians)
  BY <1>2, <1>3, <1>4 DEF NumberOfGuardians
<1>6. QED
  BY <1>1, <1>5, FS_Subset, GuardiansAssumption

\* announcement_complete compares counts; they account for every guardian.
THEOREM CountsAccountForAll == Spec => []EveryoneAccountedFor
<1>1. Init => Apart
  BY DEF Init, Apart
<1>2. TypeOK /\ Apart => EveryoneAccountedFor
  BY ApartCountsMeanAll DEF EveryoneAccountedFor, AnnouncementComplete, Apart
<1>3. QED
  BY <1>1, <1>2, ApartStep, MediatorTypeCorrect, PTL DEF Spec

LEMMA OwnSharesStep ==
  TypeOK /\ [Next]_vars =>
    \A i \in Items, g \in Guardians :
      shares[i][g] = OwnShare => shares'[i][g] = OwnShare
<1> SUFFICES ASSUME TypeOK, [Next]_vars, NEW i \in Items, NEW g \in Guardians,
                    shares[i][g] = OwnShare
             PROVE  shares'[i][g] = OwnShare
  OBVIOUS
<1>1. ASSUME NEW h \in Guardians, NEW bs \in SUBSET Ballots, Announce(h, bs)
      PROVE  shares'[i][g] = OwnShare
  BY <1>1 DEF Announce, TypeOK
<1>2. ASSUME NEW j \in Items, Reconstruct(j) PROVE shares'[i][g] = OwnShare
  BY <1>2, ReconstructStep, KindsAreDistinct
<1>3. CASE UNCHANGED shares
  BY <1>3
<1>4. QED
  BY <1>1, <1>2, <1>3
     DEF Next, AnnounceMissing, ValidateMissing, ReceiveCompensation, GetPlaintext, vars

\* No reconstruction replaces the share a guardian computed itself.
THEOREM OwnSharesSurvive == Spec => OwnSharesKept
<1>1. TypeOK /\ [Next]_vars =>
        [\A i \in Items, g \in Guardians :
           shares[i][g] = OwnShare => shares'[i][g] = OwnShare]_vars
  BY OwnSharesStep
<1>2. QED
  BY <1>1, MediatorTypeCorrect, PTL DEF Spec, OwnSharesKept

(***************************************************************************)
(* The ceremony of the orchestrator, beside other callers.  Unless it is   *)
(* disturbed, the guardians available when a share is combined are the     *)
(* ones the orchestrator was given, each of which has been asked about     *)
(* everyone else; so a reconstructed share is true, and later              *)
(* announcements change neither it nor the coefficients it was made with.  *)
(***************************************************************************)

\* Where the orchestrator is, and what has come in by then.
Exchanged ==
  /\ attending \subseteq Guardians
  /\ toExchange \subseteq attending \X Guardians
  /\ \A i \in Items : \A p \in compensated[i] : p[1] \in attending
  /\ toCombine # {} => available \subseteq attending \union outsiders
  /\ stage = "exchange" =>
       /\ attending \subseteq available
       /\ \A p \in toExchange : p[1] # p[2]
       /\ \A g \in attending, m \in Guardians \ available :
            \/ <<g, m>> \in toExchange \union withheld
            \/ \A i \in Items : <<g, m>> \in compensated[i]
  /\ stage = "announcement" => toExchange = {}

SharesAreTrue ==
  \A i \in Items, g \in Guardians : shares[i][g] = NoShare \/ IsTrue(shares[i][g])

\* What was decrypted once will be decrypted again.
DecryptedStays ==
  \A i \in Items : plaintext[i] = "decrypted" =>
    \A g \in Guardians : shares[i][g] # NoShare /\ IsTrue(shares[i][g])

CeremonyInv ==
  /\ TypeOK
  /\ Apart
  /\ Exchanged
  /\ Disturbed \/ SharesAreTrue
  /\ DecryptedStays
  /\ NeverGarbage

LEMMA CeremonyInvInit == CeremonyInit => CeremonyInv
<1> SUFFICES ASSUME CeremonyInit PROVE CeremonyInv
  OBVIOUS
<1>1. TypeOK
  BY SharesAreTyped DEF CeremonyInit, Init, TypeOK
<1>2. Exchanged
  BY DEF CeremonyInit, Init, Exchanged
<1>3. QED
  BY <1>1, <1>2
     DEF CeremonyInit, Init, CeremonyInv, Apart, SharesAreTrue, DecryptedStays, NeverGarbage

\* The actions of the ceremony, told apart.
LEMMA CeremonySteps ==
  ASSUME attending \subseteq Guardians, [CeremonyNext]_ceremonyVars
  PROVE  \/ \E g \in Guardians, bs \in SUBSET Ballots : AnnounceOne(g, bs)
         \/ ReportOthers
         \/ \E g \in Guardians, m \in Guardians : Exchange(g, m)
         \/ \E i \in Items : Combine(i)
         \/ \E g \in Guardians : AnnounceMissing(g) /\ UNCHANGED ceremony
         \/ \E gs \in SUBSET Guardians : ValidateMissing(gs) /\ UNCHANGED ceremony
         \/ \E i \in Items : GetPlaintext(i) /\ UNCHANGED ceremony
         \/ UNCHANGED ceremonyVars
BY DEF CeremonyNext, Orchestrator, Others

\* An announcement gives true shares only, and takes none away.
LEMMA AnnouncedSharesAreTrue ==
  ASSUME TypeOK, NEW g \in Guardians, NEW bs \in SUBSET Ballots, Announce(g, bs)
  PROVE  \A i \in Items, h \in Guardians :
           \/ shares'[i][h] = shares[i][h]
           \/ shares'[i][h] # NoShare /\ IsTrue(shares'[i][h])
<1>1. \A i \in Items, h \in Guardians :
        shares'[i][h] = shares[i][h] \/ shares'[i][h] = OwnShare
  BY DEF Announce, TypeOK
<1>2. IsTrue(OwnShare)
  BY DEF IsTrue, OwnShare
<1>3. QED
  BY <1>1, <1>2, KindsAreDistinct

\* A share that is combined in an undisturbed ceremony is true.
LEMMA CombinedIsTrue ==
  ASSUME CeremonyInv, NEW i \in Items, Combine(i), ~Disturbed,
         NEW m \in missing, ~Raises(i, m)
  PROVE  IsTrue(Reconstructed(Parts(i, m), available))
<1>1. Parts(i, m) \subseteq available
  BY DEF Raises
<1>2. available = attending
  BY DEF CeremonyInv, Exchanged, Combine, CombineNext, Disturbed
<1>3. m \in Guardians \ available
  BY DEF CeremonyInv, Apart, TypeOK
<1>4. \A g \in attending : <<g, m>> \in compensated[i]
  BY <1>3 DEF CeremonyInv, Exchanged, Combine, CombineNext, Disturbed
<1>5. available \subseteq Parts(i, m)
  BY <1>2, <1>4 DEF Parts, CeremonyInv, Exchanged
<1>6. ~(Cardinality(available) < Quorum)
  BY <1>2 DEF Disturbed
<1>7. Cardinality(available) \in Nat
  BY FS_Subset, FS_CardinalityType, GuardiansAssumption DEF CeremonyInv, TypeOK
<1>8. Cardinality(available) >= Quorum
  BY <1>6, <1>7, FS_CardinalityType, GuardiansAssumption
<1>9. QED
  BY <1>1, <1>5, <1>8 DEF IsTrue, Reconstructed

\* A disturbance cannot be undone.
LEMMA DisturbedStays ==
  ASSUME attending \subseteq Guardians, [CeremonyNext]_ceremonyVars, Disturbed
  PROVE  Disturbed'
<1>1. attending' = attending /\ withheld \subseteq withheld' /\ outsiders \subseteq outsiders'
  BY CeremonySteps
     DEF AnnounceOne, ReportOthers, Exchange, Combine, CombineNext, ceremony, ceremonyVars
<1>2. QED
  BY <1>1 DEF Disturbed

LEMMA CeremonyTypeStep == CeremonyInv /\ [CeremonyNext]_ceremonyVars => TypeOK' /\ Apart'
<1> SUFFICES ASSUME CeremonyInv, [CeremonyNext]_ceremonyVars PROVE TypeOK' /\ Apart'
  OBVIOUS
<1>0. TypeOK /\ Apart /\ attending \subseteq Guardians
  BY DEF CeremonyInv, Exchanged
<1>1. ASSUME [Next]_vars PROVE TypeOK' /\ Apart'
  BY <1>0, <1>1, MediatorTypeStep, ApartStep
<1>2. ASSUME NEW g \in Guardians, NEW bs \in SUBSET Ballots, AnnounceOne(g, bs)
      PROVE  [Next]_vars
  BY <1>2 DEF AnnounceOne, Next
<1>3. CASE ReportOthers
  BY <1>0, <1>3 DEF ReportOthers, TypeOK, Apart
<1>4. ASSUME NEW g \in Guardians, NEW m \in Guardians, Exchange(g, m)
      PROVE  TypeOK' /\ Apart'
  <2>1. <<g, m>> \in Pairs
    BY <1>4 DEF Exchange, CeremonyInv, Exchanged, Pairs
  <2>2. compensated' \in [Items -> SUBSET Pairs]
    BY <1>0, <1>4, <2>1 DEF Exchange, TypeOK
  <2>3. QED
    BY <1>0, <1>4, <2>2 DEF Exchange, TypeOK, Apart
<1>5. ASSUME NEW i \in Items, Combine(i) PROVE [Next]_vars
  BY <1>5 DEF Combine, CombineNext, Next
<1>6. ASSUME NEW g \in Guardians, AnnounceMissing(g) PROVE [Next]_vars
  BY <1>6 DEF Next
<1>7. ASSUME NEW gs \in SUBSET Guardians, ValidateMissing(gs) PROVE [Next]_vars
  BY <1>7 DEF Next
<1>8. ASSUME NEW i \in Items, GetPlaintext(i) PROVE [Next]_vars
  BY <1>8 DEF Next
<1>9. ASSUME UNCHANGED ceremonyVars PROVE [Next]_vars
  BY <1>9 DEF ceremonyVars, vars
<1>10. QED
  BY <1>0, <1>1, <1>2, <1>3, <1>4, <1>5, <1>6, <1>7, <1>8, <1>9, CeremonySteps

LEMMA ExchangedStep == CeremonyInv /\ [CeremonyNext]_ceremonyVars => Exchanged'
<1> SUFFICES ASSUME CeremonyInv, [CeremonyNext]_ceremonyVars PROVE Exchanged'
  OBVIOUS
<1>0. TypeOK /\ Apart /\ Exchanged
  BY DEF CeremonyInv
<1>1. ASSUME NEW g \in Guardians, NEW bs \in SUBSET Ballots, AnnounceOne(g, bs)
      PROVE  Exchanged'
  BY <1>0, <1>1 DEF AnnounceOne, Announce, Exchanged
<1>2. CASE ReportOthers
  <2>1. Guardians \ available \subseteq missing'
    BY <1>2 DEF ReportOthers
  <2>2. \A g \in attending, m \in Guardians \ available : <<g, m>> \in toExchange'
    BY <1>2, <2>1 DEF ReportOthers, ToAsk
  <2>3. \A p \in toExchange' : p \in attending \X Guardians /\ p[1] # p[2]
    BY <1>0, <1>2 DEF ReportOthers, ToAsk, TypeOK, Apart
  <2>4. QED
    BY <1>0, <1>2, <2>2, <2>3 DEF ReportOthers, Exchanged
<1>3. ASSUME NEW g \in Guardians, NEW m \in Guardians, Exchange(g, m) PROVE Exchanged'
  <2>1. g \in attending
    BY <1>0, <1>3 DEF Exchange, Exchanged
  <2>2. \A i \in Items : compensated[i] \subseteq compensated'[i]
    BY <1>0, <1>3 DEF Exchange, TypeOK
  <2>3. \A i \in Items : \A p \in compensated'[i] : p[1] \in attending
    BY <1>0, <1>3, <2>1 DEF Exchange, Exchanged
  <2>4. <<g, m>> \in withheld' \/ \A i \in Items : <<g, m>> \in compensated'[i]
    BY <1>3 DEF Exchange
  <2>5. \A h \in attending, n \in Guardians \ available :
          \/ <<h, n>> \in toExchange' \union withheld'
          \/ \A i \in Items : <<h, n>> \in compensated'[i]
    BY <1>0, <1>3, <2>2, <2>4 DEF Exchange, Exchanged
  <2>6. QED
    BY <1>0, <1>3, <2>3, <2>5 DEF Exchange, Exchanged
<1>4. ASSUME NEW i \in Items, Combine(i) PROVE Exchanged'
  BY <1>0, <1>4 DEF Combine, CombineNext, Reconstruct, Exchanged
<1>5. ASSUME UNCHANGED <<available, compensated, ceremony>> PROVE Exchanged'
  BY <1>0, <1>5 DEF ceremony, Exchanged
<1>6. attending \subseteq Guardians
  BY <1>0 DEF Exchanged
<1>7. QED
  BY <1>1, <1>2, <1>3, <1>4, <1>5, <1>6, CeremonySteps
     DEF AnnounceMissing, ValidateMissing, GetPlaintext, ceremonyVars, ceremony

LEMMA SharesTrueStep ==
  CeremonyInv /\ [CeremonyNext]_ceremonyVars => Disturbed' \/ SharesAreTrue'
<1> SUFFICES ASSUME CeremonyInv, [CeremonyNext]_ceremonyVars, ~Disturbed'
             PROVE  SharesAreTrue'
  OBVIOUS
<1>0. TypeOK /\ attending \subseteq Guardians
  BY DEF CeremonyInv, Exchanged
<1>1. ~Disturbed /\ SharesAreTrue
  BY <1>0, DisturbedStays DEF CeremonyInv
<1>2. ASSUME NEW g \in Guardians, NEW bs \in SUBSET Ballots, AnnounceOne(g, bs)
      PROVE  SharesAreTrue'
  <2>1. \A i \in Items, h \in Guardians :
          shares'[i][h] = shares[i][h] \/ IsTrue(shares'[i][h])
    BY <1>0, <1>2, AnnouncedSharesAreTrue DEF AnnounceOne
  <2>2. QED
    BY <1>1, <2>1 DEF SharesAreTrue, IsTrue
<1>3. ASSUME NEW i \in Items, Combine(i) PROVE SharesAreTrue'
  <2>1. PICK ms \in SUBSET (ToReconstruct(i)) :
          /\ \A m \in ms : ~Raises(i, m)
          /\ \A j \in Items, g \in Guardians :
               shares'[j][g] = IF j = i /\ g \in ms
                                 THEN Reconstructed(Parts(i, g), available)
                                 ELSE shares[j][g]
    BY <1>0, <1>3, ReconstructStep DEF Combine, CombineNext
  <2>2. \A m \in ms : IsTrue(Reconstructed(Parts(i, m), available))
    <3>1. ms \subseteq missing
      BY <2>1 DEF ToReconstruct
    <3>2. QED
      BY <1>1, <1>3, <2>1, <3>1, CombinedIsTrue
  <2>3. QED
    BY <1>1, <2>1, <2>2 DEF SharesAreTrue, IsTrue
<1>4. CASE UNCHANGED shares
  BY <1>1, <1>4 DEF SharesAreTrue, IsTrue
<1>5. QED
  BY <1>0, <1>2, <1>3, <1>4, CeremonySteps
     DEF ReportOthers, Exchange, AnnounceMissing, ValidateMissing, GetPlaintext, ceremonyVars

\* What _ready_to_decrypt counts: as many shares as guardians is one of each.
LEMMA ReadyMeansAll ==
  ASSUME TypeOK, NEW i \in Items, ReadyToDecrypt(i)
  PROVE  Present(i) = Guardians
<1>1. Present(i) \in SUBSET Guardians
  BY DEF Present
<1>2. Cardinality(Present(i)) = Cardinality(Guardians)
  BY DEF ReadyToDecrypt, NumberOfGuardians
<1>3. QED
  BY <1>1, <1>2, FS_Subset, GuardiansAssumption

LEMMA DecryptedStep == CeremonyInv /\ [CeremonyNext]_ceremonyVars => DecryptedStays'
<1> SUFFICES ASSUME CeremonyInv, [CeremonyNext]_ceremonyVars,
                    NEW i \in Items, plaintext'[i] = "decrypted", NEW g \in Guardians
             PROVE  shares'[i][g] # NoShare /\ IsTrue(shares'[i][g])
  BY DEF DecryptedStays, IsTrue
<1>0. TypeOK /\ attending \subseteq Guardians
  BY DEF CeremonyInv, Exchanged
<1>1. ASSUME plaintext[i] = "decrypted"
      PROVE  shares[i][g] # NoShare /\ IsTrue(shares[i][g])
  BY <1>1 DEF CeremonyInv, DecryptedStays
<1>2. ASSUME NEW h \in Guardians, NEW bs \in SUBSET Ballots, AnnounceOne(h, bs)
      PROVE  shares'[i][g] # NoShare /\ IsTrue(shares'[i][g])
  <2>1. plaintext' = plaintext
    BY <1>2 DEF AnnounceOne, Announce
  <2>2. \/ shares'[i][g] = shares[i][g]
        \/ shares'[i][g] # NoShare /\ IsTrue(shares'[i][g])
    BY <1>0, <1>2, AnnouncedSharesAreTrue DEF AnnounceOne
  <2>3. QED
    BY <1>1, <2>1, <2>2 DEF IsTrue
<1>3. ASSUME NEW j \in Items, Combine(j)
      PROVE  shares'[i][g] # NoShare /\ IsTrue(shares'[i][g])
  <2>1. plaintext' = plaintext
    BY <1>3 DEF Combine, CombineNext, Reconstruct
  <2>2. shares'[i][g] = shares[i][g] \/ shares[i][g] = NoShare
    BY <1>0, <1>3, ReconstructStep DEF Combine, CombineNext
  <2>3. QED
    BY <1>1, <2>1, <2>2 DEF IsTrue
<1>4. ASSUME NEW j \in Items, GetPlaintext(j)
      PROVE  shares'[i][g] # NoShare /\ IsTrue(shares'[i][g])
  <2>1. CASE j = i
    <3>1. \A h \in Present(i) : IsTrue(shares[i][h])
      BY <1>0, <1>4, <2>1 DEF GetPlaintext, TypeOK
    <3>2. g \in Present(i)
      BY <1>0, <1>4, <2>1, ReadyMeansAll DEF GetPlaintext
    <3>3. QED
      BY <1>4, <3>1, <3>2 DEF Present, GetPlaintext, IsTrue
  <2>2. CASE j # i
    <3>1. plaintext[i] = "decrypted"
      BY <1>0, <1>4, <2>2 DEF GetPlaintext, TypeOK
    <3>2. QED
      BY <1>1, <1>4, <3>1 DEF GetPlaintext, IsTrue
  <2>3. QED
    BY <2>1, <2>2
<1>5. CASE UNCHANGED <<shares, plaintext>>
  BY <1>1, <1>5 DEF IsTrue
<1>6. QED
  BY <1>0, <1>2, <1>3, <1>4, <1>5, CeremonySteps
     DEF ReportOthers, Exchange, AnnounceMissing, ValidateMissing, ceremonyVars

LEMMA GarbageStep == CeremonyInv /\ [CeremonyNext]_ceremonyVars => NeverGarbage'
<1> SUFFICES ASSUME CeremonyInv, [CeremonyNext]_ceremonyVars,
                    NEW i \in Items, plaintext'[i] = "garbage"
             PROVE  Disturbed'
  BY DEF NeverGarbage
<1>0. TypeOK /\ attending \subseteq Guardians
  BY DEF CeremonyInv, Exchanged
<1>1. ASSUME plaintext[i] = "garbage" PROVE Disturbed'
  BY <1>0, <1>1, DisturbedStays DEF CeremonyInv, NeverGarbage
<1>2. ASSUME NEW j \in Items, GetPlaintext(j) PROVE Disturbed'
  <2>1. CASE j = i
    <3>1. ~(\A h \in Present(i) : IsTrue(shares[i][h]))
      BY <1>0, <1>2, <2>1 DEF GetPlaintext, TypeOK
    <3>2. ~SharesAreTrue
      BY <3>1 DEF SharesAreTrue, Present
    <3>3. QED
      BY <1>0, <3>2, DisturbedStays DEF CeremonyInv
  <2>2. CASE j # i
    <3>1. plaintext[i] = "garbage"
      BY <1>0, <1>2, <2>2 DEF GetPlaintext, TypeOK
    <3>2. QED
      BY <1>1, <3>1
  <2>3. QED
    BY <2>1, <2>2
<1>3. CASE UNCHANGED plaintext
  BY <1>1, <1>3
<1>4. QED
  BY <1>0, <1>2, <1>3, CeremonySteps
     DEF AnnounceOne, Announce, ReportOthers, Exchange, Combine, CombineNext, Reconstruct,
         AnnounceMissing, ValidateMissing, ceremonyVars

LEMMA CeremonyInvStep == CeremonyInv /\ [CeremonyNext]_ceremonyVars => CeremonyInv'
BY CeremonyTypeStep, ExchangedStep, SharesTrueStep, DecryptedStep, GarbageStep DEF CeremonyInv

\* A wrong plaintext comes out of the orchestrator's ceremony only when it was
\* given too few guardians, one of them returned None for a share, or someone
\* else announced before the shares were combined.
THEOREM CeremonyIsExact == CeremonySpec => []NeverGarbage
<1>1. CeremonyInv => NeverGarbage
  BY DEF CeremonyInv
<1>2. QED
  BY <1>1, CeremonyInvInit, CeremonyInvStep, PTL DEF CeremonySpec

LEMMA CeremonyStepRefines ==
  CeremonyInv /\ [CeremonyNext]_ceremonyVars => [Threshold!Next]_(Threshold!vars)
<1> SUFFICES ASSUME CeremonyInv, [CeremonyNext]_ceremonyVars
             PROVE  \/ Threshold!Next
                    \/ UNCHANGED <<available, plaintext, Disturbed>>
  BY DEF Threshold!vars
<1>0. TypeOK /\ attending \subseteq Guardians
  BY DEF CeremonyInv, Exchanged
<1>1. Disturbed => Disturbed'
  BY <1>0, DisturbedStays
<1>2. ASSUME NEW g \in Guardians, NEW bs \in SUBSET Ballots, AnnounceOne(g, bs)
      PROVE  Threshold!Next
  <2>1. Threshold!Join(g)
    BY <1>1, <1>2 DEF AnnounceOne, Announce, Threshold!Join
  <2>2. QED
    BY <2>1 DEF Threshold!Next
<1>3. ASSUME UNCHANGED <<available, plaintext>>
      PROVE  Threshold!Next \/ UNCHANGED <<available, plaintext, Disturbed>>
  <2>1. CASE Disturbed'
    BY <1>3, <2>1 DEF Threshold!Next, Threshold!Disturb
  <2>2. CASE ~Disturbed'
    <3>1. (Disturbed' <=> Disturbed)
      BY <1>1, <2>2, Zenon
    <3>2. Disturbed' = Disturbed
      BY <3>1, Zenon DEF Disturbed
    <3>3. QED
      BY <1>3, <3>2
  <2>3. QED
    BY <2>1, <2>2
<1>4. ASSUME NEW i \in Items, GetPlaintext(i), UNCHANGED ceremony PROVE Threshold!Next
  <2>1. Threshold!QuorumIsPresent
    BY <1>0, <1>4
       DEF GetPlaintext, AnnouncementComplete, Quorums, TypeOK, Threshold!QuorumIsPresent
  <2>2. Disturbed' = Disturbed
    BY <1>4 DEF ceremony, Disturbed
  <2>3. CASE \A g \in Present(i) : IsTrue(shares[i][g])
    <3>1. Threshold!Open(i)
      BY <1>4, <2>1, <2>2, <2>3 DEF GetPlaintext, Threshold!Open
    <3>2. QED
      BY <3>1 DEF Threshold!Next
  <2>4. CASE ~(\A g \in Present(i) : IsTrue(shares[i][g]))
    <3>1. Disturbed
      BY <2>4 DEF CeremonyInv, SharesAreTrue, Present
    <3>2. plaintext[i] # "decrypted"
      BY <2>4 DEF CeremonyInv, DecryptedStays, Present
    <3>3. Threshold!Spoil(i)
      BY <1>4, <2>1, <2>2, <2>4, <3>1, <3>2 DEF GetPlaintext, Threshold!Spoil
    <3>4. QED
      BY <3>3 DEF Threshold!Next
  <2>5. QED
    BY <2>3, <2>4
<1>5. QED
  BY <1>0, <1>2, <1>3, <1>4, CeremonySteps
     DEF ReportOthers, Exchange, Combine, CombineNext, Reconstruct,
         AnnounceMissing, ValidateMissing, ceremonyVars

\* The ceremony implements threshold decryption: nothing is opened before a
\* quorum has come forward, an undisturbed ceremony opens the true content, and
\* what was opened truly is never spoiled afterwards.
THEOREM CeremonyRefinesThreshold == CeremonySpec => OpensByQuorum
<1>1. CeremonyInit => Threshold!Init
  BY DEF CeremonyInit, Init, Threshold!Init, Disturbed
<1>2. QED
  BY <1>1, CeremonyInvInit, CeremonyInvStep, CeremonyStepRefines, PTL
     DEF CeremonySpec, OpensByQuorum, Threshold!Spec

(***************************************************************************)
(* The service.  Its mediator only ever holds what the request has brought *)
(* in so far, and until an exception ends the request every share in it    *)
(* is the one the request calls for.                                       *)
(***************************************************************************)

\* Before a request nothing has happened to the mediator.
Idle ==
  /\ available = {} /\ missing = {} /\ reconstructed = {} /\ answer = "none"
  /\ \A i \in Items : compensated[i] = {}
  /\ \A i \in Items, g \in Guardians : shares[i][g] = NoShare

\* A guardian does not compensate for itself.
Sensible ==
  /\ request \in Requests
  /\ \A m \in Missing : m \notin request.by[m]

Underway ==
  /\ available \subseteq request.available
  /\ missing \subseteq Missing
  /\ missing # {} => available = request.available
  /\ available # {} \/ missing # {} => Enough
  /\ \A i \in Items : \A p \in compensated[i] :
       p[2] \in Missing /\ p[1] \in request.by[p[2]]
  /\ reconstructed # {} => AllReceived

\* Nobody compensated who is not available.
Within == \A m \in Missing : request.by[m] \subseteq request.available

Expected(i, g) ==
  IF g \in available THEN OwnShare
  ELSE IF i \in reconstructed /\ g \in Missing
  THEN Reconstructed(request.by[g], request.available)
  ELSE NoShare

\* As long as no exception was raised.
Smooth ==
  answer = "none" =>
    /\ reconstructed # {} => Within
    /\ \A i \in Items, g \in Guardians : shares[i][g] = Expected(i, g)

ServiceInv ==
  /\ TypeOK
  /\ reconstructed \subseteq Items
  /\ request = NoRequest => Idle
  /\ request # NoRequest => Sensible /\ Underway /\ Smooth
  /\ AnswerAsRequested

LEMMA RequestIsTyped ==
  ASSUME request \in Requests
  PROVE  /\ request.available \subseteq Guardians
         /\ request.by \in [Missing -> SUBSET Guardians]
         /\ Missing \subseteq Guardians
<1>1. PICK as \in SUBSET Guardians :
        request \in [available : {as}, by : [Guardians \ as -> SUBSET Guardians]]
  BY DEF Requests
<1>2. request.available = as /\ request.by \in [Guardians \ as -> SUBSET Guardians]
  BY <1>1
<1>3. QED
  BY <1>2 DEF Missing

LEMMA SomeGuardian == Guardians # {}
BY GuardiansAssumption, FS_EmptySet

LEMMA CountsAreNumbers ==
  ASSUME NEW S \in SUBSET Guardians
  PROVE  Cardinality(S) \in Nat /\ IsFiniteSet(S)
BY GuardiansAssumption, FS_Subset, FS_CardinalityType

\* Once everyone is reported the request is one with enough shares.
LEMMA ReportedIsEnough ==
  ASSUME Sensible, Underway, AllReported
  PROVE  Enough
BY SomeGuardian, RequestIsTyped DEF Sensible, Underway, AllReported, Missing

\* After every share was received the parts of a missing guardian's share are
\* exactly those the request has.
LEMMA PartsAreRequested ==
  ASSUME TypeOK, Sensible, Underway, AllReceived, NEW i \in Items, NEW m \in Missing
  PROVE  Parts(i, m) = request.by[m]
<1>1. request.by[m] \in SUBSET Guardians /\ m \in Guardians
  BY RequestIsTyped DEF Sensible
<1>2. Parts(i, m) \subseteq request.by[m]
  BY DEF Parts, Underway
<1>3. request.by[m] \subseteq Parts(i, m)
  BY <1>1 DEF Parts, AllReceived
<1>4. QED
  BY <1>2, <1>3

-----------------------------------------------------------------------------
(* What each step of the service does to the parts of the invariant. *)

LEMMA RefuseStep ==
  ASSUME ServiceInv, request # NoRequest, Refuse
  PROVE  ServiceInv'
<1>0. TypeOK' /\ request' = request /\ reconstructed' = reconstructed
  BY DEF ServiceInv, Refuse, TypeOK, vars
<1>1. Sensible' /\ Underway' /\ Smooth'
  BY DEF ServiceInv, Refuse, vars, Sensible, Missing, Underway, Smooth, Enough,
         AllReceived, AllReported
<1>2. AnswerAsRequested'
  <2>1. Sensible
    BY DEF ServiceInv
  <2>2. Cardinality(request.available) \in Nat /\ Quorum \in Nat
    BY <2>1, RequestIsTyped, CountsAreNumbers, GuardiansAssumption DEF Sensible
  <2>3. \/ Cardinality(request.available) < Quorum
        \/ \E m \in Missing : request.by[m] = {}
    BY <2>2 DEF Refuse, Enough
  <2>4. answer' = "error" /\ Missing' = Missing
    BY <1>0 DEF Refuse, Missing
  <2>5. QED
    BY <1>0, <2>3, <2>4 DEF AnswerAsRequested
<1>3. QED
  BY <1>0, <1>1, <1>2 DEF ServiceInv

LEMMA AnnounceStep ==
  ASSUME ServiceInv, request # NoRequest, NEW g \in Guardians, AnnounceAvailable(g)
  PROVE  ServiceInv'
<1>0. /\ request' = request /\ reconstructed' = reconstructed /\ answer' = answer
      /\ answer = "none" /\ Enough /\ g \in request.available /\ g \notin available
      /\ available' = available \union {g} /\ missing' = missing \ {g}
      /\ compensated' = compensated
  BY DEF AnnounceAvailable, Announce
<1>1. TypeOK'
  BY MediatorTypeStep DEF ServiceInv, AnnounceAvailable, Next
<1>2. TypeOK /\ Sensible /\ Underway /\ Smooth /\ reconstructed \subseteq Items
  BY DEF ServiceInv
<1>3. missing = {} /\ reconstructed = {}
  <2>1. missing = {}
    BY <1>0, <1>2 DEF Underway
  <2>2. ~AllReceived
    BY <1>0 DEF AllReceived, AllReported
  <2>3. QED
    BY <1>2, <2>1, <2>2 DEF Underway
<1>4. Sensible' /\ Underway'
  BY <1>0, <1>2, <1>3 DEF Sensible, Missing, Underway, Enough
<1>5. Smooth'
  <2>1. \A i \in Items, h \in Guardians :
          shares'[i][h] = IF h = g THEN OwnShare ELSE shares[i][h]
    BY <1>2 DEF AnnounceAvailable, Announce, TypeOK, Items
  <2>2. QED
    BY <1>0, <1>2, <1>3, <2>1 DEF Smooth, Expected
<1>6. QED
  BY <1>0, <1>1, <1>2, <1>4, <1>5 DEF ServiceInv, AnswerAsRequested

LEMMA MissingStep ==
  ASSUME ServiceInv, request # NoRequest, NEW g \in Guardians, ReportMissing(g)
  PROVE  ServiceInv'
<1>0. /\ request' = request /\ reconstructed' = reconstructed /\ answer' = answer
      /\ answer = "none" /\ Enough /\ g \in Missing /\ g \notin missing
      /\ available = request.available
      /\ available' = available /\ missing' = missing \union {g}
      /\ compensated' = compensated /\ shares' = shares
  BY DEF ReportMissing, AnnounceMissing
<1>1. TypeOK'
  BY MediatorTypeStep DEF ServiceInv, ReportMissing, Next
<1>2. TypeOK /\ Sensible /\ Underway /\ Smooth /\ reconstructed \subseteq Items
  BY DEF ServiceInv
<1>3. reconstructed = {}
  BY <1>0, <1>2 DEF Underway, AllReceived, AllReported
<1>4. Sensible' /\ Underway'
  BY <1>0, <1>2, <1>3 DEF Sensible, Missing, Underway, Enough
<1>5. Smooth'
  BY <1>0, <1>2, <1>3 DEF Smooth, Expected
<1>6. QED
  BY <1>0, <1>1, <1>2, <1>4, <1>5 DEF ServiceInv, AnswerAsRequested

LEMMA ReceiveStep ==
  ASSUME ServiceInv, request # NoRequest, NEW g \in Guardians, NEW m \in Guardians,
         NEW i \in Items, Receive(g, m, i)
  PROVE  ServiceInv'
<1>0. /\ request' = request /\ reconstructed' = reconstructed /\ answer' = answer
      /\ answer = "none" /\ m \in Missing /\ g \in request.by[m]
      /\ <<g, m>> \notin compensated[i]
      /\ available' = available /\ missing' = missing /\ shares' = shares
      /\ compensated' = [compensated EXCEPT ![i] = @ \union {<<g, m>>}]
  BY DEF Receive, ReceiveCompensation
<1>1. TypeOK'
  BY MediatorTypeStep DEF ServiceInv, Receive, Next
<1>2. TypeOK /\ Sensible /\ Underway /\ Smooth /\ reconstructed \subseteq Items
  BY DEF ServiceInv
<1>3. reconstructed = {}
  BY <1>0, <1>2 DEF Underway, AllReceived
<1>4. \A j \in Items : \A p \in compensated'[j] : p \in compensated[j] \/ p = <<g, m>>
  BY <1>0, <1>2 DEF TypeOK
<1>5. \A j \in Items : \A p \in compensated'[j] :
        p[2] \in Missing /\ p[1] \in request.by[p[2]]
  BY <1>0, <1>2, <1>4 DEF Underway
<1>6. Sensible' /\ Underway'
  BY <1>0, <1>2, <1>3, <1>5 DEF Sensible, Missing, Underway, Enough
<1>7. Smooth'
  BY <1>0, <1>2, <1>3 DEF Smooth, Expected
<1>8. QED
  BY <1>0, <1>1, <1>2, <1>6, <1>7 DEF ServiceInv, AnswerAsRequested

\* Whoever compensates without being available raises an exception, and nobody
\* else does.
LEMMA ExceptionsAreRequested ==
  ASSUME TypeOK, Sensible, Underway, AllReceived, NEW i \in Items, NEW m \in Missing
  PROVE  Raises(i, m) <=> ~(request.by[m] \subseteq request.available)
<1>1. Parts(i, m) = request.by[m]
  BY PartsAreRequested
<1>2. available = request.available
  BY DEF AllReceived, AllReported
<1>3. compensated[i] # {}
  <2>1. request.by[m] # {}
    BY ReportedIsEnough DEF AllReceived, Enough
  <2>2. QED
    BY <1>1, <2>1 DEF Parts
<1>4. QED
  BY <1>1, <1>2, <1>3 DEF Raises

\* What is left to reconstruct of an item are the shares of all missing guardians.
LEMMA AllMissingToReconstruct ==
  ASSUME TypeOK, Sensible, Underway, AllReceived, Smooth, answer = "none",
         NEW i \in Items, i \notin reconstructed
  PROVE  ToReconstruct(i) = Missing
<1>1. available = request.available /\ missing = Missing
  BY DEF AllReceived, AllReported
<1>2. \A g \in Guardians : shares[i][g] = IF g \in available THEN OwnShare ELSE NoShare
  BY DEF Smooth, Expected
<1>3. \A m \in Missing : m \in Guardians /\ m \notin available
  BY <1>1 DEF Missing
<1>4. {m \in missing : shares[i][m] = NoShare} = Missing
  BY <1>1, <1>2, <1>3
<1>5. Present(i) = {} => Missing = {}
  <2>1. SUFFICES ASSUME Present(i) = {}, Missing # {} PROVE FALSE
    OBVIOUS
  <2>2. Enough
    BY ReportedIsEnough DEF AllReceived
  <2>3. available = {}
    BY <1>2, <2>1, KindsAreDistinct DEF Present, TypeOK
  <2>4. Cardinality({}) >= Quorum
    BY <1>1, <2>2, <2>3 DEF Enough
  <2>5. QED
    BY <2>4, FS_EmptySet, GuardiansAssumption
<1>6. QED
  BY <1>4, <1>5 DEF ToReconstruct

LEMMA ReconstructItemStep ==
  ASSUME ServiceInv, request # NoRequest, NEW i \in Items, ReconstructItem(i)
  PROVE  ServiceInv'
<1>0. /\ request' = request /\ reconstructed' = reconstructed \union {i}
      /\ answer = "none" /\ AllReceived /\ i \notin reconstructed
      /\ available' = available /\ missing' = missing /\ compensated' = compensated
  BY DEF ReconstructItem, Reconstruct
<1>1. TypeOK'
  BY MediatorTypeStep DEF ServiceInv, ReconstructItem, Next
<1>2. TypeOK /\ Sensible /\ Underway /\ Smooth /\ reconstructed \subseteq Items
  BY DEF ServiceInv
<1>3. ToReconstruct(i) = Missing
  BY <1>0, <1>2, AllMissingToReconstruct
<1>4. (\E m \in Missing : Raises(i, m)) <=> ~Within
  BY <1>0, <1>2, ExceptionsAreRequested DEF Within
<1>5. AllReceived' /\ Missing' = Missing
  BY <1>0 DEF AllReceived, AllReported, Missing
<1>6. Sensible' /\ Underway'
  BY <1>0, <1>2, <1>5 DEF Sensible, Underway, Enough
<1>7. CASE ~Within
  <2>1. answer' = "error"
    BY <1>3, <1>4, <1>7 DEF ReconstructItem
  <2>2. Smooth'
    BY <2>1 DEF Smooth
  <2>3. AnswerAsRequested'
    BY <1>0, <1>5, <1>7, <2>1 DEF AnswerAsRequested, Within
  <2>4. QED
    BY <1>0, <1>1, <1>2, <1>6, <2>2, <2>3 DEF ServiceInv
<1>8. CASE Within
  <2>1. answer' = "none"
    BY <1>0, <1>3, <1>4, <1>8 DEF ReconstructItem
  <2>2. {m \in ToReconstruct(i) : Raises(i, m)} = {}
    BY <1>3, <1>4, <1>8
  <2>3. shares' = WithReconstructed(i, Missing)
    BY <1>3, <2>2 DEF ReconstructItem, Reconstruct, Failing
  <2>4. \A j \in Items, g \in Guardians :
          shares'[j][g] = IF j = i /\ g \in Missing
                            THEN Reconstructed(Parts(i, g), available) ELSE shares[j][g]
    BY <1>2, <2>3 DEF WithReconstructed, TypeOK
  <2>5. \A m \in Missing : Parts(i, m) = request.by[m]
    BY <1>0, <1>2, PartsAreRequested
  <2>6. available = request.available
    BY <1>0 DEF AllReceived, AllReported
  <2>7. \A j \in Items, g \in Guardians : shares'[j][g] = Expected(j, g)'
    BY <1>0, <1>2, <1>5, <2>4, <2>5, <2>6 DEF Smooth, Expected, Missing
  <2>8. Within'
    BY <1>0, <1>5, <1>8 DEF Within
  <2>9. Smooth' /\ AnswerAsRequested'
    BY <2>1, <2>7, <2>8 DEF Smooth, AnswerAsRequested
  <2>10. QED
    BY <1>0, <1>1, <1>2, <1>6, <2>9 DEF ServiceInv
<1>9. QED
  BY <1>7, <1>8

\* When everything is reconstructed the mediator has a share of every guardian.
LEMMA EveryShareIsThere ==
  ASSUME TypeOK, Sensible, Underway, AllReceived, Smooth, answer = "none",
         Tally \in reconstructed
  PROVE  /\ Within
         /\ AnnouncementComplete
         /\ ReadyToDecrypt(Tally)
         /\ (\A g \in Present(Tally) : IsTrue(shares[Tally][g]))
              <=> \A m \in Missing : request.by[m] = request.available
<1>1. /\ available = request.available /\ missing = Missing
      /\ available \in SUBSET Guardians /\ missing = Guardians \ available
  BY DEF AllReceived, AllReported, Missing, TypeOK
<1>2. Cardinality(available) >= Quorum
  BY <1>1, ReportedIsEnough DEF AllReceived, Enough
<1>3. Cardinality(available) + Cardinality(missing) = NumberOfGuardians
  <2>1. /\ IsFiniteSet(available) /\ IsFiniteSet(missing)
        /\ Cardinality(available) \in Nat /\ Cardinality(missing) \in Nat
    BY <1>1, CountsAreNumbers
  <2>2. available \intersect missing = {} /\ available \union missing = Guardians
    BY <1>1
  <2>3. Cardinality(available \union missing)
          = Cardinality(available) + Cardinality(missing)
              - Cardinality(available \intersect missing)
    BY <2>1, FS_Union
  <2>4. /\ Cardinality(available \intersect missing) = 0
        /\ Cardinality(available \union missing) = Cardinality(Guardians)
    BY <2>2, FS_EmptySet
  <2>5. QED
    BY <2>1, <2>3, <2>4 DEF NumberOfGuardians
<1>4. \A g \in Guardians :
        shares[Tally][g] = IF g \in available THEN OwnShare
                           ELSE Reconstructed(request.by[g], available)
  BY <1>1 DEF Smooth, Expected, Items, Missing
<1>5. Present(Tally) = Guardians
  BY <1>4, KindsAreDistinct DEF Present
<1>6. IsTrue(OwnShare)
  BY DEF IsTrue, OwnShare
<1>7. \A parts : IsTrue(Reconstructed(parts, available)) <=> parts = available
  BY <1>2 DEF IsTrue, Reconstructed
<1>8. (\A g \in Present(Tally) : IsTrue(shares[Tally][g]))
        <=> \A m \in Missing : request.by[m] = request.available
  BY <1>1, <1>4, <1>5, <1>6, <1>7 DEF Missing
<1>9. Within
  BY DEF Smooth
<1>10. QED
  BY <1>2, <1>3, <1>5, <1>8, <1>9
     DEF AnnouncementComplete, ReadyToDecrypt, NumberOfGuardians

LEMMA AnswerStep ==
  ASSUME ServiceInv, request # NoRequest, Answer
  PROVE  ServiceInv'
<1>0. answer = "none" /\ reconstructed = Items /\ Tally \in Items
  BY DEF Answer, Items
<1>1. TypeOK /\ Sensible /\ Underway /\ Smooth
  BY <1>0 DEF ServiceInv
<1>2. AllReceived
  BY <1>0, <1>1 DEF Underway
<1>3. /\ Within /\ AnnouncementComplete /\ ReadyToDecrypt(Tally)
      /\ (\A g \in Present(Tally) : IsTrue(shares[Tally][g]))
           <=> \A m \in Missing : request.by[m] = request.available
  BY <1>0, <1>1, <1>2, EveryShareIsThere
<1>4. GetPlaintext(Tally) /\ answer' = plaintext'[Tally]
      /\ request' = request /\ reconstructed' = reconstructed
  BY <1>3 DEF Answer
<1>5. TypeOK'
  BY <1>0, <1>1, <1>4, MediatorTypeStep DEF Next
<1>6. answer' = IF \A m \in Missing : request.by[m] = request.available
                THEN "decrypted" ELSE "garbage"
  BY <1>0, <1>1, <1>3, <1>4 DEF GetPlaintext, TypeOK
<1>7. Missing' = Missing /\ available' = available /\ missing' = missing
      /\ compensated' = compensated /\ shares' = shares
  BY <1>4 DEF Missing, GetPlaintext
<1>8. Sensible' /\ Underway' /\ Smooth'
  BY <1>1, <1>4, <1>6, <1>7
     DEF Sensible, Underway, Smooth, Enough, AllReceived, AllReported
<1>9. AnswerAsRequested'
  <2>1. Enough
    BY <1>1, <1>2, ReportedIsEnough DEF AllReceived
  <2>2. Cardinality(request.available) \in Nat /\ Quorum \in Nat
    BY <1>1, RequestIsTyped, CountsAreNumbers, GuardiansAssumption DEF Sensible
  <2>3. ~(Cardinality(request.available) < Quorum)
    BY <2>1, <2>2 DEF Enough
  <2>4. \A m \in Missing : request.by[m] # {} /\ request.by[m] \subseteq request.available
    BY <2>1, <1>3 DEF Enough, Within
  <2>5. QED
    BY <1>4, <1>6, <1>7, <2>3, <2>4 DEF AnswerAsRequested
<1>10. QED
  BY <1>0, <1>4, <1>5, <1>8, <1>9 DEF ServiceInv

LEMMA ServiceStep ==
  ASSUME ServiceInv, request # NoRequest, ServiceNext
  PROVE  ServiceInv'
BY RefuseStep, AnnounceStep, MissingStep, ReceiveStep, ReconstructItemStep, AnswerStep
   DEF ServiceNext

-----------------------------------------------------------------------------
(***************************************************************************)
(* Credentials.  What opens is what was encrypted: data and credentials    *)
(* have to be two parts of one encryption, and the master key the one of   *)
(* that time.                                                              *)
(***************************************************************************)

\* The HMAC is computed over all fields but itself.
LEMMA UnsignedIsFields ==
  ASSUME NEW p, NEW password, NEW master
  PROVE  LET c == EncryptIt(p, password, master).credentials
         IN  /\ c.hmac_tag = Hmac(CombinedKey(password, p, p), Unsigned(c))
             /\ c.salt = p /\ c.pq_private_key = p /\ c.pq_ciphertext = p /\ c.nonce = p
             /\ c.encrypted_password = [key |-> master, plain |-> password]
<1> DEFINE fields == [salt |-> p, pq_private_key |-> p, pq_ciphertext |-> p, nonce |-> p,
                      encrypted_password |-> [key |-> master, plain |-> password]]
           names == DOMAIN fields
           tag == Hmac(CombinedKey(password, p, p), fields)
           c == [field \in names \union {"hmac_tag"} |->
                   IF field = "hmac_tag" THEN tag ELSE fields[field]]
<1>1. EncryptIt(p, password, master).credentials = c
  BY DEF EncryptIt
<1>2. names = {"salt", "pq_private_key", "pq_ciphertext", "nonce", "encrypted_password"}
  OBVIOUS
<1>3. "hmac_tag" \notin names /\ fields = [field \in names |-> fields[field]]
  BY <1>2
<1>4. /\ c.salt = p /\ c.pq_private_key = p /\ c.pq_ciphertext = p /\ c.nonce = p
      /\ c.encrypted_password = [key |-> master, plain |-> password]
      /\ c.hmac_tag = tag
  BY <1>2
<1>5. Unsigned(c) = fields
  <2> HIDE DEF fields, names, tag
  <2>1. DOMAIN c = names \union {"hmac_tag"}
    OBVIOUS
  <2>2. DOMAIN c \ {"hmac_tag"} = names
    BY <1>3, <2>1
  <2>3. \A field \in names : c[field] = fields[field]
    BY <1>3
  <2> HIDE DEF c
  <2>4. Unsigned(c) = [field \in names |-> fields[field]]
    BY <2>2, <2>3 DEF Unsigned
  <2>5. QED
    BY <1>3, <2>4
<1>6. QED
  BY <1>1, <1>4, <1>5

LEMMA MasterKeyIsNoted ==
  ASSUME NEW p, NEW password, NEW master
  PROVE  EncryptIt(p, password, master).credentials.encrypted_password.key = master
<1> DEFINE c == EncryptIt(p, password, master).credentials
<1>1. c.encrypted_password = [key |-> master, plain |-> password]
  BY UnsignedIsFields
<1> HIDE DEF c
<1>2. c.encrypted_password.key = master
  BY <1>1
<1>3. QED
  BY <1>2 DEF c

\* Data of one encryption and credentials of another.
LEMMA OpensByItsOwn ==
  ASSUME NEW p, NEW q, NEW password, NEW m, NEW n, NEW master
  PROVE  DecryptIt(EncryptIt(p, password, m).data, EncryptIt(q, password, n).credentials,
                   master)
           = IF p = q /\ n = master
             THEN [status |-> "success", private_key |-> p] ELSE Failed
<1> DEFINE c == EncryptIt(q, password, n).credentials
           d == EncryptIt(p, password, m).data
<1>1. d.key = CombinedKey(password, p, p) /\ d.nonce = p /\ d.plain = p
  BY DEF EncryptIt
<1>2. /\ c.hmac_tag = Hmac(CombinedKey(password, q, q), Unsigned(c))
      /\ c.salt = q /\ c.pq_private_key = q /\ c.pq_ciphertext = q /\ c.nonce = q
      /\ c.encrypted_password = [key |-> n, plain |-> password]
  BY UnsignedIsFields
<1> HIDE DEF c, d
<1>3. CombinedKey(c.encrypted_password.plain, c.salt,
                  SharedSecret(c.pq_private_key, c.pq_ciphertext))
        = CombinedKey(password, q, q)
  BY <1>2 DEF SharedSecret
<1>4. c.encrypted_password.key = n
  BY <1>2
<1>5. CombinedKey(password, p, p) = CombinedKey(password, q, q) <=> p = q
  BY DEF CombinedKey
<1>6. DecryptIt(d, c, master) = IF p = q /\ n = master
                                 THEN [status |-> "success", private_key |-> p] ELSE Failed
  BY <1>1, <1>2, <1>3, <1>4, <1>5 DEF DecryptIt
<1>7. QED
  BY <1>6 DEF c, d

(***************************************************************************)
(* The guardians' own data.  Backups a guardian holds are none, those it   *)
(* has sent since it got its key, or those /setup_guardians handed out.    *)
(* Hence a backup that opens holds a coordinate of the key its owner has,  *)
(* or of the ceremony's key while that is the joint one.                   *)
(***************************************************************************)
Keys == Guardians \X Nat
Coordinates == [polynomial : Keys, at : Guardians]
Backups == {NoBackup} \union [key : Keys, coordinate : Coordinates]

ClientType ==
  /\ guardian_data \in [Guardians -> [key : Nat, backups : [Guardians -> Backups]]]
  /\ stored = [g \in Guardians |-> stored[g]]
  /\ joint \in [Guardians -> Nat]
  /\ environment \in BOOLEAN
  /\ process \in Nat

\* To the others, at the keys they had published.
HasSent(g) ==
  \A x \in Guardians \ {g} : \E k \in Nat :
    guardian_data[g].backups[x] =
      [key |-> <<x, k>>, coordinate |-> Coordinate(g, guardian_data[g].key, x)]

HandedOut(g) ==
  /\ guardian_data[g].key = 1
  /\ \A x \in Guardians : joint[x] = 1
  /\ \A x \in Guardians \ {g} :
       guardian_data[g].backups[x] = [key |-> <<g, 1>>, coordinate |-> Coordinate(x, 1, g)]

BackupsInv == \A g \in Guardians : SentNothing(g) \/ HasSent(g) \/ HandedOut(g)

\* The private key in storage is that of the guardian's present key.
StoredInv ==
  \A g \in Guardians :
    guardian_data[g].key # NoKey =>
      \E master \in Nat :
        /\ stored[g] = EncryptIt(<<g, guardian_data[g].key>>, "password", master)
        /\ environment => master = 0

\* The shares of a request were computed when it was sent, after the keys were combined.
RequestInv ==
  request # NoRequest =>
    /\ joint # NoJoint
    /\ \A m \in Missing : \A a \in request.by[m] :
         a # m /\ CreateCompensatedDecryption(a, m) # NoCoordinate

ElectionInv == ServiceInv /\ ClientType /\ BackupsInv /\ StoredInv /\ RequestInv

LEMMA CoordinatesAreTyped ==
  /\ NoBackup \in Backups
  /\ \A g, x \in Guardians, k, l \in Nat :
       [key |-> <<x, l>>, coordinate |-> Coordinate(g, k, x)] \in Backups
BY DEF Backups, Keys, Coordinates, Coordinate, NoBackup

LEMMA NothingIsDistinct ==
  /\ \A key, coordinate : [key |-> key, coordinate |-> coordinate] # NoBackup
  /\ \A g, k, x : Coordinate(g, k, x) # NoCoordinate
  /\ \A g, k, l, x : Coordinate(g, k, x) = Coordinate(g, l, x) <=> k = l
BY DEF NoBackup, NoCoordinate, Coordinate

\* A backup made for another guardian does not open.
LEMMA OnlyRecipientOpens ==
  ASSUME NEW a \in Guardians, NEW x \in Guardians, a # x, NEW k, NEW l, NEW c
  PROVE  DecryptBackup([key |-> <<x, k>>, coordinate |-> c], a, l) = NoCoordinate
BY DEF DecryptBackup

\* What /setup_guardians hands out to m are coordinates of the others.
LEMMA HandedOutIsUseless ==
  ASSUME NEW m \in Guardians, NEW a \in Guardians \ {m}, HandedOut(m)
  PROVE  CreateCompensatedDecryption(a, m) = NoCoordinate
<1>1. guardian_data[m].backups[a] = [key |-> <<m, 1>>, coordinate |-> Coordinate(a, 1, m)]
  BY DEF HandedOut
<1>2. guardian_data[m].backups[a] # NoBackup
  BY <1>1, NothingIsDistinct
<1>3. BackupFor(a, m) = [key |-> <<m, 1>>, coordinate |-> Coordinate(a, 1, m)]
  BY <1>1, <1>2 DEF BackupFor
<1>4. QED
  BY <1>3, OnlyRecipientOpens DEF CreateCompensatedDecryption

\* A compensated share is one of the joint key exactly if the missing guardian
\* has kept its key or has never sent a backup.
LEMMA CompensatesForKey ==
  ASSUME BackupsInv, NEW m \in Guardians, NEW a \in Guardians \ {m},
         CreateCompensatedDecryption(a, m) # NoCoordinate
  PROVE  CreateCompensatedDecryption(a, m) = Coordinate(m, joint[m], a)
           <=> guardian_data[m].key = joint[m] \/ SentNothing(m)
<1>1. ~HandedOut(m)
  BY HandedOutIsUseless
<1>2. CASE HasSent(m)
  <2>1. PICK k \in Nat :
          guardian_data[m].backups[a] =
            [key |-> <<a, k>>, coordinate |-> Coordinate(m, guardian_data[m].key, a)]
    BY <1>2 DEF HasSent
  <2>2. guardian_data[m].backups[a] # NoBackup
    BY <2>1, NothingIsDistinct
  <2>3. BackupFor(a, m) =
          [key |-> <<a, k>>, coordinate |-> Coordinate(m, guardian_data[m].key, a)]
    BY <2>1, <2>2 DEF BackupFor
  <2>4. CreateCompensatedDecryption(a, m) = Coordinate(m, guardian_data[m].key, a)
    BY <2>3 DEF CreateCompensatedDecryption, DecryptBackup
  <2>5. ~SentNothing(m)
    BY <2>2 DEF SentNothing
  <2>6. QED
    BY <2>4, <2>5, NothingIsDistinct
<1>3. CASE SentNothing(m)
  <2>1. BackupFor(a, m) = guardian_data[a].backups[m]
    BY <1>3 DEF BackupFor, SentNothing
  <2>2. ~SentNothing(a)
    BY <2>1 DEF SentNothing, CreateCompensatedDecryption
  <2>3. ~HasSent(a)
    <3>1. SUFFICES ASSUME HasSent(a) PROVE FALSE
      OBVIOUS
    <3>2. PICK k \in Nat :
            guardian_data[a].backups[m] =
              [key |-> <<m, k>>, coordinate |-> Coordinate(a, guardian_data[a].key, m)]
      BY <3>1 DEF HasSent
    <3>3. QED
      BY <2>1, <3>2, OnlyRecipientOpens DEF CreateCompensatedDecryption
  <2>4. HandedOut(a)
    BY <2>2, <2>3 DEF BackupsInv
  <2>5. BackupFor(a, m) = [key |-> <<a, 1>>, coordinate |-> Coordinate(m, 1, a)]
    BY <2>1, <2>4 DEF HandedOut
  <2>6. CreateCompensatedDecryption(a, m) = Coordinate(m, 1, a)
    BY <2>5 DEF CreateCompensatedDecryption, DecryptBackup
  <2>7. QED
    BY <1>3, <2>4, <2>6 DEF HandedOut
<1>4. QED
  BY <1>1, <1>2, <1>3 DEF BackupsInv

LEMMA PublicKeysAreTyped ==
  ASSUME NEW gs \in SUBSET Guardians, NEW keys \in PublicKeys(gs)
  PROVE  keys \in [gs -> Nat]
BY ClientAssumption DEF PublicKeys

LEMMA ElectionInvInit == ElectionInit => ElectionInv
<1> SUFFICES ASSUME ElectionInit PROVE ElectionInv
  OBVIOUS
<1>1. TypeOK
  BY SharesAreTyped DEF ElectionInit, Init, TypeOK
<1>2. Idle
  BY DEF ElectionInit, Init, Idle
<1>3. ServiceInv
  BY <1>1, <1>2 DEF ElectionInit, ServiceInv, Idle, AnswerAsRequested
<1>4. \A g \in Guardians :
        guardian_data[g] = [key |-> NoKey, backups |-> [x \in Guardians |-> NoBackup]]
  BY DEF ElectionInit, GenerateGuardianCredentials
<1>5. ClientType
  BY CoordinatesAreTyped
     DEF ElectionInit, ClientType, GenerateGuardianCredentials, NoJoint, NoKey
<1>6. BackupsInv /\ StoredInv
  BY <1>4 DEF BackupsInv, SentNothing, StoredInv
<1>7. RequestInv
  BY DEF ElectionInit, RequestInv
<1>8. QED
  BY <1>3, <1>5, <1>6, <1>7 DEF ElectionInv

\* While no request is out the mediator stays idle.
LEMMA ServiceIdles ==
  ASSUME ServiceInv, UNCHANGED serviceVars
  PROVE  ServiceInv'
BY DEF serviceVars, vars, ServiceInv, TypeOK, Idle, Sensible, Underway, Smooth, Enough,
       AllReceived, AllReported, Missing, Expected, Within, AnswerAsRequested

\* Data of a guardian that did not change, and of a service that still has its key.
LEMMA MasterKeyIsTyped ==
  ASSUME ClientType
  PROVE  /\ MasterKey(environment, process) \in Nat
         /\ environment => MasterKey(environment, process) = 0
BY DEF ClientType, MasterKey

LEMMA BackupsReplaced ==
  ASSUME NEW k, NEW old, NEW new
  PROVE  LET data == [[key |-> k, backups |-> old] EXCEPT !.backups = new]
         IN  data.key = k /\ data.backups = new /\ data = [key |-> k, backups |-> new]
OBVIOUS

\* /setup_guardians hands out to everyone the coordinates of the others.
LEMMA SetupHandsOut ==
  ASSUME SetupGuardians
  PROVE  /\ guardian_data' \in [Guardians -> [key : Nat, backups : [Guardians -> Backups]]]
         /\ \A g \in Guardians : guardian_data'[g].key = 1 /\ HandedOut(g)'
<1> DEFINE sent == [g \in Guardians |->
             GenerateGuardianBackupShares(g, GenerateGuardianCredentials(1),
                                          [x \in Guardians \ {g} |-> 1])]
           received == [g \in Guardians |-> [x \in Guardians |-> sent[x].backups[g]]]
<1>2. guardian_data' = [g \in Guardians |-> [sent[g] EXCEPT !.backups = received[g]]]
  BY DEF SetupGuardians, SetupGuardiansService
<1>3. \A g \in Guardians :
        sent[g] = [key |-> 1,
                   backups |-> [x \in Guardians |->
                      IF x # g THEN [key |-> <<x, 1>>, coordinate |-> Coordinate(g, 1, x)]
                               ELSE NoBackup]]
  <2> TAKE g \in Guardians
  <2> DEFINE credentials == GenerateGuardianCredentials(1)
             others == [x \in Guardians \ {g} |-> 1]
             backups == [x \in Guardians |->
                           IF x # g THEN [key |-> <<x, 1>>, coordinate |-> Coordinate(g, 1, x)]
                                    ELSE NoBackup]
  <2>1. credentials = [key |-> 1, backups |-> [x \in Guardians |-> NoBackup]]
    BY DEF GenerateGuardianCredentials
  <2>2. DOMAIN others = Guardians \ {g} /\ \A x \in Guardians \ {g} : others[x] = 1
    OBVIOUS
  <2> HIDE DEF credentials, others
  <2>3. [x \in Guardians |->
           IF x \in DOMAIN others
           THEN [key |-> <<x, others[x]>>, coordinate |-> Coordinate(g, credentials.key, x)]
           ELSE NoBackup] = backups
    BY <2>1, <2>2
  <2>4. GenerateGuardianBackupShares(g, credentials, others)
          = [credentials EXCEPT !.backups = backups]
    BY <2>3 DEF GenerateGuardianBackupShares
  <2>5. QED
    BY <2>1, <2>4 DEF credentials, others
<1> HIDE DEF sent
<1>4. \A g, x \in Guardians :
        received[g][x] = IF g # x THEN [key |-> <<g, 1>>, coordinate |-> Coordinate(x, 1, g)]
                         ELSE NoBackup
  <2> TAKE g, x \in Guardians
  <2>1. received[g][x] = sent[x].backups[g]
    OBVIOUS
  <2>2. sent[x] = [key |-> 1,
                   backups |-> [y \in Guardians |->
                      IF y # x THEN [key |-> <<y, 1>>, coordinate |-> Coordinate(x, 1, y)]
                               ELSE NoBackup]]
    BY <1>3
  <2> HIDE DEF received
  <2>3. sent[x].backups = [y \in Guardians |->
                      IF y # x THEN [key |-> <<y, 1>>, coordinate |-> Coordinate(x, 1, y)]
                               ELSE NoBackup]
    BY <2>2
  <2>4. QED
    BY <2>1, <2>3
<1>5. \A g \in Guardians : received[g] \in [Guardians -> Backups]
  <2> TAKE g \in Guardians
  <2>1. ASSUME NEW x \in Guardians PROVE received[g][x] \in Backups
    <3>1. 1 \in Nat
      OBVIOUS
    <3>2. [key |-> <<g, 1>>, coordinate |-> Coordinate(x, 1, g)] \in Backups
      BY <3>1, CoordinatesAreTyped
    <3>3. QED
      BY <1>4, <3>2, CoordinatesAreTyped
  <2>2. received[g] = [x \in Guardians |-> received[g][x]]
    OBVIOUS
  <2> HIDE DEF received
  <2>3. QED
    BY <2>1, <2>2
<1> HIDE DEF received
<1>6. \A g \in Guardians :
        /\ guardian_data'[g] = [key |-> 1, backups |-> received[g]]
        /\ guardian_data'[g].key = 1 /\ guardian_data'[g].backups = received[g]
  <2> TAKE g \in Guardians
  <2> DEFINE old == [x \in Guardians |->
                       IF x # g THEN [key |-> <<x, 1>>, coordinate |-> Coordinate(g, 1, x)]
                                ELSE NoBackup]
             data == [key |-> 1, backups |-> old]
  <2>1. guardian_data'[g] = [sent[g] EXCEPT !.backups = received[g]]
    BY <1>2
  <2>2. sent[g] = data
    BY <1>3
  <2> HIDE DEF old
  <2>3. guardian_data'[g] = [data EXCEPT !.backups = received[g]]
    BY <2>1, <2>2
  <2>4. QED
    BY <2>3, BackupsReplaced
<1>7. guardian_data' \in [Guardians -> [key : Nat, backups : [Guardians -> Backups]]]
  <2>1. ASSUME NEW g \in Guardians
        PROVE  guardian_data'[g] \in [key : Nat, backups : [Guardians -> Backups]]
    <3>1. guardian_data'[g] = [key |-> 1, backups |-> received[g]]
      BY <1>6
    <3>2. received[g] \in [Guardians -> Backups] /\ 1 \in Nat
      BY <1>5
    <3>3. QED
      BY <3>1, <3>2
  <2>2. guardian_data' = [g \in Guardians |-> guardian_data'[g]]
    BY <1>2
  <2>3. QED
    BY <2>1, <2>2
<1>8. joint' = [g \in Guardians |-> 1]
  BY DEF SetupGuardians
<1>9. ASSUME NEW g \in Guardians PROVE HandedOut(g)'
  <2>1. \A x \in Guardians \ {g} :
          guardian_data'[g].backups[x] =
            [key |-> <<g, 1>>, coordinate |-> Coordinate(x, 1, g)]
    <3>1. guardian_data'[g].backups = received[g]
      BY <1>6
    <3>2. \A x \in Guardians \ {g} :
            received[g][x] = [key |-> <<g, 1>>, coordinate |-> Coordinate(x, 1, g)]
      BY <1>4
    <3>3. QED
      BY <3>1, <3>2
  <2>2. guardian_data'[g].key = 1 /\ \A x \in Guardians : joint'[x] = 1
    BY <1>6, <1>8
  <2>3. QED
    BY <2>1, <2>2 DEF HandedOut, Coordinate
<1>10. QED
  BY <1>6, <1>7, <1>9

LEMMA SetupStep ==
  ASSUME ElectionInv, SetupGuardians
  PROVE  ElectionInv'
<1>1. ServiceInv' /\ RequestInv'
  BY ServiceIdles DEF SetupGuardians, ElectionInv, RequestInv, serviceVars
<1>2. joint' \in [Guardians -> Nat]
  BY DEF SetupGuardians
<1>3. ClientType'
  BY <1>2, SetupHandsOut DEF SetupGuardians, ElectionInv, ClientType
<1>4. BackupsInv'
  BY SetupHandsOut DEF BackupsInv
<1>5. StoredInv'
  <2>1. \A g \in Guardians :
          stored'[g] = EncryptIt(<<g, 1>>, "password", MasterKey(environment, process))
    BY DEF SetupGuardians, Store
  <2>2. environment' = environment
    BY DEF SetupGuardians
  <2>3. /\ MasterKey(environment, process) \in Nat
        /\ environment => MasterKey(environment, process) = 0
    BY MasterKeyIsTyped DEF ElectionInv
  <2> DEFINE master == MasterKey(environment, process)
  <2> HIDE DEF master
  <2>4. ASSUME NEW g \in Guardians
        PROVE  /\ stored'[g] = EncryptIt(<<g, guardian_data'[g].key>>, "password", master)
               /\ environment' => master = 0
    BY <2>1, <2>2, <2>3, SetupHandsOut DEF master
  <2>5. master \in Nat
    BY <2>3 DEF master
  <2>6. QED
    BY <2>4, <2>5 DEF StoredInv
<1>6. QED
  BY <1>1, <1>3, <1>4, <1>5 DEF ElectionInv

\* Only g's own data change, and only their backups or all of them with a new key.
LEMMA OneGuardianStep ==
  ASSUME ElectionInv, request = NoRequest, UNCHANGED <<serviceVars, joint, environment, process>>,
         NEW g \in Guardians, NEW data \in [key : Nat, backups : [Guardians -> Backups]],
         guardian_data' = [guardian_data EXCEPT ![g] = data],
         SentNothing(g)' \/ HasSent(g)',
         stored' = [x \in Guardians |-> stored'[x]],
         StoredInv'
  PROVE  ElectionInv'
<1>1. ServiceInv' /\ RequestInv'
  BY ServiceIdles DEF ElectionInv, RequestInv, serviceVars
<1>2. ClientType'
  BY DEF ElectionInv, ClientType
<1>3. BackupsInv'
  <2>1. \A x \in Guardians \ {g} : guardian_data'[x] = guardian_data[x]
    BY DEF ElectionInv, ClientType
  <2>2. ASSUME NEW x \in Guardians \ {g}
        PROVE  SentNothing(x)' \/ HasSent(x)' \/ HandedOut(x)'
    <3>1. guardian_data'[x] = guardian_data[x] /\ joint' = joint
      BY <2>1
    <3>2. CASE SentNothing(x)
      BY <3>1, <3>2 DEF SentNothing
    <3>3. CASE HasSent(x)
      BY <3>1, <3>3 DEF HasSent
    <3>4. CASE HandedOut(x)
      BY <3>1, <3>4 DEF HandedOut
    <3>5. QED
      BY <3>2, <3>3, <3>4 DEF ElectionInv, BackupsInv
  <2>3. QED
    BY <2>2 DEF BackupsInv
<1>4. QED
  BY <1>1, <1>2, <1>3 DEF ElectionInv

LEMMA CredentialsStep ==
  ASSUME ElectionInv, NEW g \in Guardians, GenerateCredentials(g)
  PROVE  ElectionInv'
<1> DEFINE k == guardian_data[g].key + 1
           data == GenerateGuardianCredentials(k)
<1>1. k \in Nat /\ k # NoKey
  BY DEF ElectionInv, ClientType, NoKey
<1>2. /\ request = NoRequest
      /\ UNCHANGED <<serviceVars, joint, environment, process>>
      /\ guardian_data' = [guardian_data EXCEPT ![g] = data]
      /\ stored' = [stored EXCEPT ![g] = Store(g, k)]
  BY DEF GenerateCredentials
<1> HIDE DEF k
<1>3. data \in [key : Nat, backups : [Guardians -> Backups]]
      /\ data.key = k /\ \A x \in Guardians : data.backups[x] = NoBackup
  BY <1>1, CoordinatesAreTyped DEF GenerateGuardianCredentials
<1> HIDE DEF data
<1>4. guardian_data'[g] = data /\ \A x \in Guardians \ {g} : guardian_data'[x] = guardian_data[x]
  BY <1>2 DEF ElectionInv, ClientType
<1>5. SentNothing(g)'
  BY <1>3, <1>4 DEF SentNothing
<1>6. StoredInv'
  <2>1. stored'[g] = Store(g, k) /\ \A x \in Guardians \ {g} : stored'[x] = stored[x]
    BY <1>2 DEF ElectionInv, ClientType
  <2>2. guardian_data'[g].key = k /\ environment' = environment
    BY <1>2, <1>3, <1>4
  <2>3. /\ MasterKey(environment, process) \in Nat
        /\ environment => MasterKey(environment, process) = 0
    BY MasterKeyIsTyped DEF ElectionInv
  <2> DEFINE master == MasterKey(environment, process)
  <2> HIDE DEF master
  <2>4. master \in Nat /\ (environment' => master = 0)
    BY <2>2, <2>3 DEF master
  <2>5. stored'[g] = EncryptIt(<<g, guardian_data'[g].key>>, "password", master)
    BY <2>1, <2>2 DEF master, Store
  <2>6. QED
    BY <1>4, <2>1, <2>2, <2>4, <2>5 DEF StoredInv, ElectionInv
<1>7. stored' = [x \in Guardians |-> stored'[x]]
  BY <1>2 DEF ElectionInv, ClientType
<1>8. QED
  BY <1>2, <1>3, <1>5, <1>6, <1>7, OneGuardianStep

LEMMA BackupsStep ==
  ASSUME ElectionInv, NEW g \in Guardians, GenerateBackups(g)
  PROVE  ElectionInv'
<1>1. PICK keys \in PublicKeys(Guardians \ {g}) :
        guardian_data' = [guardian_data EXCEPT
                            ![g] = GenerateGuardianBackupShares(g, guardian_data[g], keys)]
  BY DEF GenerateBackups
<1>2. request = NoRequest /\ UNCHANGED <<serviceVars, joint, environment, process, stored>>
  BY DEF GenerateBackups
<1>3. keys \in [Guardians \ {g} -> Nat]
  BY <1>1, PublicKeysAreTyped
<1> DEFINE k == guardian_data[g].key
           shares_of == [x \in Guardians |->
                           IF x \in DOMAIN keys
                           THEN [key |-> <<x, keys[x]>>, coordinate |-> Coordinate(g, k, x)]
                           ELSE NoBackup]
           data == GenerateGuardianBackupShares(g, guardian_data[g], keys)
<1>4. data = [key |-> k, backups |-> shares_of]
  <2> DEFINE old == guardian_data[g].backups
  <2>1. guardian_data[g] = [key |-> k, backups |-> old]
    BY DEF ElectionInv, ClientType
  <2>2. data = [guardian_data[g] EXCEPT !.backups = shares_of]
    BY DEF GenerateGuardianBackupShares
  <2> HIDE DEF old, k, shares_of, data
  <2>3. data = [[key |-> k, backups |-> old] EXCEPT !.backups = shares_of]
    BY <2>1, <2>2
  <2>4. QED
    BY <2>3, BackupsReplaced
<1>5. k \in Nat
  BY DEF ElectionInv, ClientType
<1> HIDE DEF k
<1>6. /\ \A x \in Guardians \ {g} :
           shares_of[x] = [key |-> <<x, keys[x]>>, coordinate |-> Coordinate(g, k, x)]
      /\ shares_of[g] = NoBackup
  BY <1>3
<1>7. shares_of \in [Guardians -> Backups]
  <2>1. \A x \in Guardians : shares_of[x] \in Backups
    BY <1>3, <1>5, <1>6, CoordinatesAreTyped
  <2>2. shares_of = [x \in Guardians |-> shares_of[x]]
    OBVIOUS
  <2> HIDE DEF shares_of
  <2>3. QED
    BY <2>1, <2>2
<1> HIDE DEF shares_of
<1>8. data \in [key : Nat, backups : [Guardians -> Backups]] /\ data.key = k
      /\ data.backups = shares_of
  BY <1>4, <1>5, <1>7
<1>9. guardian_data' = [guardian_data EXCEPT ![g] = data]
  BY <1>1
<1> HIDE DEF data
<1>10. guardian_data'[g] = data /\ \A x \in Guardians \ {g} : guardian_data'[x] = guardian_data[x]
  BY <1>9 DEF ElectionInv, ClientType
<1>11. HasSent(g)'
  <2>1. \A x \in Guardians \ {g} :
          guardian_data'[g].backups[x] =
            [key |-> <<x, keys[x]>>, coordinate |-> Coordinate(g, guardian_data'[g].key, x)]
    BY <1>6, <1>8, <1>10
  <2>2. \A x \in Guardians \ {g} : keys[x] \in Nat
    BY <1>3
  <2>3. QED
    BY <2>1, <2>2 DEF HasSent, Coordinate
<1>12. StoredInv'
  <2>1. \A x \in Guardians : guardian_data'[x].key = guardian_data[x].key
    BY <1>8, <1>10 DEF k
  <2>2. QED
    BY <1>2, <2>1 DEF StoredInv, ElectionInv
<1>13. stored' = [x \in Guardians |-> stored'[x]]
  BY <1>2 DEF ElectionInv, ClientType
<1>14. QED
  BY <1>2, <1>8, <1>9, <1>11, <1>12, <1>13, OneGuardianStep

\* Whatever depends on the guardians' data only.
LEMMA SharesStayAsTheyAre ==
  ASSUME guardian_data' = guardian_data, NEW a \in Guardians, NEW m \in Guardians
  PROVE  CreateCompensatedDecryption(a, m)' = CreateCompensatedDecryption(a, m)
BY DEF CreateCompensatedDecryption, BackupFor, DecryptBackup

LEMMA DataStayAsTheyAre ==
  ASSUME ElectionInv, guardian_data' = guardian_data, joint' = joint \/ joint = NoJoint
  PROVE  BackupsInv'
<1>1. joint = NoJoint => \A x \in Guardians : ~HandedOut(x)
  BY DEF NoJoint, HandedOut, NoKey
<1>2. ASSUME NEW g \in Guardians PROVE SentNothing(g)' \/ HasSent(g)' \/ HandedOut(g)'
  BY <1>1 DEF ElectionInv, BackupsInv, SentNothing, HasSent, HandedOut
<1>3. QED
  BY <1>2 DEF BackupsInv

LEMMA CombineKeysStep ==
  ASSUME ElectionInv, CombinePublicKeys
  PROVE  ElectionInv'
<1>1. joint = NoJoint /\ joint' \in PublicKeys(Guardians)
      /\ UNCHANGED <<serviceVars, guardian_data, stored, environment, process>>
  BY DEF CombinePublicKeys
<1>2. request = NoRequest /\ request' = request
  BY <1>1 DEF ElectionInv, RequestInv, serviceVars
<1>3. ServiceInv' /\ RequestInv'
  BY <1>1, <1>2, ServiceIdles DEF ElectionInv, RequestInv
<1>4. ClientType'
  BY <1>1, PublicKeysAreTyped DEF ElectionInv, ClientType
<1>5. BackupsInv' /\ StoredInv'
  BY <1>1, DataStayAsTheyAre DEF ElectionInv, StoredInv
<1>6. QED
  BY <1>3, <1>4, <1>5 DEF ElectionInv

LEMMA RestartStep ==
  ASSUME ElectionInv, Restart
  PROVE  ElectionInv'
<1>1. request = NoRequest /\ process' = process + 1
      /\ UNCHANGED <<serviceVars, guardian_data, stored, joint, environment>>
  BY DEF Restart
<1>2. ServiceInv' /\ RequestInv'
  BY <1>1, ServiceIdles DEF ElectionInv, RequestInv, serviceVars
<1>3. ClientType' /\ StoredInv'
  BY <1>1 DEF ElectionInv, ClientType, StoredInv
<1>4. BackupsInv'
  BY <1>1, DataStayAsTheyAre
<1>5. QED
  BY <1>2, <1>3, <1>4 DEF ElectionInv

LEMMA SendStep ==
  ASSUME ElectionInv, SendRequest
  PROVE  ElectionInv'
<1>1. /\ request = NoRequest /\ joint # NoJoint
      /\ request' \in Requests
      /\ \A m \in DOMAIN request'.by : request'.by[m] \subseteq Compensating(m)
      /\ UNCHANGED <<vars, reconstructed, answer, clientVars>>
  BY DEF SendRequest
<1>2. Missing' \subseteq Guardians /\ request'.by \in [Missing' -> SUBSET Guardians]
  <2>1. PICK as \in SUBSET Guardians :
          request' \in [available : {as}, by : [Guardians \ as -> SUBSET Guardians]]
    BY <1>1 DEF Requests
  <2>2. request'.available = as /\ request'.by \in [Guardians \ as -> SUBSET Guardians]
    BY <2>1
  <2>3. QED
    BY <2>2 DEF Missing
<1>3. \A m \in Missing' : \A a \in request'.by[m] :
        a \in Guardians /\ a # m /\ CreateCompensatedDecryption(a, m) # NoCoordinate
  BY <1>1, <1>2 DEF Compensating, WithKey
<1>4. guardian_data' = guardian_data /\ joint' = joint /\ stored' = stored
      /\ environment' = environment /\ process' = process
  BY <1>1 DEF clientVars
<1>5. RequestInv'
  BY <1>1, <1>2, <1>3, <1>4, SharesStayAsTheyAre DEF RequestInv, NoCoordinate, NoJoint
<1>6. Idle' /\ TypeOK' /\ reconstructed' \subseteq Items
  BY <1>1 DEF ElectionInv, ServiceInv, Idle, vars, TypeOK
<1>7. Sensible'
  BY <1>1, <1>3 DEF Sensible
<1>8. Underway' /\ Smooth'
  BY <1>6 DEF Idle, Underway, Smooth, Expected
<1>9. ServiceInv'
  BY <1>6, <1>7, <1>8 DEF ServiceInv, Idle, AnswerAsRequested
<1>10. ClientType' /\ StoredInv'
  BY <1>4 DEF ElectionInv, ClientType, StoredInv
<1>11. BackupsInv'
  BY <1>4, DataStayAsTheyAre
<1>12. QED
  BY <1>5, <1>9, <1>10, <1>11 DEF ElectionInv

LEMMA ServeStep ==
  ASSUME ElectionInv, Serve
  PROVE  ElectionInv'
<1>1. request # NoRequest /\ ServiceNext /\ UNCHANGED clientVars
  BY DEF Serve
<1>2. ServiceInv'
  BY <1>1, ServiceStep DEF ElectionInv
<1>3. request' = request
  BY <1>1 DEF ServiceNext, Refuse, AnnounceAvailable, ReportMissing, Receive,
              ReconstructItem, Answer
<1>4. guardian_data' = guardian_data /\ joint' = joint /\ stored' = stored
      /\ environment' = environment /\ process' = process
  BY <1>1 DEF clientVars
<1>5. RequestInv'
  <2>1. Missing' = Missing /\ Missing \subseteq Guardians
        /\ \A m \in Missing : request.by[m] \subseteq Guardians
    BY <1>1, <1>3, RequestIsTyped DEF Missing, ElectionInv, ServiceInv, Sensible
  <2>2. QED
    BY <1>3, <1>4, <2>1, SharesStayAsTheyAre
       DEF ElectionInv, RequestInv, NoCoordinate, NoJoint
<1>6. ClientType' /\ StoredInv'
  BY <1>4 DEF ElectionInv, ClientType, StoredInv
<1>7. BackupsInv'
  BY <1>4, DataStayAsTheyAre
<1>8. QED
  BY <1>2, <1>5, <1>6, <1>7 DEF ElectionInv

LEMMA ElectionInvStep == ElectionInv /\ [ElectionNext]_electionVars => ElectionInv'
<1> SUFFICES ASSUME ElectionInv, [ElectionNext]_electionVars PROVE ElectionInv'
  OBVIOUS
<1>1. CASE UNCHANGED electionVars
  <2>1. UNCHANGED serviceVars /\ request' = request
        /\ guardian_data' = guardian_data /\ joint' = joint /\ stored' = stored
        /\ environment' = environment /\ process' = process
    BY <1>1 DEF electionVars, clientVars, serviceVars
  <2>2. ServiceInv' /\ ClientType' /\ StoredInv'
    BY <2>1, ServiceIdles DEF ElectionInv, ClientType, StoredInv
  <2>3. BackupsInv'
    BY <2>1, DataStayAsTheyAre
  <2>4. RequestInv'
    <3>1. request # NoRequest =>
            /\ Missing' = Missing /\ Missing \subseteq Guardians
            /\ \A m \in Missing : request.by[m] \subseteq Guardians
      BY <2>1, RequestIsTyped DEF Missing, ElectionInv, ServiceInv, Sensible
    <3>2. QED
      BY <2>1, <3>1, SharesStayAsTheyAre DEF ElectionInv, RequestInv, NoCoordinate, NoJoint
  <2>5. QED
    BY <2>2, <2>3, <2>4 DEF ElectionInv
<1>2. QED
  BY <1>1, SetupStep, CredentialsStep, BackupsStep, CombineKeysStep, RestartStep, SendStep,
     ServeStep DEF ElectionNext

LEMMA ElectionInvariant == ElectionSpec => []ElectionInv
BY ElectionInvInit, ElectionInvStep, PTL DEF ElectionSpec

-----------------------------------------------------------------------------
(* The theorems. *)

\* The answer of /combine_decryption_shares depends on the request alone, in the way
\* AnswerAsRequested says: not on the order in which guardians are announced or shares
\* received, nor on the ballots.
THEOREM AnswerIsTheRequests == ElectionSpec => []AnswerAsRequested
<1>1. ElectionInv => AnswerAsRequested
  BY DEF ElectionInv, ServiceInv
<1>2. QED
  BY <1>1, ElectionInvariant, PTL

LEMMA CountedExactly == ElectionInv => ElectionIsCounted
<1> SUFFICES ASSUME ElectionInv,
                    answer # "none", Cardinality(request.available) >= Quorum,
                    \A m \in Missing : request.by[m] = request.available
             PROVE  Result = IF \A g \in Guardians :
                                  guardian_data[g].key = joint[g] \/ (g \in Missing /\ SentNothing(g))
                             THEN "decrypted" ELSE "garbage"
  BY DEF ElectionIsCounted
<1>1. request # NoRequest /\ Sensible /\ AnswerAsRequested
  BY DEF ElectionInv, ServiceInv, Idle
<1>2. request.available \in SUBSET Guardians /\ Missing = Guardians \ request.available
  BY <1>1, RequestIsTyped DEF Sensible, Missing
<1>3. request.available # {} /\ ~(Cardinality(request.available) < Quorum)
  <2>1. Cardinality(request.available) \in Nat /\ Quorum \in Nat /\ Quorum >= 1
    BY <1>2, CountsAreNumbers, GuardiansAssumption
  <2>2. Cardinality({}) = 0
    BY FS_EmptySet
  <2>3. request.available # {}
    BY <2>1, <2>2
  <2>4. QED
    BY <2>1, <2>3
<1>4. answer = "decrypted"
  BY <1>1, <1>3 DEF AnswerAsRequested
<1>5. ASSUME NEW m \in Missing, NEW a \in request.available
      PROVE  CreateCompensatedDecryption(a, m) = Coordinate(m, joint[m], a)
               <=> guardian_data[m].key = joint[m] \/ SentNothing(m)
  <2>1. m \in Guardians /\ a \in Guardians \ {m}
    BY <1>2
  <2>2. CreateCompensatedDecryption(a, m) # NoCoordinate
    BY <1>1 DEF ElectionInv, RequestInv
  <2>3. QED
    BY <2>1, <2>2, CompensatesForKey DEF ElectionInv
<1>6. (\E m \in Missing : \E a \in request.by[m] :
         CreateCompensatedDecryption(a, m) # Coordinate(m, joint[m], a))
        <=> \E m \in Missing : ~(guardian_data[m].key = joint[m] \/ SentNothing(m))
  BY <1>3, <1>5
<1>7. (\A g \in Guardians :
         guardian_data[g].key = joint[g] \/ (g \in Missing /\ SentNothing(g)))
        <=> /\ \A g \in request.available : guardian_data[g].key = joint[g]
            /\ \A m \in Missing : guardian_data[m].key = joint[m] \/ SentNothing(m)
  BY <1>2
<1>8. QED
  BY <1>4, <1>6, <1>7 DEF Result

\* An election whose guardians keep their own keys, generate them again as they like and
\* verify no backup is counted exactly when ElectionIsCounted says so.
THEOREM CountedIfKeysAreKept == ElectionSpec => []ElectionIsCounted
BY CountedExactly, ElectionInvariant, PTL

LEMMA StoredKeysOpen == ElectionInv => KeysComeBack
<1> SUFFICES ASSUME ElectionInv,
                    NEW g \in {x \in Guardians : guardian_data[x].key # NoKey},
                    NEW h \in {x \in Guardians : guardian_data[x].key # NoKey}
             PROVE  LET master == stored[g].credentials.encrypted_password.key
                        back == DecryptIt(stored[g].data, stored[h].credentials,
                                          MasterKey(environment, process))
                    IN  IF g = h /\ (environment \/ master = process)
                        THEN back = [status |-> "success",
                                     private_key |-> <<g, guardian_data[g].key>>]
                        ELSE back = Failed
  BY DEF KeysComeBack
<1> DEFINE p == <<g, guardian_data[g].key>>
           q == <<h, guardian_data[h].key>>
           current == MasterKey(environment, process)
<1>1. PICK m \in Nat : stored[g] = EncryptIt(p, "password", m) /\ (environment => m = 0)
  BY DEF ElectionInv, StoredInv
<1>2. PICK n \in Nat : stored[h] = EncryptIt(q, "password", n) /\ (environment => n = 0)
  BY DEF ElectionInv, StoredInv
<1>3. p = q <=> g = h
  OBVIOUS
<1>4. stored[g].credentials.encrypted_password.key = m
  BY <1>1, MasterKeyIsNoted
<1>5. current = IF environment THEN 0 ELSE process
  BY DEF MasterKey
<1> HIDE DEF p, q, current
<1>6. DecryptIt(stored[g].data, stored[h].credentials, current)
        = IF p = q /\ n = current
          THEN [status |-> "success", private_key |-> p] ELSE Failed
  BY <1>1, <1>2, OpensByItsOwn
<1>7. g = h => m = n
  BY <1>2, <1>4, MasterKeyIsNoted
<1>8. g = h => (n = current <=> environment \/ m = process)
  BY <1>1, <1>5, <1>7
<1>9. QED
  BY <1>3, <1>4, <1>6, <1>8 DEF p, current

\* A stored private key opens exactly when KeysComeBack says so: under the master key of
\* its time, and never with the credentials of somebody else.
THEOREM OnlyOwnKeysComeBack == ElectionSpec => []KeysComeBack
BY StoredKeysOpen, ElectionInvariant, PTL

EveryoneHandedOut == \A m \in Guardians : HandedOut(m)
NobodyCompensates == \A m \in Guardians : Compensating(m) = {}

\* With what /setup_guardians has handed out nobody can compensate for anybody, in
\* any election: what the run SetupBackups finds does not depend on its guardians.
THEOREM SetupNeverCompensates ==
  ElectionSpec => [][SetupGuardians => NobodyCompensates']_electionVars
<1>1. SetupGuardians => EveryoneHandedOut'
  BY SetupHandsOut DEF EveryoneHandedOut
<1>2. EveryoneHandedOut => NobodyCompensates
  BY HandedOutIsUseless DEF EveryoneHandedOut, NobodyCompensates, Compensating, WithKey
<1>3. QED
  BY <1>1, <1>2, PTL

-----------------------------------------------------------------------------
(***************************************************************************)
(* The election as threshold decryption: who comes forward is who still    *)
(* holds the key that was combined, and what is opened is what the client  *)
(* is told when it is the true count.                                      *)
(***************************************************************************)
KeyHolders == {g \in available : guardian_data[g].key = joint[g]}

Counted ==
  [i \in Items |-> IF i = Tally /\ Result = "decrypted" THEN "decrypted" ELSE "none"]

Promise == INSTANCE ThresholdDecryption
  WITH present <- KeyHolders, opened <- Counted, disturbed <- FALSE

\* Until there is a true answer nothing is opened.
LEMMA NothingCounted ==
  ASSUME answer # "decrypted"
  PROVE  Counted = [i \in Items |-> "none"]
BY DEF Counted, Result

\* The clients open nothing and bring nobody forward.
LEMMA ClientsOnlyPrepare ==
  ASSUME ElectionInv, UNCHANGED <<available, answer>>, available = {}, answer = "none"
  PROVE  KeyHolders' = KeyHolders /\ Counted' = Counted
<1>1. KeyHolders = {} /\ KeyHolders' = {}
  BY DEF KeyHolders
<1>2. Counted = [i \in Items |-> "none"]
  BY DEF Counted, Result
<1>3. Counted' = [i \in Items |-> "none"]
  BY DEF Counted, Result
<1>4. QED
  BY <1>1, <1>2, <1>3

\* The service brings guardians forward one by one, and opens the tally.
LEMMA ServeKeepsPromise ==
  ASSUME ElectionInv, ElectionInv', Serve
  PROVE  Promise!Next \/ UNCHANGED <<KeyHolders, Counted>>
<1>1. request # NoRequest /\ ServiceNext /\ guardian_data' = guardian_data /\ joint' = joint
  BY DEF Serve, clientVars
<1>2. answer = "none"
  BY <1>1 DEF ServiceNext, Refuse, AnnounceAvailable, ReportMissing, Receive,
              ReconstructItem, Answer
<1>3. Counted = [i \in Items |-> "none"]
  BY <1>2, NothingCounted
<1>4. ASSUME NEW g \in Guardians, AnnounceAvailable(g)
      PROVE  Promise!Next \/ UNCHANGED <<KeyHolders, Counted>>
  <2>1. available' = available \union {g} /\ answer' = "none"
    BY <1>2, <1>4 DEF AnnounceAvailable, Announce
  <2>2. Counted' = Counted
    BY <1>3, <2>1 DEF Counted, Result
  <2>3. CASE guardian_data[g].key = joint[g]
    <3>1. KeyHolders' = KeyHolders \union {g}
      BY <1>1, <2>1, <2>3 DEF KeyHolders
    <3>2. Promise!Join(g)
      BY <2>2, <3>1 DEF Promise!Join
    <3>3. QED
      BY <3>2 DEF Promise!Next
  <2>4. CASE guardian_data[g].key # joint[g]
    <3>1. KeyHolders' = KeyHolders
      BY <1>1, <2>1, <2>4 DEF KeyHolders
    <3>2. QED
      BY <2>2, <3>1
  <2>5. QED
    BY <2>3, <2>4
<1>5. ASSUME available' = available, answer' # "decrypted"
      PROVE  UNCHANGED <<KeyHolders, Counted>>
  <2>1. KeyHolders' = KeyHolders
    BY <1>1, <1>5 DEF KeyHolders
  <2>2. Counted' = [i \in Items |-> "none"]
    BY <1>5 DEF Counted, Result
  <2>3. QED
    BY <1>3, <2>1, <2>2
<1>6. ASSUME Answer PROVE Promise!Next \/ UNCHANGED <<KeyHolders, Counted>>
  <2>1. reconstructed = Items /\ Tally \in Items /\ ServiceInv
    BY <1>6 DEF Answer, Items, ElectionInv
  <2>2. AllReceived /\ TypeOK /\ Sensible /\ Underway /\ Smooth
    BY <1>1, <2>1 DEF ServiceInv, Underway
  <2>3. AnnouncementComplete /\ ReadyToDecrypt(Tally)
    BY <1>2, <2>1, <2>2, EveryShareIsThere
  <2>4. available' = available /\ request' = request
    BY <1>6, <2>3 DEF Answer, GetPlaintext
  <2>5. CASE Result' = "decrypted"
    <3>1. \A g \in request.available : guardian_data[g].key = joint[g]
      BY <1>1, <2>4, <2>5 DEF Result
    <3>2. KeyHolders = available /\ KeyHolders' = KeyHolders
      BY <1>1, <2>2, <2>4, <3>1 DEF KeyHolders, AllReceived, AllReported
    <3>3. available \in Quorums
      BY <2>2, <2>3 DEF Quorums, AnnouncementComplete, TypeOK
    <3>4. Counted' = [Counted EXCEPT ![Tally] = "decrypted"]
      BY <1>3, <2>5 DEF Counted
    <3>5. Promise!Open(Tally)
      BY <3>2, <3>3, <3>4 DEF Promise!Open, Promise!QuorumIsPresent
    <3>6. QED
      BY <2>1, <3>5 DEF Promise!Next
  <2>6. CASE Result' # "decrypted"
    <3>1. KeyHolders' = KeyHolders
      BY <1>1, <2>4 DEF KeyHolders
    <3>2. Counted' = [i \in Items |-> "none"]
      BY <2>6 DEF Counted
    <3>3. QED
      BY <1>3, <3>1, <3>2
  <2>7. QED
    BY <2>5, <2>6
<1>7. ASSUME \/ Refuse
             \/ \E g \in Guardians : ReportMissing(g)
             \/ \E g, m \in Guardians, i \in Items : Receive(g, m, i)
             \/ \E i \in Items : ReconstructItem(i)
      PROVE  available' = available /\ answer' # "decrypted"
  BY <1>2, <1>7 DEF Refuse, ReportMissing, AnnounceMissing, Receive, ReceiveCompensation,
                    ReconstructItem, Reconstruct, vars
<1>8. QED
  BY <1>1, <1>4, <1>5, <1>6, <1>7 DEF ServiceNext

LEMMA ElectionStepRefines ==
  ElectionInv /\ ElectionInv' /\ [ElectionNext]_electionVars
    => [Promise!Next]_(Promise!vars)
<1> SUFFICES ASSUME ElectionInv, ElectionInv', [ElectionNext]_electionVars
             PROVE  Promise!Next \/ UNCHANGED <<KeyHolders, Counted>>
  BY DEF Promise!vars
<1>1. CASE UNCHANGED electionVars
  <2>1. KeyHolders' = KeyHolders
    BY <1>1 DEF electionVars, serviceVars, vars, clientVars, KeyHolders
  <2>2. Counted' = Counted
    BY <1>1 DEF electionVars, serviceVars, vars, clientVars, Counted, Result, Missing,
                CreateCompensatedDecryption, BackupFor
  <2>3. QED
    BY <2>1, <2>2
<1>2. CASE Serve
  BY <1>2, ServeKeepsPromise
<1>3. ASSUME \/ SetupGuardians
             \/ \E g \in Guardians : GenerateCredentials(g) \/ GenerateBackups(g)
             \/ CombinePublicKeys \/ Restart \/ SendRequest
      PROVE  UNCHANGED <<KeyHolders, Counted>>
  <2>1. request = NoRequest \/ joint = NoJoint
    BY <1>3 DEF SetupGuardians, GenerateCredentials, GenerateBackups, CombinePublicKeys,
                Restart, SendRequest
  <2>2. request = NoRequest
    BY <2>1 DEF ElectionInv, RequestInv
  <2>3. available = {} /\ answer = "none"
    BY <2>2 DEF ElectionInv, ServiceInv, Idle
  <2>4. UNCHANGED <<available, answer>>
    BY <1>3 DEF SetupGuardians, GenerateCredentials, GenerateBackups, CombinePublicKeys,
                Restart, SendRequest, serviceVars, vars
  <2>5. QED
    BY <2>3, <2>4, ClientsOnlyPrepare
<1>4. QED
  BY <1>1, <1>2, <1>3 DEF ElectionNext

\* Whatever clients generate again, mix up and send: a client is given the true count
\* only after a quorum of guardians that still hold the combined key came forward.
THEOREM ElectionRefinesThreshold == ElectionSpec => Promise!Spec
<1>1. ElectionInit => Promise!Init
  BY NothingCounted DEF ElectionInit, Init, Promise!Init, KeyHolders
<1>2. QED
  BY <1>1, ElectionInvInit, ElectionInvStep, ElectionStepRefines, PTL
     DEF ElectionSpec, Promise!Spec
=============================================================================

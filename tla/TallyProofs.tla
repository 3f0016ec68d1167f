----------------------------- MODULE TallyProofs ----------------------------
(***************************************************************************)
(* Proofs about Tally, that it is what the ballot box says, and about      *)
(* BallotPipeline: what is in a published tally, what its counts are made  *)
(* of, and what becomes of the votes from a ballot to the results.  For    *)
(* any elections, manifests, ballots, ids, contests and requests.          *)
(***************************************************************************)
EXTENDS BallotPipeline, FoldProofs

(***************************************************************************)
(* The ballot box and its tally.                                           *)
(***************************************************************************)
\* What submit_ballot_to_box has let into the box.
BoxInv ==
  \A id \in Ids : store[id] # NoEntry =>
    /\ store[id].state \in {"CAST", "SPOILED"}
    /\ IdOf[store[id].ballot] = id
    /\ ValidForElection(store[id].ballot, TRUE)

\* What a batch counted again had been counted.
TallyInv == TypeOK /\ BoxInv /\ TallyMatchesBox /\ repeated \subseteq castIds

HeldAsCast(b) == store[IdOf[b]] = [ballot |-> b, state |-> "CAST"]

-----------------------------------------------------------------------------
\* _add_cast gets through the contests of a ballot that fits the tally.
LEMMA FittingReached ==
  ASSUME NEW b \in Ballots, Fits(b)
  PROVE  Reached(b) = ContestsOn(b)
<1>1. Cardinality(DOMAIN ContestsOf[b]) \in Nat
  BY BallotsAssumption, FS_CardinalityType
<1>2. \A k \in DOMAIN ContestsOf[b] : \A j \in 1 .. k : ContestsOf[b][j] \in Contests
  BY <1>1, BallotsAssumption DEF Fits, ContestsOn
<1> QED BY <1>2 DEF Reached, ContestsOn

\* An entry of the box is a ballot that is valid, under its own id.
LEMMA EntryIsBallot ==
  ASSUME TypeOK, BoxInv, NEW s \in Stored
  PROVE  /\ s.ballot \in Ballots /\ s.state \in {"CAST", "SPOILED"}
         /\ s = [ballot |-> s.ballot, state |-> s.state]
         /\ store[IdOf[s.ballot]] = s
         /\ Genuine[s.ballot] /\ ValidForStyle(s.ballot)
<1>1. PICK id \in Ids : store[id] # NoEntry /\ s = store[id]
  BY DEF Stored
<1>2. s \in Submitted
  BY <1>1 DEF TypeOK
<1>3. s.ballot \in Ballots /\ s = [ballot |-> s.ballot, state |-> s.state]
  BY <1>2 DEF Submitted
<1>4. /\ s.state \in {"CAST", "SPOILED"}
      /\ IdOf[s.ballot] = id
      /\ ValidForElection(s.ballot, TRUE)
  BY <1>1 DEF BoxInv
<1> QED BY <1>1, <1>3, <1>4 DEF ValidForElection

\* What is tallied is in the box.
LEMMA TalliedIsStored ==
  ASSUME TallyMatchesBox, NEW id, TallyContains(id)
  PROVE  store[id] # NoEntry
BY DEF TallyMatchesBox, TallyContains, NoEntry

\* The box holds a ballot in a state exactly when it has such an entry.
LEMMA EntryOfBallot ==
  ASSUME TypeOK, BoxInv, NEW b \in Ballots, NEW state \in {"CAST", "SPOILED"}
  PROVE  store[IdOf[b]] = [ballot |-> b, state |-> state]
           <=> \E s \in Stored : s.state = state /\ s.ballot = b
<1>1. IdOf[b] \in Ids
  BY BallotsAssumption
<1>2. ASSUME store[IdOf[b]] = [ballot |-> b, state |-> state]
      PROVE  \E s \in Stored : s.state = state /\ s.ballot = b
  <2>1. store[IdOf[b]].state = state /\ NoEntry.state = "none"
    BY <1>2 DEF NoEntry
  <2>2. store[IdOf[b]] # NoEntry
    BY <2>1
  <2>3. store[IdOf[b]] \in Stored
    BY <1>1, <2>2 DEF Stored
  <2> QED BY <1>2, <2>3
<1>3. ASSUME NEW s \in Stored, s.state = state, s.ballot = b
      PROVE  store[IdOf[b]] = [ballot |-> b, state |-> state]
  BY <1>3, EntryIsBallot
<1> QED BY <1>2, <1>3

\* Under an id that is recorded as cast the box holds a ballot as cast.
LEMMA CastIsHeld ==
  ASSUME TallyInv, NEW id \in castIds
  PROVE  \E b \in Ballots : IdOf[b] = id /\ HeldAsCast(b)
<1>1. id \in Ids /\ store[id].state = "CAST"
  BY DEF TallyInv, TypeOK, TallyMatchesBox
<1>2. store[id] # NoEntry
  BY <1>1 DEF NoEntry
<1>3. store[id] \in Submitted /\ IdOf[store[id].ballot] = id
  BY <1>1, <1>2 DEF TallyInv, TypeOK, BoxInv
<1> QED BY <1>1, <1>3 DEF Submitted, HeldAsCast

-----------------------------------------------------------------------------
LEMMA InitInv == Init => TallyInv
<1> SUFFICES ASSUME Init PROVE TallyInv
  OBVIOUS
<1>1. TypeOK
  BY MaxCountAssumption DEF Init, BoxInit, EmptySums, TypeOK
<1>2. BoxInv
  BY DEF Init, BoxInit, BoxInv
<1>3. TallyMatchesBox
  BY DEF Init, EmptySums, TallyMatchesBox, Counts
<1> QED BY <1>1, <1>2, <1>3 DEF TallyInv, Init

\* A ballot that is accepted bears an id that is in no total.
LEMMA SubmitInv ==
  ASSUME TallyInv, NEW b \in Ballots, Submit(b)
  PROVE  TallyInv'
<1> USE DEF TallyInv
<1>1. PICK state \in {"CAST", "SPOILED"} : SubmitBallotToBox(b, state)
  BY DEF Submit, Cast, Spoil
<1>2. /\ IdOf[b] \in Ids /\ store[IdOf[b]] = NoEntry
      /\ store' = [store EXCEPT ![IdOf[b]] = [ballot |-> b, state |-> state]]
      /\ ValidForElection(b, TRUE)
  BY <1>1, BallotsAssumption DEF SubmitBallotToBox
<1>3. UNCHANGED <<sums, castIds, spoiledIds, repeated>>
  BY DEF Submit, tally
<1>4. IdOf[b] \notin castIds \union spoiledIds
  BY <1>2, TalliedIsStored DEF TallyContains
<1>5. /\ store'[IdOf[b]] = [ballot |-> b, state |-> state]
      /\ \A id \in Ids \ {IdOf[b]} : store'[id] = store[id]
  BY <1>2 DEF TypeOK
<1>6. TypeOK'
  BY <1>2, <1>3 DEF TypeOK, Submitted, BallotBoxStates
<1>7. BoxInv'
  BY <1>2, <1>5 DEF BoxInv, ValidForElection, ValidForStyle, ContestsOn
<1>8. TallyMatchesBox'
  <2>1. \A x \in Ballots, c \in Contests : Counts(x, c)' <=> Counts(x, c)
    BY <1>3, <1>4, <1>5, BallotsAssumption DEF Counts, ContestsOn
  <2>2. \A x \in Ballots, c \in Contests : sums[c][x] > 0 => IdOf[x] # IdOf[b]
    <3> SUFFICES ASSUME NEW x \in Ballots, NEW c \in Contests, sums[c][x] > 0, IdOf[x] = IdOf[b]
                 PROVE  FALSE
      OBVIOUS
    <3>1. store[IdOf[b]] = [ballot |-> x, state |-> "CAST"]
      BY DEF TallyMatchesBox
    <3>2. store[IdOf[b]].state = "CAST" /\ store[IdOf[b]].state = "none"
      BY <1>2, <3>1 DEF NoEntry
    <3> QED BY <3>2
  <2>3. \A x \in Ballots, c \in Contests :
          sums'[c][x] > 0 => store'[IdOf[x]] = [ballot |-> x, state |-> "CAST"]
    BY <1>3, <1>5, <2>2, BallotsAssumption DEF TallyMatchesBox
  <2>4. /\ \A id \in castIds' : store'[id].state = "CAST"
        /\ \A id \in spoiledIds' : store'[id].state = "SPOILED"
    BY <1>3, <1>4, <1>5 DEF TallyMatchesBox, TypeOK
  <2> QED BY <1>3, <2>1, <2>3, <2>4 DEF TallyMatchesBox, Fits, ContestsOn
<1> QED BY <1>3, <1>6, <1>7, <1>8

\* What a batch of the box's entries does to the tally, whether it validates or not.
BatchDoes ==
  /\ sums' = [c \in Contests |-> [b \in Ballots |->
       sums[c][b] + (IF HeldAsCast(b) /\ c \in ContestsOn(b) THEN 1 ELSE 0)]]
  /\ castIds' = castIds \union {IdOf[b] : b \in {x \in Ballots : HeldAsCast(x)}}
  /\ spoiledIds' = spoiledIds \union
       {IdOf[b] : b \in {x \in Ballots : store[IdOf[x]] = [ballot |-> x, state |-> "SPOILED"]}}
  /\ repeated' = repeated \union castIds

LEMMA BatchIs ==
  ASSUME TallyInv, NEW validate \in BOOLEAN, BatchAppend(Stored, validate)
  PROVE  BatchDoes
<1> USE DEF TallyInv
<1> DEFINE Of(state, from) == {s.ballot : s \in {t \in from : t.state = state}}
           Valid == {s \in Stored : ValidForElection(s.ballot, validate)}
           InBox(state) == {x \in Ballots : store[IdOf[x]] = [ballot |-> x, state |-> state]}
<1>1. Valid = Stored
  BY EntryIsBallot DEF ValidForElection
<1>2. /\ sums' = Accumulated(Of("CAST", Valid), [x \in Ballots |-> ContestsOn(x)])
      /\ castIds' = castIds \union {IdOf[x] : x \in Of("CAST", Stored)}
      /\ spoiledIds' = spoiledIds \union {IdOf[x] : x \in Of("SPOILED", Valid)}
      /\ repeated' = repeated \union (castIds \intersect {IdOf[x] : x \in Of("CAST", Valid)})
  BY DEF BatchAppend
<1>3. \A state \in {"CAST", "SPOILED"} : Of(state, Stored) = InBox(state)
  <2> TAKE state \in {"CAST", "SPOILED"}
  <2>1. \A x \in Ballots : x \in Of(state, Stored) <=> \E s \in Stored : s.state = state /\ s.ballot = x
    OBVIOUS
  <2>2. Of(state, Stored) \subseteq Ballots
    BY EntryIsBallot
  <2>3. \A x \in Ballots : x \in InBox(state) <=> \E s \in Stored : s.state = state /\ s.ballot = x
    BY EntryOfBallot
  <2>4. InBox(state) \subseteq Ballots
    OBVIOUS
  <2> HIDE DEF Of, InBox
  <2> QED BY <2>1, <2>2, <2>3, <2>4
<1>4. Of("CAST", Stored) = InBox("CAST") /\ Of("SPOILED", Stored) = InBox("SPOILED")
  BY <1>3
<1>5. castIds \subseteq {IdOf[x] : x \in InBox("CAST")}
  BY CastIsHeld DEF HeldAsCast
<1> HIDE DEF Of, Valid
<1>6. sums' = Accumulated(InBox("CAST"), [x \in Ballots |-> ContestsOn(x)])
  BY <1>1, <1>2, <1>4
<1>7. sums' = [c \in Contests |-> [b \in Ballots |->
                sums[c][b] + (IF HeldAsCast(b) /\ c \in ContestsOn(b) THEN 1 ELSE 0)]]
  BY <1>6 DEF Accumulated, HeldAsCast
<1>8. castIds' = castIds \union {IdOf[b] : b \in {x \in Ballots : HeldAsCast(x)}}
  BY <1>2, <1>4 DEF HeldAsCast
<1>9. repeated' = repeated \union castIds
  BY <1>1, <1>2, <1>4, <1>5
<1> QED BY <1>1, <1>2, <1>4, <1>7, <1>8, <1>9 DEF BatchDoes

\* It records the ids of a state under that state.
LEMMA BatchRecords ==
  ASSUME TallyMatchesBox, BatchDoes
  PROVE  /\ \A id \in castIds' : store[id].state = "CAST"
         /\ \A id \in spoiledIds' : store[id].state = "SPOILED"
<1>1. ASSUME NEW id \in castIds' PROVE store[id].state = "CAST"
  <2>1. CASE id \in castIds
    BY <2>1 DEF TallyMatchesBox
  <2>2. CASE id \notin castIds
    <3>1. PICK b \in Ballots : HeldAsCast(b) /\ IdOf[b] = id
      BY <1>1, <2>2 DEF BatchDoes
    <3> QED BY <3>1 DEF HeldAsCast
  <2> QED BY <2>1, <2>2
<1>2. ASSUME NEW id \in spoiledIds' PROVE store[id].state = "SPOILED"
  <2>1. CASE id \in spoiledIds
    BY <2>1 DEF TallyMatchesBox
  <2>2. CASE id \notin spoiledIds
    <3>1. PICK b \in Ballots : store[IdOf[b]] = [ballot |-> b, state |-> "SPOILED"] /\ IdOf[b] = id
      BY <1>2, <2>2 DEF BatchDoes
    <3> QED BY <3>1
  <2> QED BY <2>1, <2>2
<1> QED BY <1>1, <1>2

\* A batch counts what the box holds as cast, and once more what it has counted.
LEMMA BatchInv ==
  ASSUME TallyInv, BatchDoes, UNCHANGED store, WithinBound
  PROVE  TallyInv'
<1> USE DEF TallyInv
<1>1. \A c \in Contests, x \in Ballots :
        /\ sums[c][x] \in Nat
        /\ sums'[c][x] = sums[c][x] + (IF HeldAsCast(x) /\ c \in ContestsOn(x) THEN 1 ELSE 0)
  BY DEF BatchDoes, TypeOK
<1>2. sums' \in [Contests -> [Ballots -> 0 .. MaxCount]]
  <2>1. \A c \in Contests, x \in Ballots : sums'[c][x] \in 0 .. MaxCount
    BY <1>1 DEF WithinBound
  <2>2. sums' = [c \in Contests |-> [x \in Ballots |-> sums'[c][x]]]
    BY DEF BatchDoes
  <2> QED BY <2>1, <2>2
<1>3. castIds' \subseteq Ids /\ spoiledIds' \subseteq Ids /\ repeated' \subseteq castIds'
  <2>1. \A b \in Ballots : IdOf[b] \in Ids
    BY BallotsAssumption
  <2>2. castIds \subseteq Ids /\ spoiledIds \subseteq Ids
    BY DEF TypeOK
  <2>3. castIds' \subseteq Ids /\ castIds \subseteq castIds'
    BY <2>1, <2>2 DEF BatchDoes
  <2>4. spoiledIds' \subseteq Ids
    BY <2>1, <2>2 DEF BatchDoes
  <2>5. repeated' \subseteq castIds'
    BY <2>3 DEF BatchDoes
  <2> QED BY <2>3, <2>4, <2>5
<1>4. TypeOK'
  BY <1>2, <1>3 DEF TypeOK
<1>5. BoxInv'
  BY DEF BoxInv, ValidForElection, ValidForStyle, ContestsOn
<1>6. \A x \in Ballots, c \in Contests :
        /\ Counts(x, c) <=> IdOf[x] \in castIds /\ HeldAsCast(x) /\ c \in ContestsOn(x)
        /\ Counts(x, c)' <=> HeldAsCast(x) /\ c \in ContestsOn(x)
  BY DEF Counts, HeldAsCast, BatchDoes, ContestsOn
<1>7. \A x \in Ballots, c \in Contests :
        Fits(x) => IF ~Counts(x, c)' THEN sums'[c][x] = 0
                   ELSE sums'[c][x] = 1 <=> IdOf[x] \notin repeated'
  <2> SUFFICES ASSUME NEW x \in Ballots, NEW c \in Contests, Fits(x)
               PROVE  IF ~Counts(x, c)' THEN sums'[c][x] = 0
                      ELSE sums'[c][x] = 1 <=> IdOf[x] \notin repeated'
    OBVIOUS
  <2>1. CASE ~Counts(x, c)'
    <3>1. sums'[c][x] = sums[c][x] + 0 /\ ~Counts(x, c) /\ sums[c][x] \in Nat
      BY <1>1, <1>6, <2>1
    <3>2. sums[c][x] = 0
      BY <3>1 DEF TallyMatchesBox
    <3> QED BY <2>1, <3>1, <3>2
  <2>2. CASE Counts(x, c)' /\ IdOf[x] \in castIds
    <3>1. sums[c][x] > 0 /\ sums'[c][x] = sums[c][x] + 1 /\ sums[c][x] \in Nat
      BY <1>1, <1>6, <2>2 DEF TallyMatchesBox
    <3>2. IdOf[x] \in repeated'
      BY <2>2 DEF BatchDoes
    <3>3. sums'[c][x] # 1
      BY <3>1
    <3> QED BY <2>2, <3>2, <3>3
  <2>3. CASE Counts(x, c)' /\ IdOf[x] \notin castIds
    <3>1. sums[c][x] = 0 /\ sums'[c][x] = sums[c][x] + 1
      BY <1>1, <1>6, <2>3 DEF TallyMatchesBox
    <3>2. IdOf[x] \notin repeated'
      BY <2>3 DEF BatchDoes
    <3> QED BY <2>3, <3>1, <3>2
  <2> QED BY <2>1, <2>2, <2>3
<1>8. \A x \in Ballots, c \in Contests :
        /\ Counts(x, c)' => sums'[c][x] > 0
        /\ sums'[c][x] > 0 => store'[IdOf[x]] = [ballot |-> x, state |-> "CAST"]
  <2> SUFFICES ASSUME NEW x \in Ballots, NEW c \in Contests
               PROVE  /\ Counts(x, c)' => sums'[c][x] > 0
                      /\ sums'[c][x] > 0 => store'[IdOf[x]] = [ballot |-> x, state |-> "CAST"]
    OBVIOUS
  <2>1. CASE HeldAsCast(x) /\ c \in ContestsOn(x)
    <3>1. sums'[c][x] = sums[c][x] + 1 /\ sums[c][x] \in Nat
      BY <1>1, <2>1
    <3>2. store'[IdOf[x]] = [ballot |-> x, state |-> "CAST"]
      BY <2>1 DEF HeldAsCast
    <3> QED BY <3>1, <3>2
  <2>2. CASE ~(HeldAsCast(x) /\ c \in ContestsOn(x))
    <3>1. sums'[c][x] = sums[c][x] + 0 /\ sums[c][x] \in Nat /\ ~Counts(x, c)'
      BY <1>1, <1>6, <2>2
    <3>2. sums[c][x] > 0 => store'[IdOf[x]] = [ballot |-> x, state |-> "CAST"]
      BY DEF TallyMatchesBox
    <3> QED BY <3>1, <3>2
  <2> QED BY <2>1, <2>2
<1>9. /\ \A id \in castIds' : store'[id].state = "CAST"
      /\ \A id \in spoiledIds' : store'[id].state = "SPOILED"
  BY BatchRecords
<1>10. TallyMatchesBox'
  BY <1>7, <1>8, <1>9 DEF TallyMatchesBox, Fits, ContestsOn
<1> QED BY <1>3, <1>4, <1>5, <1>10

\* Both are a batch, the first one within the bound of any tally.
LEMMA BatchStep ==
  ASSUME TallyInv, TallyBallots \/ \E validate \in BOOLEAN : TallyMore(validate)
  PROVE  BatchDoes /\ UNCHANGED store /\ WithinBound
<1>1. CASE TallyBallots
  <2>1. BatchDoes /\ UNCHANGED store
    BY <1>1, BatchIs DEF TallyBallots
  <2>2. \A c \in Contests, b \in Ballots : sums[c][b] = 0
    BY <1>1 DEF TallyBallots, tally, EmptySums
  <2>3. WithinBound
    BY <2>1, <2>2, MaxCountAssumption DEF BatchDoes, WithinBound
  <2> QED BY <2>1, <2>3
<1>2. ASSUME NEW validate \in BOOLEAN, TallyMore(validate)
      PROVE  BatchDoes /\ UNCHANGED store /\ WithinBound
  BY <1>2, BatchIs DEF TallyMore
<1> QED BY <1>1, <1>2

\* One ballot that is not contained yet goes into the totals of all its contests, or
\* only of some of them, and then it is not recorded.
LEMMA AppendInv ==
  ASSUME TallyInv, NEW s \in Stored, NEW validate \in BOOLEAN, AppendBallot(s, validate)
  PROVE  TallyInv'
<1> USE DEF TallyInv
<1> DEFINE b == s.ballot
<1>1. /\ b \in Ballots /\ s = [ballot |-> b, state |-> s.state]
      /\ store[IdOf[b]] = s
  BY EntryIsBallot
<1>2. /\ IdOf[b] \in Ids /\ IdOf[b] \notin castIds \union spoiledIds
      /\ store' = store /\ repeated' = repeated /\ WithinBound
  BY <1>1, BallotsAssumption DEF AppendBallot, TallyContains
<1>3. BoxInv'
  BY <1>2 DEF BoxInv, ValidForElection, ValidForStyle, ContestsOn
<1> HIDE DEF b
<1>4. CASE s.state = "CAST" /\ AddCast(b)
  <2>1. /\ castIds' = IF Fits(b) THEN castIds \union {IdOf[b]} ELSE castIds
        /\ spoiledIds' = spoiledIds
        /\ sums' = [c \in Contests |-> [x \in Ballots |->
             sums[c][x] + (IF x \in {b} /\ c \in [y \in {b} |-> Reached(b)][x] THEN 1 ELSE 0)]]
    BY <1>4 DEF AddCast, Accumulated, Fits
  <2>2. \A c \in Contests, x \in Ballots :
          /\ sums[c][x] \in Nat
          /\ sums'[c][x] = IF x = b /\ c \in Reached(b) THEN sums[c][x] + 1 ELSE sums[c][x]
    BY <2>1 DEF TypeOK
  <2>3. TypeOK'
    <3>1. \A c \in Contests, x \in Ballots : sums'[c][x] \in 0 .. MaxCount
      BY <1>2, <2>2 DEF WithinBound
    <3>2. sums' = [c \in Contests |-> [x \in Ballots |-> sums'[c][x]]]
      BY <2>1
    <3>3. sums' \in [Contests -> [Ballots -> 0 .. MaxCount]]
      BY <3>1, <3>2
    <3>4. castIds' \subseteq Ids /\ spoiledIds' \subseteq Ids
      BY <1>2, <2>1 DEF TypeOK
    <3> QED BY <1>2, <3>3, <3>4 DEF TypeOK
  <2>4. HeldAsCast(b) /\ \A x \in Ballots : HeldAsCast(x) /\ IdOf[x] = IdOf[b] => x = b
    <3>1. HeldAsCast(b)
      BY <1>1, <1>4 DEF HeldAsCast
    <3>2. \A x \in Ballots : HeldAsCast(x) => store[IdOf[x]].ballot = x
      BY DEF HeldAsCast
    <3> QED BY <1>1, <3>1, <3>2
  <2>5. \A x \in Ballots, c \in Contests :
          /\ Counts(x, c) <=> IdOf[x] \in castIds /\ HeldAsCast(x) /\ c \in ContestsOn(x)
          /\ Counts(x, c)' <=> IdOf[x] \in castIds' /\ HeldAsCast(x) /\ c \in ContestsOn(x)
    BY <1>2 DEF Counts, HeldAsCast, ContestsOn
  <2>6. \A x \in Ballots, c \in Contests : x # b =>
          (Counts(x, c)' <=> Counts(x, c)) /\ sums'[c][x] = sums[c][x]
    BY <1>2, <2>1, <2>2, <2>4, <2>5
  <2>7. \A c \in Contests :
          /\ Fits(b) => IF ~Counts(b, c)' THEN sums'[c][b] = 0
                        ELSE sums'[c][b] = 1 <=> IdOf[b] \notin repeated'
          /\ Counts(b, c)' => sums'[c][b] > 0
    <3> SUFFICES ASSUME NEW c \in Contests
                 PROVE  /\ Fits(b) => IF ~Counts(b, c)' THEN sums'[c][b] = 0
                                      ELSE sums'[c][b] = 1 <=> IdOf[b] \notin repeated'
                        /\ Counts(b, c)' => sums'[c][b] > 0
      OBVIOUS
    <3>1. CASE Fits(b)
      <4>1. Reached(b) = ContestsOn(b) /\ IdOf[b] \in castIds'
        BY <1>1, <2>1, <3>1, FittingReached
      <4>2. sums[c][b] = 0 /\ IdOf[b] \notin repeated'
        BY <1>1, <1>2, <2>5, <3>1 DEF TallyMatchesBox
      <4>3. Counts(b, c)' <=> c \in ContestsOn(b)
        BY <1>1, <2>4, <2>5, <4>1
      <4>4. sums'[c][b] = IF c \in ContestsOn(b) THEN 1 ELSE 0
        BY <1>1, <2>2, <4>1, <4>2
      <4> QED BY <4>2, <4>3, <4>4
    <3>2. CASE ~Fits(b)
      BY <1>1, <1>2, <2>1, <2>5, <3>2
    <3> QED BY <3>1, <3>2
  <2>8. \A x \in Ballots, c \in Contests :
          sums'[c][x] > 0 => store'[IdOf[x]] = [ballot |-> x, state |-> "CAST"]
    BY <1>2, <2>4, <2>6 DEF TallyMatchesBox, HeldAsCast
  <2>9. /\ \A id \in castIds' : store'[id].state = "CAST"
        /\ \A id \in spoiledIds' : store'[id].state = "SPOILED"
    BY <1>1, <1>2, <1>4, <2>1 DEF TallyMatchesBox
  <2>10. \A x \in Ballots, c \in Contests :
           /\ Fits(x) => IF ~Counts(x, c)' THEN sums'[c][x] = 0
                         ELSE sums'[c][x] = 1 <=> IdOf[x] \notin repeated'
           /\ Counts(x, c)' => sums'[c][x] > 0
    <3> SUFFICES ASSUME NEW x \in Ballots, NEW c \in Contests, x # b
                 PROVE  /\ Fits(x) => IF ~Counts(x, c)' THEN sums'[c][x] = 0
                                       ELSE sums'[c][x] = 1 <=> IdOf[x] \notin repeated'
                        /\ Counts(x, c)' => sums'[c][x] > 0
      BY <2>7
    <3>1. (Counts(x, c)' <=> Counts(x, c)) /\ sums'[c][x] = sums[c][x]
      BY <2>6
    <3>2. /\ Fits(x) => IF ~Counts(x, c) THEN sums[c][x] = 0
                         ELSE sums[c][x] = 1 <=> IdOf[x] \notin repeated
          /\ Counts(x, c) => sums[c][x] > 0
      BY DEF TallyMatchesBox
    <3> QED BY <1>2, <3>1, <3>2
  <2>11. TallyMatchesBox'
    BY <2>8, <2>9, <2>10 DEF TallyMatchesBox, Fits, ContestsOn
  <2> QED BY <1>2, <1>3, <2>1, <2>3, <2>11
<1>5. CASE s.state = "SPOILED" /\ AddSpoiled(b)
  <2>1. spoiledIds' = spoiledIds \union {IdOf[b]} /\ UNCHANGED <<sums, castIds>>
    BY <1>5 DEF AddSpoiled
  <2>2. TypeOK'
    BY <1>2, <2>1 DEF TypeOK
  <2>3. TallyMatchesBox'
    BY <1>1, <1>2, <1>5, <2>1 DEF TallyMatchesBox, Fits, Counts, ContestsOn
  <2> QED BY <1>2, <1>3, <2>1, <2>2, <2>3
<1> QED BY <1>4, <1>5 DEF AppendBallot, b

\* The invariant is inductive.
LEMMA NextInv == TallyInv /\ [Next]_vars => TallyInv'
<1> SUFFICES ASSUME TallyInv, [Next]_vars PROVE TallyInv'
  OBVIOUS
<1>1. ASSUME NEW b \in Ballots, Submit(b) PROVE TallyInv'
  BY <1>1, SubmitInv
<1>2. CASE TallyBallots \/ \E validate \in BOOLEAN : TallyMore(validate)
  BY <1>2, BatchStep, BatchInv
<1>3. ASSUME NEW s \in Stored, NEW validate \in BOOLEAN, AppendBallot(s, validate)
      PROVE  TallyInv'
  BY <1>3, AppendInv
<1>4. CASE UNCHANGED vars
  <2>1. UNCHANGED <<store, sums, castIds, spoiledIds, repeated>>
    BY <1>4 DEF vars, tally
  <2>2. TypeOK'
    BY <2>1 DEF TallyInv, TypeOK
  <2>3. BoxInv'
    BY <2>1 DEF TallyInv, BoxInv, ValidForElection, ValidForStyle, ContestsOn
  <2>4. TallyMatchesBox'
    BY <2>1 DEF TallyInv, TallyMatchesBox, Fits, Counts, ContestsOn
  <2> QED BY <2>1, <2>2, <2>3, <2>4 DEF TallyInv
<1> QED BY <1>1, <1>2, <1>3, <1>4 DEF Next

\* The invariant that the theorems about the tally rest on.
THEOREM TallyInvariant == Spec => []TallyInv
<1> QED BY InitInv, NextInv, PTL DEF Spec

-----------------------------------------------------------------------------
\* The variables of box and tally keep their types.
THEOREM TallyTypeCorrect == Spec => []TypeOK
<1>1. TallyInv => TypeOK
  BY DEF TallyInv
<1> QED BY <1>1, TallyInvariant, PTL

\* The totals are what the ballot box holds as cast, each recorded ballot once in each
\* of its contests unless a batch met it again, for any ballots and any number of
\* batches.
THEOREM TallyIsWhatTheBoxSays == Spec => []TallyMatchesBox
<1>1. TallyInv => TallyMatchesBox
  BY DEF TallyInv
<1> QED BY <1>1, TallyInvariant, PTL

\* What becomes of a ballot whose id is tallied.
Fate(b) ==
  /\ IdOf[b] \in castIds' <=> IdOf[b] \in castIds
  /\ IdOf[b] \in spoiledIds' <=> IdOf[b] \in spoiledIds
  /\ store'[IdOf[b]] = store[IdOf[b]]
  /\ \/ \A c \in Contests : sums'[c][b] = sums[c][b]
     \/ /\ IdOf[b] \in repeated'
        /\ \A c \in Contests : sums'[c][b] = sums[c][b] + (IF Counts(b, c) THEN 1 ELSE 0)

LEMMA FateOfBatch ==
  ASSUME TallyInv, BatchDoes, UNCHANGED store,
         NEW b \in Ballots, IdOf[b] \in castIds \union spoiledIds
  PROVE  Fate(b)
<1>1. \A id \in castIds' : store[id].state = "CAST"
  BY BatchRecords DEF TallyInv
<1>2. \A id \in spoiledIds' : store[id].state = "SPOILED"
  BY BatchRecords DEF TallyInv
<1>3. castIds \subseteq castIds' /\ spoiledIds \subseteq spoiledIds'
  BY DEF BatchDoes
<1>4. /\ IdOf[b] \in castIds' <=> IdOf[b] \in castIds
      /\ IdOf[b] \in spoiledIds' <=> IdOf[b] \in spoiledIds
  BY <1>1, <1>2, <1>3
<1>5. \A c \in Contests :
        /\ sums[c][b] \in Nat
        /\ sums'[c][b] = sums[c][b] + (IF HeldAsCast(b) /\ c \in ContestsOn(b) THEN 1 ELSE 0)
  BY DEF BatchDoes, TallyInv, TypeOK
<1>6. CASE IdOf[b] \in castIds
  <2>1. IdOf[b] \in repeated'
    BY <1>6 DEF BatchDoes
  <2>2. \A c \in Contests : sums'[c][b] = sums[c][b] + (IF Counts(b, c) THEN 1 ELSE 0)
    BY <1>5, <1>6 DEF Counts, HeldAsCast
  <2> QED BY <1>4, <2>1, <2>2 DEF Fate
<1>7. CASE IdOf[b] \notin castIds
  <2>1. ~HeldAsCast(b)
    <3>1. store[IdOf[b]].state = "SPOILED"
      BY <1>2, <1>3, <1>7
    <3> QED BY <3>1 DEF HeldAsCast
  <2>2. \A c \in Contests : sums'[c][b] = sums[c][b]
    BY <1>5, <2>1
  <2> QED BY <1>4, <2>2 DEF Fate
<1> QED BY <1>6, <1>7

\* What has been tallied stays as it is: no submission and no append changes it, and
\* a batch counts a ballot only as what it was counted before.
THEOREM FateStaysFinal == Spec => FateIsFinal
<1> DEFINE Final == \A b \in Ballots : IdOf[b] \in castIds \union spoiledIds =>
             /\ IdOf[b] \in castIds' <=> IdOf[b] \in castIds
             /\ IdOf[b] \in spoiledIds' <=> IdOf[b] \in spoiledIds
             /\ store'[IdOf[b]] = store[IdOf[b]]
             /\ \/ \A c \in Contests : sums'[c][b] = sums[c][b]
                \/ /\ IdOf[b] \in repeated'
                   /\ \A c \in Contests :
                        sums'[c][b] = sums[c][b] + (IF Counts(b, c) THEN 1 ELSE 0)
<1>1. ASSUME TallyInv, [Next]_vars PROVE [Final]_vars
  <2> SUFFICES ASSUME NEW b \in Ballots, IdOf[b] \in castIds \union spoiledIds, Next
               PROVE  Fate(b)
    BY <1>1, Zenon DEF Final, Fate
  <2>1. IdOf[b] \in Ids /\ store[IdOf[b]] # NoEntry
    BY <1>1, TalliedIsStored, BallotsAssumption DEF TallyInv, TallyContains
  <2>2. ASSUME NEW x \in Ballots, Submit(x) PROVE Fate(b)
    <3>1. UNCHANGED <<sums, castIds, spoiledIds>>
      BY <2>2 DEF Submit, tally
    <3>2. store'[IdOf[b]] = store[IdOf[b]]
      BY <1>1, <2>1, <2>2, BallotsAssumption DEF Submit, Cast, Spoil, SubmitBallotToBox, TallyInv, TypeOK
    <3> QED BY <3>1, <3>2 DEF Fate
  <2>3. CASE TallyBallots \/ \E validate \in BOOLEAN : TallyMore(validate)
    BY <1>1, <2>3, BatchStep, FateOfBatch
  <2>4. ASSUME NEW s \in Stored, NEW validate \in BOOLEAN, AppendBallot(s, validate)
        PROVE  Fate(b)
    <3>1. IdOf[b] # IdOf[s.ballot] /\ b # s.ballot /\ store' = store
      BY <2>4 DEF AppendBallot, TallyContains
    <3>2. CASE AddCast(s.ballot)
      <4>1. \A c \in Contests : sums'[c][b] = sums[c][b]
        BY <1>1, <3>1, <3>2 DEF AddCast, Accumulated, TallyInv, TypeOK
      <4>2. /\ IdOf[b] \in castIds' <=> IdOf[b] \in castIds
            /\ spoiledIds' = spoiledIds
        BY <3>1, <3>2 DEF AddCast
      <4> QED BY <3>1, <4>1, <4>2 DEF Fate
    <3>3. CASE AddSpoiled(s.ballot)
      BY <3>1, <3>3 DEF AddSpoiled, Fate
    <3> QED BY <2>4, <3>2, <3>3 DEF AppendBallot
  <2> QED BY <2>2, <2>3, <2>4 DEF Next
<1> QED BY <1>1, TallyInvariant, PTL DEF Spec, FateIsFinal

(***************************************************************************)
(* The store holds under every id the ballot submitted last, and nothing   *)
(* is tallied before every ballot of the request is in it.                 *)
(***************************************************************************)

\* The k-th submission is the last one of its id.
IsLast(k) == \A j \in k + 1 .. Len(submitted) : IdOf[submitted[j]] # IdOf[submitted[k]]

Entry(b) == [ballot |-> b, state |-> "CAST"]

SequencesInv ==
  /\ request \in Seq(Ballots)
  /\ submitted \in Seq(Ballots)

StoreInv ==
  /\ store = [id \in Ids |-> store[id]]
  /\ \A id \in Ids :
       \/ /\ store[id] = NoEntry
          /\ \A j \in DOMAIN submitted : IdOf[submitted[j]] # id
       \/ \E k \in DOMAIN submitted :
            /\ IdOf[submitted[k]] = id
            /\ IsLast(k)
            /\ store[id] = Entry(submitted[k])

CountsAreOfIds ==
  /\ castIds = {IdOf[submitted[k]] : k \in DOMAIN submitted}
  /\ spoiledIds = {}

TalliedInv ==
  /\ ~published => sums = EmptySums /\ castIds = {} /\ spoiledIds = {}
  /\ published => request = <<>> /\ submitted # <<>> /\ CountsAreOfIds
  /\ LastOfEachIdCounted

PipelineInv == SequencesInv /\ StoreInv /\ TalliedInv

LEMMA EntriesAreEntries ==
  /\ \A b : Entry(b) # NoEntry /\ Entry(b).ballot = b /\ Entry(b).state = "CAST"
  /\ \A b, c : Entry(b) = Entry(c) => b = c
BY DEF Entry, NoEntry

LEMMA PipelineInvInit == PipelineInit => PipelineInv
BY DEF PipelineInit, ServiceInit, Init, BoxInit, PipelineInv, SequencesInv, StoreInv, TalliedInv,
       LastOfEachIdCounted

\* Nothing of the tally's changes when ballots are encrypted or sent.
LEMMA TallyUntouched ==
  ASSUME PipelineInv, UNCHANGED <<vars, submitted, published>>,
         request' \in Seq(Ballots), request' = request \/ submitted = <<>>
  PROVE  PipelineInv'
<1>1. /\ store' = store /\ sums' = sums /\ castIds' = castIds /\ spoiledIds' = spoiledIds
      /\ submitted' = submitted /\ published' = published
  BY DEF vars, tally
<1>2. StoreInv'
  BY <1>1 DEF PipelineInv, StoreInv, IsLast
<1>3. TalliedInv'
  BY <1>1 DEF PipelineInv, TalliedInv, CountsAreOfIds, LastOfEachIdCounted
<1>4. SequencesInv'
  BY <1>1 DEF PipelineInv, SequencesInv
<1>5. QED
  BY <1>2, <1>3, <1>4 DEF PipelineInv

LEMMA SubmitStep ==
  ASSUME PipelineInv, SubmitNext
  PROVE  PipelineInv'
<1>1. PICK b \in Ballots, n \in Nat : request # <<>> /\ b = Head(request) /\ n = Len(submitted)
  BY DEF SubmitNext, PipelineInv, SequencesInv
<1>2. /\ request # <<>> /\ request' = Tail(request) /\ submitted' = Append(submitted, b)
      /\ store' = [store EXCEPT ![IdOf[b]] = Entry(b)]
      /\ sums' = sums /\ castIds' = castIds /\ spoiledIds' = spoiledIds
      /\ published' = published
  BY <1>1 DEF SubmitNext, tally, Entry
<1>3. request' \in Seq(Ballots) /\ IdOf[b] \in Ids
  BY <1>1, <1>2, BallotsAssumption DEF PipelineInv, SequencesInv
<1>4. submitted' \in Seq(Ballots) /\ Len(submitted') = n + 1
      /\ submitted'[n + 1] = b /\ \A k \in 1 .. n : submitted'[k] = submitted[k]
  BY <1>1, <1>2 DEF PipelineInv, SequencesInv
<1>5. DOMAIN submitted = 1 .. n /\ DOMAIN submitted' = 1 .. n + 1
  BY <1>1, <1>4 DEF PipelineInv, SequencesInv
<1>6. ~published
  BY <1>2 DEF PipelineInv, TalliedInv
<1>7. ASSUME NEW id \in Ids
      PROVE  \/ /\ store'[id] = NoEntry
                /\ \A j \in DOMAIN submitted' : IdOf[submitted'[j]] # id
             \/ \E k \in DOMAIN submitted' :
                  /\ IdOf[submitted'[k]] = id
                  /\ IsLast(k)'
                  /\ store'[id] = Entry(submitted'[k])
  <2>1. CASE id = IdOf[b]
    <3>1. store'[id] = Entry(b)
      BY <1>2, <1>3, <2>1 DEF PipelineInv, StoreInv
    <3>2. IsLast(n + 1)'
      BY <1>4 DEF IsLast
    <3>3. QED
      BY <1>4, <1>5, <2>1, <3>1, <3>2
  <2>2. CASE id # IdOf[b]
    <3>1. store'[id] = store[id]
      BY <1>2, <2>2 DEF PipelineInv, StoreInv
    <3>2. CASE /\ store[id] = NoEntry
               /\ \A j \in DOMAIN submitted : IdOf[submitted[j]] # id
      BY <1>4, <1>5, <2>2, <3>1, <3>2
    <3>3. CASE \E k \in DOMAIN submitted :
                 IdOf[submitted[k]] = id /\ IsLast(k) /\ store[id] = Entry(submitted[k])
      <4>1. PICK k \in DOMAIN submitted :
              IdOf[submitted[k]] = id /\ IsLast(k) /\ store[id] = Entry(submitted[k])
        BY <3>3
      <4>2. k \in 1 .. n /\ submitted'[k] = submitted[k] /\ k \in DOMAIN submitted'
        BY <1>4, <1>5, <4>1
      <4>3. \A j \in k + 1 .. n + 1 : IdOf[submitted'[j]] # id
        <5> TAKE j \in k + 1 .. n + 1
        <5>1. CASE j = n + 1
          BY <1>4, <2>2, <5>1
        <5>2. CASE j # n + 1
          <6>1. j \in k + 1 .. n /\ j \in 1 .. n
            BY <4>2, <5>2
          <6>2. QED
            BY <1>1, <1>4, <4>1, <6>1 DEF IsLast
        <5>3. QED
          BY <5>1, <5>2
      <4>4. IsLast(k)'
        BY <1>4, <4>1, <4>2, <4>3 DEF IsLast
      <4>5. QED
        BY <3>1, <4>1, <4>2, <4>4
    <3>4. QED
      BY <3>2, <3>3 DEF PipelineInv, StoreInv
  <2>3. QED
    BY <2>1, <2>2
<1>8. store' = [id \in Ids |-> store'[id]]
  BY <1>2 DEF PipelineInv, StoreInv
<1>9. StoreInv'
  BY <1>7, <1>8 DEF StoreInv
<1>10. TalliedInv'
  BY <1>2, <1>6 DEF PipelineInv, TalliedInv, LastOfEachIdCounted
<1>11. QED
  BY <1>3, <1>4, <1>9, <1>10 DEF PipelineInv, SequencesInv

\* A ballot stands in the store exactly if its last submission is the last of its id.
LEMMA StandsInStore ==
  ASSUME PipelineInv, NEW b \in Ballots
  PROVE  (\E s \in Stored : s.ballot = b) <=>
           \E k \in DOMAIN submitted :
             /\ submitted[k] = b
             /\ \A j \in k + 1 .. Len(submitted) : IdOf[submitted[j]] # IdOf[b]
<1>1. ASSUME NEW s \in Stored, s.ballot = b
      PROVE  \E k \in DOMAIN submitted : submitted[k] = b /\ IsLast(k)
  <2>1. PICK id \in Ids : store[id] # NoEntry /\ s = store[id]
    BY DEF Stored
  <2>2. PICK k \in DOMAIN submitted : IsLast(k) /\ store[id] = Entry(submitted[k])
    BY <2>1 DEF PipelineInv, StoreInv
  <2>3. QED
    BY <1>1, <2>1, <2>2, EntriesAreEntries
<1>2. ASSUME NEW k \in DOMAIN submitted, submitted[k] = b, IsLast(k)
      PROVE  Entry(b) \in Stored
  <2>1. IdOf[b] \in Ids
    BY BallotsAssumption
  <2>2. store[IdOf[b]] # NoEntry
    BY <1>2, <2>1, EntriesAreEntries DEF PipelineInv, StoreInv
  <2>3. PICK l \in DOMAIN submitted :
          IdOf[submitted[l]] = IdOf[b] /\ IsLast(l) /\ store[IdOf[b]] = Entry(submitted[l])
    BY <2>1, <2>2 DEF PipelineInv, StoreInv
  <2>4. k = l
    <3>1. k \in 1 .. Len(submitted) /\ l \in 1 .. Len(submitted) /\ Len(submitted) \in Nat
      BY DEF PipelineInv, SequencesInv
    <3>2. ~(l < k) /\ ~(k < l)
      BY <1>2, <2>3, <3>1 DEF IsLast
    <3>3. QED
      BY <3>1, <3>2
  <2>5. QED
    BY <1>2, <2>1, <2>2, <2>3, <2>4 DEF Stored
<1>3. QED
  BY <1>1, <1>2, EntriesAreEntries DEF IsLast

\* Every entry of the store is a ballot as cast, and every id that was submitted
\* has one.
LEMMA StoredIsSubmitted ==
  ASSUME PipelineInv
  PROVE  /\ \A s \in Stored : s.state = "CAST" /\ s = Entry(s.ballot) /\ s.ballot \in Ballots
         /\ {IdOf[s.ballot] : s \in Stored} = {IdOf[submitted[k]] : k \in DOMAIN submitted}
<1>1. ASSUME NEW s \in Stored
      PROVE  \E k \in DOMAIN submitted : s = Entry(submitted[k])
  BY DEF Stored, PipelineInv, StoreInv
<1>2. \A k \in DOMAIN submitted : submitted[k] \in Ballots
  BY DEF PipelineInv, SequencesInv
<1>3. ASSUME NEW k \in DOMAIN submitted
      PROVE  \E s \in Stored : IdOf[s.ballot] = IdOf[submitted[k]]
  <2> DEFINE id == IdOf[submitted[k]]
  <2>1. id \in Ids
    BY <1>2, BallotsAssumption
  <2> HIDE DEF id
  <2>2. PICK l \in DOMAIN submitted :
          IdOf[submitted[l]] = id /\ store[id] = Entry(submitted[l])
    BY <2>1 DEF PipelineInv, StoreInv, id
  <2>3. store[id] \in Stored
    BY <2>1, <2>2, EntriesAreEntries DEF Stored
  <2>4. IdOf[store[id].ballot] = id
    BY <2>2, EntriesAreEntries
  <2>5. QED
    BY <2>3, <2>4 DEF id
<1>4. \A s \in Stored : s.state = "CAST" /\ s = Entry(s.ballot) /\ s.ballot \in Ballots
  BY <1>1, <1>2, EntriesAreEntries
<1>5. {IdOf[s.ballot] : s \in Stored} = {IdOf[submitted[k]] : k \in DOMAIN submitted}
  <2>1. \A s \in Stored : \E k \in DOMAIN submitted : IdOf[s.ballot] = IdOf[submitted[k]]
    BY <1>1, EntriesAreEntries
  <2>2. QED
    BY <1>3, <2>1
<1>6. QED
  BY <1>4, <1>5

LEMMA TallyAllStep ==
  ASSUME PipelineInv, TallyAll
  PROVE  PipelineInv'
<1> DEFINE valid == {s \in Stored : ValidForElection(s.ballot, FALSE)}
           Of(state, from) == {s.ballot : s \in {t \in from : t.state = state}}
           counted == Of("CAST", valid)
<1>1. /\ request' = request /\ submitted' = submitted /\ store' = store
      /\ request = <<>> /\ submitted # <<>> /\ ~published /\ published' = TRUE
  BY DEF TallyAll
<1>2. /\ sums' = Accumulated(counted, [b \in Ballots |-> ContestsOn(b)])
      /\ castIds' = castIds \union {IdOf[b] : b \in Of("CAST", Stored)}
      /\ spoiledIds' = spoiledIds \union {IdOf[b] : b \in Of("SPOILED", valid)}
  BY DEF TallyAll, BatchAppend
<1>3. sums = EmptySums /\ castIds = {} /\ spoiledIds = {}
  BY <1>1 DEF PipelineInv, TalliedInv
<1>4. \A s \in Stored : s.state = "CAST" /\ s = Entry(s.ballot) /\ s.ballot \in Ballots
  BY StoredIsSubmitted
<1>5. ASSUME NEW b \in Ballots
      PROVE  b \in counted <=> ValidForStyle(b) /\ \E s \in Stored : s.ballot = b
  BY <1>4 DEF ValidForElection
<1>6. /\ {IdOf[b] : b \in Of("CAST", Stored)} = {IdOf[s.ballot] : s \in Stored}
      /\ {IdOf[b] : b \in Of("SPOILED", valid)} = {}
  BY <1>4
<1> HIDE DEF counted, Of, valid
<1>7. CountsAreOfIds'
  BY <1>1, <1>2, <1>3, <1>6, StoredIsSubmitted DEF CountsAreOfIds
<1>8. \A c \in Contests, b \in Ballots :
        sums'[c][b] = IF b \in counted /\ c \in ContestsOn(b) THEN 1 ELSE 0
  BY <1>2, <1>3 DEF Accumulated, EmptySums
<1>9. \A b \in Ballots :
        b \in counted <=>
          /\ ValidForStyle(b)
          /\ \E k \in DOMAIN submitted :
               /\ submitted[k] = b
               /\ \A j \in k + 1 .. Len(submitted) : IdOf[submitted[j]] # IdOf[b]
  BY <1>5, StandsInStore
<1>10. LastOfEachIdCounted'
  BY <1>1, <1>8, <1>9 DEF LastOfEachIdCounted
<1>11. StoreInv' /\ SequencesInv'
  BY <1>1 DEF PipelineInv, StoreInv, IsLast, SequencesInv
<1>12. QED
  BY <1>1, <1>7, <1>10, <1>11 DEF PipelineInv, TalliedInv

LEMMA PipelineInvStep == PipelineInv /\ [PipelineNext]_pipelineVars => PipelineInv'
<1> SUFFICES ASSUME PipelineInv, [PipelineNext]_pipelineVars PROVE PipelineInv'
  OBVIOUS
<1>1. request \in Seq(Ballots)
  BY DEF PipelineInv, SequencesInv
<1>2. ASSUME NEW b \in Ballots, RequestBallot(b) \/ GiveBallot(b) PROVE PipelineInv'
  <2>1. UNCHANGED serviceVars
    BY <1>2 DEF RequestBallot, GiveBallot, Encrypt
  <2>2. QED
    BY <1>1, <2>1, TallyUntouched DEF serviceVars
<1>3. CASE SendToTally
  <2>1. PICK n \in 1 .. MaxRequest : \E ballots \in [1 .. n -> Encrypted] : Receive(ballots)
    BY <1>3 DEF SendToTally
  <2>2. PICK ballots \in [1 .. n -> Encrypted] : Receive(ballots)
    BY <2>1
  <2>3. n \in Nat /\ ballots \in [1 .. n -> Ballots]
    BY <2>1, <2>2, MaxRequestAssumption DEF Encrypted
  <2>4. ballots \in Seq(Ballots)
    BY <2>3
  <2>5. QED
    BY <2>2, <2>4, TallyUntouched DEF Receive
<1>4. CASE SubmitNext
  BY <1>4, SubmitStep
<1>5. CASE TallyAll
  BY <1>5, TallyAllStep
<1>6. CASE UNCHANGED pipelineVars
  BY <1>1, <1>6, TallyUntouched DEF pipelineVars, serviceVars
<1>7. QED
  BY <1>2, <1>3, <1>4, <1>5, <1>6 DEF PipelineNext, TallyStep, ServiceNext

LEMMA PipelineInvariant == PipelineSpec => []PipelineInv
BY PipelineInvInit, PipelineInvStep, PTL DEF PipelineSpec

\* For any request, with repeated ids and ballots of other elections: of the ballots
\* that bear one id the last is counted, if it is valid for its style, and nothing else.
THEOREM LastBallotCounts == PipelineSpec => []LastOfEachIdCounted
<1>1. PipelineInv => LastOfEachIdCounted
  BY DEF PipelineInv, TalliedInv
<1>2. QED
  BY <1>1, PipelineInvariant, PTL

\* total_valid_ballots of the results is the number of ids that were submitted: it counts
\* an id also if its last ballot is not valid and in no total.
THEOREM ValidMeansSubmitted == PipelineSpec => [](published => CountsAreOfIds)
<1>1. PipelineInv => (published => CountsAreOfIds)
  BY DEF PipelineInv, TalliedInv
<1>2. QED
  BY <1>1, PipelineInvariant, PTL

-----------------------------------------------------------------------------
(***************************************************************************)
(* The votes.  First the lists that the code goes through: sums of them,   *)
(* lists with some entries left out, lists of the entries that match.  An  *)
(* operator that folds a list is a recursive function over the subsets of  *)
(* its indices; each lemma says what it is in closed form.                 *)
(***************************************************************************)

(* The sum of a list. *)

\* A fold over a list takes out the last place there is.
LastOf(n) == [s \in SUBSET (1 .. n) |-> CHOOSE x \in s : \A y \in s : x >= y]

LEMMA LastPicks ==
  ASSUME NEW n \in Nat
  PROVE  /\ Picks(LastOf(n), 1 .. n)
         /\ \A i \in 1 .. n : LastOf(n)[1 .. i] = i /\ (1 .. i) \ {i} = 1 .. i - 1
<1>1. ASSUME NEW s \in SUBSET (1 .. n), s # {}
      PROVE  \E x \in s : \A y \in s : x >= y
  <2> DEFINE R == {n - x : x \in s}
  <2>1. R \in SUBSET Nat /\ R # {}
    <3>1. \A x \in s : n - x \in Nat
      OBVIOUS
    <3>2. PICK x \in s : TRUE
      BY <1>1
    <3>3. n - x \in R
      BY <3>2
    <3>4. QED
      BY <3>1, <3>3
  <2>2. PICK r \in R : \A m \in R : r <= m
    BY <2>1, LeastNumber
  <2>3. PICK x \in s : r = n - x
    OBVIOUS
  <2>4. ASSUME NEW y \in s PROVE x >= y
    <3>1. r <= n - y
      BY <2>2
    <3>2. x \in 1 .. n /\ y \in 1 .. n
      OBVIOUS
    <3>3. QED
      BY <2>3, <3>1, <3>2
  <2>5. QED
    BY <2>4
<1>2. Picks(LastOf(n), 1 .. n)
  BY <1>1 DEF Picks, LastOf
<1>3. ASSUME NEW i \in 1 .. n
      PROVE  LastOf(n)[1 .. i] = i /\ (1 .. i) \ {i} = 1 .. i - 1
  <2>1. i \in 1 .. i /\ 1 .. i \in SUBSET (1 .. n)
    OBVIOUS
  <2>2. \A x \in 1 .. i : (\A y \in 1 .. i : x >= y) <=> x = i
    BY <2>1
  <2>3. QED
    BY <2>1, <2>2 DEF LastOf
<1>4. QED
  BY <1>2, <1>3

\* f has the sums of the first places of a list.
SumsTo(f, v, n) ==
  /\ f \in [0 .. n -> Int]
  /\ f[0] = 0
  /\ \A i \in 1 .. n : f[i] = f[i - 1] + v[i]

AddedTo(v) ==
  CHOOSE it : it = [s \in SUBSET DOMAIN v |->
                      IF s = {} THEN 0
                      ELSE it[s \ {CHOOSE x \in s : \A y \in s : x >= y}]
                             + v[CHOOSE x \in s : \A y \in s : x >= y]]

LEMMA SumsUp ==
  ASSUME NEW n \in Nat, NEW v \in [1 .. n -> Int]
  PROVE  \E f : SumsTo(f, v, n) /\ SumOf(v) = f[n]
<1> DEFINE S == 1 .. n
           pick == LastOf(n)
           h == [p \in S \X Int |-> p[2] + v[p[1]]]
<1>1. IsFiniteSet(S)
  BY FS_Interval
<1>2. h \in [S \X Int -> Int] /\ \A x \in S, y \in Int : h[<<x, y>>] = y + v[x]
  OBVIOUS
<1>3. Picks(pick, S) /\ 0 \in Int
  BY LastPicks
<1>4. PICK it \in [SUBSET S -> Int] : IsFold(it, S, pick, 0, h)
  <2> HIDE DEF h, S, pick
  <2>1. QED
    BY <1>1, <1>2, <1>3, FoldsExist
<1>5. ASSUME NEW s \in SUBSET S, s # {}
      PROVE  /\ pick[s] = CHOOSE x \in s : \A y \in s : x >= y
             /\ h[<<pick[s], it[s \ {pick[s]}]>>] = it[s \ {pick[s]}] + v[pick[s]]
  <2>1. pick[s] \in S /\ s \ {pick[s]} \in SUBSET S
    BY <1>3, <1>5 DEF Picks
  <2>2. it[s \ {pick[s]}] \in Int
    BY <2>1
  <2>3. pick[s] = CHOOSE x \in s : \A y \in s : x >= y
    BY DEF LastOf
  <2> HIDE DEF h, pick, S
  <2>4. QED
    BY <1>2, <2>1, <2>2, <2>3
<1> HIDE DEF h, pick
<1>6. it = [s \in SUBSET DOMAIN v |->
              IF s = {} THEN 0
              ELSE it[s \ {CHOOSE x \in s : \A y \in s : x >= y}]
                     + v[CHOOSE x \in s : \A y \in s : x >= y]]
  BY <1>4, <1>5 DEF IsFold
<1> DEFINE at == AddedTo(v)
<1>7. at = [s \in SUBSET DOMAIN v |->
              IF s = {} THEN 0
              ELSE at[s \ {CHOOSE x \in s : \A y \in s : x >= y}]
                     + v[CHOOSE x \in s : \A y \in s : x >= y]]
  BY <1>6 DEF AddedTo
<1>8. SumOf(v) = at[1 .. n]
  BY DEF SumOf, FoldLeft, MapThenFoldSet, Max, AddedTo
<1> HIDE DEF at
<1>9. ASSUME NEW i \in 1 .. n PROVE at[1 .. i] = at[1 .. i - 1] + v[i]
  <2>1. /\ i = CHOOSE x \in 1 .. i : \A y \in 1 .. i : x >= y
        /\ (1 .. i) \ {i} = 1 .. i - 1
    BY LastPicks DEF LastOf
  <2>2. 1 .. i \in SUBSET DOMAIN v /\ 1 .. i # {}
    <3>1. DOMAIN v = 1 .. n /\ i \in 1 .. i /\ \A j \in 1 .. i : j \in 1 .. n
      OBVIOUS
    <3>2. QED
      BY <3>1
  <2>3. QED
    BY <1>7, <2>1, <2>2
<1>10. at[1 .. 0] = 0
  BY <1>7
<1> DEFINE N == {i \in Nat : i <= n => at[1 .. i] \in Int}
<1>11. \A i \in Nat : i \in N
  <2>1. 0 \in N
    BY <1>10
  <2>2. ASSUME NEW i \in N PROVE i + 1 \in N
    <3>1. CASE i + 1 <= n
      <4>1. at[1 .. i + 1] = at[1 .. i + 1 - 1] + v[i + 1]
        BY <1>9, <3>1
      <4>2. i + 1 - 1 = i /\ at[1 .. i] \in Int
        BY <3>1
      <4>3. QED
        BY <3>1, <4>1, <4>2
    <3>2. QED
      BY <3>1
  <2>3. N \in SUBSET Nat
    OBVIOUS
  <2> HIDE DEF N
  <2>4. QED
    BY <2>1, <2>2, <2>3, Induction
<1> DEFINE f == [i \in 0 .. n |-> at[1 .. i]]
<1>12. f \in [0 .. n -> Int]
  BY <1>11
<1>13. \A i \in 1 .. n : f[i] = f[i - 1] + v[i]
  BY <1>9
<1>14. f[0] = 0 /\ f[n] = SumOf(v)
  BY <1>8, <1>10
<1> HIDE DEF f
<1>15. SumsTo(f, v, n)
  BY <1>12, <1>13, <1>14 DEF SumsTo
<1>16. QED
  BY <1>14, <1>15

-----------------------------------------------------------------------------
(* What is kept of a list. *)

OneMoreKept(some, kept, x) == IF x \in some THEN Append(kept, x) ELSE kept

IsKept(it, list, some) ==
  it = [s \in SUBSET DOMAIN list |->
          IF s = {} THEN <<>>
          ELSE OneMoreKept(some, it[s \ {CHOOSE x \in s : \A y \in s : x >= y}],
                           list[CHOOSE x \in s : \A y \in s : x >= y])]

KeptTo(list, some) == CHOOSE it : IsKept(it, list, some)

\* Of a list of n the first m, and only those, are among some.
FirstAreAmong(list, n, m, some) ==
  /\ n \in Nat /\ m \in 0 .. n
  /\ list = [i \in 1 .. n |-> list[i]]
  /\ \A i \in 1 .. n : list[i] \in some <=> i <= m

\* Then the first m are kept.
LEMMA KeptFirst ==
  ASSUME NEW list, NEW n, NEW m, NEW some, FirstAreAmong(list, n, m, some)
  PROVE  Sifted(list, some) = [i \in 1 .. m |-> list[i]]
<1> DEFINE T == {list[i] : i \in 1 .. n}
<1>1. /\ n \in Nat /\ m \in 0 .. n /\ list \in [1 .. n -> T]
      /\ \A i \in 1 .. n : list[i] \in some <=> i <= m
  BY DEF FirstAreAmong
<1> HIDE DEF T
<1> USE <1>1
<1> DEFINE S == 1 .. n
           pick == LastOf(n)
           h == [p \in S \X Seq(T) |->
                   OneMoreKept(some, p[2], list[p[1]])]
<1>2. IsFiniteSet(S)
  BY FS_Interval
<1>3. /\ h \in [S \X Seq(T) -> Seq(T)]
      /\ \A x \in S, y \in Seq(T) :
           h[<<x, y>>] = OneMoreKept(some, y, list[x])
  <2>1. ASSUME NEW x \in S, NEW y \in Seq(T)
        PROVE  OneMoreKept(some, y, list[x]) \in Seq(T)
    BY DEF OneMoreKept
  <2>2. QED
    BY <2>1
<1>4. Picks(pick, S) /\ <<>> \in Seq(T)
  BY LastPicks
<1>5. PICK it \in [SUBSET S -> Seq(T)] : IsFold(it, S, pick, <<>>, h)
  <2> HIDE DEF h, S, pick
  <2>1. QED
    BY <1>2, <1>3, <1>4, FoldsExist
<1>6. ASSUME NEW s \in SUBSET S, s # {}
      PROVE  /\ pick[s] = CHOOSE x \in s : \A y \in s : x >= y
             /\ h[<<pick[s], it[s \ {pick[s]}]>>] =
                  OneMoreKept(some, it[s \ {pick[s]}], list[pick[s]])
  <2>1. pick[s] \in S /\ s \ {pick[s]} \in SUBSET S
    BY <1>4, <1>6 DEF Picks
  <2>2. it[s \ {pick[s]}] \in Seq(T)
    BY <2>1
  <2>3. pick[s] = CHOOSE x \in s : \A y \in s : x >= y
    BY DEF LastOf
  <2> HIDE DEF h, pick, S
  <2>4. QED
    BY <1>3, <2>1, <2>2, <2>3
<1> HIDE DEF h, pick
<1>7. IsKept(it, list, some)
  BY <1>5, <1>6 DEF IsFold, IsKept
<1> DEFINE at == KeptTo(list, some)
<1>8. IsKept(at, list, some)
  BY <1>7 DEF KeptTo
<1>9. Sifted(list, some) = at[1 .. n]
  BY DEF Sifted, FoldLeft, MapThenFoldSet, Max, KeptTo, IsKept, OneMoreKept
<1> HIDE DEF at
<1>10. ASSUME NEW i \in 1 .. n
      PROVE  at[1 .. i] = IF i <= m THEN Append(at[1 .. i - 1], list[i]) ELSE at[1 .. i - 1]
  <2>1. /\ i = CHOOSE x \in 1 .. i : \A y \in 1 .. i : x >= y
        /\ (1 .. i) \ {i} = 1 .. i - 1
    BY LastPicks DEF LastOf
  <2>2. 1 .. i \in SUBSET DOMAIN list /\ 1 .. i # {}
    <3>1. DOMAIN list = 1 .. n /\ i \in 1 .. i /\ \A j \in 1 .. i : j \in 1 .. n
      OBVIOUS
    <3>2. QED
      BY <3>1
  <2>3. at[1 .. i] = OneMoreKept(some, at[1 .. i - 1], list[i])
    BY <1>8, <2>1, <2>2 DEF IsKept
  <2>4. QED
    BY <2>3 DEF OneMoreKept
<1>11. at[1 .. 0] = <<>>
  BY <1>8 DEF IsKept
<1> DEFINE Upto(i) == IF i <= m THEN i ELSE m
           N == {i \in Nat : i <= n => at[1 .. i] = [j \in 1 .. Upto(i) |-> list[j]]}
<1>12. \A i \in Nat : i \in N
  <2>1. 0 \in N
    BY <1>11
  <2>2. ASSUME NEW i \in N PROVE i + 1 \in N
    <3>1. SUFFICES ASSUME i + 1 <= n
                   PROVE  at[1 .. i + 1] = [j \in 1 .. Upto(i + 1) |-> list[j]]
      OBVIOUS
    <3>2. i + 1 \in 1 .. n /\ i + 1 - 1 = i /\ at[1 .. i] = [j \in 1 .. Upto(i) |-> list[j]]
      BY <3>1
    <3>3. CASE i + 1 <= m
      <4>1. Upto(i) = i /\ Upto(i + 1) = i + 1
        BY <3>3
      <4>2. Append([j \in 1 .. i |-> list[j]], list[i + 1]) = [j \in 1 .. i + 1 |-> list[j]]
        <5>1. [j \in 1 .. i |-> list[j]] \in Seq(T)
          BY <3>2
        <5>2. QED
          BY <3>2, <5>1
      <4>3. at[1 .. i + 1] = Append(at[1 .. i], list[i + 1])
        <5>1. PICK k : k = i + 1
          OBVIOUS
        <5>2. k \in 1 .. n /\ k <= m /\ k - 1 = i
          BY <3>2, <3>3, <5>1
        <5>3. at[1 .. k] = Append(at[1 .. k - 1], list[k])
          BY <1>10, <5>2
        <5>4. QED
          BY <5>1, <5>2, <5>3
      <4>4. QED
        BY <3>2, <4>1, <4>2, <4>3
    <3>4. CASE ~(i + 1 <= m)
      <4>1. Upto(i) = m /\ Upto(i + 1) = m
        BY <3>4
      <4>2. at[1 .. i + 1] = at[1 .. i]
        BY <1>10, <3>2, <3>4
      <4>3. QED
        BY <3>2, <4>1, <4>2
    <3>5. QED
      BY <3>3, <3>4
  <2>3. N \in SUBSET Nat
    OBVIOUS
  <2> HIDE DEF N
  <2>4. QED
    BY <2>1, <2>2, <2>3, Induction
<1>13. Upto(n) = m
  OBVIOUS
<1>14. QED
  BY <1>9, <1>12, <1>13

LEMMA KeptOne ==
  ASSUME NEW c, NEW some, c \in some
  PROVE  Sifted(<<c>>, some) = <<c>>
<1> DEFINE list == [i \in 1 .. 1 |-> c]
<1>1. list = <<c>> /\ FirstAreAmong(list, 1, 1, some)
  BY DEF FirstAreAmong
<1> HIDE DEF list
<1>2. Sifted(list, some) = [i \in 1 .. 1 |-> list[i]]
  BY <1>1, KeptFirst
<1>3. QED
  BY <1>1, <1>2

\* and what a list of one list is flattened to.
LEMMA FlattenedOne ==
  ASSUME NEW list
  PROVE  FlattenSeq(<<list>>) = list
<1> DEFINE F == [i \in 1 .. 1 |-> list]
<1>1. F = [i \in 1 .. Len(<<list>>) |-> IF i = 1 THEN <<list>>[i] ELSE F[i - 1] \o <<list>>[i]]
  OBVIOUS
<1> HIDE DEF F
<1> DEFINE G == CHOOSE it : it = [i \in 1 .. Len(<<list>>) |->
                                    IF i = 1 THEN <<list>>[i] ELSE it[i - 1] \o <<list>>[i]]
<1>2. G = [i \in 1 .. Len(<<list>>) |-> IF i = 1 THEN <<list>>[i] ELSE G[i - 1] \o <<list>>[i]]
  BY <1>1
<1>3. FlattenSeq(<<list>>) = G[1]
  BY DEF FlattenSeq
<1> HIDE DEF G
<1>4. QED
  BY <1>2, <1>3

\* The places of a list whose votes are positive.
Positive(v, n) == {i \in 1 .. n : v[i] > 0}

LEMMA PositiveIsFinite ==
  ASSUME NEW n \in Nat, NEW v
  PROVE  IsFiniteSet(Positive(v, n)) /\ Cardinality(Positive(v, n)) \in 0 .. n
<1>1. IsFiniteSet(1 .. n) /\ Cardinality(1 .. n) = n
  BY FS_Interval
<1>2. Positive(v, n) \in SUBSET (1 .. n)
  BY DEF Positive
<1>3. IsFiniteSet(Positive(v, n)) /\ Cardinality(Positive(v, n)) <= n
  BY <1>1, <1>2, FS_Subset
<1>4. Cardinality(Positive(v, n)) \in Nat
  BY <1>3, FS_CardinalityType
<1>5. QED
  BY <1>3, <1>4

\* One place more.
LEMMA OnePlaceMore ==
  ASSUME NEW n \in Nat, NEW v
  PROVE  Cardinality(Positive(v, n + 1)) =
           Cardinality(Positive(v, n)) + (IF v[n + 1] > 0 THEN 1 ELSE 0)
<1>1. IsFiniteSet(Positive(v, n)) /\ Cardinality(Positive(v, n)) \in Nat
  BY PositiveIsFinite
<1>2. Positive(v, n + 1) = IF v[n + 1] > 0 THEN Positive(v, n) \union {n + 1} ELSE Positive(v, n)
  <2>1. \A i : i \in 1 .. n + 1 <=> i \in 1 .. n \/ i = n + 1
    OBVIOUS
  <2>2. QED
    BY <2>1 DEF Positive
<1>3. n + 1 \notin Positive(v, n)
  BY DEF Positive
<1>4. Cardinality(Positive(v, n) \union {n + 1}) = Cardinality(Positive(v, n)) + 1
  BY <1>1, <1>3, FS_AddElement, Zenon
<1>5. QED
  BY <1>1, <1>2, <1>4

\* Votes of at most 1 add up to no more than there are positive ones, and votes of 0 or 1
\* to exactly as many.
LEMMA SumCounts ==
  ASSUME NEW n \in Nat, NEW v \in [1 .. n -> Int]
  PROVE  /\ SumOf(v) \in Int
         /\ (\A i \in 1 .. n : v[i] <= 1) => SumOf(v) <= Cardinality(Positive(v, n))
         /\ (\A i \in 1 .. n : v[i] \in {0, 1}) => SumOf(v) = Cardinality(Positive(v, n))
<1>1. PICK f : SumsTo(f, v, n) /\ SumOf(v) = f[n]
  BY SumsUp
<1>2. f \in [0 .. n -> Int] /\ f[0] = 0 /\ \A i \in 1 .. n : f[i] = f[i - 1] + v[i]
  BY <1>1 DEF SumsTo
<1> DEFINE c(i) == Cardinality(Positive(v, i))
<1>3. \A i \in Nat : c(i) \in Nat
  BY PositiveIsFinite
<1>4. c(0) = 0
  <2>1. Positive(v, 0) = {}
    BY DEF Positive
  <2>2. QED
    BY <2>1, FS_EmptySet
<1>5. \A i \in Nat : c(i + 1) = c(i) + (IF v[i + 1] > 0 THEN 1 ELSE 0)
  BY OnePlaceMore
<1> DEFINE Low == \A i \in 1 .. n : v[i] <= 1
           Bits == \A i \in 1 .. n : v[i] \in {0, 1}
           N == {i \in Nat : i <= n => (Low => f[i] <= c(i)) /\ (Bits => f[i] = c(i))}
<1> HIDE DEF c
<1>6. \A i \in Nat : i \in N
  <2>1. 0 \in N
    BY <1>2, <1>4
  <2>2. ASSUME NEW i \in N PROVE i + 1 \in N
    <3>1. CASE i + 1 <= n
      <4>1. i \in 0 .. n /\ i + 1 \in 1 .. n /\ i + 1 - 1 = i /\ i \in Nat
        BY <3>1
      <4>2. f[i + 1] = f[i] + v[i + 1] /\ f[i] \in Int /\ v[i + 1] \in Int /\ c(i) \in Nat
        <5>1. \A k \in 1 .. n : k - 1 = i => f[k] = f[i] + v[k]
          BY <1>2
        <5>2. f[i + 1] = f[i] + v[i + 1]
          BY <4>1, <5>1
        <5>3. QED
          BY <1>2, <1>3, <4>1, <5>2
      <4>3. c(i + 1) = c(i) + (IF v[i + 1] > 0 THEN 1 ELSE 0)
        BY <1>5, <4>1
      <4>4. (Low => f[i] <= c(i)) /\ (Bits => f[i] = c(i))
        BY <4>1
      <4>5. ASSUME Low PROVE f[i + 1] <= c(i + 1)
        <5>1. v[i + 1] <= 1
          BY <4>1, <4>5
        <5>2. QED
          BY <4>2, <4>3, <4>4, <4>5, <5>1
      <4>6. ASSUME Bits PROVE f[i + 1] = c(i + 1)
        <5>1. v[i + 1] \in {0, 1}
          BY <4>1, <4>6
        <5>2. QED
          BY <4>2, <4>3, <4>4, <4>6, <5>1
      <4>7. QED
        BY <4>1, <4>5, <4>6
    <3>2. QED
      BY <3>1
  <2>3. N \in SUBSET Nat
    OBVIOUS
  <2> HIDE DEF N
  <2>4. QED
    BY <2>1, <2>2, <2>3, Induction
<1>7. (Low => f[n] <= c(n)) /\ (Bits => f[n] = c(n))
  BY <1>6
<1>8. QED
  BY <1>1, <1>2, <1>7 DEF c

-----------------------------------------------------------------------------
(* The manifest of an election. *)

Description(e) == ManifestFor(e).contests[1]
Seats(e) == Description(e).number_elected
Everything(e) == Description(e).selections \o Placeholders(Description(e))

LEMMA DescriptionIs ==
  ASSUME NEW e, CanBeHeld(e)
  PROVE  /\ ManifestFor(e).contests = <<Description(e)>>
         /\ ManifestFor(e).styles = <<BallotStyle>>
         /\ ManifestFor(e).units = <<County>>
         /\ Description(e).id = "contest-1" /\ Description(e).district = County
         /\ Description(e).selections =
              [i \in DOMAIN e.candidates |->
                 [id |-> e.candidates[i], candidate |-> e.candidates[i], sequence |-> i - 1]]
         /\ Description(e).votes_allowed = Seats(e)
         /\ Seats(e) = LargerOf(1, SmallerOf(e.max_choices, Len(e.candidates)))
BY DEF Description, Seats, ManifestFor, CreateElectionManifest

LEMMA CandidatesAre ==
  ASSUME NEW e, CanBeHeld(e)
  PROVE  /\ Len(e.candidates) \in Nat \ {0}
         /\ DOMAIN e.candidates = 1 .. Len(e.candidates)
         /\ Seats(e) \in 1 .. Len(e.candidates)
         /\ ContestIsValid(Description(e))
<1>1. e.candidates \in Seq(ToSet(e.candidates)) /\ e.max_choices \in Int
  BY DEF CanBeHeld
<1>2. DOMAIN e.candidates = 1 .. Len(e.candidates) /\ Len(e.candidates) \in Nat
  BY <1>1
<1>3. Description(e) \in ToSet(ManifestFor(e).contests)
  <2>1. ManifestFor(e).contests = <<Description(e)>>
    BY DescriptionIs
  <2>2. <<Description(e)>>[1] = Description(e) /\ 1 \in DOMAIN <<Description(e)>>
    OBVIOUS
  <2>3. QED
    BY <2>1, <2>2 DEF ToSet
<1>4. Len(Description(e).selections) > 0 /\ ContestIsValid(Description(e))
  BY <1>3 DEF CanBeHeld, Builds, HasInternal, ManifestIsValid
<1>5. Len(Description(e).selections) = Len(e.candidates)
  <2>1. Description(e).selections =
          [i \in 1 .. Len(e.candidates) |->
             [id |-> e.candidates[i], candidate |-> e.candidates[i], sequence |-> i - 1]]
    BY <1>2, DescriptionIs
  <2>2. QED
    BY <1>2, <2>1
<1>6. Seats(e) \in 1 .. Len(e.candidates)
  <2>1. Seats(e) = LargerOf(1, SmallerOf(e.max_choices, Len(e.candidates)))
    BY DescriptionIs
  <2>2. QED
    BY <1>1, <1>2, <1>4, <1>5, <2>1 DEF LargerOf, SmallerOf
<1>7. QED
  BY <1>2, <1>4, <1>5, <1>6

LEMMA JoinedAre ==
  ASSUME NEW T, NEW s \in Seq(T), NEW p \in Seq(T)
  PROVE  /\ DOMAIN (s \o p) = 1 .. Len(s) + Len(p) /\ Len(s \o p) = Len(s) + Len(p)
         /\ \A i \in 1 .. Len(s) : (s \o p)[i] = s[i]
         /\ \A i \in Len(s) + 1 .. Len(s) + Len(p) : (s \o p)[i] = p[i - Len(s)]
<1>1. \A i \in Len(s) + 1 .. Len(s) + Len(p) : (s \o p)[i] = p[i - Len(s)]
  OBVIOUS
<1>2. QED
  BY <1>1

\* The n selections come first, the k placeholders after them, and no id is there twice.
Ordered(e, n, k) ==
  /\ DOMAIN Everything(e) = 1 .. n + k /\ Len(Everything(e)) = n + k
  /\ DOMAIN Description(e).selections = 1 .. n /\ Len(Description(e).selections) = n
  /\ DOMAIN Placeholders(Description(e)) = 1 .. k /\ Len(Placeholders(Description(e))) = k
  /\ \A i \in 1 .. n : /\ Everything(e)[i] = Description(e).selections[i]
                       /\ Everything(e)[i].id = e.candidates[i]
  /\ \A i \in n + 1 .. n + k : Everything(e)[i] = Placeholders(Description(e))[i - n]
  /\ \A i, j \in 1 .. n + k : Everything(e)[i].id = Everything(e)[j].id => i = j

LEMMA EverythingIs ==
  ASSUME NEW e, CanBeHeld(e)
  PROVE  Ordered(e, Len(e.candidates), Seats(e))
<1> DEFINE n == Len(e.candidates)
           k == Seats(e)
           s == Description(e).selections
           p == Placeholders(Description(e))
<1>1. n \in Nat \ {0} /\ k \in 1 .. n /\ DOMAIN e.candidates = 1 .. n
  BY CandidatesAre
<1>2. s = [i \in 1 .. n |-> [id |-> e.candidates[i], candidate |-> e.candidates[i], sequence |-> i - 1]]
  BY <1>1, DescriptionIs
<1>3. DOMAIN s = 1 .. n /\ s \in Seq({s[i] : i \in 1 .. n}) /\ Len(s) = n
  <2>1. DOMAIN s = 1 .. n
    BY <1>2
  <2>2. s = [i \in 1 .. n |-> s[i]]
    BY <1>2
  <2> HIDE DEF s
  <2>3. s \in Seq({s[i] : i \in 1 .. n}) /\ Len(s) = n
    BY <1>1, <2>1, <2>2
  <2>4. QED
    BY <2>1, <2>3
<1>4. DOMAIN p = 1 .. k
  BY DEF Placeholders, Seats
<1>5. p = [i \in 1 .. k |-> p[i]]
  BY DEF Placeholders, Seats
<1> HIDE DEF s, p
<1>6. p \in Seq({p[i] : i \in 1 .. k}) /\ Len(p) = k
  BY <1>1, <1>4, <1>5
<1> DEFINE T == {s[i] : i \in 1 .. n} \union {p[i] : i \in 1 .. k}
<1>7. s \in Seq(T) /\ p \in Seq(T)
  BY <1>1, <1>3, <1>4, <1>5, <1>6
<1> HIDE DEF T
<1>8. /\ DOMAIN (s \o p) = 1 .. n + k /\ Len(s \o p) = n + k
      /\ \A i \in 1 .. n : (s \o p)[i] = s[i]
      /\ \A i \in n + 1 .. n + k : (s \o p)[i] = p[i - n]
  <2>1. Len(s) = n /\ Len(p) = k /\ n \in Nat /\ k \in Nat
    BY <1>1, <1>3, <1>6
  <2>2. /\ DOMAIN (s \o p) = 1 .. Len(s) + Len(p) /\ Len(s \o p) = Len(s) + Len(p)
        /\ \A i \in 1 .. Len(s) : (s \o p)[i] = s[i]
        /\ \A i \in Len(s) + 1 .. Len(s) + Len(p) : (s \o p)[i] = p[i - Len(s)]
    BY <1>7, JoinedAre, Zenon
  <2>3. QED
    BY <2>1, <2>2
<1>9. Everything(e) = s \o p
  BY DEF Everything, s, p
<1>10. UniqueIds(s \o p)
  BY DEF CanBeHeld, Description, s, p
<1>11. \A i, j \in 1 .. n + k : (s \o p)[i].id = (s \o p)[j].id => i = j
  BY <1>8, <1>10 DEF UniqueIds
<1>12. \A i \in 1 .. n : s[i].id = e.candidates[i]
  BY <1>2
<1>13. QED
  BY <1>3, <1>4, <1>6, <1>8, <1>9, <1>11, <1>12 DEF s, p, Ordered

\* There is one contest, and it is on the ballot.
LEMMA OneContest ==
  ASSUME NEW e, CanBeHeld(e)
  PROVE  ContestsFor(ManifestFor(e), "ballot-style-1") =
           <<[description |-> Description(e), placeholders |-> Placeholders(Description(e))]>>
<1> DEFINE m == ManifestFor(e)
           c == [description |-> Description(e), placeholders |-> Placeholders(Description(e))]
           units == UNION {ToSet(s.units) : s \in {t \in ToSet(m.styles) : t.id = "ballot-style-1"}}
<1>1. InternalContests(m) = <<c>>
  <2>1. m.contests = <<Description(e)>>
    BY DescriptionIs
  <2> HIDE DEF m
  <2>2. InternalContests(m) = [i \in DOMAIN <<Description(e)>> |->
                                 [description |-> <<Description(e)>>[i],
                                  placeholders |-> Placeholders(<<Description(e)>>[i])]]
    BY <2>1 DEF InternalContests, WithPlaceholders
  <2>3. QED
    BY <2>2
<1>2. County \in units
  <2>1. m.styles = <<BallotStyle>>
    BY DescriptionIs
  <2>2. BallotStyle \in ToSet(<<BallotStyle>>) /\ County \in ToSet(<<County>>)
    <3>1. \A x : <<x>>[1] = x /\ 1 \in DOMAIN <<x>>
      OBVIOUS
    <3>2. QED
      BY <3>1 DEF ToSet
  <2>3. BallotStyle.id = "ballot-style-1" /\ BallotStyle.units = <<County>>
    BY DEF BallotStyle
  <2>4. QED
    BY <2>1, <2>2, <2>3, Zenon
<1>3. c.description.district \in units
  BY <1>2, DescriptionIs
<1> DEFINE some == {x \in ToSet(<<c>>) : x.description.district \in units}
<1>4. c \in some
  BY <1>3 DEF ToSet
<1>5. ContestsFor(m, "ballot-style-1") = Sifted(<<c>>, some)
  BY <1>1 DEF ContestsFor
<1> HIDE DEF c, some
<1>6. Sifted(<<c>>, some) = <<c>>
  BY <1>4, KeptOne
<1>7. QED
  BY <1>5, <1>6 DEF c

-----------------------------------------------------------------------------
(* Looking up by id. *)

LEMMA LeastIs ==
  ASSUME NEW S \in SUBSET Nat, S # {}
  PROVE  Least(S) \in S /\ \A k \in S : Least(S) <= k
BY LeastNumber DEF Least

LEMMA WithIdIs ==
  ASSUME NEW list, NEW n \in Nat, DOMAIN list = 1 .. n, NEW id, Indices(id, list) # {}
  PROVE  /\ Least(Indices(id, list)) \in 1 .. n
         /\ WithId(id, list) = list[Least(Indices(id, list))]
         /\ WithId(id, list).id = id
<1>1. Indices(id, list) \in SUBSET Nat /\ Indices(id, list) \subseteq 1 .. n
  BY DEF Indices
<1>2. Least(Indices(id, list)) \in Indices(id, list)
  BY <1>1, LeastIs
<1>3. QED
  BY <1>1, <1>2 DEF Indices, WithId

\* The only entry of an id is the one that is found.
LEMMA WithIdFinds ==
  ASSUME NEW list, NEW n \in Nat, DOMAIN list = 1 .. n, NEW i \in 1 .. n,
         \A j \in 1 .. n : list[j].id = list[i].id => j = i
  PROVE  /\ Indices(list[i].id, list) = {i}
         /\ WithId(list[i].id, list) = list[i]
<1>1. Indices(list[i].id, list) = {i}
  BY DEF Indices
<1>2. Least({i}) = i
  BY LeastIs
<1>3. QED
  BY <1>1, <1>2 DEF WithId

-----------------------------------------------------------------------------
(* What is encrypted. *)

\* A voter's contest and ballot with given selections,
FilledContest(sel) == [id |-> "contest-1", selections |-> sel]
FilledBallot(id, sel) ==
  [id |-> id, style |-> "ballot-style-1", contests |-> <<FilledContest(sel)>>]

\* with whole numbers for votes.
AreSelections(sel) ==
  /\ sel = [i \in 1 .. Len(sel) |-> sel[i]] /\ Len(sel) \in Nat
  /\ \A i \in 1 .. Len(sel) : sel[i].vote \in Int

ErrorOf(e, sel) == ContestError(FilledContest(sel), Description(e))

\* The vote that is encrypted for each selection of the election,
CountedFor(e, sel, i) == Counted(FilledContest(sel), Description(e).selections[i], ErrorOf(e, sel))
VotesIn(e, sel) == [i \in 1 .. Len(e.candidates) |-> CountedFor(e, sel, i).vote]

\* whether it is encrypted at all,
Accepted(e, sel) ==
  /\ ErrorOf(e, sel) # "refused"
  /\ \A i \in 1 .. Len(e.candidates) : VotesIn(e, sel)[i] \in {0, 1}

\* and the votes of all selections, the placeholders included.
AllVotes(e, sel) ==
  [i \in 1 .. Len(e.candidates) + Seats(e) |->
     IF i <= Len(e.candidates) THEN VotesIn(e, sel)[i]
     ELSE IF i - Len(e.candidates) \in FilledPlaceholders(SumOf(VotesIn(e, sel)), Seats(e))
          THEN 1 ELSE 0]

ContestNonce(e, id, nonce) == NonceOf(Description(e), NonceSeed(id, nonce))

\* The encrypted ballot, whose nonces are shown or have been removed.
SealedSelection(e, sel, seed, shown, i) ==
  [id |-> Everything(e)[i].id, hash |-> Everything(e)[i], vote |-> AllVotes(e, sel)[i],
   placeholder |-> i > Len(e.candidates), under |-> NonceOf(Everything(e)[i], seed),
   nonce |-> IF shown THEN NonceOf(Everything(e)[i], seed) ELSE NoNonce]

SealedSelections(e, sel, seed, shown) ==
  [i \in 1 .. Len(e.candidates) + Seats(e) |-> SealedSelection(e, sel, seed, shown, i)]

SealedContest(e, sel, seed, shown) ==
  [id |-> "contest-1", hash |-> ContestHash(Description(e)),
   selections |-> SealedSelections(e, sel, seed, shown),
   nonce |-> IF shown THEN seed ELSE NoNonce, proved |-> Seats(e),
   data |-> [error |-> ErrorOf(e, sel), write_ins |-> WriteIns(FilledContest(sel))]]

SealedBallot(e, key, id, sel, code_seed, nonce, shown) ==
  [id |-> id, style |-> "ballot-style-1", manifest_hash |-> ManifestHash(ManifestFor(e)),
   key |-> key, code_seed |-> code_seed, code |-> BallotCode(code_seed, nonce),
   contests |-> <<SealedContest(e, sel, ContestNonce(e, id, nonce), shown)>>,
   nonce |-> IF shown THEN nonce ELSE NoNonce]

LEMMA CountedIs ==
  ASSUME NEW e, CanBeHeld(e), NEW sel, AreSelections(sel), NEW i \in 1 .. Len(e.candidates)
  PROVE  /\ CountedFor(e, sel, i).id = Description(e).selections[i].id
         /\ CountedFor(e, sel, i).vote \in Int
<1> DEFINE id == Description(e).selections[i].id
<1>1. CASE ErrorOf(e, sel) = "overvote" \/ Indices(id, sel) = {}
  BY <1>1 DEF CountedFor, Counted, SelectionFrom, FilledContest
<1>2. CASE ~(ErrorOf(e, sel) = "overvote" \/ Indices(id, sel) = {})
  <2>1. DOMAIN sel = 1 .. Len(sel) /\ Len(sel) \in Nat /\ \A j \in 1 .. Len(sel) : sel[j].vote \in Int
    BY DEF AreSelections
  <2>2. /\ Least(Indices(id, sel)) \in 1 .. Len(sel)
        /\ WithId(id, sel) = sel[Least(Indices(id, sel))] /\ WithId(id, sel).id = id
    BY <1>2, <2>1, WithIdIs
  <2>3. CountedFor(e, sel, i) = WithId(id, sel)
    BY <1>2 DEF CountedFor, Counted, FilledContest
  <2>4. QED
    BY <2>1, <2>2, <2>3
<1>3. QED
  BY <1>1, <1>2

\* encrypt_contest, of a description, its placeholders and the selections that count.
Assembled(d, placeholders, error, nonce, counted, sum, write_ins) ==
  LET filled == FilledPlaceholders(sum, d.number_elected)
      real == [i \in DOMAIN counted |->
                 EncryptSelection(counted[i], d.selections[i], FALSE, nonce)]
      extra == [k \in DOMAIN placeholders |->
                  EncryptSelection(SelectionFrom(placeholders[k], k \in filled), placeholders[k],
                                   TRUE, nonce)]
  IN  IF error = "refused" \/ Refused \in ToSet(real) THEN Refused
      ELSE MakeContest(d, real \o extra, nonce, [error |-> error, write_ins |-> write_ins])

LEMMA ContestIsAssembled ==
  ASSUME NEW contest, NEW d, NEW placeholders, NEW nonce_seed,
         NEW error, error = ContestError(contest, d),
         NEW counted, counted = Mapped(LAMBDA s : Counted(contest, s, error), d.selections),
         NEW sum, sum = SumOf(Mapped(LAMBDA s : s.vote, counted))
  PROVE  EncryptContest(contest, [description |-> d, placeholders |-> placeholders], nonce_seed) =
           Assembled(d, placeholders, error, NonceOf(d, nonce_seed), counted, sum, WriteIns(contest))
<1>1. ASSUME NEW internal, internal.description = d
      PROVE  EncryptContest(contest, internal, nonce_seed) =
               Assembled(internal.description, internal.placeholders, error,
                         NonceOf(internal.description, nonce_seed), counted, sum, WriteIns(contest))
  BY <1>1 DEF EncryptContest, Assembled
<1> DEFINE whole == [description |-> d, placeholders |-> placeholders]
<1>2. whole.description = d /\ whole.placeholders = placeholders
  OBVIOUS
<1> HIDE DEF whole
<1>3. EncryptContest(contest, whole, nonce_seed) =
        Assembled(d, placeholders, error, NonceOf(d, nonce_seed), counted, sum, WriteIns(contest))
  BY <1>1, <1>2
<1>4. QED
  BY <1>3 DEF whole

LEMMA ContestIsSealed ==
  ASSUME NEW e, CanBeHeld(e), NEW sel, AreSelections(sel), NEW nonce_seed
  PROVE  EncryptContest(FilledContest(sel),
                        [description |-> Description(e), placeholders |-> Placeholders(Description(e))],
                        nonce_seed) =
           IF Accepted(e, sel) THEN SealedContest(e, sel, NonceOf(Description(e), nonce_seed), TRUE)
           ELSE Refused
<1> DEFINE d == Description(e)
           p == Placeholders(d)
           n == Len(e.candidates)
           k == Seats(e)
           error == ErrorOf(e, sel)
           nonce == NonceOf(d, nonce_seed)
           counted == [i \in 1 .. n |-> CountedFor(e, sel, i)]
           filled == FilledPlaceholders(SumOf(VotesIn(e, sel)), k)
           real == [i \in 1 .. n |-> EncryptSelection(counted[i], d.selections[i], FALSE, nonce)]
           extra == [i \in 1 .. k |->
                       EncryptSelection(SelectionFrom(p[i], i \in filled), p[i], TRUE, nonce)]
<1>1. n \in Nat \ {0} /\ k \in 1 .. n
  BY CandidatesAre
<1>2. /\ DOMAIN d.selections = 1 .. n /\ DOMAIN p = 1 .. k
      /\ \A i \in 1 .. n : Everything(e)[i] = d.selections[i]
      /\ \A i \in n + 1 .. n + k : Everything(e)[i] = p[i - n]
  BY EverythingIs DEF Ordered
<1>3. Mapped(LAMBDA s : Counted(FilledContest(sel), s, error), d.selections) = counted
  BY <1>2 DEF Mapped, CountedFor
<1>4. Mapped(LAMBDA s : s.vote, counted) = VotesIn(e, sel)
  BY DEF Mapped, VotesIn
<1>5. EncryptContest(FilledContest(sel), [description |-> d, placeholders |-> p], nonce_seed) =
        IF error = "refused" \/ Refused \in ToSet(real) THEN Refused
        ELSE MakeContest(d, real \o extra, nonce,
                         [error |-> error, write_ins |-> WriteIns(FilledContest(sel))])
  <2> HIDE DEF counted
  <2>1. [i \in DOMAIN counted |-> EncryptSelection(counted[i], d.selections[i], FALSE, nonce)] = real
    BY DEF counted
  <2>2. QED
    <3>1. EncryptContest(FilledContest(sel), [description |-> d, placeholders |-> p], nonce_seed) =
            Assembled(d, p, error, nonce, counted, SumOf(VotesIn(e, sel)), WriteIns(FilledContest(sel)))
      BY <1>3, <1>4, ContestIsAssembled DEF ErrorOf
    <3>2. QED
      BY <1>2, <2>1, <3>1 DEF Assembled, Seats
<1> DEFINE open(i) == MakeSelection(d.selections[i], VotesIn(e, sel)[i], FALSE,
                                    NonceOf(d.selections[i], nonce))
           held(i) == MakeSelection(p[i], IF i \in filled THEN 1 ELSE 0, TRUE, NonceOf(p[i], nonce))
<1>6. ASSUME NEW i \in 1 .. n
      PROVE  real[i] = IF VotesIn(e, sel)[i] \in {0, 1} THEN open(i) ELSE Refused
  <2>1. counted[i].id = d.selections[i].id /\ counted[i].vote = VotesIn(e, sel)[i]
    BY CountedIs DEF VotesIn
  <2> HIDE DEF counted, d, nonce
  <2>2. QED
    BY <2>1 DEF EncryptSelection, SelectionIsValid
<1>7. ASSUME NEW i \in 1 .. k PROVE extra[i] = held(i)
  BY DEF EncryptSelection, SelectionIsValid, SelectionFrom
<1>8. \A i \in 1 .. n : open(i) # Refused
  BY DEF MakeSelection, Refused
<1> HIDE DEF open, held, filled, nonce, counted
<1>9. Refused \in ToSet(real) <=> ~ \A i \in 1 .. n : VotesIn(e, sel)[i] \in {0, 1}
  <2>1. Refused \in ToSet(real) <=> \E i \in 1 .. n : real[i] = Refused
    BY DEF ToSet
  <2>2. QED
    BY <1>6, <1>8, <2>1
<1>10. ASSUME Accepted(e, sel)
       PROVE  real \o extra = SealedSelections(e, sel, nonce, TRUE)
  <2> DEFINE T == {real[i] : i \in 1 .. n} \union {extra[i] : i \in 1 .. k}
  <2>1. real \in Seq(T) /\ Len(real) = n /\ extra \in Seq(T) /\ Len(extra) = k
    <3>1. real \in [1 .. n -> T] /\ extra \in [1 .. k -> T]
      OBVIOUS
    <3> HIDE DEF T, real, extra
    <3>2. QED
      BY <1>1, <3>1
  <2> HIDE DEF T
  <2>2. \A i \in 1 .. n : real[i] = SealedSelection(e, sel, nonce, TRUE, i)
    <3>1. ASSUME NEW i \in 1 .. n PROVE real[i] = SealedSelection(e, sel, nonce, TRUE, i)
      <4>1. real[i] = open(i)
        BY <1>6, <1>10 DEF Accepted
      <4>2. i \in 1 .. n + k /\ i <= n /\ ~(i > n) /\ Everything(e)[i] = d.selections[i]
        BY <1>1, <1>2
      <4>3. AllVotes(e, sel)[i] = VotesIn(e, sel)[i]
        BY <4>2 DEF AllVotes
      <4>4. QED
        BY <4>1, <4>2, <4>3, (i > n) = FALSE DEF open, MakeSelection, SealedSelection
    <3>2. QED
      BY <3>1
  <2>3. \A i \in n + 1 .. n + k : extra[i - n] = SealedSelection(e, sel, nonce, TRUE, i)
    <3>1. ASSUME NEW i \in n + 1 .. n + k PROVE extra[i - n] = SealedSelection(e, sel, nonce, TRUE, i)
      <4>1. /\ i \in 1 .. n + k /\ ~(i <= n) /\ i > n /\ i - n \in 1 .. k
            /\ Everything(e)[i] = p[i - n]
        BY <1>1, <1>2
      <4>2. extra[i - n] = held(i - n)
        BY <1>7, <4>1
      <4>3. AllVotes(e, sel)[i] = IF i - n \in filled THEN 1 ELSE 0
        BY <4>1 DEF AllVotes, filled
      <4>4. QED
        BY <4>1, <4>2, <4>3 DEF held, MakeSelection, SealedSelection
    <3>2. QED
      BY <3>1
  <2> HIDE DEF real, extra
  <2>4. /\ DOMAIN (real \o extra) = 1 .. n + k
        /\ \A i \in 1 .. n : (real \o extra)[i] = real[i]
        /\ \A i \in n + 1 .. n + k : (real \o extra)[i] = extra[i - n]
        /\ real \o extra = [i \in DOMAIN (real \o extra) |-> (real \o extra)[i]]
    <3>1. real \o extra \in Seq(T)
      BY <2>1
    <3>2. /\ DOMAIN (real \o extra) = 1 .. Len(real) + Len(extra) /\ Len(real \o extra) = Len(real) + Len(extra)
          /\ \A i \in 1 .. Len(real) : (real \o extra)[i] = real[i]
          /\ \A i \in Len(real) + 1 .. Len(real) + Len(extra) : (real \o extra)[i] = extra[i - Len(real)]
      BY <2>1, JoinedAre, Zenon
    <3> DEFINE x == real \o extra
    <3>3. x = [i \in DOMAIN x |-> x[i]]
      <4> HIDE DEF x
      <4>1. x \in Seq(T)
        BY <3>1 DEF x
      <4>2. QED
        BY <4>1
    <3>4. QED
      BY <2>1, <3>2, <3>3
  <2>5. \A i \in 1 .. n + k : (real \o extra)[i] = SealedSelection(e, sel, nonce, TRUE, i)
    <3>1. ASSUME NEW i \in 1 .. n + k
          PROVE  (real \o extra)[i] = SealedSelection(e, sel, nonce, TRUE, i)
      <4>1. CASE i \in 1 .. n
        BY <2>2, <2>4, <4>1
      <4>2. CASE i \in n + 1 .. n + k
        BY <2>3, <2>4, <4>2
      <4>3. i \in 1 .. n \/ i \in n + 1 .. n + k
        BY <1>1
      <4>4. QED
        BY <4>1, <4>2, <4>3, Zenon
    <3>2. QED
      BY <3>1
  <2>6. QED
    BY <2>4, <2>5 DEF SealedSelections
<1>11. ASSUME Accepted(e, sel)
       PROVE  MakeContest(d, real \o extra, nonce,
                          [error |-> error, write_ins |-> WriteIns(FilledContest(sel))])
                = SealedContest(e, sel, nonce, TRUE)
  <2>1. d.id = "contest-1"
    BY DescriptionIs
  <2> HIDE DEF real, extra
  <2>2. QED
    BY <1>10, <1>11, <2>1 DEF MakeContest, SealedContest, Seats
<1> HIDE DEF real, extra
<1>12. QED
  BY <1>5, <1>9, <1>11 DEF Accepted, nonce

\* encrypt_ballot.
LEMMA BallotIsSealed ==
  ASSUME NEW e, CanBeHeld(e), NEW sel, AreSelections(sel), NEW key, NEW id, NEW code_seed, NEW nonce
  PROVE  EncryptBallot(FilledBallot(id, sel), ManifestFor(e), key, code_seed, nonce) =
           IF Accepted(e, sel) THEN SealedBallot(e, key, id, sel, code_seed, nonce, TRUE) ELSE Refused
<1> DEFINE d == Description(e)
           m == ManifestFor(e)
           seed == NonceSeed(id, nonce)
           internal == [description |-> d, placeholders |-> Placeholders(d)]
           one == EncryptContest(FilledContest(sel), internal, seed)
<1>1. FilledBallot(id, sel).contests = <<FilledContest(sel)>> /\ FilledBallot(id, sel).style = "ballot-style-1"
      /\ FilledBallot(id, sel).id = id
  BY DEF FilledBallot
<1>2. Indices(d.id, <<FilledContest(sel)>>) # {} /\ WithId(d.id, <<FilledContest(sel)>>) = FilledContest(sel)
  <2> DEFINE list == <<FilledContest(sel)>>
  <2>1. DOMAIN list = 1 .. 1 /\ list[1].id = d.id /\ list[1] = FilledContest(sel)
    <3>1. d.id = "contest-1"
      BY DescriptionIs
    <3>2. QED
      BY <3>1 DEF FilledContest
  <2> HIDE DEF list
  <2>2. 1 \in Nat /\ 1 \in 1 .. 1 /\ \A j \in 1 .. 1 : list[j].id = list[1].id => j = 1
    OBVIOUS
  <2>3. Indices(list[1].id, list) = {1} /\ WithId(list[1].id, list) = list[1]
    BY <2>1, <2>2, WithIdFinds
  <2>4. QED
    BY <2>1, <2>3 DEF list
<1>3. ContestsFor(m, "ballot-style-1") = <<internal>>
  BY OneContest
<1>4. EncryptBallotContests(FilledBallot(id, sel), m, seed) = <<one>>
  <2> DEFINE ballot == FilledBallot(id, sel)
             Each(x) == EncryptContest(IF Indices(x.description.id, ballot.contests) = {}
                                       THEN ContestFrom(x.description)
                                       ELSE WithId(x.description.id, ballot.contests), x, seed)
  <2>1. EncryptBallotContests(ballot, m, seed) = Mapped(Each, ContestsFor(m, ballot.style))
    BY DEF EncryptBallotContests
  <2>2. Each(internal) = one
    <3>1. internal.description = d
      OBVIOUS
    <3> HIDE DEF internal, ballot, d
    <3>2. QED
      BY <1>1, <1>2, <3>1 DEF ballot
  <2> HIDE DEF internal, Each, one
  <2>3. Mapped(Each, <<internal>>) = <<Each(internal)>>
    BY DEF Mapped
  <2>4. QED
    BY <1>1, <1>3, <2>1, <2>2, <2>3
<1>5. Refused \in ToSet(<<one>>) <=> one = Refused
  <2> HIDE DEF one
  <2>1. <<one>>[1] = one /\ DOMAIN <<one>> = {1}
    OBVIOUS
  <2>2. QED
    BY <2>1 DEF ToSet
<1>6. EncryptBallot(FilledBallot(id, sel), m, key, code_seed, nonce) =
        IF one = Refused THEN Refused
        ELSE MakeBallot(FilledBallot(id, sel), m, key, code_seed, <<one>>, nonce)
  <2> HIDE DEF one, m
  <2>1. QED
    BY <1>1, <1>4, <1>5 DEF EncryptBallot
<1>7. one = IF Accepted(e, sel) THEN SealedContest(e, sel, ContestNonce(e, id, nonce), TRUE) ELSE Refused
  BY ContestIsSealed DEF ContestNonce
<1>8. SealedContest(e, sel, ContestNonce(e, id, nonce), TRUE) # Refused
  BY DEF SealedContest, Refused
<1> HIDE DEF one, m
<1>9. QED
  BY <1>1, <1>6, <1>7, <1>8 DEF MakeBallot, SealedBallot, m

\* make_ciphertext_submitted_ballot.
LEMMA SubmittedIs ==
  ASSUME NEW e, NEW sel, NEW key, NEW id, NEW code_seed, NEW nonce
  PROVE  MakeSubmitted(SealedBallot(e, key, id, sel, code_seed, nonce, TRUE)) =
           SealedBallot(e, key, id, sel, code_seed, nonce, FALSE)
<1> DEFINE seed == ContestNonce(e, id, nonce)
           c == SealedContest(e, sel, seed, TRUE)
           bare == SealedContest(e, sel, seed, FALSE)
           Bare(s) == [s EXCEPT !.nonce = NoNonce]
<1>1. Mapped(Bare, SealedSelections(e, sel, seed, TRUE)) = SealedSelections(e, sel, seed, FALSE)
  <2>1. ASSUME NEW i \in 1 .. Len(e.candidates) + Seats(e)
        PROVE  Bare(SealedSelection(e, sel, seed, TRUE, i)) = SealedSelection(e, sel, seed, FALSE, i)
    BY DEF SealedSelection
  <2>2. QED
    BY <2>1 DEF Mapped, SealedSelections
<1>2. [c EXCEPT !.nonce = NoNonce, !.selections = Mapped(Bare, @)] = bare
  <2>1. c.selections = SealedSelections(e, sel, seed, TRUE)
    BY DEF SealedContest
  <2> DEFINE shown == SealedSelections(e, sel, seed, TRUE)
             hidden == SealedSelections(e, sel, seed, FALSE)
  <2>2. c = [id |-> "contest-1", hash |-> ContestHash(Description(e)), selections |-> shown,
             nonce |-> seed, proved |-> Seats(e),
             data |-> [error |-> ErrorOf(e, sel), write_ins |-> WriteIns(FilledContest(sel))]]
    BY DEF SealedContest
  <2>3. bare = [id |-> "contest-1", hash |-> ContestHash(Description(e)), selections |-> hidden,
                nonce |-> NoNonce, proved |-> Seats(e),
                data |-> [error |-> ErrorOf(e, sel), write_ins |-> WriteIns(FilledContest(sel))]]
    BY DEF SealedContest
  <2>4. Mapped(Bare, shown) = hidden
    BY <1>1
  <2> HIDE DEF c, bare, Bare, seed, shown, hidden
  <2>5. [c EXCEPT !.nonce = NoNonce, !.selections = Mapped(Bare, @)]
          = [c EXCEPT !.nonce = NoNonce, !.selections = hidden]
    BY <2>1, <2>4 DEF shown
  <2>6. [c EXCEPT !.nonce = NoNonce, !.selections = hidden] = bare
    <3> DEFINE h == ContestHash(Description(e))
               data == [error |-> ErrorOf(e, sel), write_ins |-> WriteIns(FilledContest(sel))]
               c2 == [id |-> "contest-1", hash |-> h, selections |-> shown, nonce |-> NoNonce,
                      proved |-> Seats(e), data |-> data]
    <3>1. c = [id |-> "contest-1", hash |-> h, selections |-> shown, nonce |-> seed,
               proved |-> Seats(e), data |-> data]
      BY <2>2
    <3>2. bare = [id |-> "contest-1", hash |-> h, selections |-> hidden, nonce |-> NoNonce,
                  proved |-> Seats(e), data |-> data]
      BY <2>3
    <3> HIDE DEF h, data
    <3>3. [c EXCEPT !.nonce = NoNonce] = c2
      BY <3>1
    <3>4. [c2 EXCEPT !.selections = hidden] = bare
      BY <3>2
    <3> HIDE DEF c2
    <3>5. [c EXCEPT !.nonce = NoNonce, !.selections = hidden]
            = [[c EXCEPT !.nonce = NoNonce] EXCEPT !.selections = hidden]
      OBVIOUS
    <3>6. QED
      BY <3>3, <3>4, <3>5
  <2>7. QED
    BY <2>5, <2>6
<1> DEFINE BareContest(x) == [x EXCEPT !.nonce = NoNonce, !.selections = Mapped(Bare, @)]
           ballot == SealedBallot(e, key, id, sel, code_seed, nonce, TRUE)
<1>3. BareContest(c) = bare
  BY <1>2
<1> HIDE DEF c, bare, BareContest
<1>4. Mapped(BareContest, <<c>>) = <<bare>>
  BY <1>3 DEF Mapped
<1>5. ballot.contests = <<c>>
  BY DEF SealedBallot, c
<1>6. MakeSubmitted(ballot) = [ballot EXCEPT !.nonce = NoNonce, !.contests = Mapped(BareContest, @)]
  BY DEF MakeSubmitted, BareContest
<1>7. QED
  BY <1>4, <1>5, <1>6 DEF SealedBallot, c, bare

-----------------------------------------------------------------------------
(* The votes of a ballot. *)

\* The votes the voter gives, how many of the selections that is,
GivenVotes(sel) == [i \in 1 .. Len(sel) |-> sel[i].vote]
Selected(sel) == Cardinality(Positive(GivenVotes(sel), Len(sel)))

\* and when they are too many.
IsOvervote(e, sel) ==
  \/ Selected(sel) > Seats(e)
  \/ Selected(sel) = Seats(e) /\ SumOf(GivenVotes(sel)) > Seats(e)

LEMMA GivenVotesAre ==
  ASSUME NEW sel, AreSelections(sel)
  PROVE  /\ GivenVotes(sel) \in [1 .. Len(sel) -> Int]
         /\ Len(sel) \in Nat /\ DOMAIN sel = 1 .. Len(sel)
         /\ Selected(sel) \in Nat /\ IsFiniteSet(Positive(GivenVotes(sel), Len(sel)))
         /\ SumOf(GivenVotes(sel)) \in Int
         /\ (\A i \in 1 .. Len(sel) : sel[i].vote <= 1) => SumOf(GivenVotes(sel)) <= Selected(sel)
<1>1. Len(sel) \in Nat /\ DOMAIN sel = 1 .. Len(sel) /\ GivenVotes(sel) \in [1 .. Len(sel) -> Int]
  BY DEF AreSelections, GivenVotes
<1>2. Selected(sel) \in Nat /\ IsFiniteSet(Positive(GivenVotes(sel), Len(sel)))
  BY <1>1, PositiveIsFinite DEF Selected
<1>3. \A i \in 1 .. Len(sel) : GivenVotes(sel)[i] = sel[i].vote
  BY DEF GivenVotes
<1>4. /\ SumOf(GivenVotes(sel)) \in Int
      /\ (\A i \in 1 .. Len(sel) : GivenVotes(sel)[i] <= 1) =>
           SumOf(GivenVotes(sel)) <= Cardinality(Positive(GivenVotes(sel), Len(sel)))
  BY <1>1, SumCounts
<1>5. QED
  BY <1>1, <1>2, <1>3, <1>4 DEF Selected

LEMMA ErrorIs ==
  ASSUME NEW e, CanBeHeld(e), NEW sel, AreSelections(sel), ErrorOf(e, sel) # "refused"
  PROVE  /\ ErrorOf(e, sel) = "overvote" <=> IsOvervote(e, sel)
         /\ \A i \in 1 .. Len(sel) :
              \E j \in 1 .. Len(e.candidates) : Description(e).selections[j].id = sel[i].id
<1> DEFINE d == Description(e)
           c == FilledContest(sel)
           votes == GivenVotes(sel)
           selected == Selected(sel)
           k == Seats(e)
           odd == \/ c.id # d.id
                  \/ Len(c.selections) > Len(d.selections)
                  \/ ~ContestIsValid(d)
                  \/ \E s \in ToSet(c.selections) : Indices(s.id, d.selections) = {}
<1>1. c.selections = sel
  BY DEF FilledContest
<1>2. /\ Len(sel) \in Nat /\ DOMAIN sel = 1 .. Len(sel) /\ selected \in Nat /\ SumOf(votes) \in Int
      /\ (\A i \in 1 .. Len(sel) : sel[i].vote <= 1) => SumOf(votes) <= selected
  BY GivenVotesAre
<1>3. Mapped(LAMBDA s : s.vote, sel) = votes
  BY <1>2 DEF Mapped, GivenVotes
<1>4. Cardinality({i \in DOMAIN votes : votes[i] > 0}) = selected
  BY DEF Selected, Positive, GivenVotes
<1>5. d.number_elected = k /\ d.votes_allowed = k /\ k \in Nat \ {0}
  <2>1. Description(e).votes_allowed = Seats(e)
    BY DescriptionIs
  <2>2. Seats(e) \in Nat \ {0}
    <3>1. Len(e.candidates) \in Nat /\ Seats(e) \in 1 .. Len(e.candidates)
      BY CandidatesAre
    <3>2. QED
      BY <3>1
  <2>3. QED
    BY <2>1, <2>2 DEF Seats
<1>6. IsOvervote(e, sel) <=> selected > k \/ (selected = k /\ SumOf(votes) > k)
  BY DEF IsOvervote
<1> HIDE DEF c, d, votes, selected, k
<1>7. ErrorOf(e, sel) =
        CASE odd -> "refused"
          [] OTHER ->
               IF selected < 1 THEN "nullvote"
               ELSE IF selected < k THEN "undervote"
               ELSE IF selected > k THEN "overvote"
               ELSE IF SumOf(votes) > k THEN "overvote"
               ELSE IF selected < k THEN "refused"
               ELSE "none"
  BY <1>1, <1>3, <1>4, <1>5 DEF ErrorOf, ContestError, c, d
<1>8. ~odd
  BY <1>7
<1> HIDE DEF odd
<1>9. ErrorOf(e, sel) = "overvote" <=> IsOvervote(e, sel)
  <2>1. ErrorOf(e, sel) = IF selected < 1 THEN "nullvote"
               ELSE IF selected < k THEN "undervote"
               ELSE IF selected > k THEN "overvote"
               ELSE IF SumOf(votes) > k THEN "overvote"
               ELSE IF selected < k THEN "refused"
               ELSE "none"
    BY <1>7, <1>8
  <2>2. /\ "overvote" # "nullvote" /\ "overvote" # "undervote"
        /\ "overvote" # "refused" /\ "overvote" # "none"
    OBVIOUS
  <2>3. selected \in Nat /\ k \in Nat /\ SumOf(votes) \in Int /\ k # 0
    BY <1>2, <1>5
  <2>4. CASE selected < 1
    BY <1>6, <2>1, <2>2, <2>3, <2>4
  <2>5. CASE ~(selected < 1) /\ selected < k
    BY <1>6, <2>1, <2>2, <2>3, <2>5
  <2>6. CASE ~(selected < 1) /\ selected > k
    BY <1>6, <2>1, <2>2, <2>3, <2>6
  <2>7. CASE ~(selected < 1) /\ selected = k /\ SumOf(votes) > k
    BY <1>6, <2>1, <2>2, <2>3, <2>7
  <2>8. CASE ~(selected < 1) /\ selected = k /\ ~(SumOf(votes) > k)
    BY <1>6, <2>1, <2>2, <2>3, <2>8
  <2>9. QED
    BY <2>3, <2>4, <2>5, <2>6, <2>7, <2>8
<1>10. ASSUME NEW i \in 1 .. Len(sel)
      PROVE  \E j \in 1 .. Len(e.candidates) : d.selections[j].id = sel[i].id
  <2>1. sel[i] \in ToSet(sel)
    BY <1>2 DEF ToSet
  <2>2. Indices(sel[i].id, d.selections) # {}
    BY <1>1, <1>8, <2>1 DEF odd
  <2>3. DOMAIN d.selections = 1 .. Len(e.candidates)
    BY EverythingIs DEF Ordered, d
  <2>4. QED
    BY <2>2, <2>3 DEF Indices
<1>11. QED
  BY <1>9, <1>10 DEF d

\* Which vote counts for a selection: none, or the first that is given.
IsLeftOut(e, sel, id) == ErrorOf(e, sel) = "overvote" \/ Indices(id, sel) = {}
IsTaken(e, sel, i, id) ==
  /\ Least(Indices(id, sel)) \in 1 .. Len(sel)
  /\ sel[Least(Indices(id, sel))].id = id
  /\ VotesIn(e, sel)[i] = sel[Least(Indices(id, sel))].vote

LEMMA VoteCounts ==
  ASSUME NEW e, CanBeHeld(e), NEW sel, AreSelections(sel), NEW i \in 1 .. Len(e.candidates),
         NEW id, id = Description(e).selections[i].id
  PROVE  /\ VotesIn(e, sel)[i] \in Int
         /\ IsLeftOut(e, sel, id) => VotesIn(e, sel)[i] = 0
         /\ ~IsLeftOut(e, sel, id) => IsTaken(e, sel, i, id)
<1>1. VotesIn(e, sel)[i] = CountedFor(e, sel, i).vote /\ CountedFor(e, sel, i).vote \in Int
  BY CountedIs DEF VotesIn
<1>2. CASE IsLeftOut(e, sel, id)
  <2>1. CountedFor(e, sel, i).vote = 0
    BY <1>2 DEF CountedFor, Counted, SelectionFrom, FilledContest, IsLeftOut
  <2>2. QED
    BY <1>1, <1>2, <2>1
<1>3. CASE ~IsLeftOut(e, sel, id)
  <2>1. DOMAIN sel = 1 .. Len(sel) /\ Len(sel) \in Nat
    BY DEF AreSelections
  <2>2. /\ Least(Indices(id, sel)) \in 1 .. Len(sel)
        /\ WithId(id, sel) = sel[Least(Indices(id, sel))] /\ WithId(id, sel).id = id
    BY <1>3, <2>1, WithIdIs DEF IsLeftOut
  <2>3. CountedFor(e, sel, i) = WithId(id, sel)
    BY <1>3 DEF CountedFor, Counted, FilledContest, IsLeftOut
  <2>4. QED
    BY <1>1, <1>3, <2>2, <2>3 DEF IsTaken
<1>4. QED
  BY <1>2, <1>3

\* The votes that are encrypted are 0 or 1 and no more than there are seats.
LEMMA VotesFit ==
  ASSUME NEW e, CanBeHeld(e), NEW sel, AreSelections(sel), Accepted(e, sel)
  PROVE  /\ VotesIn(e, sel) \in [1 .. Len(e.candidates) -> {0, 1}]
         /\ SumOf(VotesIn(e, sel)) = Cardinality(Positive(VotesIn(e, sel), Len(e.candidates)))
         /\ SumOf(VotesIn(e, sel)) \in 0 .. Seats(e)
<1> DEFINE n == Len(e.candidates)
           k == Seats(e)
           v == VotesIn(e, sel)
           given == GivenVotes(sel)
<1>1. n \in Nat /\ k \in Nat \ {0}
  <2>1. n \in Nat \ {0} /\ k \in 1 .. n
    BY CandidatesAre
  <2>2. QED
    BY <2>1
<1>2. v \in [1 .. n -> {0, 1}]
  <2>1. v = [i \in 1 .. n |-> v[i]] /\ \A i \in 1 .. n : v[i] \in {0, 1}
    BY DEF VotesIn, Accepted
  <2> HIDE DEF v
  <2>2. QED
    BY <2>1
<1>3. SumOf(v) = Cardinality(Positive(v, n))
  <2> HIDE DEF v, n
  <2>1. v \in [1 .. n -> Int] /\ \A i \in 1 .. n : v[i] \in {0, 1}
    BY <1>2
  <2>2. QED
    BY <1>1, <2>1, SumCounts
<1>4. Cardinality(Positive(v, n)) \in Nat
  <2>1. Cardinality(Positive(v, n)) \in 0 .. n
    BY <1>1, PositiveIsFinite
  <2>2. QED
    BY <1>1, <2>1
<1>5. Cardinality(Positive(v, n)) <= k
  <2>1. CASE ErrorOf(e, sel) = "overvote"
    <3>1. \A i \in 1 .. n : v[i] = 0
      BY <2>1, VoteCounts DEF IsLeftOut
    <3>2. Positive(v, n) = {}
      BY <3>1 DEF Positive
    <3>3. QED
      BY <1>1, <3>2, FS_EmptySet
  <2>2. CASE ErrorOf(e, sel) # "overvote"
    <3>1. ErrorOf(e, sel) # "refused"
      BY DEF Accepted
    <3>2. ~IsOvervote(e, sel)
      BY <2>2, <3>1, ErrorIs
    <3>3. Selected(sel) \in Nat /\ IsFiniteSet(Positive(given, Len(sel)))
      BY GivenVotesAre
    <3>4. Selected(sel) <= k
      BY <1>1, <3>2, <3>3 DEF IsOvervote
    <3> DEFINE Id(i) == Description(e).selections[i].id
               at == [i \in Positive(v, n) |-> Least(Indices(Id(i), sel))]
    <3>5. ASSUME NEW i \in Positive(v, n)
          PROVE  at[i] \in Positive(given, Len(sel)) /\ sel[at[i]].id = Id(i) /\ i \in 1 .. n
      <4>1. i \in 1 .. n /\ v[i] > 0
        BY DEF Positive
      <4>2. v[i] # 0
        BY <1>2, <4>1
      <4>3. PICK id : id = Description(e).selections[i].id
        OBVIOUS
      <4>4. /\ Least(Indices(id, sel)) \in 1 .. Len(sel)
            /\ sel[Least(Indices(id, sel))].id = id
            /\ v[i] = sel[Least(Indices(id, sel))].vote
        <5>1. VotesIn(e, sel)[i] # 0 /\ i \in 1 .. Len(e.candidates)
          BY <4>1, <4>2
        <5> HIDE DEF at, v
        <5>2. IsTaken(e, sel, i, id)
          BY <4>3, <5>1, VoteCounts
        <5>3. QED
          BY <5>2 DEF IsTaken, v
      <4>5. at[i] = Least(Indices(id, sel))
        BY <4>3
      <4> HIDE DEF at, v
      <4>6. QED
        BY <4>1, <4>3, <4>4, <4>5 DEF Positive, GivenVotes
    <3>6. \A i, j \in 1 .. n : Id(i) = Id(j) => i = j
      <4>1. \A i \in 1 .. n : Everything(e)[i] = Description(e).selections[i] /\ i \in 1 .. n + k
        <5>1. \A i \in 1 .. n : i \in 1 .. n + k
          BY <1>1
        <5>2. QED
          BY <5>1, EverythingIs DEF Ordered
      <4>2. \A i, j \in 1 .. n + k : Everything(e)[i].id = Everything(e)[j].id => i = j
        BY EverythingIs DEF Ordered
      <4>3. QED
        BY <4>1, <4>2
    <3>7. at \in [Positive(v, n) -> Positive(given, Len(sel))]
      BY <3>5
    <3>8. \A i, j \in Positive(v, n) : at[i] = at[j] => i = j
      BY <3>5, <3>6
    <3> HIDE DEF at
    <3>9. Cardinality(Positive(v, n)) <= Cardinality(Positive(given, Len(sel)))
      BY <3>3, <3>7, <3>8, InjectionCounts
    <3>10. QED
      BY <1>1, <1>4, <3>3, <3>4, <3>9 DEF Selected
  <2>3. QED
    BY <2>1, <2>2
<1>6. SumOf(v) \in 0 .. k
  BY <1>1, <1>3, <1>4, <1>5
<1>7. QED
  BY <1>2, <1>3, <1>6

\* With the placeholders they are as many as there are seats.
LEMMA AllVotesFit ==
  ASSUME NEW e, CanBeHeld(e), NEW sel, AreSelections(sel), Accepted(e, sel)
  PROVE  /\ AllVotes(e, sel) \in [1 .. Len(e.candidates) + Seats(e) -> {0, 1}]
         /\ SumOf(AllVotes(e, sel)) = Seats(e)
         /\ \A i \in 1 .. Len(e.candidates) : AllVotes(e, sel)[i] = VotesIn(e, sel)[i]
<1> DEFINE n == Len(e.candidates)
           k == Seats(e)
           v == VotesIn(e, sel)
           c == SumOf(v)
           all == AllVotes(e, sel)
<1>1. n \in Nat /\ k \in Nat /\ n + k \in Nat
  <2>1. n \in Nat \ {0} /\ k \in 1 .. n
    BY CandidatesAre
  <2>2. QED
    BY <2>1
<1>2. v \in [1 .. n -> {0, 1}] /\ c = Cardinality(Positive(v, n)) /\ c \in 0 .. k
  BY VotesFit
<1>3. all = [i \in 1 .. n + k |->
               IF i <= n THEN v[i] ELSE IF i - n \in FilledPlaceholders(c, k) THEN 1 ELSE 0]
  BY DEF AllVotes
<1> HIDE DEF n, k, v, c, all
<1>4. all \in [1 .. n + k -> {0, 1}]
  <2>1. ASSUME NEW i \in 1 .. n + k PROVE all[i] \in {0, 1}
    <3>1. CASE i <= n
      <4>1. i \in 1 .. n
        BY <1>1, <3>1
      <4>2. QED
        BY <1>2, <1>3, <3>1, <4>1
    <3>2. CASE ~(i <= n)
      BY <1>3, <3>2
    <3>3. QED
      BY <3>1, <3>2
  <2>2. all = [i \in 1 .. n + k |-> all[i]]
    BY <1>3
  <2>3. QED
    BY <2>1, <2>2
<1>5. \A i \in 1 .. n : all[i] = v[i] /\ i \in 1 .. n + k
  BY <1>1, <1>3
<1> DEFINE room == n + 1 .. n + (k - c)
<1>6. Positive(all, n + k) = Positive(v, n) \union room
  <2>1. ASSUME NEW i \in 1 .. n + k PROVE all[i] > 0 <=> (i \in 1 .. n /\ v[i] > 0) \/ i \in room
    <3>1. CASE i <= n
      <4>1. i \in 1 .. n /\ i \notin room
        BY <1>1, <3>1
      <4>2. QED
        BY <1>5, <4>1
    <3>2. CASE ~(i <= n)
      <4>1. i - n \in FilledPlaceholders(c, k) <=> i \in room
        BY <1>1, <1>2, <3>2 DEF FilledPlaceholders
      <4>2. all[i] = (IF i - n \in FilledPlaceholders(c, k) THEN 1 ELSE 0) /\ i \notin 1 .. n
        BY <1>3, <3>2
      <4>3. QED
        BY <4>1, <4>2
    <3>3. QED
      BY <3>1, <3>2
  <2>2. \A i \in room : i \in 1 .. n + k
    BY <1>1, <1>2
  <2>3. \A i \in 1 .. n : i \in 1 .. n + k
    BY <1>1
  <2> HIDE DEF room
  <2>4. QED
    BY <2>1, <2>2, <2>3, Zenon DEF Positive
<1>7. IsFiniteSet(Positive(v, n))
  BY <1>1, PositiveIsFinite
<1>8. IsFiniteSet(room) /\ Cardinality(room) = k - c
  <2>1. PICK a, b : a = n + 1 /\ b = n + (k - c)
    OBVIOUS
  <2>2. a \in Int /\ b \in Int /\ (IF a > b THEN 0 ELSE b - a + 1) = k - c
    <3>1. PICK d : d = k - c
      OBVIOUS
    <3>2. d \in Nat /\ n \in Nat /\ b = n + d
      BY <1>1, <1>2, <2>1, <3>1
    <3>3. CASE d = 0
      BY <2>1, <3>1, <3>2, <3>3
    <3>4. CASE d # 0
      BY <2>1, <3>1, <3>2, <3>4
    <3>5. QED
      BY <3>3, <3>4
  <2>3. IsFiniteSet(a .. b) /\ Cardinality(a .. b) = IF a > b THEN 0 ELSE b - a + 1
    BY <2>2, FS_Interval
  <2>4. room = a .. b
    BY <2>1
  <2> HIDE DEF room
  <2>5. QED
    BY <2>2, <2>3, <2>4
<1>9. Positive(v, n) \cap room = {}
  BY <1>1 DEF Positive
<1> HIDE DEF room
<1>10. Cardinality(Positive(v, n) \union room) = Cardinality(Positive(v, n)) + Cardinality(room)
  BY <1>7, <1>8, <1>9, PartsCount
<1>11. Cardinality(Positive(all, n + k)) = k
  <2>1. Cardinality(Positive(all, n + k)) = c + (k - c)
    BY <1>2, <1>6, <1>8, <1>10, Zenon
  <2>2. QED
    BY <1>1, <1>2, <2>1
<1>12. SumOf(all) = k
  <2>1. all \in [1 .. n + k -> Int] /\ \A i \in 1 .. n + k : all[i] \in {0, 1}
    BY <1>4
  <2>2. SumOf(all) = Cardinality(Positive(all, n + k))
    <3>1. PICK nk : nk = n + k /\ nk \in Nat
      BY <1>1
    <3>2. all \in [1 .. nk -> Int] /\ \A i \in 1 .. nk : all[i] \in {0, 1}
      BY <2>1, <3>1
    <3>3. SumOf(all) = Cardinality(Positive(all, nk))
      BY <3>1, <3>2, SumCounts
    <3>4. QED
      BY <3>1, <3>3
  <2>3. QED
    BY <1>11, <2>2
<1>13. QED
  BY <1>4, <1>5, <1>12 DEF n, k, v, all

\* What the voter intends by the selections of an election.
IntendedOf(e, sel) ==
  LET chosen == {s \in ToSet(sel) : s.vote > 0}
  IN  IF Cardinality(chosen) > Seats(e) \/ \E s \in chosen : s.vote > 1 THEN {}
      ELSE {s.id : s \in chosen}

\* The names of the selections that are encrypted as 1.
VotedFor(e, sel) == {e.candidates[i] : i \in Positive(VotesIn(e, sel), Len(e.candidates))}

\* Of selections that are given once the given ones with a vote are as many as there
\* are places with a vote.
LEMMA ChosenCount ==
  ASSUME NEW sel, AreSelections(sel), UniqueIds(sel)
  PROVE  Cardinality({s \in ToSet(sel) : s.vote > 0}) = Selected(sel)
<1> DEFINE S == Positive(GivenVotes(sel), Len(sel))
           T == {s \in ToSet(sel) : s.vote > 0}
           f == [i \in S |-> sel[i]]
<1>1. IsFiniteSet(S) /\ DOMAIN sel = 1 .. Len(sel)
  BY GivenVotesAre
<1>2. \A i : i \in S <=> i \in 1 .. Len(sel) /\ sel[i].vote > 0
  BY DEF Positive, GivenVotes
<1>3. \A s : s \in ToSet(sel) <=> \E i \in 1 .. Len(sel) : sel[i] = s
  BY <1>1 DEF ToSet
<1> HIDE DEF S
<1>4. f \in [S -> T]
  BY <1>2, <1>3
<1>5. \A x, y \in S : f[x] = f[y] => x = y
  BY <1>1, <1>2 DEF UniqueIds
<1>6. \A z \in T : \E x \in S : f[x] = z
  BY <1>2, <1>3
<1> HIDE DEF f, T
<1>7. Cardinality(T) = Cardinality(S)
  BY <1>1, <1>4, <1>5, <1>6, BijectionCounts
<1>8. QED
  BY <1>7 DEF T, S, Selected

\* What is encrypted for the selections of a ballot that says once of each what it is, is
\* what the voter intends.
LEMMA PlainVotes ==
  ASSUME NEW e, CanBeHeld(e), NEW sel, AreSelections(sel), Accepted(e, sel), UniqueIds(sel)
  PROVE  IntendedOf(e, sel) = VotedFor(e, sel)
<1> DEFINE n == Len(e.candidates)
           k == Seats(e)
           v == VotesIn(e, sel)
           chosen == {s \in ToSet(sel) : s.vote > 0}
<1>1. /\ n \in Nat /\ k \in Nat
      /\ \A i \in 1 .. n : e.candidates[i] = Description(e).selections[i].id
  <2>1. n \in Nat \ {0} /\ k \in 1 .. n
    BY CandidatesAre
  <2>2. \A i \in 1 .. n : /\ Everything(e)[i] = Description(e).selections[i]
                          /\ Everything(e)[i].id = e.candidates[i]
    BY EverythingIs DEF Ordered
  <2>3. QED
    BY <2>1, <2>2
<1>2. v \in [1 .. n -> {0, 1}]
  BY VotesFit
<1>3. /\ DOMAIN sel = 1 .. Len(sel) /\ Selected(sel) \in Nat /\ SumOf(GivenVotes(sel)) \in Int
      /\ (\A i \in 1 .. Len(sel) : sel[i].vote <= 1) => SumOf(GivenVotes(sel)) <= Selected(sel)
  BY GivenVotesAre
<1>4. Cardinality(chosen) = Selected(sel)
  BY ChosenCount
<1>5. \A s : s \in ToSet(sel) <=> \E i \in 1 .. Len(sel) : sel[i] = s
  BY <1>3 DEF ToSet
<1>6. /\ ErrorOf(e, sel) = "overvote" <=> IsOvervote(e, sel)
      /\ \A i \in 1 .. Len(sel) :
              \E j \in 1 .. Len(e.candidates) : Description(e).selections[j].id = sel[i].id
  BY ErrorIs DEF Accepted
<1>7. \A i \in 1 .. Len(sel) : sel[i].vote \in Int
  BY DEF AreSelections
<1>8. CASE ErrorOf(e, sel) = "overvote"
  <2>1. VotedFor(e, sel) = {}
    <3>1. \A i \in 1 .. n : v[i] = 0
      BY <1>8, VoteCounts DEF IsLeftOut
    <3>2. QED
      BY <3>1 DEF VotedFor, Positive
  <2>2. Selected(sel) > k \/ (Selected(sel) = k /\ SumOf(GivenVotes(sel)) > k)
    BY <1>6, <1>8 DEF IsOvervote
  <2>3. Cardinality(chosen) > k \/ \E s \in chosen : s.vote > 1
    <3>1. ASSUME ~(Selected(sel) > k) PROVE \E s \in chosen : s.vote > 1
      <4>1. ~(SumOf(GivenVotes(sel)) <= Selected(sel))
        BY <1>1, <1>3, <2>2, <3>1
      <4>2. PICK i \in 1 .. Len(sel) : ~(sel[i].vote <= 1)
        BY <1>3, <4>1
      <4>3. sel[i].vote > 1 /\ sel[i].vote > 0
        BY <1>7, <4>2
      <4>4. QED
        BY <1>5, <4>3
    <3>2. QED
      BY <1>4, <3>1
  <2>4. IntendedOf(e, sel) = {}
    BY <2>3 DEF IntendedOf
  <2>5. QED
    BY <2>1, <2>4
<1>9. CASE ErrorOf(e, sel) # "overvote"
  <2>1. ~(Selected(sel) > k)
    BY <1>6, <1>9 DEF IsOvervote
  <2>2. ASSUME NEW j \in 1 .. Len(sel), sel[j].vote > 0
        PROVE  sel[j].vote = 1 /\ sel[j].id \in VotedFor(e, sel)
    <3>1. PICK i \in 1 .. n : Description(e).selections[i].id = sel[j].id
      BY <1>6
    <3>2. PICK id : id = sel[j].id
      OBVIOUS
    <3>3. Indices(id, sel) = {j}
      BY <1>3, <3>2 DEF Indices, UniqueIds
    <3>4. ~IsLeftOut(e, sel, id)
      BY <1>9, <3>3 DEF IsLeftOut
    <3>5. IsTaken(e, sel, i, id)
      BY <3>1, <3>2, <3>4, VoteCounts
    <3>6. Least({j}) = j
      <4>1. j \in Nat
        OBVIOUS
      <4>2. QED
        BY <4>1, LeastIs
    <3>7. v[i] = sel[j].vote
      BY <3>3, <3>5, <3>6 DEF IsTaken
    <3>8. sel[j].vote = 1 /\ v[i] > 0
      BY <1>2, <2>2, <3>7
    <3>9. i \in Positive(v, n)
      BY <3>8 DEF Positive
    <3>10. QED
      BY <1>1, <3>1, <3>8, <3>9 DEF VotedFor
  <2>3. ASSUME NEW i \in Positive(v, n)
        PROVE  \E s \in chosen : s.id = e.candidates[i]
    <3>1. i \in 1 .. n /\ v[i] > 0 /\ v[i] # 0
      BY <1>2 DEF Positive
    <3>2. PICK id : id = Description(e).selections[i].id
      OBVIOUS
    <3>3. IsTaken(e, sel, i, id)
      BY <3>1, <3>2, VoteCounts
    <3>4. PICK j \in 1 .. Len(sel) : sel[j].id = id /\ v[i] = sel[j].vote
      BY <3>3 DEF IsTaken
    <3>5. QED
      BY <1>1, <1>5, <3>1, <3>2, <3>4
  <2>4. IntendedOf(e, sel) = {s.id : s \in chosen}
    <3>1. \A s \in chosen : ~(s.vote > 1)
      BY <1>5, <2>2
    <3>2. QED
      BY <1>4, <2>1, <3>1 DEF IntendedOf
  <2>5. \A s \in chosen : s.id \in VotedFor(e, sel)
    BY <1>5, <2>2
  <2>6. \A c \in VotedFor(e, sel) : \E s \in chosen : s.id = c
    BY <2>3 DEF VotedFor
  <2> HIDE DEF chosen
  <2>7. QED
    BY <2>4, <2>5, <2>6
<1>10. QED
  BY <1>8, <1>9

-----------------------------------------------------------------------------
(* An encrypted ballot. *)

\* /benaloh_challenge sees the names that are encrypted as 1.
LEMMA ChallengeSees ==
  ASSUME NEW e, CanBeHeld(e), NEW sel, AreSelections(sel), Accepted(e, sel),
         NEW key, NEW id, NEW code_seed, NEW nonce
  PROVE  VotedCandidates(SealedBallot(e, key, id, sel, code_seed, nonce, TRUE)) = VotedFor(e, sel)
<1> DEFINE n == Len(e.candidates)
           k == Seats(e)
           seed == ContestNonce(e, id, nonce)
           c == SealedContest(e, sel, seed, TRUE)
           ballot == SealedBallot(e, key, id, sel, code_seed, nonce, TRUE)
           list == SealedSelections(e, sel, seed, TRUE)
           Voted(x) == {s.id : s \in {t \in ToSet(x.selections) :
                                        ~t.placeholder /\ t.nonce # NoNonce /\ t.vote = 1}}
<1>1. ballot.contests = <<c>> /\ c.selections = list
  BY DEF SealedBallot, SealedContest
<1>2. VotedCandidates(ballot) = Voted(c)
  <2> HIDE DEF c, ballot
  <2>1. ToSet(<<c>>) = {c}
    BY DEF ToSet
  <2>2. VotedCandidates(ballot) = UNION {Voted(x) : x \in ToSet(ballot.contests)}
    BY DEF VotedCandidates
  <2> HIDE DEF Voted
  <2>3. QED
    BY <1>1, <2>1, <2>2
<1>3. n \in Nat /\ k \in Nat
  <2>1. n \in Nat \ {0} /\ k \in 1 .. n
    BY CandidatesAre
  <2>2. QED
    BY <2>1
<1>4. \A i \in 1 .. n + k : /\ list[i].id = Everything(e)[i].id /\ list[i].vote = AllVotes(e, sel)[i]
                            /\ list[i].placeholder = (i > n)
                            /\ list[i].nonce = NonceOf(Everything(e)[i], seed)
  BY DEF SealedSelections, SealedSelection
<1>5. \A s : s \in ToSet(list) <=> \E i \in 1 .. n + k : list[i] = s
  BY DEF ToSet, SealedSelections
<1>6. \A x : NonceOf(x, seed) # NoNonce
  BY DEF NonceOf, NoNonce
<1>7. \A i \in 1 .. n : /\ AllVotes(e, sel)[i] = VotesIn(e, sel)[i] /\ VotesIn(e, sel)[i] \in {0, 1}
                        /\ Everything(e)[i].id = e.candidates[i]
  BY VotesFit, AllVotesFit, EverythingIs DEF Ordered
<1> HIDE DEF list, c, n, k, ballot
<1>8. ASSUME NEW i \in 1 .. n + k
      PROVE  /\ ~list[i].placeholder /\ list[i].nonce # NoNonce /\ list[i].vote = 1
                  <=> i \in Positive(VotesIn(e, sel), n)
             /\ i \in Positive(VotesIn(e, sel), n) => list[i].id = e.candidates[i]
  <2>1. CASE i \in 1 .. n
    <3>1. ~(i > n)
      BY <1>3, <2>1
    <3>2. VotesIn(e, sel)[i] > 0 <=> list[i].vote = 1
      BY <1>4, <1>7, <2>1
    <3>3. QED
      BY <1>4, <1>6, <1>7, <2>1, <3>1, <3>2 DEF Positive
  <2>2. CASE i \notin 1 .. n
    <3>1. i > n
      BY <1>3, <2>2
    <3>2. QED
      BY <1>4, <2>2, <3>1 DEF Positive
  <2>3. QED
    BY <2>1, <2>2
<1>9. \A i \in Positive(VotesIn(e, sel), n) : i \in 1 .. n + k
  BY <1>3 DEF Positive
<1>10. \A x : x \in Voted(c) <=> \E i \in Positive(VotesIn(e, sel), n) : x = e.candidates[i]
  BY <1>1, <1>5, <1>8, <1>9
<1>11. QED
  BY <1>2, <1>10 DEF VotedFor, n, ballot

\* There is one contest to be found.
LEMMA FoundDescription ==
  ASSUME NEW e, CanBeHeld(e)
  PROVE  /\ Indices("contest-1", ManifestFor(e).contests) # {}
         /\ WithId("contest-1", ManifestFor(e).contests) = Description(e)
<1> DEFINE list == <<Description(e)>>
<1>1. DOMAIN list = 1 .. 1 /\ list[1] = Description(e)
  OBVIOUS
<1>2. Description(e).id = "contest-1" /\ ManifestFor(e).contests = list
  BY DescriptionIs
<1>3. list[1].id = "contest-1"
  BY <1>1, <1>2
<1> HIDE DEF list
<1>4. 1 \in Nat /\ 1 \in 1 .. 1 /\ \A j \in 1 .. 1 : list[j].id = list[1].id => j = 1
  OBVIOUS
<1>5. Indices(list[1].id, list) = {1} /\ WithId(list[1].id, list) = list[1]
  BY <1>1, <1>4, WithIdFinds
<1>6. QED
  BY <1>1, <1>2, <1>3, <1>5

LEMMA FoundContest ==
  ASSUME NEW e, NEW sel, NEW seed, NEW shown
  PROVE  /\ Indices("contest-1", <<SealedContest(e, sel, seed, shown)>>) # {}
         /\ WithId("contest-1", <<SealedContest(e, sel, seed, shown)>>)
              = SealedContest(e, sel, seed, shown)
<1> DEFINE list == <<SealedContest(e, sel, seed, shown)>>
<1>1. DOMAIN list = 1 .. 1 /\ list[1] = SealedContest(e, sel, seed, shown)
  OBVIOUS
<1>2. list[1].id = "contest-1"
  BY <1>1 DEF SealedContest
<1> HIDE DEF list
<1>3. 1 \in Nat /\ 1 \in 1 .. 1 /\ \A j \in 1 .. 1 : list[j].id = list[1].id => j = 1
  OBVIOUS
<1>4. Indices(list[1].id, list) = {1} /\ WithId(list[1].id, list) = list[1]
  BY <1>1, <1>3, WithIdFinds
<1>5. QED
  BY <1>1, <1>2, <1>4 DEF list

\* selection_for finds selections and placeholders.
LEMMA FoundSelection ==
  ASSUME NEW e, CanBeHeld(e), NEW i \in 1 .. Len(e.candidates) + Seats(e)
  PROVE  SelectionFor(Everything(e)[i].id, ManifestFor(e), "contest-1") = Everything(e)[i]
<1> DEFINE list == Everything(e)
           l == Len(e.candidates) + Seats(e)
<1>1. DOMAIN list = 1 .. l /\ \A j \in 1 .. l : list[j].id = list[i].id => j = i
  BY EverythingIs DEF Ordered
<1>2. l \in Nat
  <2>1. Len(e.candidates) \in Nat \ {0} /\ Seats(e) \in 1 .. Len(e.candidates)
    BY CandidatesAre
  <2>2. QED
    BY <2>1
<1>3. WithId("contest-1", ManifestFor(e).contests) = Description(e)
  BY FoundDescription
<1>4. \A id : SelectionFor(id, ManifestFor(e), "contest-1") = WithId(id, list)
  BY <1>3 DEF SelectionFor, Everything
<1> HIDE DEF list, l
<1>5. WithId(list[i].id, list) = list[i]
  BY <1>1, <1>2, WithIdFinds DEF l
<1>6. QED
  BY <1>4, <1>5 DEF list

\* It proves what it encrypts, for its election.
LEMMA SealedIsValid ==
  ASSUME NEW e, CanBeHeld(e), NEW sel, AreSelections(sel), Accepted(e, sel), NEW seed, NEW shown,
         NEW hash
  PROVE  /\ ContestIsValidEncryption(SealedContest(e, sel, seed, shown), hash)
              <=> hash = ContestHash(Description(e))
         /\ \A i \in 1 .. Len(e.candidates) + Seats(e) :
              SelectionIsValidEncryption(SealedSelection(e, sel, seed, shown, i), Everything(e)[i])
<1> DEFINE l == Len(e.candidates) + Seats(e)
           list == SealedSelections(e, sel, seed, shown)
           c == SealedContest(e, sel, seed, shown)
<1>1. c.hash = ContestHash(Description(e)) /\ c.selections = list /\ c.proved = Seats(e)
  BY DEF SealedContest
<1>2. Mapped(LAMBDA s : s.vote, list) = AllVotes(e, sel)
  <2>1. DOMAIN list = 1 .. l /\ \A i \in 1 .. l : list[i].vote = AllVotes(e, sel)[i]
    BY DEF SealedSelections, SealedSelection
  <2>2. AllVotes(e, sel) = [i \in 1 .. l |-> AllVotes(e, sel)[i]]
    BY DEF AllVotes
  <2> HIDE DEF list, l
  <2>3. QED
    BY <2>1, <2>2 DEF Mapped
<1>3. SumOf(AllVotes(e, sel)) = Seats(e) /\ \A i \in 1 .. l : AllVotes(e, sel)[i] \in {0, 1}
  BY AllVotesFit
<1>4. ElGamalAccumulate(list) = Seats(e)
  <2> HIDE DEF list
  <2>1. QED
    BY <1>2, <1>3 DEF ElGamalAccumulate
<1>5. ContestIsValidEncryption(c, hash) <=> hash = ContestHash(Description(e))
  <2>1. Seats(e) \in SaneConstants
    BY Zenon DEF CanBeHeld, Seats, Description
  <2> HIDE DEF c, list
  <2>2. QED
    BY <1>1, <1>4, <2>1 DEF ContestIsValidEncryption
<1>6. \A i \in 1 .. l :
        SelectionIsValidEncryption(SealedSelection(e, sel, seed, shown, i), Everything(e)[i])
  BY <1>3 DEF SelectionIsValidEncryption, SealedSelection
<1>7. QED
  BY <1>5, <1>6

\* A ballot that was made of accepted selections, its nonces shown or not.
Makes(ballot, e, key, id, sel, code_seed, nonce, shown) ==
  /\ CanBeHeld(e) /\ AreSelections(sel) /\ Accepted(e, sel)
  /\ ballot = SealedBallot(e, key, id, sel, code_seed, nonce, shown)

LEMMA BallotIsValid ==
  ASSUME NEW ballot, NEW e, NEW key, NEW id, NEW sel, NEW code_seed, NEW nonce, NEW shown,
         Makes(ballot, e, key, id, sel, code_seed, nonce, shown), NEW hash, NEW other
  PROVE  IsValidEncryption(ballot, hash, other)
           <=> hash = ManifestHash(ManifestFor(e)) /\ other = key
<1> DEFINE seed == ContestNonce(e, id, nonce)
           c == SealedContest(e, sel, seed, shown)
           l == Len(e.candidates) + Seats(e)
<1>1. /\ CanBeHeld(e) /\ AreSelections(sel) /\ Accepted(e, sel)
      /\ ballot = SealedBallot(e, key, id, sel, code_seed, nonce, shown)
  BY DEF Makes
<1>2. ballot.contests = <<c>> /\ ballot.manifest_hash = ManifestHash(ManifestFor(e)) /\ ballot.key = key
  BY <1>1 DEF SealedBallot
<1>3. ContestIsValidEncryption(c, c.hash)
  <2>1. c.hash = ContestHash(Description(e))
    BY DEF SealedContest
  <2> HIDE DEF seed
  <2>2. QED
    BY <1>1, <2>1, SealedIsValid
<1>4. \A s \in ToSet(c.selections) : SelectionIsValidEncryption(s, s.hash)
  <2>1. \A s : s \in ToSet(c.selections) <=> \E i \in 1 .. l : s = SealedSelection(e, sel, seed, shown, i)
    BY DEF SealedContest, SealedSelections, ToSet
  <2>2. \A i \in 1 .. l : SealedSelection(e, sel, seed, shown, i).hash = Everything(e)[i]
    BY DEF SealedSelection
  <2>3. \A i \in 1 .. l :
          SelectionIsValidEncryption(SealedSelection(e, sel, seed, shown, i), Everything(e)[i])
    BY <1>1, SealedIsValid
  <2> HIDE DEF c, l
  <2>4. QED
    BY <2>1, <2>2, <2>3
<1>5. \A x : x \in ToSet(<<c>>) <=> x = c
  <2> HIDE DEF c
  <2>1. QED
    BY DEF ToSet
<1> HIDE DEF c
<1>6. QED
  BY <1>2, <1>3, <1>4, <1>5 DEF IsValidEncryption

\* Elections of the same candidates and limit have the same contest.
LEMMA SameContest ==
  ASSUME NEW e, NEW f, f.candidates = e.candidates, f.max_choices = e.max_choices
  PROVE  /\ Description(f) = Description(e) /\ Seats(f) = Seats(e) /\ Everything(f) = Everything(e)
         /\ \A sel : /\ VotesIn(f, sel) = VotesIn(e, sel)
                     /\ Accepted(f, sel) <=> Accepted(e, sel)
                     /\ VotedFor(f, sel) = VotedFor(e, sel)
<1>1. Description(f) = Description(e)
  <2>1. ASSUME NEW x
        PROVE  Description(x) =
                 CreateElectionManifest(<<>>, x.candidates, x.max_choices).contests[1]
    BY DEF Description, ManifestFor, CreateElectionManifest
  <2>2. Description(f) = CreateElectionManifest(<<>>, e.candidates, e.max_choices).contests[1]
    BY <2>1
  <2>3. QED
    BY <2>1, <2>2
<1>2. Seats(f) = Seats(e) /\ Everything(f) = Everything(e)
  BY <1>1 DEF Seats, Everything
<1>3. ASSUME NEW sel
      PROVE  /\ VotesIn(f, sel) = VotesIn(e, sel)
             /\ Accepted(f, sel) <=> Accepted(e, sel)
             /\ VotedFor(f, sel) = VotedFor(e, sel)
  <2>1. ErrorOf(f, sel) = ErrorOf(e, sel)
    BY <1>1 DEF ErrorOf
  <2>2. \A i : CountedFor(f, sel, i) = CountedFor(e, sel, i)
    BY <1>1, <2>1 DEF CountedFor
  <2>3. VotesIn(f, sel) = VotesIn(e, sel)
    BY <2>2 DEF VotesIn
  <2>4. QED
    BY <2>1, <2>3 DEF Accepted, VotedFor
<1>4. QED
  BY <1>1, <1>2, <1>3

\* The hash of a contest tells the candidates apart.
LEMMA HashesTell ==
  ASSUME NEW e, CanBeHeld(e), NEW f, CanBeHeld(f),
         ContestHash(Description(f)) = ContestHash(Description(e))
  PROVE  f.candidates = e.candidates
<1>1. Description(f).selections = Description(e).selections
  BY DEF ContestHash
<1>2. /\ DOMAIN e.candidates = 1 .. Len(e.candidates) /\ Len(e.candidates) \in Nat
      /\ DOMAIN f.candidates = 1 .. Len(f.candidates) /\ Len(f.candidates) \in Nat
  BY CandidatesAre
<1>3. /\ DOMAIN Description(e).selections = 1 .. Len(e.candidates)
      /\ DOMAIN Description(f).selections = 1 .. Len(f.candidates)
      /\ \A i \in 1 .. Len(e.candidates) : Description(e).selections[i].id = e.candidates[i]
      /\ \A i \in 1 .. Len(f.candidates) : Description(f).selections[i].id = f.candidates[i]
  <2>1. ASSUME NEW x, CanBeHeld(x)
        PROVE  /\ DOMAIN Description(x).selections = 1 .. Len(x.candidates)
               /\ \A i \in 1 .. Len(x.candidates) : Description(x).selections[i].id = x.candidates[i]
    <3>1. /\ DOMAIN Description(x).selections = 1 .. Len(x.candidates)
          /\ \A i \in 1 .. Len(x.candidates) : /\ Everything(x)[i] = Description(x).selections[i]
                                               /\ Everything(x)[i].id = x.candidates[i]
      BY <2>1, EverythingIs DEF Ordered
    <3>2. QED
      BY <3>1
  <2>2. QED
    BY <2>1
<1>4. QED
  <2>1. e.candidates \in Seq(ToSet(e.candidates)) /\ f.candidates \in Seq(ToSet(f.candidates))
    BY DEF CanBeHeld
  <2>2. DOMAIN e.candidates = DOMAIN f.candidates
    BY <1>1, <1>2, <1>3
  <2>3. \A i \in DOMAIN e.candidates : e.candidates[i] = f.candidates[i]
    BY <1>1, <1>2, <1>3, <2>2
  <2>4. /\ e.candidates = [i \in DOMAIN e.candidates |-> e.candidates[i]]
        /\ f.candidates = [i \in DOMAIN f.candidates |-> f.candidates[i]]
    BY <2>1
  <2>5. QED
    BY <2>2, <2>3, <2>4

\* The hash of a manifest has the parties and the hash of its contest in it.
LEMMA ManifestHashHas ==
  ASSUME NEW e, CanBeHeld(e), NEW f, CanBeHeld(f),
         ManifestHash(ManifestFor(f)) = ManifestHash(ManifestFor(e))
  PROVE  ContestHash(Description(f)) = ContestHash(Description(e)) /\ f.parties = e.parties
<1>1. ASSUME NEW x, CanBeHeld(x)
      PROVE  ManifestHash(ManifestFor(x))[3] = <<ContestHash(Description(x))>>
  <2>1. ManifestFor(x).contests = <<Description(x)>>
    BY <1>1, DescriptionIs
  <2> DEFINE m == ManifestFor(x)
             d == Description(x)
  <2> HIDE DEF m, d
  <2>2. [i \in DOMAIN m.contests |-> ContestHash(m.contests[i])] = <<ContestHash(d)>>
    BY <2>1 DEF m, d
  <2>3. QED
    BY <2>2 DEF ManifestHash, m, d
<1>2. <<ContestHash(Description(f))>> = <<ContestHash(Description(e))>>
  BY <1>1
<1>3. ASSUME NEW x, CanBeHeld(x)
      PROVE  /\ ManifestHash(ManifestFor(x))[2] = [i \in DOMAIN x.parties |-> [id |-> i, name |-> x.parties[i]]]
             /\ x.parties \in Seq(ToSet(x.parties))
  <2>1. ManifestFor(x).parties = [i \in DOMAIN x.parties |-> [id |-> i, name |-> x.parties[i]]]
    BY DEF ManifestFor, CreateElectionManifest
  <2>2. x.parties \in Seq(ToSet(x.parties))
    BY <1>3 DEF CanBeHeld
  <2>3. ManifestHash(ManifestFor(x))[2] = ManifestFor(x).parties
    BY DEF ManifestHash
  <2>4. QED
    BY <2>1, <2>2, <2>3
<1>4. f.parties = e.parties
  <2> DEFINE Named(p) == [i \in DOMAIN p |-> [id |-> i, name |-> p[i]]]
  <2>1. Named(f.parties) = Named(e.parties)
    <3>1. ManifestHash(ManifestFor(f))[2] = Named(f.parties) /\ ManifestHash(ManifestFor(e))[2] = Named(e.parties)
      BY <1>3
    <3> HIDE DEF Named
    <3>2. QED
      BY <3>1
  <2>2. DOMAIN f.parties = DOMAIN e.parties
    <3>1. DOMAIN Named(f.parties) = DOMAIN f.parties /\ DOMAIN Named(e.parties) = DOMAIN e.parties
      OBVIOUS
    <3>2. QED
      BY <2>1, <3>1
  <2>3. ASSUME NEW i \in DOMAIN e.parties PROVE f.parties[i] = e.parties[i]
    <3>1. Named(f.parties)[i].name = f.parties[i] /\ Named(e.parties)[i].name = e.parties[i]
      BY <2>2
    <3>2. QED
      BY <2>1, <3>1
  <2>4. f.parties \in Seq(ToSet(f.parties)) /\ e.parties \in Seq(ToSet(e.parties))
    BY <1>3
  <2> HIDE DEF Named
  <2>5. /\ f.parties = [i \in DOMAIN f.parties |-> f.parties[i]]
        /\ e.parties = [i \in DOMAIN e.parties |-> e.parties[i]]
    BY <2>4
  <2>6. QED
    BY <2>2, <2>3, <2>5
<1>5. QED
  BY <1>2, <1>4

\* Some contests have the one that is asked for.
HasContest(internal, contests) ==
  LET d == internal.description
      c == WithId(d.id, contests)
  IN  /\ Indices(d.id, contests) # {}
      /\ ContestIsValidForStyle(c, internal)
      /\ \A s \in ToSet(d.selections) :
           /\ Indices(s.id, c.selections) # {}
           /\ SelectionIsValidForStyle(WithId(s.id, c.selections), s)

\* The ballot has what an election asks for that has the same candidates, and no other.
LEMMA BallotFitsStyle ==
  ASSUME NEW e, CanBeHeld(e), NEW f, CanBeHeld(f),
         f.max_choices = e.max_choices,
         NEW sel, AreSelections(sel), Accepted(e, sel),
         NEW key, NEW id, NEW code_seed, NEW nonce, NEW shown
  PROVE  BallotIsValidForStyle(SealedBallot(e, key, id, sel, code_seed, nonce, shown), ManifestFor(f))
           <=> f.candidates = e.candidates
<1> DEFINE seed == ContestNonce(e, id, nonce)
           c == SealedContest(e, sel, seed, shown)
           ballot == SealedBallot(e, key, id, sel, code_seed, nonce, shown)
           list == SealedSelections(e, sel, seed, shown)
           Internal(x) == [description |-> Description(x), placeholders |-> Placeholders(Description(x))]
           n == Len(e.candidates)
           l == n + Seats(e)
           Has == HasContest(Internal(f), <<c>>)
<1>1. ballot.contests = <<c>> /\ ballot.style = "ballot-style-1"
  BY DEF SealedBallot
<1>2. /\ c.hash = ContestHash(Description(e)) /\ c.selections = list
      /\ DOMAIN list = 1 .. l
      /\ \A i \in 1 .. l : list[i].id = Everything(e)[i].id /\ list[i].hash = Everything(e)[i]
  BY DEF SealedContest, SealedSelections, SealedSelection
<1>3. /\ Indices("contest-1", <<c>>) # {} /\ WithId("contest-1", <<c>>) = c
  <2> HIDE DEF seed
  <2>1. QED
    BY FoundContest
<1>4. Description(f).id = "contest-1"
  BY DescriptionIs
<1>5. n \in Nat /\ l \in Nat
  <2>1. n \in Nat \ {0} /\ Seats(e) \in 1 .. n
    BY CandidatesAre
  <2>2. QED
    BY <2>1
<1>6. BallotIsValidForStyle(ballot, ManifestFor(f)) <=> Has
  <2>1. ContestsFor(ManifestFor(f), "ballot-style-1") = <<Internal(f)>>
    BY OneContest
  <2> HIDE DEF ballot, c, Internal
  <2>2. \A x : x \in ToSet(<<Internal(f)>>) <=> x = Internal(f)
    BY DEF ToSet
  <2>3. BallotIsValidForStyle(ballot, ManifestFor(f))
          <=> \A internal \in ToSet(ContestsFor(ManifestFor(f), ballot.style)) :
                HasContest(internal, ballot.contests)
    BY DEF BallotIsValidForStyle, HasContest
  <2>4. QED
    BY <1>1, <2>1, <2>2, <2>3
<1>7. Internal(f).description = Description(f) /\ Internal(f).placeholders = Placeholders(Description(f))
  OBVIOUS
<1> HIDE DEF Internal, c, ballot, list, l
<1>8. ASSUME Has PROVE f.candidates = e.candidates
  <2>1. c.hash = ContestHash(Description(f))
    BY <1>3, <1>4, <1>7, <1>8 DEF ContestIsValidForStyle, HasContest
  <2>2. ContestHash(Description(f)) = ContestHash(Description(e))
    BY <1>2, <2>1
  <2>3. QED
    BY <2>2, HashesTell
<1>9. ASSUME f.candidates = e.candidates PROVE Has
  <2>1. Description(f) = Description(e)
    BY <1>9, SameContest
  <2>2. Len(c.selections) = l
    BY <1>2, <1>5
  <2>3. /\ Len(Description(e).selections) = n
        /\ Len(Placeholders(Description(e))) = Seats(e)
        /\ DOMAIN Description(e).selections = 1 .. n
        /\ \A i \in 1 .. n : Everything(e)[i] = Description(e).selections[i]
        /\ \A i, j \in 1 .. l : Everything(e)[i].id = Everything(e)[j].id => i = j
    BY EverythingIs DEF Ordered, l
  <2>4. ContestIsValidForStyle(c, Internal(f))
    <3>1. c.hash = ContestHash(Internal(f).description)
      BY <1>2, <1>7, <2>1
    <3>2. Len(c.selections) = Len(Internal(f).description.selections) + Len(Internal(f).placeholders)
      BY <1>7, <2>1, <2>2, <2>3 DEF l
    <3>3. QED
      BY <3>1, <3>2 DEF ContestIsValidForStyle
  <2>5. ASSUME NEW s \in ToSet(Description(f).selections)
        PROVE  /\ Indices(s.id, c.selections) # {}
               /\ SelectionIsValidForStyle(WithId(s.id, c.selections), s)
    <3>1. PICK i \in 1 .. n : s = Everything(e)[i]
      BY <2>1, <2>3 DEF ToSet
    <3>2. i \in 1 .. l
      <4>1. n \in Nat /\ Seats(e) \in 1 .. n
        BY <1>5, CandidatesAre
      <4>2. QED
        BY <4>1 DEF l
    <3>3. \A j \in 1 .. l : list[j].id = list[i].id => j = i
      BY <1>2, <2>3, <3>2
    <3>4. Indices(list[i].id, list) = {i} /\ WithId(list[i].id, list) = list[i]
      <4>1. DOMAIN list = 1 .. l /\ l \in Nat
        BY <1>2, <1>5
      <4>2. QED
        BY <3>2, <3>3, <4>1, WithIdFinds
    <3>5. QED
      BY <1>2, <3>1, <3>2, <3>4 DEF SelectionIsValidForStyle
  <2>6. QED
    BY <1>3, <1>4, <1>7, <2>4, <2>5 DEF HasContest
<1> HIDE DEF Has
<1>10. QED
  BY <1>6, <1>8, <1>9 DEF ballot

-----------------------------------------------------------------------------
(* Its decryption. *)

\* The selections that come out of it, without the placeholders.
OpenedSelection(e, sel, i) ==
  [id |-> Everything(e)[i].id, vote |-> AllVotes(e, sel)[i], placeholder |-> i > Len(e.candidates)]
OpenedSelections(e, sel) == [i \in 1 .. Len(e.candidates) |-> OpenedSelection(e, sel, i)]
OpenedContest(e, sel) == [id |-> "contest-1", selections |-> OpenedSelections(e, sel)]
OpenedBallot(e, id, sel) == [id |-> id, contests |-> <<OpenedContest(e, sel)>>]

LEMMA PlaceholdersGo ==
  ASSUME NEW e, CanBeHeld(e), NEW sel
  PROVE  WithoutPlaceholders([i \in 1 .. Len(e.candidates) + Seats(e) |-> OpenedSelection(e, sel, i)])
           = OpenedSelections(e, sel)
<1> DEFINE n == Len(e.candidates)
           l == n + Seats(e)
           all == [i \in 1 .. l |-> OpenedSelection(e, sel, i)]
           some == {s \in ToSet(all) : ~s.placeholder}
<1>1. n \in 0 .. l /\ l \in Nat /\ n \in Nat
  <2>1. n \in Nat \ {0} /\ Seats(e) \in 1 .. n
    BY CandidatesAre
  <2>2. QED
    BY <2>1
<1>2. \A i \in 1 .. l : all[i] \in ToSet(all) /\ (all[i].placeholder <=> i > n)
  BY DEF ToSet, OpenedSelection
<1>3. all = [i \in 1 .. l |-> all[i]]
  OBVIOUS
<1>4. \A i \in 1 .. n : all[i] = OpenedSelection(e, sel, i)
  BY <1>1
<1> HIDE DEF all, l, n
<1>5. \A i \in 1 .. l : all[i] \in some <=> i <= n
  BY <1>1, <1>2
<1>6. FirstAreAmong(all, l, n, some)
  BY <1>1, <1>3, <1>5 DEF FirstAreAmong
<1> HIDE DEF some
<1>7. Sifted(all, some) = [i \in 1 .. n |-> all[i]]
  BY <1>6, KeptFirst
<1>8. QED
  BY <1>4, <1>7 DEF WithoutPlaceholders, OpenedSelections, some, all, l, n

\* decrypt_contest_with_secret.
LEMMA ContestOpens ==
  ASSUME NEW e, CanBeHeld(e), NEW sel, AreSelections(sel), Accepted(e, sel), NEW seed, NEW shown
  PROVE  DecryptContestWithSecret(SealedContest(e, sel, seed, shown), ManifestFor(e))
           = OpenedContest(e, sel)
<1> DEFINE m == ManifestFor(e)
           l == Len(e.candidates) + Seats(e)
           c == SealedContest(e, sel, seed, shown)
           Opens(s) == DecryptSelectionWithSecret(s, SelectionFor(s.id, m, c.id))
           all == [i \in 1 .. l |-> OpenedSelection(e, sel, i)]
<1>1. c.id = "contest-1" /\ c.selections = SealedSelections(e, sel, seed, shown)
  BY DEF SealedContest
<1>2. ASSUME NEW i \in 1 .. l
      PROVE  Opens(SealedSelection(e, sel, seed, shown, i)) = OpenedSelection(e, sel, i)
  <2> DEFINE s == SealedSelection(e, sel, seed, shown, i)
  <2>1. SelectionFor(Everything(e)[i].id, m, "contest-1") = Everything(e)[i]
    BY FoundSelection
  <2>2. SelectionIsValidEncryption(s, Everything(e)[i])
    BY SealedIsValid
  <2>3. /\ s.id = Everything(e)[i].id /\ s.vote = AllVotes(e, sel)[i]
        /\ s.placeholder = (i > Len(e.candidates))
    BY DEF SealedSelection
  <2> HIDE DEF s, c, m
  <2>4. Opens(s) = OpenedSelection(e, sel, i)
    BY <1>1, <2>1, <2>2, <2>3 DEF DecryptSelectionWithSecret, OpenedSelection
  <2>5. QED
    BY <2>4 DEF s
<1> HIDE DEF c, m
<1>3. Mapped(Opens, c.selections) = all
  <2> HIDE DEF Opens
  <2>1. Mapped(Opens, SealedSelections(e, sel, seed, shown)) = all
    BY <1>2 DEF Mapped, SealedSelections
  <2>2. QED
    BY <1>1, <2>1
<1>4. Refused \notin ToSet(all)
  <2>1. \A i : OpenedSelection(e, sel, i) # Refused
    BY DEF OpenedSelection, Refused
  <2>2. QED
    BY <2>1 DEF ToSet
<1>5. ContestIsValidEncryption(c, ContestHash(WithId(c.id, m.contests)))
  <2>1. WithId("contest-1", m.contests) = Description(e)
    BY FoundDescription DEF m
  <2>2. QED
    BY <1>1, <2>1, SealedIsValid DEF c
<1>6. WithoutPlaceholders(all) = OpenedSelections(e, sel)
  BY PlaceholdersGo
<1> HIDE DEF all, Opens
<1>7. DecryptContestWithSecret(c, m) = [id |-> c.id, selections |-> WithoutPlaceholders(all)]
  BY <1>3, <1>4, <1>5 DEF DecryptContestWithSecret, Opens
<1>8. QED
  BY <1>1, <1>6, <1>7 DEF OpenedContest, c, m

\* What decrypt_contest_with_nonce and decrypt_ballot_with_nonce find.
OpenedBy(c, m, seed) ==
  Mapped(LAMBDA s : DecryptSelectionWithNonce(s, SelectionFor(s.id, m, c.id), seed), c.selections)
ContestsOpenedBy(ballot, m, used) ==
  Mapped(LAMBDA c : DecryptContestWithNonce(c, m, NonceSeed(ballot.id, used)), ballot.contests)

\* decrypt_contest_with_nonce, of the nonce it was encrypted under
LEMMA ContestOpensByNonce ==
  ASSUME NEW e, CanBeHeld(e), NEW sel, AreSelections(sel), Accepted(e, sel),
         NEW nonce_seed, NEW seed, seed = NonceOf(Description(e), nonce_seed), NEW shown
  PROVE  DecryptContestWithNonce(SealedContest(e, sel, seed, shown), ManifestFor(e), nonce_seed)
           = OpenedContest(e, sel)
<1> DEFINE m == ManifestFor(e)
           l == Len(e.candidates) + Seats(e)
           c == SealedContest(e, sel, seed, shown)
           Opens(s) == DecryptSelectionWithNonce(s, SelectionFor(s.id, m, c.id), seed)
           all == [i \in 1 .. l |-> OpenedSelection(e, sel, i)]
<1>1. /\ c.id = "contest-1" /\ c.selections = SealedSelections(e, sel, seed, shown)
      /\ c.nonce \in {NoNonce, seed}
  BY DEF SealedContest
<1>2. ASSUME NEW i \in 1 .. l
      PROVE  Opens(SealedSelection(e, sel, seed, shown, i)) = OpenedSelection(e, sel, i)
  <2> DEFINE s == SealedSelection(e, sel, seed, shown, i)
  <2>1. SelectionFor(Everything(e)[i].id, m, "contest-1") = Everything(e)[i]
    BY FoundSelection
  <2>2. SelectionIsValidEncryption(s, Everything(e)[i])
    BY SealedIsValid
  <2>3. /\ s.id = Everything(e)[i].id /\ s.vote = AllVotes(e, sel)[i]
        /\ s.placeholder = (i > Len(e.candidates))
        /\ s.under = NonceOf(Everything(e)[i], seed)
        /\ s.nonce \in {NoNonce, NonceOf(Everything(e)[i], seed)}
    BY DEF SealedSelection
  <2> HIDE DEF s, c, m
  <2>4. Opens(s) = OpenedSelection(e, sel, i)
    BY <1>1, <2>1, <2>2, <2>3 DEF DecryptSelectionWithNonce, OpenedSelection
  <2>5. QED
    BY <2>4 DEF s
<1> HIDE DEF c, m
<1>3. Mapped(Opens, c.selections) = all
  <2> HIDE DEF Opens
  <2>1. Mapped(Opens, SealedSelections(e, sel, seed, shown)) = all
    BY <1>2 DEF Mapped, SealedSelections
  <2>2. QED
    BY <1>1, <2>1
<1>4. Refused \notin ToSet(all)
  <2>1. \A i : OpenedSelection(e, sel, i) # Refused
    BY DEF OpenedSelection, Refused
  <2>2. QED
    BY <2>1 DEF ToSet
<1>5. WithId(c.id, m.contests) = Description(e)
  BY <1>1, FoundDescription DEF m
<1>6. ContestIsValidEncryption(c, ContestHash(Description(e)))
  BY SealedIsValid DEF c
<1>7. WithoutPlaceholders(all) = OpenedSelections(e, sel)
  BY PlaceholdersGo
<1> HIDE DEF all, Opens
<1>8. OpenedBy(c, m, NonceOf(WithId(c.id, m.contests), nonce_seed)) = all
  <2>1. OpenedBy(c, m, seed) = all
    BY <1>3 DEF Opens, OpenedBy
  <2>2. QED
    BY <1>5, <2>1
<1>9. DecryptContestWithNonce(c, m, nonce_seed) = [id |-> c.id, selections |-> WithoutPlaceholders(all)]
  <2>1. ContestIsValidEncryption(c, ContestHash(WithId(c.id, m.contests)))
    BY <1>5, <1>6
  <2>2. c.nonce \in {NoNonce, NonceOf(WithId(c.id, m.contests), nonce_seed)}
    BY <1>1, <1>5
  <2>3. DecryptContestWithNonce(c, m, nonce_seed) =
          LET opened == OpenedBy(c, m, NonceOf(WithId(c.id, m.contests), nonce_seed))
          IN  IF Refused \in ToSet(opened) THEN Refused
              ELSE [id |-> c.id, selections |-> WithoutPlaceholders(opened)]
    BY <2>1, <2>2 DEF DecryptContestWithNonce, OpenedBy
  <2>4. QED
    BY <1>4, <1>8, <2>3
<1>10. QED
  BY <1>1, <1>7, <1>9 DEF OpenedContest, c, m

\* and of another one.
LEMMA ContestStaysShut ==
  ASSUME NEW e, CanBeHeld(e), NEW sel, NEW nonce_seed, NEW other, nonce_seed # other,
         NEW seed, seed = NonceOf(Description(e), nonce_seed)
  PROVE  DecryptContestWithNonce(SealedContest(e, sel, seed, TRUE), ManifestFor(e), other) = Refused
<1> DEFINE m == ManifestFor(e)
           c == SealedContest(e, sel, seed, TRUE)
<1>1. c.id = "contest-1" /\ c.nonce = seed
  BY DEF SealedContest
<1>2. WithId(c.id, m.contests) = Description(e)
  BY <1>1, FoundDescription
<1>3. seed # NoNonce /\ seed # NonceOf(Description(e), other)
  BY DEF NonceOf, NoNonce
<1> HIDE DEF m, c
<1>4. c.nonce \notin {NoNonce, NonceOf(WithId(c.id, m.contests), other)}
  BY <1>1, <1>2, <1>3
<1>5. QED
  BY <1>4 DEF DecryptContestWithNonce, c, m

\* The ballot with the secret key, with its nonce, with none and with another.
Opening(e, key, id, sel, code_seed, nonce) ==
  /\ \A shown \in BOOLEAN :
       /\ DecryptBallotWithSecret(SealedBallot(e, key, id, sel, code_seed, nonce, shown), ManifestFor(e), key)
            = OpenedBallot(e, id, sel)
       /\ DecryptBallotWithNonce(SealedBallot(e, key, id, sel, code_seed, nonce, shown), ManifestFor(e), key, nonce)
            = OpenedBallot(e, id, sel)
  /\ DecryptBallotWithNonce(SealedBallot(e, key, id, sel, code_seed, nonce, TRUE), ManifestFor(e), key, NoNonce)
       = OpenedBallot(e, id, sel)
  /\ DecryptBallotWithNonce(SealedBallot(e, key, id, sel, code_seed, nonce, FALSE), ManifestFor(e), key, NoNonce)
       = Refused
  /\ \A other : other # nonce /\ other # NoNonce =>
       DecryptBallotWithNonce(SealedBallot(e, key, id, sel, code_seed, nonce, TRUE), ManifestFor(e), key, other)
         = Refused

LEMMA BallotOpens ==
  ASSUME NEW e, CanBeHeld(e), NEW sel, AreSelections(sel), Accepted(e, sel),
         NEW key, NEW id, NEW code_seed, NEW nonce, nonce # NoNonce
  PROVE  Opening(e, key, id, sel, code_seed, nonce)
<1> DEFINE m == ManifestFor(e)
           seed == ContestNonce(e, id, nonce)
           c(shown) == SealedContest(e, sel, seed, shown)
           ballot(shown) == SealedBallot(e, key, id, sel, code_seed, nonce, shown)
           opened == OpenedContest(e, sel)
<1>1. \A shown : /\ ballot(shown).contests = <<c(shown)>> /\ ballot(shown).id = id
                 /\ ballot(shown).nonce = IF shown THEN nonce ELSE NoNonce
  BY DEF SealedBallot
<1>2. \A shown : IsValidEncryption(ballot(shown), ManifestHash(m), key)
  <2>1. \A shown : Makes(ballot(shown), e, key, id, sel, code_seed, nonce, shown)
    BY DEF Makes
  <2> HIDE DEF ballot
  <2>2. QED
    BY <2>1, BallotIsValid
<1>3. opened # Refused
  BY DEF OpenedContest, Refused
<1>4. \A x : Refused \in ToSet(<<x>>) <=> x = Refused
  BY DEF ToSet
<1>5. \A shown : DecryptContestWithSecret(c(shown), m) = opened
  <2> HIDE DEF seed
  <2>1. QED
    BY ContestOpens
<1>6. \A shown : DecryptContestWithNonce(c(shown), m, NonceSeed(id, nonce)) = opened
  <2>1. seed = NonceOf(Description(e), NonceSeed(id, nonce))
    BY DEF ContestNonce
  <2> HIDE DEF seed
  <2>2. QED
    BY <2>1, ContestOpensByNonce
<1>7. ASSUME NEW other, other # nonce
      PROVE  DecryptContestWithNonce(c(TRUE), m, NonceSeed(id, other)) = Refused
  <2>1. NonceSeed(id, other) # NonceSeed(id, nonce)
    BY <1>7 DEF NonceSeed
  <2>2. seed = NonceOf(Description(e), NonceSeed(id, nonce))
    BY DEF ContestNonce
  <2> HIDE DEF seed
  <2>3. QED
    BY <2>1, <2>2, ContestStaysShut, Zenon
<1> HIDE DEF m, seed, c, ballot, opened
<1>8. ASSUME NEW shown
      PROVE  DecryptBallotWithSecret(ballot(shown), m, key) = [id |-> id, contests |-> <<opened>>]
  <2>1. Mapped(LAMBDA x : DecryptContestWithSecret(x, m), <<c(shown)>>) = <<opened>>
    BY <1>5 DEF Mapped
  <2>2. QED
    BY <1>1, <1>2, <1>3, <1>4, <2>1 DEF DecryptBallotWithSecret
<1>9. ASSUME NEW shown, NEW given, NEW used, used = IF given = NoNonce THEN ballot(shown).nonce ELSE given
      PROVE  DecryptBallotWithNonce(ballot(shown), m, key, given) =
               LET one == DecryptContestWithNonce(c(shown), m, NonceSeed(id, used))
               IN  IF used = NoNonce \/ one = Refused THEN Refused
                   ELSE [id |-> id, contests |-> <<one>>]
  <2> DEFINE one == DecryptContestWithNonce(c(shown), m, NonceSeed(id, used))
  <2>1. ContestsOpenedBy(ballot(shown), m, used) = <<one>>
    BY <1>1 DEF Mapped, ContestsOpenedBy
  <2>2. DecryptBallotWithNonce(ballot(shown), m, key, given) =
          LET all == ContestsOpenedBy(ballot(shown), m, used)
          IN  IF used = NoNonce \/ Refused \in ToSet(all) THEN Refused
              ELSE [id |-> id, contests |-> all]
    BY <1>1, <1>2, <1>9 DEF DecryptBallotWithNonce, ContestsOpenedBy
  <2> HIDE DEF one
  <2>3. QED
    BY <1>4, <2>1, <2>2 DEF one
<1>10. ASSUME NEW shown
       PROVE  DecryptBallotWithNonce(ballot(shown), m, key, nonce) = [id |-> id, contests |-> <<opened>>]
  BY <1>3, <1>6, <1>9
<1>11. DecryptBallotWithNonce(ballot(TRUE), m, key, NoNonce) = [id |-> id, contests |-> <<opened>>]
  <2>1. nonce = IF NoNonce = NoNonce THEN ballot(TRUE).nonce ELSE NoNonce
    BY <1>1
  <2>2. DecryptBallotWithNonce(ballot(TRUE), m, key, NoNonce) =
               LET one == DecryptContestWithNonce(c(TRUE), m, NonceSeed(id, nonce))
               IN  IF nonce = NoNonce \/ one = Refused THEN Refused
                   ELSE [id |-> id, contests |-> <<one>>]
    BY <1>9, <2>1, Zenon
  <2>3. DecryptContestWithNonce(c(TRUE), m, NonceSeed(id, nonce)) = opened
    BY <1>6, Zenon
  <2>4. QED
    BY <1>3, <2>2, <2>3
<1>12. DecryptBallotWithNonce(ballot(FALSE), m, key, NoNonce) = Refused
  <2>1. ballot(FALSE).nonce = NoNonce
    BY <1>1
  <2>2. QED
    BY <1>9, <2>1
<1>13. ASSUME NEW other, other # nonce, other # NoNonce
       PROVE  DecryptBallotWithNonce(ballot(TRUE), m, key, other) = Refused
  <2>1. other = IF other = NoNonce THEN ballot(TRUE).nonce ELSE other
    BY <1>13
  <2>2. DecryptContestWithNonce(c(TRUE), m, NonceSeed(id, other)) = Refused
    BY <1>7, <1>13, Zenon
  <2>3. QED
    BY <1>9, <2>1, <2>2
<1>14. QED
  BY <1>8, <1>10, <1>11, <1>12, <1>13 DEF Opening, OpenedBallot, m, seed, c, ballot, opened

-----------------------------------------------------------------------------
(* Decryption by a quorum. *)

\* A list of l entries, each of an id of its own.
OfOwnIds(list, l) ==
  /\ l \in Nat /\ DOMAIN list = 1 .. l
  /\ \A i, j \in 1 .. l : list[i].id = list[j].id => i = j

IdsIn(list, l) == {list[i].id : i \in 1 .. l}

LEMMA ByIdIs ==
  ASSUME NEW list, NEW l, OfOwnIds(list, l)
  PROVE  /\ DOMAIN ById(list) = IdsIn(list, l)
         /\ {x.id : x \in ToSet(list)} = IdsIn(list, l)
         /\ \A i \in 1 .. l : ById(list)[list[i].id] = list[i]
<1>1. l \in Nat /\ DOMAIN list = 1 .. l /\ \A i, j \in 1 .. l : list[i].id = list[j].id => i = j
  BY DEF OfOwnIds
<1>2. {x.id : x \in ToSet(list)} = IdsIn(list, l)
  BY <1>1 DEF ToSet, IdsIn
<1>3. ASSUME NEW i \in 1 .. l PROVE WithId(list[i].id, list) = list[i]
  <2>1. \A j \in 1 .. l : list[j].id = list[i].id => j = i
    BY <1>1
  <2>2. QED
    BY <1>1, <2>1, WithIdFinds
<1>4. \A i \in 1 .. l : list[i].id \in IdsIn(list, l)
  BY DEF IdsIn
<1>5. ById(list) = [id \in IdsIn(list, l) |-> WithId(id, list)]
  BY <1>2 DEF ById
<1>6. QED
  BY <1>2, <1>3, <1>4, <1>5

\* One contest is found by its id.
LEMMA ByIdOfOne ==
  ASSUME NEW c, c.id = "contest-1"
  PROVE  DOMAIN ById(<<c>>) = {"contest-1"} /\ ById(<<c>>)["contest-1"] = c
<1> DEFINE list == <<c>>
<1>1. DOMAIN list = 1 .. 1 /\ list[1] = c
  OBVIOUS
<1> HIDE DEF list
<1>2. OfOwnIds(list, 1)
  BY <1>1 DEF OfOwnIds
<1>3. /\ DOMAIN ById(list) = IdsIn(list, 1)
      /\ \A i \in 1 .. 1 : ById(list)[list[i].id] = list[i]
  BY <1>2, ByIdIs
<1>4. IdsIn(list, 1) = {"contest-1"} /\ list[1].id = "contest-1"
  BY <1>1 DEF IdsIn
<1>5. QED
  BY <1>1, <1>3, <1>4 DEF list

\* Some guardians of a quorum are there.
LEMMA SomePresent ==
  ASSUME NEW present \in Presents
  PROVE  present \subseteq Holders /\ present # {}
<1>1. present \subseteq Holders /\ Cardinality(present) >= Quorum
  BY DEF Presents
<1>2. Quorum \in Int /\ Quorum >= 1
  BY PipelineAssumption
<1>3. Cardinality({}) = 0
  BY FS_EmptySet
<1>4. QED
  BY <1>1, <1>2, <1>3

\* What everyone is asked for is there: a share by the guardian or by all present.
ShareOf(share, pad, g, present) ==
  /\ share.pads = {pad}
  /\ share.by = IF g \in present THEN {g} ELSE present

RebuiltSelection(g, parts, contest_id, id) ==
  [guardian |-> g, by |-> DOMAIN parts,
   pads |-> {parts[a][contest_id].selections[id].pad : a \in DOMAIN parts}]
RebuiltContest(g, parts, c) ==
  [hash |-> c.hash,
   selections |-> [id \in {s.id : s \in ToSet(c.selections)} |-> RebuiltSelection(g, parts, c.id, id)]]

LEMMA ShareIs ==
  ASSUME NEW c, c.id = "contest-1", NEW l, OfOwnIds(c.selections, l),
         NEW present \in Presents, NEW g \in Holders
  PROVE  LET shares == TallyShares(<<c>>, present)[g]
         IN  /\ DOMAIN shares = {"contest-1"}
             /\ DOMAIN shares["contest-1"].selections = IdsIn(c.selections, l)
             /\ \A i \in 1 .. l :
                  ShareOf(shares["contest-1"].selections[c.selections[i].id], c.selections[i].pad, g, present)
<1> DEFINE list == c.selections
           found == ById(list)
           whole == ById(<<c>>)
<1>1. DOMAIN whole = {"contest-1"} /\ whole["contest-1"] = c
  BY ByIdOfOne
<1>2. /\ DOMAIN found = IdsIn(list, l)
      /\ {x.id : x \in ToSet(list)} = IdsIn(list, l)
      /\ \A i \in 1 .. l : found[list[i].id] = list[i]
  <2> HIDE DEF list
  <2>1. OfOwnIds(list, l)
    BY DEF list
  <2>2. QED
    BY <2>1, ByIdIs
<1>3. \A i \in 1 .. l : list[i].id \in IdsIn(list, l)
  BY DEF IdsIn
<1>4. present \subseteq Holders /\ present # {}
  BY SomePresent
<1> DEFINE own == ComputeDecryptionShare(g, <<c>>)
           part(a) == ComputeCompensatedDecryptionShare(a, g, <<c>>)
           parts == [a \in present |-> part(a)]
           other == ReconstructDecryptionShare(g, <<c>>, parts)
<1>5. TallyShares(<<c>>, present)[g] = IF g \in present THEN own ELSE other
  BY DEF TallyShares
<1>6. /\ DOMAIN own = {"contest-1"}
      /\ DOMAIN own["contest-1"].selections = IdsIn(list, l)
      /\ \A i \in 1 .. l : ShareOf(own["contest-1"].selections[list[i].id], list[i].pad, g, present \union {g})
  <2> HIDE DEF whole, list, found
  <2>1. own = [id \in DOMAIN whole |-> ShareForContest(g, whole[id])]
    BY DEF ComputeDecryptionShare, whole
  <2>2. own["contest-1"] = ShareForContest(g, c) /\ DOMAIN own = {"contest-1"}
    BY <1>1, <2>1
  <2>3. ShareForContest(g, c).selections = [id \in DOMAIN found |-> ShareForSelection(g, found[id])]
    BY DEF ShareForContest, found, list
  <2>4. \A s : ShareForSelection(g, s).pads = {s.pad} /\ ShareForSelection(g, s).by = {g}
    BY DEF ShareForSelection
  <2> HIDE DEF own
  <2>5. QED
    BY <1>2, <1>3, <2>2, <2>3, <2>4 DEF ShareOf
<1>7. ASSUME NEW a \in present, NEW i \in 1 .. l
      PROVE  part(a)["contest-1"].selections[list[i].id].pad = list[i].pad
  <2> HIDE DEF whole, list, found
  <2>1. part(a) = [id \in DOMAIN whole |-> CompensatedForContest(a, g, whole[id])]
    BY DEF ComputeCompensatedDecryptionShare, whole
  <2>2. part(a)["contest-1"] = CompensatedForContest(a, g, c)
    BY <1>1, <2>1
  <2>3. CompensatedForContest(a, g, c).selections
          = [id \in DOMAIN found |-> CompensatedForSelection(a, g, found[id])]
    BY DEF CompensatedForContest, found, list
  <2>4. CompensatedForSelection(a, g, list[i]).pad = list[i].pad
    BY DEF CompensatedForSelection
  <2> HIDE DEF part
  <2>5. QED
    BY <1>2, <1>3, <2>2, <2>3, <2>4
<1>8. /\ DOMAIN other = {"contest-1"}
      /\ DOMAIN other["contest-1"].selections = IdsIn(list, l)
      /\ \A i \in 1 .. l : /\ other["contest-1"].selections[list[i].id].pads = {list[i].pad}
                           /\ other["contest-1"].selections[list[i].id].by = present
  <2> HIDE DEF whole, found, part
  <2>1. DOMAIN parts = present /\ \A a \in present : parts[a] = part(a)
    OBVIOUS
  <2> HIDE DEF parts
  <2>2. other = [id \in DOMAIN whole |-> RebuiltContest(g, parts, whole[id])]
    <3>1. ASSUME NEW p
          PROVE  ReconstructDecryptionShare(g, <<c>>, p)
                   = [id \in DOMAIN ById(<<c>>) |-> RebuiltContest(g, p, ById(<<c>>)[id])]
      BY Zenon DEF ReconstructDecryptionShare, RebuiltContest, RebuiltSelection
    <3>2. QED
      BY <3>1 DEF whole
  <2> HIDE DEF other
  <2>3. DOMAIN other = {"contest-1"} /\ other["contest-1"] = RebuiltContest(g, parts, c)
    BY <1>1, <2>2
  <2>4. RebuiltContest(g, parts, c).selections
          = [id \in {s.id : s \in ToSet(list)} |-> RebuiltSelection(g, parts, c.id, id)]
    BY DEF RebuiltContest, list
  <2> HIDE DEF list
  <2>5. /\ DOMAIN RebuiltContest(g, parts, c).selections = IdsIn(list, l)
        /\ \A i \in 1 .. l : RebuiltContest(g, parts, c).selections[list[i].id]
                               = RebuiltSelection(g, parts, "contest-1", list[i].id)
    BY <1>2, <1>3, <2>4
  <2>6. ASSUME NEW i \in 1 .. l
        PROVE  /\ RebuiltSelection(g, parts, "contest-1", list[i].id).pads = {list[i].pad}
               /\ RebuiltSelection(g, parts, "contest-1", list[i].id).by = present
    <3>1. PICK id : id = list[i].id
      OBVIOUS
    <3>2. \A a \in present : parts[a]["contest-1"].selections[id].pad = list[i].pad
      BY <1>7, <2>1, <3>1
    <3>3. {parts[a]["contest-1"].selections[id].pad : a \in present} = {list[i].pad}
      BY <1>4, <3>2
    <3>4. QED
      BY <2>1, <3>1, <3>3 DEF RebuiltSelection
  <2>7. QED
    BY <2>3, <2>5, <2>6
<1>9. CASE g \in present
  <2>1. present \union {g} = present
    BY <1>9
  <2> HIDE DEF own, other
  <2>2. QED
    BY <1>5, <1>6, <1>9, <2>1
<1>10. CASE g \notin present
  <2> HIDE DEF own, other
  <2>1. QED
    BY <1>5, <1>8, <1>10 DEF ShareOf
<1>11. QED
  BY <1>9, <1>10

\* Whoever of a quorum is present, what they share opens each selection of the contest,
LEMMA SelectionOpensByShares ==
  ASSUME NEW c, c.id = "contest-1", NEW l, OfOwnIds(c.selections, l),
         NEW present \in Presents, NEW i \in 1 .. l
  PROVE  DecryptSelectionWithShares(c.selections[i],
             GetSharesForSelection(c.selections[i].id, TallyShares(<<c>>, present)))
           = [id |-> c.selections[i].id, tally |-> c.selections[i].amount]
<1> DEFINE s == c.selections[i]
           id == s.id
           shares == TallyShares(<<c>>, present)
           of(g) == shares[g]["contest-1"].selections[id]
           Of(g) == {shares[g][x].selections[id] :
                       x \in {x \in DOMAIN shares[g] : id \in DOMAIN shares[g][x].selections}}
           found == GetSharesForSelection(id, shares)
<1>1. DOMAIN shares = Holders
  BY DEF TallyShares
<1>2. id \in IdsIn(c.selections, l)
  BY DEF IdsIn
<1> HIDE DEF shares
<1>3. ASSUME NEW g \in Holders
      PROVE  /\ Of(g) = {of(g)}
             /\ ShareOf(of(g), s.pad, g, present)
  <2>1. /\ DOMAIN shares[g] = {"contest-1"}
        /\ DOMAIN shares[g]["contest-1"].selections = IdsIn(c.selections, l)
        /\ ShareOf(of(g), s.pad, g, present)
    <3>1. LET all == TallyShares(<<c>>, present)[g]
          IN  /\ DOMAIN all = {"contest-1"}
              /\ DOMAIN all["contest-1"].selections = IdsIn(c.selections, l)
              /\ \A j \in 1 .. l :
                   ShareOf(all["contest-1"].selections[c.selections[j].id], c.selections[j].pad, g, present)
      BY ShareIs, Zenon
    <3>2. QED
      BY <3>1, Zenon DEF shares
  <2> HIDE DEF s
  <2>2. QED
    BY <1>2, <2>1
<1>4. found = [g \in {h \in DOMAIN shares : Of(h) # {}} |-> CHOOSE share \in Of(g) : TRUE]
  BY DEF GetSharesForSelection
<1> HIDE DEF of, Of, found, s, id
<1>5. {h \in DOMAIN shares : Of(h) # {}} = Holders /\ \A g \in Holders : (CHOOSE share \in Of(g) : TRUE) = of(g)
  BY <1>1, <1>3
<1>6. DOMAIN found = Holders /\ \A g \in Holders : found[g] = of(g)
  BY <1>4, <1>5
<1>7. \A g \in Holders : /\ found[g].pads = {s.pad}
                         /\ found[g].by = IF g \in present THEN {g} ELSE present
  BY <1>3, <1>6 DEF ShareOf
<1>8. present \subseteq Holders
  BY SomePresent
<1>9. {g \in DOMAIN found : found[g].by = {g}} = present
  <2>1. ASSUME NEW g \in Holders PROVE found[g].by = {g} <=> g \in present
    BY <1>7
  <2>2. QED
    BY <1>6, <1>8, <2>1
<1>10. \A g \in Holders : found[g].pads = {s.pad} /\ found[g].by \in {{g}, present}
  BY <1>7
<1>11. DecryptSelectionWithShares(s, found) = [id |-> s.id, tally |-> s.amount]
  BY <1>6, <1>9, <1>10 DEF DecryptSelectionWithShares
<1>12. QED
  BY <1>11 DEF found, shares, s, id

\* and the selections that the manifest lists, here the first n, make up the result.
Listed(c, n, l, d) ==
  /\ n \in 0 .. l
  /\ \A i \in 1 .. l : Indices(c.selections[i].id, d.selections) # {} <=> i <= n

Tallied(c, n) == [i \in 1 .. n |-> [id |-> c.selections[i].id, tally |-> c.selections[i].amount]]

LEMMA QuorumOpens ==
  ASSUME NEW e, CanBeHeld(e), NEW c, c.id = "contest-1", NEW n, NEW l,
         OfOwnIds(c.selections, l), c.selections = [i \in 1 .. l |-> c.selections[i]],
         Listed(c, n, l, Description(e)), NEW present \in Presents
  PROVE  DecryptTally(<<c>>, TallyShares(<<c>>, present), ManifestFor(e))
           = [contests |-> <<[id |-> "contest-1", selections |-> Tallied(c, n)]>>]
<1> DEFINE d == Description(e)
           m == ManifestFor(e)
           shares == TallyShares(<<c>>, present)
           list == c.selections
           some == {s \in ToSet(list) : Indices(s.id, d.selections) # {}}
           listed == Sifted(list, some)
           Opens(s) == DecryptSelectionWithShares(s, GetSharesForSelection(s.id, shares))
           opened == [id |-> "contest-1", selections |-> Tallied(c, n)]
<1>1. l \in Nat /\ n \in 0 .. l /\ DOMAIN list = 1 .. l
  BY DEF OfOwnIds, Listed
<1>2. \A i \in 1 .. l : Opens(list[i]) = [id |-> list[i].id, tally |-> list[i].amount]
  BY SelectionOpensByShares
<1>3. listed = [i \in 1 .. n |-> list[i]]
  <2>1. \A i \in 1 .. l : list[i] \in ToSet(list)
    BY <1>1 DEF ToSet
  <2>2. \A i \in 1 .. l : list[i] \in some <=> i <= n
    BY <2>1 DEF Listed
  <2>3. list = [i \in 1 .. l |-> list[i]]
    OBVIOUS
  <2> HIDE DEF list, some
  <2>4. FirstAreAmong(list, l, n, some)
    BY <1>1, <2>2, <2>3 DEF FirstAreAmong
  <2>5. QED
    BY <2>4, KeptFirst
<1> HIDE DEF shares, listed, Opens
<1>4. Mapped(Opens, listed) = Tallied(c, n)
  <2>1. \A i \in 1 .. n : i \in 1 .. l
    BY <1>1
  <2>2. \A i \in 1 .. n : Opens(listed[i]) = [id |-> list[i].id, tally |-> list[i].amount]
    BY <1>2, <1>3, <2>1
  <2>3. DOMAIN listed = 1 .. n
    BY <1>3
  <2>4. QED
    BY <2>2, <2>3 DEF Mapped, Tallied
<1>5. Refused \notin ToSet(Tallied(c, n))
  <2>1. \A i \in 1 .. n : Tallied(c, n)[i] # Refused
    BY DEF Tallied, Refused
  <2>2. DOMAIN Tallied(c, n) = 1 .. n
    BY DEF Tallied
  <2>3. QED
    BY <2>1, <2>2 DEF ToSet
<1>6. DecryptContestWithShares(c, shares, d) = opened
  BY <1>4, <1>5 DEF DecryptContestWithShares, listed, some, list, Opens
<1>7. WithId(c.id, m.contests) = d /\ Indices(c.id, m.contests) # {}
  BY FoundDescription
<1>8. Sifted(<<c>>, {x \in ToSet(<<c>>) : Indices(x.id, m.contests) # {}}) = <<c>>
  <2> DEFINE known == {x \in ToSet(<<c>>) : Indices(x.id, m.contests) # {}}
  <2>1. c \in known
    BY <1>7 DEF ToSet
  <2> HIDE DEF known
  <2>2. QED
    BY <2>1, KeptOne DEF known
<1>9. Mapped(LAMBDA x : DecryptContestWithShares(x, shares, WithId(x.id, m.contests)), <<c>>) = <<opened>>
  BY <1>6, <1>7 DEF Mapped
<1>10. opened # Refused /\ (Refused \in ToSet(<<opened>>) <=> opened = Refused)
  BY DEF Refused, ToSet
<1> HIDE DEF opened, m
<1>11. DecryptTally(<<c>>, shares, m) = [contests |-> <<opened>>]
  BY <1>8, <1>9, <1>10 DEF DecryptTally
<1>12. QED
  BY <1>11 DEF opened, shares, m

\* A manifest lists its selections and no placeholder.
LEMMA ListedAre ==
  ASSUME NEW e, CanBeHeld(e), NEW i \in 1 .. Len(e.candidates) + Seats(e)
  PROVE  Indices(Everything(e)[i].id, Description(e).selections) # {} <=> i <= Len(e.candidates)
<1> DEFINE n == Len(e.candidates)
           l == n + Seats(e)
<1>1. n \in Nat /\ l \in Nat /\ n <= l
  <2>1. n \in Nat \ {0} /\ Seats(e) \in 1 .. n
    BY CandidatesAre
  <2>2. QED
    BY <2>1
<1>2. /\ DOMAIN Description(e).selections = 1 .. n
      /\ \A j \in 1 .. n : Everything(e)[j] = Description(e).selections[j]
      /\ \A j, k \in 1 .. l : Everything(e)[j].id = Everything(e)[k].id => j = k
  BY EverythingIs DEF Ordered
<1>3. Indices(Everything(e)[i].id, Description(e).selections)
        = {j \in 1 .. n : Everything(e)[j].id = Everything(e)[i].id}
  BY <1>2 DEF Indices
<1>4. \A j \in 1 .. n : j \in 1 .. l
  BY <1>1
<1> HIDE DEF l, n
<1>5. i \in 1 .. l
  BY DEF l, n
<1>6. i \in 1 .. n <=> i <= n
  BY <1>1, <1>5
<1>7. QED
  BY <1>2, <1>3, <1>4, <1>5, <1>6 DEF n

\* A contest as the decryption takes it,
LEMMA CiphertextContestIs ==
  ASSUME NEW x
  PROVE  /\ Mapped(CiphertextContest, <<x>>) = <<CiphertextContest(x)>>
         /\ CiphertextContest(x).id = x.id
         /\ CiphertextContest(x).selections =
              [i \in DOMAIN x.selections |->
                 [id |-> x.selections[i].id, pad |-> x.selections[i].under, amount |-> x.selections[i].vote]]
<1>1. Mapped(CiphertextContest, <<x>>) = <<CiphertextContest(x)>>
  BY DEF Mapped
<1>2. \A a, b, s : Contest(a, b, s).id = a /\ Contest(a, b, s).selections = s
  BY DEF Contest
<1> DEFINE all == [i \in DOMAIN x.selections |->
                     [id |-> x.selections[i].id, pad |-> x.selections[i].under, amount |-> x.selections[i].vote]]
<1>3. CiphertextContest(x) = Contest(x.id, x.hash, all)
  BY Zenon DEF CiphertextContest, Mapped
<1> HIDE DEF all
<1>4. CiphertextContest(x).id = x.id /\ CiphertextContest(x).selections = all
  BY <1>2, <1>3
<1>5. QED
  BY <1>1, <1>4 DEF all

\* and as the result of a decryption has it.
LEMMA TalliedContestIs ==
  ASSUME NEW x
  PROVE  /\ Mapped(TalliedContest, <<x>>) = <<TalliedContest(x)>>
         /\ TalliedContest(x) =
              [id |-> x.id, selections |-> [i \in DOMAIN x.selections |->
                 [id |-> x.selections[i].id, tally |-> x.selections[i].vote]]]
<1>1. Mapped(TalliedContest, <<x>>) = <<TalliedContest(x)>>
  BY DEF Mapped
<1>2. QED
  BY <1>1 DEF TalliedContest, Mapped

\* The shares of a quorum open a ballot as its nonce and the secret key do.
SharesOpen(ballot, e, id, sel, present) ==
  DecryptBallot(ballot, BallotShares(ballot, present), ManifestFor(e))
    = [contests |-> Mapped(TalliedContest, OpenedBallot(e, id, sel).contests)]

LEMMA BallotOpensByShares ==
  ASSUME NEW ballot, NEW e, NEW key, NEW id, NEW sel, NEW code_seed, NEW nonce,
         Makes(ballot, e, key, id, sel, code_seed, nonce, FALSE), NEW present \in Presents
  PROVE  SharesOpen(ballot, e, id, sel, present)
<1> DEFINE n == Len(e.candidates)
           l == n + Seats(e)
           seed == ContestNonce(e, id, nonce)
           sealed == SealedContest(e, sel, seed, FALSE)
           c == CiphertextContest(sealed)
<1>1. /\ CanBeHeld(e) /\ AreSelections(sel) /\ Accepted(e, sel)
      /\ ballot = SealedBallot(e, key, id, sel, code_seed, nonce, FALSE)
  BY DEF Makes
<1>2. ballot.contests = <<sealed>>
  BY <1>1 DEF SealedBallot
<1>3. Mapped(CiphertextContest, ballot.contests) = <<c>>
  <2>1. Mapped(CiphertextContest, <<sealed>>) = <<c>>
    BY CiphertextContestIs
  <2>2. QED
    BY <1>2, <2>1, Zenon
<1>4. BallotShares(ballot, present) = TallyShares(<<c>>, present)
  <2> HIDE DEF c
  <2>1. \A g : ComputeDecryptionShareForBallot(g, ballot) = ComputeDecryptionShare(g, <<c>>)
    BY <1>3 DEF ComputeDecryptionShareForBallot
  <2>2. \A a, g : ComputeCompensatedDecryptionShareForBallot(a, g, ballot)
                    = ComputeCompensatedDecryptionShare(a, g, <<c>>)
    BY <1>3 DEF ComputeCompensatedDecryptionShareForBallot
  <2>3. \A g, parts : ReconstructDecryptionShareForBallot(g, ballot, parts)
                        = ReconstructDecryptionShare(g, <<c>>, parts)
    BY <1>3 DEF ReconstructDecryptionShareForBallot
  <2>4. QED
    BY <2>1, <2>2, <2>3 DEF BallotShares, TallyShares
<1>5. /\ c.id = "contest-1"
      /\ c.selections = [i \in 1 .. l |-> [id |-> Everything(e)[i].id, pad |-> NonceOf(Everything(e)[i], seed),
                                           amount |-> AllVotes(e, sel)[i]]]
  <2>1. sealed.id = "contest-1" /\ sealed.selections = SealedSelections(e, sel, seed, FALSE)
    BY DEF SealedContest
  <2>2. \A i \in 1 .. l : LET s == SealedSelection(e, sel, seed, FALSE, i)
                          IN  /\ s.id = Everything(e)[i].id /\ s.vote = AllVotes(e, sel)[i]
                              /\ s.under = NonceOf(Everything(e)[i], seed)
    BY DEF SealedSelection
  <2> HIDE DEF sealed
  <2>3. /\ c.id = sealed.id
        /\ c.selections = [i \in DOMAIN sealed.selections |->
                             [id |-> sealed.selections[i].id, pad |-> sealed.selections[i].under,
                              amount |-> sealed.selections[i].vote]]
    BY CiphertextContestIs
  <2>4. DOMAIN sealed.selections = 1 .. l
        /\ \A i \in 1 .. l : sealed.selections[i] = SealedSelection(e, sel, seed, FALSE, i)
    BY <2>1 DEF SealedSelections
  <2> HIDE DEF c
  <2>5. c.id = "contest-1"
    BY <2>1, <2>3
  <2>6. \A i \in 1 .. l : /\ sealed.selections[i].id = Everything(e)[i].id
                          /\ sealed.selections[i].vote = AllVotes(e, sel)[i]
                          /\ sealed.selections[i].under = NonceOf(Everything(e)[i], seed)
    BY <2>2, <2>4
  <2> HIDE DEF l, seed
  <2>7. QED
    BY <2>3, <2>4, <2>5, <2>6
<1>6. n \in Nat /\ l \in Nat /\ n \in 0 .. l
  <2>1. n \in Nat \ {0} /\ Seats(e) \in 1 .. n
    BY <1>1, CandidatesAre
  <2>2. QED
    BY <2>1
<1>7. \A i, j \in 1 .. l : Everything(e)[i].id = Everything(e)[j].id => i = j
  BY <1>1, EverythingIs DEF Ordered
<1>8. \A i \in 1 .. l : Indices(Everything(e)[i].id, Description(e).selections) # {} <=> i <= n
  BY <1>1, ListedAre
<1> HIDE DEF c, l
<1>9. DOMAIN c.selections = 1 .. l /\ \A i \in 1 .. l : c.selections[i].id = Everything(e)[i].id
  BY <1>5
<1>10. OfOwnIds(c.selections, l)
  BY <1>6, <1>7, <1>9 DEF OfOwnIds, l
<1>11. c.selections = [i \in 1 .. l |-> c.selections[i]]
  BY <1>5
<1>12. Listed(c, n, l, Description(e))
  <2>1. \A i \in 1 .. l : Indices(c.selections[i].id, Description(e).selections) # {} <=> i <= n
    BY <1>8, <1>9 DEF l
  <2>2. QED
    BY <1>6, <2>1 DEF Listed
<1>13. DecryptTally(<<c>>, TallyShares(<<c>>, present), ManifestFor(e))
        = [contests |-> <<[id |-> "contest-1", selections |-> Tallied(c, n)]>>]
  <2> HIDE DEF n
  <2>1. c.id = "contest-1"
    BY <1>5
  <2>2. QED
    BY <1>1, <1>10, <1>11, <1>12, <2>1, QuorumOpens
<1>14. Mapped(TalliedContest, OpenedBallot(e, id, sel).contests)
         = <<[id |-> "contest-1", selections |-> Tallied(c, n)]>>
  <2> DEFINE o == OpenedContest(e, sel)
  <2>1. OpenedBallot(e, id, sel).contests = <<o>>
    BY DEF OpenedBallot
  <2>2. o.id = "contest-1" /\ o.selections = OpenedSelections(e, sel)
    BY DEF OpenedContest
  <2>3. \A i \in 1 .. n : i \in 1 .. l
    BY <1>6
  <2>4. \A i \in 1 .. n : OpenedSelection(e, sel, i).id = c.selections[i].id
                          /\ OpenedSelection(e, sel, i).vote = c.selections[i].amount
    BY <1>5, <2>3 DEF OpenedSelection
  <2> HIDE DEF o, n
  <2>5. /\ Mapped(TalliedContest, <<o>>) = <<TalliedContest(o)>>
        /\ TalliedContest(o) = [id |-> o.id, selections |-> [i \in DOMAIN o.selections |->
                                   [id |-> o.selections[i].id, tally |-> o.selections[i].vote]]]
    BY TalliedContestIs
  <2>6. [i \in DOMAIN o.selections |-> [id |-> o.selections[i].id, tally |-> o.selections[i].vote]]
          = Tallied(c, n)
    <3>1. DOMAIN o.selections = 1 .. n /\ \A i \in 1 .. n : o.selections[i] = OpenedSelection(e, sel, i)
      BY <2>2 DEF OpenedSelections, n
    <3>2. QED
      BY <2>4, <3>1 DEF Tallied
  <2>7. QED
    BY <2>1, <2>2, <2>5, <2>6
<1>15. QED
  BY <1>3, <1>4, <1>13, <1>14 DEF DecryptBallot, SharesOpen

\* The votes that come out of a ballot are those that went into it.
LEMMA VotesComeOut ==
  ASSUME NEW e, CanBeHeld(e), NEW sel, AreSelections(sel), Accepted(e, sel), NEW id
  PROVE  VotesOf(OpenedBallot(e, id, sel)) = VotedFor(e, sel)
<1> DEFINE n == Len(e.candidates)
           list == OpenedSelections(e, sel)
<1>1. OpenedBallot(e, id, sel).contests[1].selections = list
  <2>1. OpenedBallot(e, id, sel).contests[1] = OpenedContest(e, sel)
    BY DEF OpenedBallot
  <2>2. QED
    BY <2>1 DEF OpenedContest
<1>2. \A i \in 1 .. n : /\ list[i].id = e.candidates[i] /\ list[i].vote = VotesIn(e, sel)[i]
                        /\ VotesIn(e, sel)[i] \in {0, 1}
  <2>1. \A i \in 1 .. n : list[i].id = Everything(e)[i].id /\ list[i].vote = AllVotes(e, sel)[i]
    BY DEF OpenedSelections, OpenedSelection
  <2>2. \A i \in 1 .. n : AllVotes(e, sel)[i] = VotesIn(e, sel)[i] /\ VotesIn(e, sel)[i] \in {0, 1}
    BY AllVotesFit, VotesFit
  <2>3. \A i \in 1 .. n : Everything(e)[i].id = e.candidates[i]
    BY EverythingIs DEF Ordered
  <2>4. QED
    BY <2>1, <2>2, <2>3
<1>3. \A s : s \in ToSet(list) <=> \E i \in 1 .. n : list[i] = s
  BY DEF ToSet, OpenedSelections
<1> HIDE DEF list, n
<1>4. \A i \in 1 .. n : list[i].vote = 1 <=> i \in Positive(VotesIn(e, sel), n)
  BY <1>2 DEF Positive
<1>5. \A i \in Positive(VotesIn(e, sel), n) : i \in 1 .. n
  BY DEF Positive
<1>6. VotesOf(OpenedBallot(e, id, sel)) = {s.id : s \in {t \in ToSet(list) : t.vote = 1}}
  BY <1>1 DEF VotesOf
<1>7. \A x : x \in {s.id : s \in {t \in ToSet(list) : t.vote = 1}}
               <=> \E i \in Positive(VotesIn(e, sel), n) : x = e.candidates[i]
  BY <1>2, <1>3, <1>4, <1>5
<1>8. QED
  BY <1>6, <1>7 DEF VotedFor, n

(***************************************************************************)
(* What the clients hold: plaintext ballots of an election and what was    *)
(* made of them.                                                           *)
(***************************************************************************)
IsSealed(b) ==
  /\ plain[b] = FilledBallot(IdOf[b], Selections(b))
  /\ AreSelections(Selections(b))
  /\ Accepted(ElectionOf(b), Selections(b))
  /\ cipher[b] = SealedBallot(ElectionOf(b), KeyOf[b], IdOf[b], Selections(b), cipher[b].code_seed, b, TRUE)

HeldBallot(b) ==
  \/ plain[b] = NotYet /\ cipher[b] = NotYet
  \/ plain[b] # NotYet /\ cipher[b] = Refused
  \/ IsSealed(b)

VotesInv ==
  /\ election \in Elections
  /\ DOMAIN plain = Ballots /\ DOMAIN cipher = Ballots
  /\ \A b \in Ballots : HeldBallot(b)

LEMMA ElectionsAre ==
  ASSUME VotesInv, NEW b \in Ballots
  PROVE  /\ CanBeHeld(election) /\ CanBeHeld(ElectionOf(b))
         /\ ElectionOf(b).max_choices = election.max_choices
         /\ b \notin OtherContest => ElectionOf(b).candidates = election.candidates
         /\ b # NoNonce
<1>1. election \in Elections /\ CanBeHeld(election) /\ CanBeHeld(ElectionFor(election, b))
  BY ElectionsAssumption DEF VotesInv
<1>2. b # NoNonce
  BY PlaintextsAssumption
<1>3. ElectionOf(b) = ElectionFor(election, b)
  BY DEF ElectionOf
<1>4. /\ ElectionFor(election, b).max_choices = election.max_choices
      /\ b \notin OtherContest => ElectionFor(election, b).candidates = election.candidates
  BY DEF ElectionFor
<1> HIDE DEF CanBeHeld
<1>5. QED
  BY <1>1, <1>2, <1>3, <1>4

\* Encrypted are the ballots that have been encrypted.
LEMMA EncryptedAre ==
  ASSUME VotesInv, NEW b \in Encrypted
  PROVE  b \in Ballots /\ IsSealed(b)
<1>1. b \in Ballots /\ cipher[b] # NotYet /\ cipher[b] # Refused
  BY DEF Encrypted
<1>2. QED
  BY <1>1 DEF VotesInv, HeldBallot

LEMMA IntendedAre ==
  ASSUME VotesInv, NEW b \in Encrypted, Plain(b)
  PROVE  Intended(b) = VotedFor(ElectionOf(b), Selections(b))
<1>1. /\ b \in Ballots /\ AreSelections(Selections(b)) /\ Accepted(ElectionOf(b), Selections(b))
      /\ UniqueIds(Selections(b))
  BY EncryptedAre DEF IsSealed, Plain
<1>2. CanBeHeld(ElectionOf(b))
  BY <1>1, ElectionsAre
<1>3. IntendedOf(ElectionOf(b), Selections(b)) = VotedFor(ElectionOf(b), Selections(b))
  BY <1>1, <1>2, PlainVotes
<1>4. Intended(b) = IntendedOf(ElectionOf(b), Selections(b))
  BY DEF Intended, IntendedOf, ManifestOf, Seats, Description
<1>5. QED
  BY <1>3, <1>4

\* create_plaintext_ballot fills in a ballot of the election or refuses.
ChosenIn(e, chosen) ==
  [i \in DOMAIN Description(e).selections |->
     [id |-> Description(e).selections[i].id,
      vote |-> IF Description(e).selections[i].id \in ToSet(chosen) THEN 1 ELSE 0, write_in |-> "none"]]

LEMMA RequestedIs ==
  ASSUME NEW e, CanBeHeld(e), NEW chosen, NEW id
  PROVE  /\ AreSelections(ChosenIn(e, chosen))
         /\ CreatePlaintextBallot(e, chosen, id) \in {Refused, FilledBallot(id, ChosenIn(e, chosen))}
<1> DEFINE d == Description(e)
           m == ManifestFor(e)
           sel == ChosenIn(e, chosen)
<1>1. DOMAIN d.selections = 1 .. Len(e.candidates) /\ Len(e.candidates) \in Nat
  <2>1. DOMAIN d.selections = 1 .. Len(e.candidates)
    BY EverythingIs DEF Ordered
  <2>2. QED
    BY <2>1, CandidatesAre
<1>2. DOMAIN sel = 1 .. Len(e.candidates) /\ \A i \in 1 .. Len(e.candidates) : sel[i].vote \in Int
  BY <1>1 DEF ChosenIn
<1>3. sel = [i \in 1 .. Len(e.candidates) |-> sel[i]]
  BY <1>1 DEF ChosenIn
<1> HIDE DEF sel
<1>4. Len(sel) = Len(e.candidates)
  BY <1>1, <1>3
<1>5. AreSelections(sel)
  BY <1>1, <1>2, <1>3, <1>4 DEF AreSelections
<1>6. m.contests = <<d>> /\ m.styles[1].id = "ballot-style-1" /\ d.id = "contest-1"
  <2>1. m.contests = <<d>> /\ m.styles = <<BallotStyle>> /\ d.id = "contest-1"
    BY DescriptionIs
  <2> HIDE DEF m, d
  <2>2. QED
    BY <2>1 DEF BallotStyle
<1> DEFINE Selected1(s) == [id |-> s.id, vote |-> IF s.id \in ToSet(chosen) THEN 1 ELSE 0,
                            write_in |-> "none"]
           Filled(c) == [id |-> c.id, selections |-> Mapped(Selected1, c.selections)]
<1>7. Filled(d) = FilledContest(sel)
  <2>1. Mapped(Selected1, d.selections) = sel
    BY DEF Mapped, ChosenIn, sel
  <2> HIDE DEF Selected1, d
  <2>2. QED
    BY <1>6, <2>1 DEF FilledContest
<1>8. Mapped(Filled, <<d>>) = <<FilledContest(sel)>>
  <2> HIDE DEF Filled, d
  <2>1. QED
    BY <1>7 DEF Mapped
<1>9. Mapped(Filled, m.contests) = <<FilledContest(sel)>>
  <2> HIDE DEF Filled, m
  <2>1. QED
    BY <1>6, <1>8
<1>10. [id |-> id, style |-> m.styles[1].id, contests |-> Mapped(Filled, m.contests)] = FilledBallot(id, sel)
  <2> HIDE DEF Filled, m
  <2>1. QED
    BY <1>6, <1>9 DEF FilledBallot
<1> HIDE DEF m, Filled
<1> DEFINE x == [id |-> id, style |-> m.styles[1].id, contests |-> Mapped(Filled, m.contests)]
           refuses == \/ ~IsInjective(chosen)
                      \/ ~(ToSet(chosen) \subseteq ToSet(e.candidates))
                      \/ Len(chosen) > e.max_choices
<1>11. CreatePlaintextBallot(e, chosen, id) = IF refuses THEN Refused ELSE x
  <2> HIDE DEF refuses
  <2>1. QED
    BY Zenon DEF CreatePlaintextBallot, ManifestFor, refuses, m, Filled
<1>12. x = FilledBallot(id, sel)
  BY <1>10
<1> HIDE DEF x, refuses
<1>13. QED
  BY <1>5, <1>11, <1>12 DEF sel

\* Initially nothing is held.
LEMMA VotesInvInit == PipelineInit => VotesInv
BY DEF PipelineInit, VotesInv, HeldBallot

\* What is not encrypted now stays what it was.
LEMMA HeldKept ==
  ASSUME NEW b, HeldBallot(b), plain'[b] = plain[b], cipher'[b] = cipher[b], election' = election
  PROVE  HeldBallot(b)'
<1>1. Selections(b)' = Selections(b) /\ ElectionOf(b)' = ElectionOf(b)
  BY DEF Selections, ElectionOf
<1>2. QED
  BY <1>1 DEF HeldBallot, IsSealed, NotYet

\* Encryption makes a sealed ballot of a plaintext ballot or refuses it.
LEMMA EncryptStep ==
  ASSUME VotesInv, NEW b \in Ballots, NEW sel, AreSelections(sel), NEW ballot,
         ballot \in {Refused, FilledBallot(IdOf[b], sel)}, NEW code_seed,
         Encrypt(b, ballot, code_seed)
  PROVE  VotesInv'
<1> DEFINE e == ElectionOf(b)
           sealed == SealedBallot(e, KeyOf[b], IdOf[b], sel, code_seed, b, TRUE)
<1>1. /\ plain' = [plain EXCEPT ![b] = ballot]
      /\ cipher' = [cipher EXCEPT
           ![b] = IF ballot = Refused THEN Refused ELSE EncryptBallot(ballot, ManifestOf(b), KeyOf[b], code_seed, b)]
      /\ election' = election
  BY DEF Encrypt
<1>2. DOMAIN plain = Ballots /\ DOMAIN cipher = Ballots /\ \A a \in Ballots : HeldBallot(a)
  BY DEF VotesInv
<1>3. /\ DOMAIN plain' = Ballots /\ DOMAIN cipher' = Ballots /\ election' \in Elections
      /\ plain'[b] = ballot
      /\ cipher'[b] = IF ballot = Refused THEN Refused ELSE EncryptBallot(ballot, ManifestOf(b), KeyOf[b], code_seed, b)
  BY <1>1, <1>2 DEF VotesInv
<1>4. ASSUME NEW a \in Ballots, a # b PROVE HeldBallot(a)'
  <2>1. plain'[a] = plain[a] /\ cipher'[a] = cipher[a]
    BY <1>1, <1>2, <1>4
  <2>2. HeldBallot(a)
    BY <1>2
  <2>3. QED
    BY <1>1, <2>1, <2>2, HeldKept
<1>5. HeldBallot(b)'
  <2>1. CASE ballot = Refused
    <3>1. plain'[b] = Refused /\ cipher'[b] = Refused
      BY <1>3, <2>1
    <3>2. Refused # NotYet
      BY DEF Refused, NotYet
    <3>3. QED
      BY <3>1, <3>2 DEF HeldBallot, NotYet
  <2>2. CASE ballot # Refused
    <3>1. ballot = FilledBallot(IdOf[b], sel)
      BY <2>2
    <3>2. cipher'[b] = IF Accepted(e, sel) THEN sealed ELSE Refused
      <4>1. CanBeHeld(e)
        BY ElectionsAre
      <4> HIDE DEF e
      <4>2. EncryptBallot(FilledBallot(IdOf[b], sel), ManifestFor(e), KeyOf[b], code_seed, b)
              = IF Accepted(e, sel) THEN sealed ELSE Refused
        BY <4>1, BallotIsSealed
      <4>3. ManifestOf(b) = ManifestFor(e)
        BY DEF ManifestOf, e
      <4>4. QED
        BY <1>3, <2>2, <3>1, <4>2, <4>3
    <3>3. CASE ~Accepted(e, sel)
      <4>1. plain'[b] # NotYet
        BY <1>3, <3>1 DEF FilledBallot, NotYet
      <4>2. QED
        BY <3>2, <3>3, <4>1 DEF HeldBallot, NotYet
    <3>4. CASE Accepted(e, sel)
      <4>1. Selections(b)' = sel
        BY <1>3, <3>1 DEF Selections, FilledBallot, FilledContest
      <4>2. ElectionOf(b)' = e
        BY <1>1 DEF ElectionOf
      <4>3. cipher'[b] = sealed /\ cipher'[b].code_seed = code_seed
        <5>1. sealed.code_seed = code_seed
          BY DEF SealedBallot
        <5> HIDE DEF sealed
        <5>2. QED
          BY <3>2, <3>4, <5>1
      <4> HIDE DEF e
      <4>4. IsSealed(b)'
        BY <1>3, <3>1, <3>4, <4>1, <4>2, <4>3 DEF IsSealed
      <4>5. QED
        BY <4>4 DEF HeldBallot
    <3>5. QED
      BY <3>3, <3>4
  <2>3. QED
    BY <2>1, <2>2
<1>6. QED
  BY <1>3, <1>4, <1>5 DEF VotesInv

LEMMA VotesInvStep == VotesInv /\ [PipelineNext]_pipelineVars => VotesInv'
<1> SUFFICES ASSUME VotesInv, [PipelineNext]_pipelineVars PROVE VotesInv'
  OBVIOUS
<1>1. ASSUME NEW b \in Ballots, RequestBallot(b) PROVE VotesInv'
  <2>1. PICK chosen \in Chosen[b] :
          Encrypt(b, CreatePlaintextBallot(ElectionOf(b), chosen, IdOf[b]), Device)
    BY <1>1 DEF RequestBallot
  <2>2. CanBeHeld(ElectionOf(b))
    BY ElectionsAre
  <2>3. /\ AreSelections(ChosenIn(ElectionOf(b), chosen))
        /\ CreatePlaintextBallot(ElectionOf(b), chosen, IdOf[b])
             \in {Refused, FilledBallot(IdOf[b], ChosenIn(ElectionOf(b), chosen))}
    BY <2>2, RequestedIs
  <2>4. QED
    BY <2>1, <2>3, EncryptStep
<1>2. ASSUME NEW b \in Ballots, GiveBallot(b) PROVE VotesInv'
  <2>1. PICK sel \in Plaintexts : Encrypt(b, FilledBallot(IdOf[b], sel), encryption_seed)
    BY <1>2 DEF GiveBallot, FilledBallot, FilledContest
  <2>2. AreSelections(sel)
    <3>1. sel \in Seq(ToSet(sel)) /\ \A s \in ToSet(sel) : s.vote \in Int
      BY PlaintextsAssumption
    <3>2. QED
      BY <3>1 DEF AreSelections, ToSet
  <2>3. QED
    BY <2>1, <2>2, EncryptStep
<1>3. ASSUME UNCHANGED <<election, plain, cipher>> PROVE VotesInv'
  <2>1. \A b \in Ballots : HeldBallot(b)'
    BY <1>3, HeldKept DEF VotesInv
  <2>2. QED
    BY <1>3, <2>1 DEF VotesInv
<1>4. CASE SendToTally
  BY <1>3, <1>4 DEF SendToTally
<1>5. CASE TallyStep
  BY <1>3, <1>5 DEF TallyStep
<1>6. CASE UNCHANGED pipelineVars
  BY <1>3, <1>6 DEF pipelineVars
<1>7. QED
  BY <1>1, <1>2, <1>4, <1>5, <1>6 DEF PipelineNext

LEMMA VotesInvariant == PipelineSpec => []VotesInv
BY VotesInvInit, VotesInvStep, PTL DEF PipelineSpec

-----------------------------------------------------------------------------
(* What the votes are worth. *)

LEMMA OpensAsIs ==
  ASSUME VotesInv, NEW b \in Encrypted
  PROVE  OpensAsVoted(b)
<1> DEFINE e == ElectionOf(b)
           sel == Selections(b)
           id == IdOf[b]
           own == KeyOf[b]
           seed == cipher[b].code_seed
           m == ManifestOf(b)
           given == MakeSubmitted(cipher[b])
           opened == OpenedBallot(e, id, sel)
<1>1. /\ b \in Ballots /\ AreSelections(sel) /\ Accepted(e, sel)
      /\ cipher[b] = SealedBallot(e, own, id, sel, seed, b, TRUE)
  BY EncryptedAre DEF IsSealed
<1>2. /\ CanBeHeld(election) /\ CanBeHeld(e)
      /\ election.max_choices = e.max_choices
      /\ b # NoNonce
  BY <1>1, ElectionsAre
<1>3. m = ManifestFor(e)
  BY DEF ManifestOf
<1> HIDE DEF e, sel, id, own, m
<1>4. given = SealedBallot(e, own, id, sel, seed, b, FALSE)
  BY <1>1, SubmittedIs
<1> HIDE DEF seed, given
<1>5. ASSUME NEW x \in {e, election}
      PROVE  /\ \A other : IsValidEncryption(cipher[b], ManifestHash(ManifestFor(x)), other)
                            <=> x = e /\ other = own
             /\ BallotIsValidForStyle(cipher[b], ManifestFor(x)) <=> x.candidates = e.candidates
  <2>1. CanBeHeld(x) /\ x.max_choices = e.max_choices
    BY <1>2
  <2>2. ASSUME NEW other
        PROVE  IsValidEncryption(cipher[b], ManifestHash(ManifestFor(x)), other)
                 <=> ManifestHash(ManifestFor(x)) = ManifestHash(ManifestFor(e)) /\ other = own
    <3>1. Makes(cipher[b], e, own, id, sel, seed, b, TRUE)
      BY <1>1, <1>2 DEF Makes
    <3>2. ASSUME NEW hash, NEW k
          PROVE  IsValidEncryption(cipher[b], hash, k) <=> hash = ManifestHash(ManifestFor(e)) /\ k = own
      BY <3>1, BallotIsValid
    <3>3. QED
      BY <3>2
  <2>3. ManifestHash(ManifestFor(x)) = ManifestHash(ManifestFor(e)) => x = e
    <3>1. SUFFICES ASSUME ManifestHash(ManifestFor(x)) = ManifestHash(ManifestFor(e)) PROVE x = e
      OBVIOUS
    <3>2. ContestHash(Description(x)) = ContestHash(Description(e)) /\ x.parties = e.parties
      BY <1>2, <2>1, <3>1, ManifestHashHas
    <3>3. x.candidates = e.candidates
      BY <1>2, <2>1, <3>2, HashesTell
    <3>4. /\ x = [parties |-> x.parties, candidates |-> x.candidates, max_choices |-> x.max_choices]
          /\ e = [parties |-> e.parties, candidates |-> e.candidates, max_choices |-> e.max_choices]
      BY <1>2, <2>1 DEF CanBeHeld
    <3>5. QED
      BY <2>1, <3>2, <3>3, <3>4
  <2>4. BallotIsValidForStyle(cipher[b], ManifestFor(x)) <=> x.candidates = e.candidates
    <3>1. BallotIsValidForStyle(SealedBallot(e, own, id, sel, seed, b, TRUE), ManifestFor(x))
            <=> x.candidates = e.candidates
      BY <1>1, <1>2, <2>1, BallotFitsStyle, Zenon
    <3>2. QED
      BY <1>1, <3>1
  <2>5. QED
    BY <2>2, <2>3, <2>4
<1>6. /\ \A shown \in BOOLEAN :
           /\ DecryptBallotWithSecret(SealedBallot(e, own, id, sel, seed, b, shown), ManifestFor(e), own) = opened
           /\ DecryptBallotWithNonce(SealedBallot(e, own, id, sel, seed, b, shown), ManifestFor(e), own, b) = opened
      /\ DecryptBallotWithNonce(SealedBallot(e, own, id, sel, seed, b, TRUE), ManifestFor(e), own, NoNonce) = opened
      /\ DecryptBallotWithNonce(SealedBallot(e, own, id, sel, seed, b, FALSE), ManifestFor(e), own, NoNonce) = Refused
      /\ \A other : other # b /\ other # NoNonce =>
           DecryptBallotWithNonce(SealedBallot(e, own, id, sel, seed, b, TRUE), ManifestFor(e), own, other) = Refused
  <2>1. CanBeHeld(e) /\ AreSelections(sel) /\ Accepted(e, sel) /\ b # NoNonce
    BY <1>1, <1>2
  <2>2. Opening(e, own, id, sel, seed, b)
    BY <2>1, BallotOpens
  <2>3. QED
    BY <2>2 DEF Opening
<1>7. opened # Refused
  BY DEF OpenedBallot, Refused
<1>8. ASSUME Plain(b) PROVE VotesOf(opened) = Intended(b)
  <2>1. VotesOf(opened) = VotedFor(e, sel)
    BY <1>1, <1>2, VotesComeOut
  <2>2. Intended(b) = VotedFor(e, sel)
    BY <1>8, IntendedAre DEF e, sel
  <2>3. QED
    BY <2>1, <2>2
<1>9. \A other \in Ballots \ {b} : other # b /\ other # NoNonce
  BY PlaintextsAssumption
<1>10. ASSUME NEW present \in Presents
       PROVE  DecryptBallot(given, BallotShares(given, present), m)
                = [contests |-> Mapped(TalliedContest, opened.contests)]
  <2>1. Makes(given, e, own, id, sel, seed, b, FALSE)
    BY <1>1, <1>2, <1>4 DEF Makes
  <2>2. SharesOpen(given, e, id, sel, present)
    BY <2>1, BallotOpensByShares
  <2>3. QED
    BY <1>3, <2>2 DEF SharesOpen
<1> HIDE DEF opened
<1>11. DecryptBallotWithSecret(given, m, own) = opened
  BY <1>3, <1>4, <1>6
<1>12. /\ DecryptBallotWithNonce(cipher[b], m, own, NoNonce) = opened
       /\ DecryptBallotWithNonce(given, m, own, b) = opened
       /\ DecryptBallotWithNonce(given, m, own, NoNonce) = Refused
       /\ \A other \in Ballots \ {b} : DecryptBallotWithNonce(cipher[b], m, own, other) = Refused
  <2> DEFINE shown == SealedBallot(e, own, id, sel, seed, b, TRUE)
             bare == SealedBallot(e, own, id, sel, seed, b, FALSE)
  <2>1. /\ DecryptBallotWithNonce(bare, ManifestFor(e), own, b) = opened
        /\ DecryptBallotWithNonce(shown, ManifestFor(e), own, NoNonce) = opened
        /\ DecryptBallotWithNonce(bare, ManifestFor(e), own, NoNonce) = Refused
        /\ \A other : other # b /\ other # NoNonce =>
             DecryptBallotWithNonce(shown, ManifestFor(e), own, other) = Refused
    BY <1>6
  <2>2. cipher[b] = shown /\ given = bare
    BY <1>1, <1>4
  <2> HIDE DEF shown, bare
  <2>3. QED
    BY <1>3, <1>9, <2>1, <2>2
<1>13. QED
  BY <1>5, <1>7, <1>8, <1>10, <1>11, <1>12 DEF OpensAsVoted, m, given, e, own

\* An encrypted ballot of /create_encrypted_ballot or of an EncryptionMediator is a valid
\* encryption in its own election under its own key, and neither in one with other
\* parties or candidates nor under another key; it fits the style of every election with
\* its candidates.  It has the votes of the voter in it, and the nonce, the secret key
\* and the shares of every quorum of its key's guardians open the same: for any
\* elections, keys, selections, guardians and quorums.
THEOREM BallotsAreAsVoted == PipelineSpec => []EncryptedAsVoted
<1>1. VotesInv => EncryptedAsVoted
  BY OpensAsIs DEF EncryptedAsVoted
<1>2. QED
  BY <1>1, VotesInvariant, PTL

\* /benaloh_challenge answers with a match exactly when the voter's choice is expected.
THEOREM ChallengesTell == PipelineSpec => []ChallengeTellsTheVote
<1>1. ASSUME VotesInv, NEW b \in Encrypted, Plain(b)
      PROVE  VotedCandidates(cipher[b]) = Intended(b)
  <2> DEFINE e == ElectionOf(b)
             sel == Selections(b)
  <2>1. /\ b \in Ballots /\ AreSelections(sel) /\ Accepted(e, sel)
        /\ cipher[b] = SealedBallot(e, KeyOf[b], IdOf[b], sel, cipher[b].code_seed, b, TRUE)
    BY <1>1, EncryptedAre DEF IsSealed
  <2>2. CanBeHeld(e)
    BY <1>1, <2>1, ElectionsAre
  <2>3. Intended(b) = VotedFor(e, sel)
    BY <1>1, IntendedAre
  <2> HIDE DEF e, sel
  <2>4. VotedCandidates(cipher[b]) = VotedFor(e, sel)
    BY <2>1, <2>2, ChallengeSees
  <2>5. QED
    BY <2>3, <2>4
<1>2. VotesInv => ChallengeTellsTheVote
  BY <1>1 DEF ChallengeTellsTheVote, Matches
<1>3. QED
  BY <1>2, VotesInvariant, PTL

-----------------------------------------------------------------------------
(* Compact ballots. *)

\* The same votes for the same selections.
SameVotes(sel, other) ==
  /\ Len(other) = Len(sel)
  /\ \A i \in 1 .. Len(sel) : other[i].id = sel[i].id /\ other[i].vote = sel[i].vote

LEMMA SameVotesCount ==
  ASSUME NEW e, CanBeHeld(e), NEW sel, AreSelections(sel), NEW other, AreSelections(other),
         SameVotes(sel, other)
  PROVE  /\ ErrorOf(e, other) = ErrorOf(e, sel)
         /\ VotesIn(e, other) = VotesIn(e, sel)
         /\ AllVotes(e, other) = AllVotes(e, sel)
         /\ Accepted(e, other) <=> Accepted(e, sel)
<1> DEFINE d == Description(e)
           n == Len(sel)
<1>1. /\ n \in Nat /\ Len(other) = n /\ DOMAIN sel = 1 .. n /\ DOMAIN other = 1 .. n
      /\ \A i \in 1 .. n : other[i].id = sel[i].id /\ other[i].vote = sel[i].vote
  BY DEF AreSelections, SameVotes
<1> HIDE DEF n
<1>2. Mapped(LAMBDA s : s.vote, other) = Mapped(LAMBDA s : s.vote, sel)
  BY <1>1 DEF Mapped
<1>3. \A id : Indices(id, other) = Indices(id, sel)
  BY <1>1 DEF Indices
<1> DEFINE Odd(list) == \E s \in ToSet(list) : Indices(s.id, d.selections) = {}
<1>4. Odd(other) <=> Odd(sel)
  <2>1. ASSUME NEW list, DOMAIN list = 1 .. n
        PROVE  Odd(list) <=> \E i \in 1 .. n : Indices(list[i].id, d.selections) = {}
    BY <2>1 DEF ToSet
  <2>2. QED
    BY <1>1, <2>1
<1>5. ErrorOf(e, other) = ErrorOf(e, sel)
  <2>1. \A x : FilledContest(x).id = "contest-1" /\ FilledContest(x).selections = x
    BY DEF FilledContest
  <2> HIDE DEF Odd
  <2> DEFINE Verdict(len, votes) ==
               LET selected == Cardinality({i \in DOMAIN votes : votes[i] > 0})
               IN  IF \/ "contest-1" # d.id
                      \/ len > Len(d.selections)
                      \/ ~ContestIsValid(d)
                   THEN "refused"
                   ELSE IF selected < 1 THEN "nullvote"
                   ELSE IF selected < d.number_elected THEN "undervote"
                   ELSE IF selected > d.number_elected THEN "overvote"
                   ELSE IF SumOf(votes) > d.votes_allowed THEN "overvote"
                   ELSE IF selected < d.votes_allowed THEN "refused"
                   ELSE "none"
  <2>2. \A x : ErrorOf(e, x) = IF Odd(x) THEN "refused" ELSE Verdict(Len(x), Mapped(LAMBDA s : s.vote, x))
    BY <2>1 DEF ErrorOf, ContestError, Odd
  <2> HIDE DEF Verdict
  <2>3. ErrorOf(e, other) = IF Odd(other) THEN "refused"
                            ELSE Verdict(Len(other), Mapped(LAMBDA s : s.vote, other))
    BY <2>2
  <2>4. ErrorOf(e, sel) = IF Odd(sel) THEN "refused" ELSE Verdict(Len(sel), Mapped(LAMBDA s : s.vote, sel))
    BY <2>2
  <2>5. Verdict(Len(other), Mapped(LAMBDA s : s.vote, other)) = Verdict(Len(sel), Mapped(LAMBDA s : s.vote, sel))
    BY <1>1, <1>2, Zenon DEF n
  <2>6. QED
    BY <1>4, <2>3, <2>4, <2>5
<1>6. ASSUME NEW i \in 1 .. Len(e.candidates) PROVE CountedFor(e, other, i).vote = CountedFor(e, sel, i).vote
  <2> DEFINE id == d.selections[i].id
  <2>1. CASE ErrorOf(e, sel) = "overvote" \/ Indices(id, sel) = {}
    BY <1>3, <1>5, <2>1 DEF CountedFor, Counted, FilledContest
  <2>2. CASE ~(ErrorOf(e, sel) = "overvote" \/ Indices(id, sel) = {})
    <3>1. CountedFor(e, other, i) = WithId(id, other) /\ CountedFor(e, sel, i) = WithId(id, sel)
      BY <1>3, <1>5, <2>2 DEF CountedFor, Counted, FilledContest
    <3> HIDE DEF id
    <3>2. Least(Indices(id, sel)) \in 1 .. n
      BY <1>1, <2>2, WithIdIs
    <3>3. WithId(id, other) = other[Least(Indices(id, sel))] /\ WithId(id, sel) = sel[Least(Indices(id, sel))]
      BY <1>3 DEF WithId
    <3>4. QED
      BY <1>1, <3>1, <3>2, <3>3
  <2>3. QED
    BY <2>1, <2>2
<1>7. VotesIn(e, other) = VotesIn(e, sel)
  BY <1>6 DEF VotesIn
<1>8. QED
  BY <1>5, <1>7 DEF AllVotes, Accepted

\* compress_plaintext_ballot.
WriteInsOf(sel) ==
  {<<i, sel[i].write_in>> : i \in {k \in DOMAIN sel : sel[k].write_in # "none"}}

LEMMA CompressedIs ==
  ASSUME NEW id, NEW sel, NEW compact, compact = CompressPlaintextBallot(FilledBallot(id, sel))
  PROVE  /\ compact.id = id /\ compact.style = "ballot-style-1"
         /\ compact.selections = [i \in DOMAIN sel |-> sel[i].vote = 1]
         /\ compact.write_ins = WriteInsOf(sel)
<1> DEFINE ballot == FilledBallot(id, sel)
<1>1. ballot.contests = <<FilledContest(sel)>> /\ ballot.id = id /\ ballot.style = "ballot-style-1"
  BY DEF FilledBallot
<1>2. Mapped(LAMBDA c : c.selections, ballot.contests) = <<sel>>
  <2>1. FilledContest(sel).selections = sel
    BY DEF FilledContest
  <2> HIDE DEF ballot
  <2>2. QED
    BY <1>1, <2>1 DEF Mapped
<1>3. FlattenSeq(Mapped(LAMBDA c : c.selections, ballot.contests)) = sel
  BY <1>2, FlattenedOne
<1> HIDE DEF ballot
<1>4. compact = [id |-> ballot.id, style |-> ballot.style,
                 selections |-> Mapped(LAMBDA s : s.vote = 1, sel), write_ins |-> WriteInsOf(sel)]
  BY <1>3 DEF CompressPlaintextBallot, WriteInsOf, ballot
<1>5. QED
  BY <1>1, <1>4 DEF Mapped

\* expand_compact_plaintext_ballot.
RestoredWriteIn(written, i) ==
  LET own == {w \in written : w[1] = i - 1}
  IN  IF own = {} THEN "none" ELSE (CHOOSE w \in own : TRUE)[2]

RestoredSelections(sel) ==
  [i \in 1 .. Len(sel) |-> [id |-> sel[i].id, vote |-> sel[i].vote,
                            write_in |-> RestoredWriteIn(WriteInsOf(sel), i)]]

\* The selections are those of the election, in its order, and votes are 0 or 1.
IsComplete(e, sel) ==
  /\ AreSelections(sel) /\ Len(sel) = Len(e.candidates)
  /\ \A i \in 1 .. Len(sel) : sel[i].id = Description(e).selections[i].id /\ sel[i].vote \in {0, 1}

LEMMA ExpandedIs ==
  ASSUME NEW e, CanBeHeld(e), NEW id, NEW sel, IsComplete(e, sel)
  PROVE  ExpandCompactPlaintextBallot(CompressPlaintextBallot(FilledBallot(id, sel)), ManifestFor(e))
           = FilledBallot(id, RestoredSelections(sel))
<1> DEFINE compact == CompressPlaintextBallot(FilledBallot(id, sel))
           m == ManifestFor(e)
           d == Description(e)
           n == Len(sel)
           Before(k) == SumOf([j \in 1 .. k - 1 |-> Len(m.contests[j].selections)])
<1>1. /\ compact.id = id /\ compact.style = "ballot-style-1"
      /\ compact.selections = [i \in DOMAIN sel |-> sel[i].vote = 1]
      /\ compact.write_ins = WriteInsOf(sel)
  BY CompressedIs
<1>2. /\ n \in Nat /\ DOMAIN sel = 1 .. n
      /\ \A i \in 1 .. n : sel[i].id = d.selections[i].id /\ sel[i].vote \in {0, 1}
      /\ n = Len(e.candidates)
  BY DEF IsComplete, AreSelections
<1>3. m.contests = <<d>> /\ d.id = "contest-1"
  BY DescriptionIs
<1>4. DOMAIN d.selections = 1 .. n /\ Len(d.selections) = n
  BY <1>2, EverythingIs DEF Ordered
<1> HIDE DEF compact, m, d, n
<1>5. FlattenSeq(Mapped(LAMBDA c : c.selections, m.contests)) = d.selections
  <2>1. Mapped(LAMBDA c : c.selections, m.contests) = <<d.selections>>
    BY <1>3 DEF Mapped
  <2>2. QED
    BY <2>1, FlattenedOne
<1>6. Before(1) = 0
  <2> DEFINE v == [j \in 1 .. 0 |-> Len(m.contests[j].selections)]
  <2>1. v \in [1 .. 0 -> Int]
    OBVIOUS
  <2>2. Before(1) = SumOf(v)
    OBVIOUS
  <2> HIDE DEF v
  <2>3. PICK f : SumsTo(f, v, 0) /\ SumOf(v) = f[0]
    BY <2>1, SumsUp
  <2>4. QED
    BY <2>2, <2>3 DEF SumsTo
<1>7. Len(compact.selections) = n
  BY <1>1, <1>2
<1> DEFINE Selection(i) == [id |-> d.selections[i].id, vote |-> IF compact.selections[i] THEN 1 ELSE 0,
                            write_in |-> RestoredWriteIn(compact.write_ins, i)]
           Filled(k) == [id |-> m.contests[k].id,
                         selections |-> [i \in DOMAIN m.contests[k].selections |-> Selection(Before(k) + i)]]
<1>8. ExpandCompactPlaintextBallot(compact, m) =
        [id |-> compact.id, style |-> compact.style, contests |-> [k \in DOMAIN m.contests |-> Filled(k)]]
  <2>1. ~(Len(compact.selections) < Len(d.selections))
    BY <1>2, <1>4, <1>7
  <2>2. QED
    BY <1>5, <2>1 DEF ExpandCompactPlaintextBallot, RestoredWriteIn
<1>9. \A i \in 1 .. n : Selection(i) = RestoredSelections(sel)[i]
  BY <1>1, <1>2 DEF RestoredSelections, n
<1> HIDE DEF Selection
<1>10. m.contests[1] = d /\ DOMAIN m.contests = {1}
  BY <1>3
<1>11. Filled(1) = FilledContest(RestoredSelections(sel))
  <2>1. \A i \in 1 .. n : Before(1) + i = i
    BY <1>2, <1>6
  <2> HIDE DEF Before
  <2>2. [i \in DOMAIN m.contests[1].selections |-> Selection(Before(1) + i)] = RestoredSelections(sel)
    <3>1. DOMAIN RestoredSelections(sel) = 1 .. n /\ RestoredSelections(sel) = [i \in 1 .. n |-> RestoredSelections(sel)[i]]
      BY DEF RestoredSelections, n
    <3>2. QED
      BY <1>4, <1>9, <1>10, <2>1, <3>1
  <2>3. QED
    BY <1>3, <1>10, <2>2 DEF FilledContest
<1> HIDE DEF Filled
<1>12. [k \in DOMAIN m.contests |-> Filled(k)] = <<FilledContest(RestoredSelections(sel))>>
  BY <1>10, <1>11
<1>13. QED
  BY <1>1, <1>8, <1>12 DEF FilledBallot, compact, m

\* Restoring keeps the votes, and without write-ins there are none.
LEMMA RestoredAre ==
  ASSUME NEW e, NEW sel, IsComplete(e, sel)
  PROVE  /\ AreSelections(RestoredSelections(sel))
         /\ SameVotes(sel, RestoredSelections(sel))
         /\ WriteIns(FilledContest(sel)) = {} => WriteIns(FilledContest(RestoredSelections(sel))) = {}
<1> DEFINE n == Len(sel)
           other == RestoredSelections(sel)
<1>1. n \in Nat /\ DOMAIN sel = 1 .. n /\ \A i \in 1 .. n : sel[i].vote \in Int
  BY DEF IsComplete, AreSelections
<1>2. /\ other = [i \in 1 .. n |-> other[i]]
      /\ \A i \in 1 .. n : /\ other[i].id = sel[i].id /\ other[i].vote = sel[i].vote
                           /\ other[i].write_in = RestoredWriteIn(WriteInsOf(sel), i)
  BY DEF RestoredSelections
<1> HIDE DEF other, n
<1>3. Len(other) = n
  BY <1>1, <1>2
<1>4. AreSelections(other) /\ SameVotes(sel, other)
  BY <1>1, <1>2, <1>3 DEF AreSelections, SameVotes, n
<1>5. ASSUME WriteIns(FilledContest(sel)) = {} PROVE WriteIns(FilledContest(other)) = {}
  <2>1. \A x : FilledContest(x).selections = x
    BY DEF FilledContest
  <2>2. \A s \in ToSet(sel) : s.write_in = "none"
    BY <1>5, <2>1 DEF WriteIns
  <2>3. \A i \in 1 .. n : sel[i].write_in = "none"
    BY <1>1, <2>2 DEF ToSet
  <2>4. WriteInsOf(sel) = {}
    BY <1>1, <2>3 DEF WriteInsOf
  <2>5. \A i \in 1 .. n : other[i].write_in = "none"
    BY <1>2, <2>4 DEF RestoredWriteIn
  <2>6. \A s \in ToSet(other) : s.write_in = "none"
    BY <1>2, <2>5 DEF ToSet
  <2>7. QED
    BY <2>1, <2>6 DEF WriteIns
<1>6. QED
  BY <1>4, <1>5 DEF other

\* Ballots of the same votes differ in the data about write-ins.
WithoutData(ballot) ==
  [ballot EXCEPT !.contests = Mapped(LAMBDA c : [c EXCEPT !.data = "left out"], @)]

WithDataOf(h, list, s, k, data) ==
  [id |-> "contest-1", hash |-> h, selections |-> list, nonce |-> s, proved |-> k, data |-> data]

LEMMA DataReplaced ==
  ASSUME NEW h, NEW list, NEW s, NEW k, NEW x, NEW y, NEW c, c = WithDataOf(h, list, s, k, x)
  PROVE  [c EXCEPT !.data = y] = WithDataOf(h, list, s, k, y)
BY DEF WithDataOf

AlikeButForData(sel, sealed, other, resealed) ==
  /\ WithoutData(resealed) = WithoutData(sealed)
  /\ WriteIns(FilledContest(other)) = WriteIns(FilledContest(sel)) => resealed = sealed

LEMMA SameVotesSealed ==
  ASSUME NEW e, CanBeHeld(e), NEW sel, AreSelections(sel), NEW other, AreSelections(other),
         SameVotes(sel, other), NEW key, NEW id, NEW code_seed, NEW nonce, NEW shown,
         NEW sealed, sealed = SealedBallot(e, key, id, sel, code_seed, nonce, shown),
         NEW resealed, resealed = SealedBallot(e, key, id, other, code_seed, nonce, shown)
  PROVE  AlikeButForData(sel, sealed, other, resealed)
<1> DEFINE seed == ContestNonce(e, id, nonce)
           c(x) == SealedContest(e, x, seed, shown)
           ballot(x) == SealedBallot(e, key, id, x, code_seed, nonce, shown)
           Cut(x) == [x EXCEPT !.data = "left out"]
<1>1. ErrorOf(e, other) = ErrorOf(e, sel) /\ AllVotes(e, other) = AllVotes(e, sel)
  BY SameVotesCount
<1>2. SealedSelections(e, other, seed, shown) = SealedSelections(e, sel, seed, shown)
  <2>1. \A i : SealedSelection(e, other, seed, shown, i) = SealedSelection(e, sel, seed, shown, i)
    BY <1>1 DEF SealedSelection
  <2>2. QED
    BY <2>1 DEF SealedSelections
<1> HIDE DEF seed
<1>3. Cut(c(other)) = Cut(c(sel))
  <2>1. PICK h, list, s, k :
          \A x \in {sel, other} : c(x) = WithDataOf(h, list, s, k, c(x).data)
    BY <1>2 DEF SealedContest, WithDataOf
  <2> HIDE DEF c
  <2>2. \A x \in {sel, other} : [c(x) EXCEPT !.data = "left out"] = WithDataOf(h, list, s, k, "left out")
    <3>1. PICK y : y = "left out"
      BY Zenon
    <3>2. \A x \in {sel, other} : [c(x) EXCEPT !.data = y] = WithDataOf(h, list, s, k, y)
      BY <2>1, DataReplaced
    <3>3. QED
      BY <3>1, <3>2, Zenon
  <2>3. QED
    BY <2>2, Zenon
<1>4. ASSUME WriteIns(FilledContest(other)) = WriteIns(FilledContest(sel)) PROVE c(other) = c(sel)
  BY <1>1, <1>2, <1>4, Zenon DEF SealedContest
<1>5. \A x : ballot(x) = [id |-> id, style |-> "ballot-style-1", manifest_hash |-> ManifestHash(ManifestFor(e)),
                          key |-> key, code_seed |-> code_seed, code |-> BallotCode(code_seed, nonce),
                          contests |-> <<c(x)>>, nonce |-> IF shown THEN nonce ELSE NoNonce]
  BY DEF SealedBallot, seed
<1> HIDE DEF c, ballot, Cut
<1>6. \A x : Mapped(Cut, <<x>>) = <<Cut(x)>>
  BY DEF Mapped
<1>7. \A x : WithoutData(x) = [x EXCEPT !.contests = Mapped(Cut, @)]
  BY Zenon DEF WithoutData, Cut
<1>8. WithoutData(ballot(other)) = WithoutData(ballot(sel))
  <2>1. ASSUME NEW x
        PROVE  WithoutData(ballot(x)) =
                 [id |-> id, style |-> "ballot-style-1", manifest_hash |-> ManifestHash(ManifestFor(e)),
                  key |-> key, code_seed |-> code_seed, code |-> BallotCode(code_seed, nonce),
                  contests |-> <<Cut(c(x))>>, nonce |-> IF shown THEN nonce ELSE NoNonce]
    <3>1. ballot(x).contests = <<c(x)>>
      BY <1>5
    <3>2. WithoutData(ballot(x)) = [ballot(x) EXCEPT !.contests = <<Cut(c(x))>>]
      BY <1>6, <1>7, <3>1
    <3>3. QED
      BY <1>5, <3>2
  <2>2. QED
    BY <1>3, <2>1
<1>9. ASSUME WriteIns(FilledContest(other)) = WriteIns(FilledContest(sel)) PROVE ballot(other) = ballot(sel)
  BY <1>4, <1>5, <1>9
<1>10. QED
  BY <1>8, <1>9 DEF ballot, AlikeButForData

LEMMA RestoredAsSent ==
  ASSUME VotesInv, NEW b \in Encrypted
  PROVE  RestoredFromCompact(b)
<1> DEFINE e == ElectionOf(b)
           sel == Selections(b)
           id == IdOf[b]
           key == KeyOf[b]
           seed == cipher[b].code_seed
           m == ManifestOf(b)
           listed == m.contests[1].selections
           given == MakeSubmitted(cipher[b])
           restored == ExpandCompactSubmittedBallot(CompressPlaintextBallot(plain[b]), m, key, seed, b)
           Whole == /\ [i \in DOMAIN sel |-> sel[i].id] = [i \in DOMAIN listed |-> listed[i].id]
                    /\ \A s \in ToSet(sel) : s.vote \in {0, 1}
<1>1. /\ b \in Ballots /\ AreSelections(sel) /\ Accepted(e, sel) /\ plain[b] = FilledBallot(id, sel)
      /\ cipher[b] = SealedBallot(e, key, id, sel, seed, b, TRUE)
  BY EncryptedAre DEF IsSealed
<1>2. CanBeHeld(e)
  BY <1>1, ElectionsAre
<1>3. m = ManifestFor(e) /\ listed = Description(e).selections
  BY DEF ManifestOf, Description
<1> HIDE DEF e, sel, id, key, m, listed
<1>4. given = SealedBallot(e, key, id, sel, seed, b, FALSE)
  BY <1>1, SubmittedIs
<1> HIDE DEF seed, given
<1>5. ASSUME Whole
      PROVE  /\ restored # Refused
             /\ WithoutData(restored) = WithoutData(given)
             /\ WriteIns(FilledContest(sel)) = {} => restored = given
  <2> DEFINE other == RestoredSelections(sel)
             back == SealedBallot(e, key, id, other, seed, b, FALSE)
  <2>1. IsComplete(e, sel)
    <3>1. DOMAIN listed = 1 .. Len(e.candidates)
      BY <1>2, <1>3, EverythingIs DEF Ordered
    <3>2. DOMAIN sel = 1 .. Len(sel) /\ Len(sel) \in Nat
      BY <1>1 DEF AreSelections
    <3>3. DOMAIN sel = DOMAIN listed /\ \A i \in DOMAIN sel : sel[i].id = listed[i].id
      <4>1. DOMAIN [i \in DOMAIN sel |-> sel[i].id] = DOMAIN [i \in DOMAIN listed |-> listed[i].id]
        BY <1>5
      <4>2. \A i \in DOMAIN sel : [j \in DOMAIN sel |-> sel[j].id][i] = [j \in DOMAIN listed |-> listed[j].id][i]
        BY <1>5
      <4>3. QED
        BY <4>1, <4>2
    <3>4. Len(sel) = Len(e.candidates)
      <4>1. Len(e.candidates) \in Nat
        BY <1>2, CandidatesAre
      <4>2. QED
        BY <3>1, <3>2, <3>3, <4>1
    <3>5. \A i \in 1 .. Len(sel) : sel[i].vote \in {0, 1}
      BY <1>5, <3>2 DEF ToSet
    <3>6. QED
      BY <1>1, <1>3, <3>2, <3>3, <3>4, <3>5 DEF IsComplete
  <2>2. /\ AreSelections(other) /\ SameVotes(sel, other)
        /\ WriteIns(FilledContest(sel)) = {} => WriteIns(FilledContest(other)) = {}
    BY <2>1, RestoredAre
  <2>3. ExpandCompactPlaintextBallot(CompressPlaintextBallot(plain[b]), m) = FilledBallot(id, other)
    BY <1>1, <1>2, <1>3, <2>1, ExpandedIs
  <2> HIDE DEF other
  <2>4. Accepted(e, other)
    BY <1>1, <1>2, <2>2, SameVotesCount
  <2>5. EncryptBallot(FilledBallot(id, other), m, key, seed, b) = SealedBallot(e, key, id, other, seed, b, TRUE)
    BY <1>2, <1>3, <2>2, <2>4, BallotIsSealed
  <2>6. FilledBallot(id, other) # Refused /\ SealedBallot(e, key, id, other, seed, b, TRUE) # Refused /\ back # Refused
    BY DEF FilledBallot, SealedBallot, Refused
  <2>7. MakeSubmitted(SealedBallot(e, key, id, other, seed, b, TRUE)) = back
    BY SubmittedIs
  <2>8. restored = back
    BY <2>3, <2>5, <2>6, <2>7 DEF ExpandCompactSubmittedBallot
  <2>9. /\ WithoutData(back) = WithoutData(given)
        /\ WriteIns(FilledContest(other)) = WriteIns(FilledContest(sel)) => back = given
    <3>1. back = SealedBallot(e, key, id, other, seed, b, FALSE)
      OBVIOUS
    <3> HIDE DEF back
    <3>2. AreSelections(sel)
      BY <1>1
    <3>3. AlikeButForData(sel, given, other, back)
      BY <1>2, <1>4, <2>2, <3>1, <3>2, SameVotesSealed
    <3>4. QED
      BY <3>3 DEF AlikeButForData
  <2> HIDE DEF back, restored
  <2>10. QED
    BY <2>2, <2>6, <2>8, <2>9
<1>6. plain[b].contests[1] = FilledContest(sel)
  BY <1>1 DEF FilledBallot
<1> HIDE DEF restored
<1>7. RestoredFromCompact(b) <=>
        (Whole =>
          /\ restored # Refused
          /\ WithoutData(restored) = WithoutData(given)
          /\ WriteIns(plain[b].contests[1]) = {} => restored = given)
  BY DEF RestoredFromCompact, WithoutData, restored, given, m, sel, listed, seed, key
<1>8. QED
  BY <1>5, <1>6, <1>7

\* A ballot that lists every selection comes back from its compact form as it was
\* submitted, but for the data about write-ins.
THEOREM CompactBallotsKeepVotes == PipelineSpec => []CompactingKeepsVotes
<1>1. VotesInv => CompactingKeepsVotes
  BY RestoredAsSent DEF CompactingKeepsVotes
<1>2. QED
  BY <1>1, VotesInvariant, PTL


(***************************************************************************)
(* From the ballots to the totals.                                         *)
(***************************************************************************)

\* What is sent was encrypted, and stays so.
SentInv == request \in Seq(Encrypted) /\ submitted \in Seq(Encrypted)

LEMMA EncryptedGrows ==
  ASSUME VotesInv, [PipelineNext]_pipelineVars
  PROVE  Encrypted \subseteq Encrypted'
<1>1. ASSUME NEW b \in Ballots, RequestBallot(b) \/ GiveBallot(b), NEW a \in Encrypted
      PROVE  a \in Encrypted'
  <2>1. /\ plain[b] = NotYet
        /\ \E x : cipher' = [cipher EXCEPT ![b] = x]
    BY <1>1 DEF RequestBallot, GiveBallot, Encrypt
  <2>2. a \in Ballots /\ IsSealed(a) /\ cipher[a] \notin {NotYet, Refused}
    BY EncryptedAre DEF Encrypted
  <2>3. plain[a] # NotYet
    BY <2>2 DEF IsSealed, FilledBallot, NotYet
  <2>4. cipher'[a] = cipher[a]
    BY <2>1, <2>2, <2>3 DEF VotesInv
  <2>5. QED
    BY <2>2, <2>4 DEF Encrypted, NotYet, Refused
<1>2. ASSUME cipher' = cipher PROVE Encrypted' = Encrypted
  BY <1>2 DEF Encrypted, NotYet, Refused
<1>3. CASE SendToTally
  BY <1>2, <1>3 DEF SendToTally
<1>4. CASE TallyStep
  BY <1>2, <1>4 DEF TallyStep
<1>5. CASE UNCHANGED pipelineVars
  BY <1>2, <1>5 DEF pipelineVars
<1>6. QED
  BY <1>1, <1>3, <1>4, <1>5 DEF PipelineNext

LEMMA SentInvStep == VotesInv /\ SentInv /\ [PipelineNext]_pipelineVars => SentInv'
<1> SUFFICES ASSUME VotesInv, SentInv, [PipelineNext]_pipelineVars PROVE SentInv'
  OBVIOUS
<1>1. PICK S, T : S = Encrypted /\ T = Encrypted' /\ S \subseteq T
  BY EncryptedGrows
<1>2. request \in Seq(S) /\ submitted \in Seq(S)
  BY <1>1 DEF SentInv
<1>3. \A s \in Seq(S) : s \in Seq(T)
  BY <1>1
<1>4. SUFFICES request' \in Seq(T) /\ submitted' \in Seq(T)
  BY <1>1 DEF SentInv
<1>5. ASSUME UNCHANGED serviceVars PROVE request' \in Seq(T) /\ submitted' \in Seq(T)
  BY <1>2, <1>3, <1>5 DEF serviceVars
<1>6. ASSUME NEW b \in Ballots, RequestBallot(b) \/ GiveBallot(b) PROVE UNCHANGED serviceVars
  BY <1>6 DEF RequestBallot, GiveBallot, Encrypt
<1>7. CASE SendToTally
  <2>1. PICK n \in 1 .. MaxRequest : \E ballots \in [1 .. n -> S] : Receive(ballots)
    BY <1>1, <1>7 DEF SendToTally
  <2>2. PICK ballots \in [1 .. n -> S] : Receive(ballots)
    BY <2>1
  <2>3. n \in Nat
    BY MaxRequestAssumption
  <2>4. ballots \in Seq(S)
    BY <2>2, <2>3
  <2>5. request' = ballots /\ submitted' = submitted
    BY <2>2 DEF Receive
  <2>6. QED
    BY <1>2, <1>3, <2>4, <2>5
<1>8. CASE SubmitNext
  <2>1. request # <<>> /\ submitted' = Append(submitted, Head(request)) /\ request' = Tail(request)
    BY <1>8 DEF SubmitNext
  <2>2. request' \in Seq(S) /\ submitted' \in Seq(S)
    BY <1>2, <2>1
  <2>3. QED
    BY <1>3, <2>2
<1>9. CASE TallyAll
  BY <1>2, <1>3, <1>9 DEF TallyAll
<1>10. CASE UNCHANGED pipelineVars
  BY <1>5, <1>10 DEF pipelineVars
<1>11. QED
  BY <1>5, <1>6, <1>7, <1>8, <1>9, <1>10 DEF PipelineNext, TallyStep, ServiceNext

LEMMA SentInvariant == PipelineSpec => []SentInv
<1>1. PipelineInit => SentInv
  BY DEF PipelineInit, ServiceInit, SentInv
<1>2. QED
  BY <1>1, VotesInvariant, SentInvStep, PTL DEF PipelineSpec

\* The ballots whose votes count.
Voters == Standing \ OtherContest

LEMMA StandingAre ==
  ASSUME PipelineInv, SentInv
  PROVE  /\ \A b : b \in Standing <=> \E k \in DOMAIN submitted : submitted[k] = b /\ IsLast(k)
         /\ Standing \subseteq Encrypted /\ Standing \subseteq Ballots
         /\ IsFiniteSet(Standing)
         /\ \A a, b \in Standing : IdOf[a] = IdOf[b] => a = b
<1>1. \A b : b \in Standing <=> \E k \in DOMAIN submitted : submitted[k] = b /\ IsLast(k)
  BY DEF Standing, IsLast
<1>2. \A k \in DOMAIN submitted : submitted[k] \in Encrypted /\ k \in 1 .. Len(submitted)
  BY DEF SentInv
<1>3. Standing \subseteq Encrypted /\ Standing \subseteq Ballots
  BY <1>1, <1>2 DEF Encrypted
<1>4. IsFiniteSet(Standing)
  BY <1>3, BallotsAssumption, FS_Subset
<1>5. ASSUME NEW a \in Standing, NEW b \in Standing, IdOf[a] = IdOf[b] PROVE a = b
  <2>1. PICK k \in DOMAIN submitted : submitted[k] = a /\ IsLast(k)
    BY <1>1
  <2>2. PICK l \in DOMAIN submitted : submitted[l] = b /\ IsLast(l)
    BY <1>1
  <2>3. k \in 1 .. Len(submitted) /\ l \in 1 .. Len(submitted) /\ Len(submitted) \in Nat
    BY <1>2 DEF SentInv
  <2>4. ~(k < l) /\ ~(l < k)
    BY <1>5, <2>1, <2>2, <2>3 DEF IsLast
  <2>5. k = l
    BY <2>3, <2>4
  <2>6. QED
    BY <2>1, <2>2, <2>5
<1>6. QED
  BY <1>1, <1>3, <1>4, <1>5

\* A published tally has them once each.
LEMMA TalliedOnce ==
  ASSUME PipelineInv, SentInv, published, NEW b \in Encrypted
  PROVE  sums["contest-1"][b] = IF b \in Voters THEN 1 ELSE 0
<1>1. b \in Ballots /\ "contest-1" \in Contests
  BY PipelineAssumption DEF Encrypted
<1>2. (\E k \in DOMAIN submitted :
         /\ submitted[k] = b
         /\ \A j \in k + 1 .. Len(submitted) : IdOf[submitted[j]] # IdOf[b]) <=> b \in Standing
  BY StandingAre DEF IsLast
<1>3. sums["contest-1"][b] =
        IF "contest-1" \in ContestsOn(b) /\ ValidForStyle(b) /\ b \in Standing THEN 1 ELSE 0
  BY <1>1, <1>2 DEF PipelineInv, TalliedInv, LastOfEachIdCounted
<1>4. ASSUME NEW x, ContestsOf[b] = <<x>> PROVE ContestsOn(b) = {x}
  <2>1. DOMAIN ContestsOf[b] = {1} /\ ContestsOf[b][1] = x
    BY <1>4
  <2>2. QED
    BY <2>1 DEF ContestsOn
<1>5. CASE b \in OtherContest
  <2>1. ContestsOn(b) = {"foreign"}
    <3>1. ContestsOf[b] = <<"foreign">>
      BY <1>1, <1>5, PipelineAssumption
    <3>2. QED
      BY <1>4, <3>1
  <2>2. QED
    BY <1>3, <1>5, <2>1 DEF Voters
<1>6. CASE b \notin OtherContest
  <2>1. ContestsOn(b) = {"contest-1"}
    <3>1. ContestsOf[b] = <<"contest-1">>
      BY <1>1, <1>6, PipelineAssumption
    <3>2. QED
      BY <1>4, <3>1
  <2>2. StyleOf[b] = {"contest-1"}
    BY <1>1, PipelineAssumption
  <2>3. QED
    BY <1>3, <1>6, <2>1, <2>2 DEF Voters, ValidForStyle
<1>7. QED
  BY <1>5, <1>6


\* The totals are under one key when the voters are.
LEMMA OneKeyIs ==
  ASSUME VotesInv, PipelineInv, SentInv, published
  PROVE  UnderOneKey <=> \A b \in Voters : KeyOf[b] = JointKey
<1>1. Contests = {"contest-1"}
  BY PipelineAssumption
<1>2. Voters \subseteq Encrypted
  BY StandingAre DEF Voters
<1>3. \A b \in Encrypted : sums["contest-1"][b] > 0 <=> b \in Voters
  BY TalliedOnce
<1>4. \A b \in Encrypted : cipher[b].key = KeyOf[b]
  <2>1. ASSUME NEW b \in Encrypted PROVE cipher[b].key = KeyOf[b]
    <3>1. IsSealed(b)
      BY EncryptedAre
    <3>2. \A e, sel, seed : SealedBallot(e, KeyOf[b], IdOf[b], sel, seed, b, TRUE).key = KeyOf[b]
      BY DEF SealedBallot
    <3>3. QED
      BY <3>1, <3>2 DEF IsSealed
  <2>2. QED
    BY <2>1
<1>5. UnderOneKey <=> \A b \in Encrypted : sums["contest-1"][b] > 0 => cipher[b].key = JointKey
  BY <1>1 DEF UnderOneKey
<1>6. QED
  BY <1>2, <1>3, <1>4, <1>5

\* The total of a selection, as the tally has it.
TotalOf(c, s) ==
  [id |-> s.id, pad |-> sums[c.id],
   amount |-> SumFunction([b \in {b \in Encrypted : sums[c.id][b] > 0} |->
                sums[c.id][b] * WithId(s.id, WithId(c.id, cipher[b].contests).selections).vote])]

TallyContest(e) ==
  Contest("contest-1", ContestHash(Description(e)),
          [i \in 1 .. Len(e.candidates) |-> TotalOf(Description(e), Description(e).selections[i])])

LEMMA TallyContestsAre ==
  ASSUME VotesInv
  PROVE  TallyContests = <<TallyContest(election)>>
<1> DEFINE d == Description(election)
           Made(c) == Contest(c.id, ContestHash(c), [i \in DOMAIN c.selections |-> TotalOf(c, c.selections[i])])
<1>1. CanBeHeld(election)
  BY ElectionsAssumption DEF VotesInv
<1>2. ManifestFor(election).contests = <<d>> /\ d.id = "contest-1"
  BY <1>1, DescriptionIs
<1>3. DOMAIN d.selections = 1 .. Len(election.candidates)
  BY <1>1, EverythingIs DEF Ordered
<1>4. TallyContests = [k \in DOMAIN ManifestFor(election).contests |-> Made(ManifestFor(election).contests[k])]
  BY Zenon DEF TallyContests, Mapped, TotalOf, Made
<1>5. Made(d) = TallyContest(election)
  BY <1>2, <1>3 DEF TallyContest
<1> HIDE DEF Made, d
<1>6. QED
  BY <1>2, <1>4, <1>5

\* An encrypted ballot has its vote for a selection where the tally looks for it.
LEMMA VoteIsFound ==
  ASSUME VotesInv, NEW b \in Encrypted, b \notin OtherContest, NEW i \in 1 .. Len(election.candidates)
  PROVE  /\ WithId(Description(election).selections[i].id, WithId("contest-1", cipher[b].contests).selections).vote
              = VotesIn(election, Selections(b))[i]
         /\ VotesIn(election, Selections(b))[i] \in {0, 1}
<1> DEFINE e == ElectionOf(b)
           sel == Selections(b)
           n == Len(e.candidates)
           l == n + Seats(e)
           seed == ContestNonce(e, IdOf[b], b)
           list == SealedSelections(e, sel, seed, TRUE)
<1>1. /\ b \in Ballots /\ AreSelections(sel) /\ Accepted(ElectionOf(b), sel)
      /\ cipher[b] = SealedBallot(ElectionOf(b), KeyOf[b], IdOf[b], sel, cipher[b].code_seed, b, TRUE)
  BY EncryptedAre DEF IsSealed
<1>2. CanBeHeld(e) /\ election.candidates = e.candidates /\ election.max_choices = e.max_choices
  BY <1>1, ElectionsAre
<1>3. cipher[b].contests = <<SealedContest(e, sel, seed, TRUE)>>
  <2>1. \A s : SealedBallot(e, KeyOf[b], IdOf[b], sel, s, b, TRUE).contests = <<SealedContest(e, sel, seed, TRUE)>>
    BY DEF SealedBallot
  <2>2. QED
    BY <1>1, <1>2, <2>1
<1>4. WithId("contest-1", cipher[b].contests).selections = list
  <2>1. SealedContest(e, sel, seed, TRUE).selections = list
    BY DEF SealedContest
  <2>2. QED
    BY <1>3, <2>1, FoundContest
<1>5. n \in Nat /\ l \in Nat /\ i \in 1 .. l /\ i \in 1 .. n
  <2>1. n \in Nat \ {0} /\ Seats(e) \in 1 .. n
    BY <1>2, CandidatesAre
  <2>2. i \in 1 .. n
    BY <1>2
  <2> HIDE DEF n, e
  <2>3. QED
    BY <2>1, <2>2
<1>6. /\ DOMAIN list = 1 .. l
      /\ \A j \in 1 .. l : list[j].id = Everything(e)[j].id /\ list[j].vote = AllVotes(e, sel)[j]
  BY DEF SealedSelections, SealedSelection
<1>7. \A j \in 1 .. l : Everything(e)[j].id = Everything(e)[i].id => j = i
  BY <1>2, <1>5, EverythingIs DEF Ordered
<1>8. Description(e).selections[i] = Everything(e)[i]
  BY <1>2, EverythingIs DEF Ordered
<1> HIDE DEF list, l
<1>9. WithId(list[i].id, list) = list[i]
  BY <1>5, <1>6, <1>7, WithIdFinds
<1>10. list[i].id = Description(e).selections[i].id
  BY <1>5, <1>6, <1>8
<1>11. VotesIn(e, sel)[i] \in {0, 1} /\ AllVotes(e, sel)[i] = VotesIn(e, sel)[i]
  <2>1. VotesIn(e, sel) \in [1 .. n -> {0, 1}]
    BY <1>1, <1>2, VotesFit
  <2>2. AllVotes(e, sel)[i] = VotesIn(e, sel)[i]
    BY <1>5 DEF AllVotes, l
  <2>3. QED
    BY <1>5, <2>1, <2>2
<1>12. WithId(Description(e).selections[i].id, list).vote = VotesIn(e, sel)[i]
  BY <1>5, <1>6, <1>9, <1>10, <1>11
<1>13. Description(election) = Description(e) /\ VotesIn(election, sel) = VotesIn(e, sel)
  BY <1>2, SameContest
<1>14. QED
  BY <1>4, <1>11, <1>12, <1>13

\* The total of a selection is the number of voters whose ballot has a vote for it.
VotersFor(i) == {b \in Voters : VotesIn(election, Selections(b))[i] = 1}

LEMMA TotalIs ==
  ASSUME VotesInv, PipelineInv, SentInv, published, NEW i \in 1 .. Len(election.candidates)
  PROVE  TotalOf(Description(election), Description(election).selections[i]).amount = Cardinality(VotersFor(i))
<1> DEFINE d == Description(election)
           s == d.selections[i]
           counted == {b \in Encrypted : sums["contest-1"][b] > 0}
           Found(b) == WithId(s.id, WithId("contest-1", cipher[b].contests).selections).vote
           v == [b \in counted |-> sums["contest-1"][b] * Found(b)]
<1>1. CanBeHeld(election)
  BY ElectionsAssumption DEF VotesInv
<1>2. d.id = "contest-1"
  BY <1>1, DescriptionIs
<1>3. TotalOf(d, s).amount = SumFunction(v)
  BY <1>2, Zenon DEF TotalOf
<1>4. Voters \subseteq Encrypted /\ IsFiniteSet(Voters)
  BY StandingAre, FS_Subset DEF Voters
<1>5. counted = Voters
  BY <1>4, TalliedOnce
<1>6. ASSUME NEW b \in Voters
      PROVE  sums["contest-1"][b] * Found(b) = VotesIn(election, Selections(b))[i]
             /\ VotesIn(election, Selections(b))[i] \in {0, 1}
  <2>1. Found(b) = VotesIn(election, Selections(b))[i] /\ VotesIn(election, Selections(b))[i] \in {0, 1}
    BY <1>4, VoteIsFound DEF Voters
  <2>2. sums["contest-1"][b] = 1
    BY <1>4, TalliedOnce
  <2> HIDE DEF Found
  <2>3. QED
    BY <2>1, <2>2
<1> HIDE DEF Found, s, counted
<1>7. v = [b \in Voters |-> VotesIn(election, Selections(b))[i]]
  BY <1>5, <1>6
<1>8. v \in [Voters -> {0, 1}]
  BY <1>6, <1>7
<1>9. SumFunction(v) = Cardinality({b \in Voters : v[b] = 1})
  <2> HIDE DEF v
  <2>1. QED
    BY <1>4, <1>8, SumOfVotes
<1>10. {b \in Voters : v[b] = 1} = VotersFor(i)
  BY <1>7 DEF VotersFor
<1>11. QED
  BY <1>3, <1>9, <1>10 DEF s


\* Whichever quorum is present opens the totals.
LEMMA TotalsOpen ==
  ASSUME VotesInv, NEW present \in Presents
  PROVE  DecryptTally(TallyContests, TallyShares(TallyContests, present), ManifestFor(election))
           = [contests |-> <<[id |-> "contest-1",
                              selections |-> Tallied(TallyContest(election), Len(election.candidates))]>>]
<1> DEFINE e == election
           n == Len(e.candidates)
           d == Description(e)
           c == TallyContest(e)
<1>1. CanBeHeld(e)
  BY ElectionsAssumption DEF VotesInv
<1>2. n \in Nat
  <2>1. n \in Nat \ {0}
    BY <1>1, CandidatesAre
  <2>2. QED
    BY <2>1
<1>3. c.id = "contest-1" /\ c.selections = [i \in 1 .. n |-> TotalOf(d, d.selections[i])]
  BY DEF TallyContest, Contest
<1>4. \A s : TotalOf(d, s).id = s.id
  BY DEF TotalOf
<1>5. \A i, j \in 1 .. n : d.selections[i].id = d.selections[j].id => i = j
  <2>1. Seats(e) \in Nat
    <3>1. Seats(e) \in 1 .. n
      BY <1>1, CandidatesAre
    <3>2. QED
      BY <3>1
  <2>2. \A i \in 1 .. n : i \in 1 .. n + Seats(e)
    BY <1>2, <2>1
  <2>3. /\ \A i \in 1 .. n : Everything(e)[i] = d.selections[i]
        /\ \A i, j \in 1 .. n + Seats(e) : Everything(e)[i].id = Everything(e)[j].id => i = j
    BY <1>1, EverythingIs DEF Ordered
  <2>4. QED
    BY <2>2, <2>3
<1>6. DOMAIN d.selections = 1 .. n
  BY <1>1, EverythingIs DEF Ordered
<1> HIDE DEF c, d, n
<1>7. DOMAIN c.selections = 1 .. n /\ \A i \in 1 .. n : c.selections[i].id = d.selections[i].id
  BY <1>3, <1>4
<1>8. OfOwnIds(c.selections, n)
  BY <1>2, <1>5, <1>7 DEF OfOwnIds
<1>9. c.selections = [i \in 1 .. n |-> c.selections[i]]
  BY <1>3
<1>10. Listed(c, n, n, d)
  <2>1. \A i \in 1 .. n : i \in Indices(c.selections[i].id, d.selections)
    BY <1>6, <1>7 DEF Indices
  <2>2. QED
    BY <1>2, <2>1 DEF Listed
<1>11. DecryptTally(<<c>>, TallyShares(<<c>>, present), ManifestFor(e))
         = [contests |-> <<[id |-> "contest-1", selections |-> Tallied(c, n)]>>]
  BY <1>1, <1>3, <1>8, <1>9, <1>10, QuorumOpens DEF d
<1>12. TallyContests = <<c>>
  BY TallyContestsAre DEF c
<1>13. QED
  BY <1>11, <1>12 DEF c, n

\* What the results say of the candidates and of the ballots.
SaysOf(results) ==
  /\ results # Refused
  /\ results.candidates = [c \in {election.candidates[i] : i \in 1 .. Len(election.candidates)} |->
                             results.candidates[c]]
  /\ \A i \in 1 .. Len(election.candidates) :
       results.candidates[election.candidates[i]] = Cardinality(VotersFor(i))
  /\ results.total_ballots_cast = Len(submitted)
  /\ results.total_valid_ballots = Cardinality(castIds)
  /\ results.verified = {IdOf[b] : b \in ToSet(submitted)}

LEMMA ResultsAre ==
  ASSUME VotesInv, PipelineInv, SentInv, published, NEW present \in Presents
  PROVE  IF UnderOneKey THEN SaysOf(Results(present)) ELSE Results(present) = Refused
<1> DEFINE e == election
           n == Len(e.candidates)
           d == Description(e)
           all == Tallied(TallyContest(e), n)
           opened == DecryptTally(TallyContests, TallyShares(TallyContests, present), ManifestFor(e))
           said == [total_ballots_cast |-> Len(submitted),
                    total_valid_ballots |-> Cardinality(castIds),
                    candidates |-> [id \in {s.id : s \in ToSet(all)} |-> WithId(id, all).tally],
                    verified |-> {IdOf[b] : b \in ToSet(submitted)}]
<1>1. CanBeHeld(e)
  BY ElectionsAssumption DEF VotesInv
<1>2. opened.contests = <<[id |-> "contest-1", selections |-> all]>> /\ opened # Refused
  <2>1. opened = [contests |-> <<[id |-> "contest-1", selections |-> all]>>]
    BY TotalsOpen
  <2> HIDE DEF opened, all
  <2>2. QED
    BY <2>1 DEF Refused
<1> HIDE DEF opened, all
<1>3. Mapped(LAMBDA c : c.selections, opened.contests) = <<all>>
  BY <1>2 DEF Mapped
<1>4. FlattenSeq(Mapped(LAMBDA c : c.selections, opened.contests)) = all
  BY <1>3, FlattenedOne
<1>5. Results(present) = IF UnderOneKey THEN said ELSE Refused
  <2>1. Results(present) =
          IF opened = Refused \/ ~UnderOneKey THEN Refused
          ELSE [total_ballots_cast |-> Len(submitted),
                total_valid_ballots |-> Cardinality(castIds),
                candidates |-> [id \in {s.id : s \in ToSet(FlattenSeq(Mapped(LAMBDA c : c.selections, opened.contests)))}
                                  |-> WithId(id, FlattenSeq(Mapped(LAMBDA c : c.selections, opened.contests))).tally],
                verified |-> {IdOf[b] : b \in ToSet(submitted)}]
    BY Zenon DEF Results, opened
  <2>2. QED
    BY <1>2, <1>4, <2>1
<1>6. n \in Nat /\ DOMAIN all = 1 .. n
      /\ \A i \in 1 .. n : /\ all[i].id = e.candidates[i]
                           /\ all[i].tally = Cardinality(VotersFor(i))
  <2>1. n \in Nat \ {0}
    BY <1>1, CandidatesAre
  <2>2. TallyContest(e).selections = [i \in 1 .. n |-> TotalOf(d, d.selections[i])]
    BY DEF TallyContest, Contest
  <2>3. \A i \in 1 .. n : /\ TotalOf(d, d.selections[i]).id = e.candidates[i]
                          /\ TotalOf(d, d.selections[i]).amount = Cardinality(VotersFor(i))
    <3>1. \A i \in 1 .. n : Everything(e)[i] = d.selections[i] /\ Everything(e)[i].id = e.candidates[i]
      BY <1>1, EverythingIs DEF Ordered
    <3>2. \A s : TotalOf(d, s).id = s.id
      BY DEF TotalOf
    <3>3. \A i \in 1 .. n : TotalOf(d, d.selections[i]).amount = Cardinality(VotersFor(i))
      BY TotalIs
    <3> HIDE DEF d
    <3>4. QED
      BY <3>1, <3>2, <3>3
  <2> HIDE DEF d, n
  <2>4. QED
    BY <2>1, <2>2, <2>3 DEF Tallied, all
<1>7. \A i, j \in 1 .. n : e.candidates[i] = e.candidates[j] => i = j
  <2>1. Seats(e) \in 1 .. n
    BY <1>1, CandidatesAre
  <2>2. \A i \in 1 .. n : i \in 1 .. n + Seats(e)
    BY <1>6, <2>1
  <2>3. /\ \A i \in 1 .. n : Everything(e)[i].id = e.candidates[i]
        /\ \A i, j \in 1 .. n + Seats(e) : Everything(e)[i].id = Everything(e)[j].id => i = j
    BY <1>1, EverythingIs DEF Ordered
  <2>4. QED
    BY <2>2, <2>3
<1> HIDE DEF n
<1>8. {s.id : s \in ToSet(all)} = {e.candidates[i] : i \in 1 .. n}
  BY <1>6 DEF ToSet
<1>9. \A i \in 1 .. n : WithId(e.candidates[i], all).tally = Cardinality(VotersFor(i))
  <2> TAKE i \in 1 .. n
  <2>1. \A j \in 1 .. n : all[j].id = all[i].id => j = i
    BY <1>6, <1>7
  <2>2. WithId(all[i].id, all) = all[i]
    BY <1>6, <2>1, WithIdFinds
  <2>3. QED
    BY <1>6, <2>2
<1>10. said # Refused
  BY DEF Refused
<1>11. /\ said.candidates = [c \in {e.candidates[i] : i \in 1 .. n} |-> said.candidates[c]]
       /\ \A i \in 1 .. n : said.candidates[e.candidates[i]] = Cardinality(VotersFor(i))
  BY <1>8, <1>9
<1>12. /\ said.total_ballots_cast = Len(submitted)
       /\ said.total_valid_ballots = Cardinality(castIds)
       /\ said.verified = {IdOf[b] : b \in ToSet(submitted)}
  OBVIOUS
<1> HIDE DEF said
<1>13. SaysOf(said)
  BY <1>10, <1>11, <1>12 DEF SaysOf, n
<1>14. QED
  BY <1>5, <1>13

\* The ids that are counted: there is one for every voter, and no more than ballots.
LEMMA IdsAreCounted ==
  ASSUME PipelineInv, SentInv, published
  PROVE  /\ castIds = {IdOf[b] : b \in ToSet(submitted)}
         /\ IsFiniteSet(castIds)
         /\ Cardinality(castIds) <= Len(submitted)
         /\ IsFiniteSet(Voters) /\ Cardinality(Voters) <= Cardinality(castIds)
<1>1. castIds = {IdOf[submitted[k]] : k \in DOMAIN submitted}
  BY DEF PipelineInv, TalliedInv, CountsAreOfIds
<1>2. Len(submitted) \in Nat /\ DOMAIN submitted = 1 .. Len(submitted)
  BY DEF SentInv
<1>3. castIds = {IdOf[b] : b \in ToSet(submitted)}
  BY <1>1 DEF ToSet
<1>4. IsFiniteSet(castIds) /\ Cardinality(castIds) <= Len(submitted)
  <2> DEFINE f == [k \in 1 .. Len(submitted) |-> IdOf[submitted[k]]]
  <2>1. f \in [1 .. Len(submitted) -> castIds] /\ \A z \in castIds : \E k \in 1 .. Len(submitted) : f[k] = z
    BY <1>1, <1>2
  <2>2. f \in Surjection(1 .. Len(submitted), castIds)
    BY <2>1 DEF Surjection
  <2>3. IsFiniteSet(1 .. Len(submitted)) /\ Cardinality(1 .. Len(submitted)) = Len(submitted)
    <3>1. ASSUME NEW n \in Nat PROVE IsFiniteSet(1 .. n) /\ Cardinality(1 .. n) = n
      BY FS_Interval
    <3>2. QED
      BY <1>2, <3>1
  <2> HIDE DEF f
  <2>4. QED
    BY <2>2, <2>3, FS_Surjection
<1>5. Voters \subseteq Standing /\ \A a, b \in Standing : IdOf[a] = IdOf[b] => a = b
  BY StandingAre DEF Voters
<1>6. \A b \in Voters : IdOf[b] \in castIds
  BY <1>1, <1>5, StandingAre
<1>7. Cardinality(Voters) <= Cardinality(castIds) /\ IsFiniteSet(Voters)
  <2> DEFINE f == [b \in Voters |-> IdOf[b]]
  <2>1. f \in [Voters -> castIds] /\ \A a, b \in Voters : f[a] = f[b] => a = b
    BY <1>5, <1>6
  <2> HIDE DEF f
  <2>2. QED
    BY <1>4, <2>1, InjectionCounts
<1>8. QED
  BY <1>3, <1>4, <1>7


\* Of a voter whose ballot says once of each selection what it is, the votes that count
\* are the intended ones, which are no more than may be elected.
LEMMA VotersIntend ==
  ASSUME VotesInv, PipelineInv, SentInv, NEW b \in Voters, Plain(b)
  PROVE  /\ \A i \in 1 .. Len(election.candidates) :
              b \in VotersFor(i) <=> election.candidates[i] \in Intended(b)
         /\ Intended(b) \subseteq {election.candidates[i] : i \in 1 .. Len(election.candidates)}
         /\ IsFiniteSet(Intended(b)) /\ Cardinality(Intended(b)) <= Seats(election)
<1> DEFINE e == election
           n == Len(e.candidates)
           sel == Selections(b)
           P == Positive(VotesIn(e, sel), n)
<1>1. b \in Encrypted /\ b \notin OtherContest
  BY StandingAre DEF Voters
<1>2. b \in Ballots /\ AreSelections(sel) /\ Accepted(ElectionOf(b), sel)
  BY <1>1, EncryptedAre DEF IsSealed
<1>3. /\ CanBeHeld(e) /\ Accepted(e, sel)
      /\ VotedFor(ElectionOf(b), sel) = VotedFor(e, sel)
  <2>1. /\ CanBeHeld(e) /\ ElectionOf(b).candidates = e.candidates
        /\ ElectionOf(b).max_choices = e.max_choices
    BY <1>1, <1>2, ElectionsAre
  <2>2. QED
    BY <1>2, <2>1, SameContest
<1>4. Intended(b) = {e.candidates[i] : i \in P}
  <2>1. Intended(b) = VotedFor(ElectionOf(b), sel)
    BY <1>1, IntendedAre
  <2>2. QED
    BY <1>3, <2>1 DEF VotedFor
<1>5. n \in Nat /\ Seats(e) \in 1 .. n
  <2>1. n \in Nat \ {0} /\ Seats(e) \in 1 .. n
    BY <1>3, CandidatesAre
  <2>2. QED
    BY <2>1
<1>6. /\ VotesIn(e, sel) \in [1 .. n -> {0, 1}]
      /\ Cardinality(P) <= Seats(e)
  <2>1. /\ VotesIn(e, sel) \in [1 .. n -> {0, 1}]
        /\ SumOf(VotesIn(e, sel)) = Cardinality(P)
        /\ SumOf(VotesIn(e, sel)) \in 0 .. Seats(e)
    BY <1>2, <1>3, VotesFit
  <2> HIDE DEF P
  <2>2. QED
    BY <1>5, <2>1
<1>7. \A i, j \in 1 .. n : e.candidates[i] = e.candidates[j] => i = j
  <2>1. \A i \in 1 .. n : i \in 1 .. n + Seats(e)
    BY <1>5
  <2>2. /\ \A i \in 1 .. n : Everything(e)[i].id = e.candidates[i]
        /\ \A i, j \in 1 .. n + Seats(e) : Everything(e)[i].id = Everything(e)[j].id => i = j
    BY <1>3, EverythingIs DEF Ordered
  <2>3. QED
    BY <2>1, <2>2
<1>8. \A i \in 1 .. n : i \in P <=> VotesIn(e, sel)[i] = 1
  BY <1>6 DEF Positive
<1>9. P \subseteq 1 .. n /\ IsFiniteSet(P)
  <2>1. P \subseteq 1 .. n
    BY DEF Positive
  <2>2. QED
    BY <1>5, <2>1, PositiveIsFinite
<1> HIDE DEF P, n
<1>10. \A i \in 1 .. n : b \in VotersFor(i) <=> e.candidates[i] \in Intended(b)
  BY <1>4, <1>7, <1>8, <1>9 DEF VotersFor
<1>11. IsFiniteSet(Intended(b)) /\ Cardinality(Intended(b)) <= Cardinality(P)
  <2> DEFINE f == [i \in P |-> e.candidates[i]]
  <2>1. f \in [P -> Intended(b)] /\ \A z \in Intended(b) : \E i \in P : f[i] = z
    BY <1>4
  <2>2. f \in Surjection(P, Intended(b))
    BY <2>1 DEF Surjection
  <2> HIDE DEF f
  <2>3. QED
    BY <1>9, <2>2, FS_Surjection
<1>12. Cardinality(Intended(b)) <= Seats(e)
  <2>1. Cardinality(Intended(b)) \in Nat /\ Cardinality(P) \in Nat
    BY <1>9, <1>11, FS_CardinalityType
  <2>2. QED
    BY <1>5, <1>6, <1>11, <2>1
<1>13. Intended(b) \subseteq {e.candidates[i] : i \in 1 .. n}
  BY <1>4, <1>9
<1>14. QED
  BY <1>10, <1>11, <1>12, <1>13 DEF n

LEMMA TotalsAre ==
  ASSUME VotesInv, PipelineInv, SentInv, published, \A b \in Standing : Plain(b),
         NEW results, SaysOf(results)
  PROVE  /\ \A candidate \in ToSet(election.candidates) :
              results.candidates[candidate] = Cardinality({b \in Voters : candidate \in Intended(b)})
         /\ SumFunction(results.candidates) <= Seats(election) * results.total_valid_ballots
         /\ results.total_valid_ballots = Cardinality(results.verified)
         /\ results.total_valid_ballots <= results.total_ballots_cast
<1> DEFINE e == election
           n == Len(e.candidates)
           C == {e.candidates[i] : i \in 1 .. n}
           parts == [c \in C |-> {b \in Voters : c \in Intended(b)}]
           names == [b \in Voters |-> Intended(b)]
           seats == Seats(e)
           v == results.candidates
<1>1. CanBeHeld(e)
  BY ElectionsAssumption DEF VotesInv
<1>2. DOMAIN e.candidates = 1 .. n /\ seats \in Nat
  <2>1. DOMAIN e.candidates = 1 .. n /\ seats \in 1 .. n
    BY <1>1, CandidatesAre
  <2>2. QED
    BY <2>1
<1>3. ToSet(e.candidates) = C
  BY <1>2 DEF ToSet
<1>4. /\ castIds = {IdOf[b] : b \in ToSet(submitted)}
      /\ IsFiniteSet(castIds) /\ Cardinality(castIds) \in Nat
      /\ Cardinality(castIds) <= Len(submitted)
      /\ IsFiniteSet(Voters) /\ Cardinality(Voters) \in Nat
      /\ Cardinality(Voters) <= Cardinality(castIds)
  BY IdsAreCounted, FS_CardinalityType
<1>5. ASSUME NEW b \in Voters
      PROVE  /\ \A i \in 1 .. n : b \in VotersFor(i) <=> e.candidates[i] \in Intended(b)
             /\ Intended(b) \subseteq C
             /\ IsFiniteSet(Intended(b)) /\ Cardinality(Intended(b)) <= seats
  <2>1. Plain(b)
    BY DEF Voters
  <2>2. QED
    BY <2>1, VotersIntend
<1>6. /\ v = [c \in C |-> v[c]]
      /\ \A i \in 1 .. n : v[e.candidates[i]] = Cardinality(VotersFor(i))
  BY DEF SaysOf
<1>7. ASSUME NEW i \in 1 .. n
      PROVE  VotersFor(i) = {b \in Voters : e.candidates[i] \in Intended(b)}
  BY <1>5 DEF VotersFor
<1>8. \A c \in C : v[c] = Cardinality({b \in Voters : c \in Intended(b)})
  BY <1>6, <1>7
<1>9. SumFunction(v) <= seats * Cardinality(Voters) /\ SumFunction(v) \in Nat
  <2>1. IsFiniteSet(C)
    <3> DEFINE f == [i \in 1 .. n |-> e.candidates[i]]
    <3>1. f \in Surjection(1 .. n, C)
      BY DEF Surjection
    <3>2. n \in Nat
      <4>1. n \in Nat \ {0}
        BY <1>1, CandidatesAre
      <4>2. QED
        BY <4>1
    <3>3. IsFiniteSet(1 .. n)
      <4> HIDE DEF n
      <4>1. QED
        BY <3>2, FS_Interval
    <3> HIDE DEF f, C, n
    <3>4. QED
      BY <3>1, <3>3, FS_Surjection
  <2> HIDE DEF C, v
  <2>2. ASSUME NEW c \in C PROVE IsFiniteSet(parts[c]) /\ v[c] = Cardinality(parts[c]) /\ v[c] \in Int
    <3>1. parts[c] \subseteq Voters /\ v[c] = Cardinality(parts[c])
      BY <1>8
    <3>2. IsFiniteSet(parts[c])
      BY <1>4, <3>1, FS_Subset
    <3>3. Cardinality(parts[c]) \in Nat
      BY <3>2, FS_CardinalityType
    <3> HIDE DEF parts
    <3>4. QED
      BY <3>1, <3>2, <3>3
  <2>3. v \in [C -> Int]
    <3>1. QED
      BY <1>6, <2>2
  <2>4. SumFunction(v) = Cardinality(PairsOf(C, parts)) /\ Cardinality(PairsOf(C, parts)) \in Nat
    <3> HIDE DEF parts
    <3>1. SumFunction(v) = Cardinality(PairsOf(C, parts)) /\ IsFiniteSet(PairsOf(C, parts))
      BY <2>1, <2>2, <2>3, SumOfSizes
    <3>2. QED
      BY <3>1, FS_CardinalityType
  <2>5. PairsOf(C, parts) = NamedBy(C, Voters, names)
    BY DEF NamedBy
  <2>6. \A b \in Voters : names[b] \subseteq C /\ IsFiniteSet(names[b]) /\ Cardinality(names[b]) <= seats
    BY <1>5 DEF C
  <2> HIDE DEF names, parts, seats
  <2>7. Cardinality(NamedBy(C, Voters, names)) <= seats * Cardinality(Voters)
    BY <1>2, <1>4, <2>6, NamesCount DEF seats
  <2>8. QED
    BY <2>4, <2>5, <2>7
<1>10. seats * Cardinality(Voters) <= seats * Cardinality(castIds)
  BY <1>2, <1>4
<1>11. SumFunction(v) <= seats * Cardinality(castIds)
  <2>1. seats * Cardinality(Voters) \in Int /\ seats * Cardinality(castIds) \in Int
    <3> HIDE DEF seats
    <3>1. QED
      BY <1>2, <1>4
  <2> HIDE DEF seats, v
  <2>2. PICK x \in Int, y \in Int : x = seats * Cardinality(Voters) /\ y = seats * Cardinality(castIds)
    BY <2>1
  <2>3. QED
    BY <1>9, <1>10, <2>2
<1>12. /\ results.total_ballots_cast = Len(submitted)
       /\ results.total_valid_ballots = Cardinality(castIds)
       /\ results.verified = castIds
  BY <1>4 DEF SaysOf
<1> HIDE DEF seats, C
<1>13. QED
  BY <1>3, <1>4, <1>8, <1>11, <1>12 DEF seats

\* When the last ballots with the contest of the election are under the joint key, the
\* results say of every candidate how many voters whose last ballot it is intend it,
\* whichever quorum decrypts, and the counts leave room for the votes; when one of them
\* is under another key there are no results.  This holds for any parties, candidates
\* and keys of the ballots that are sent.
THEOREM ResultsAreVotes == PipelineSpec => []TotalsAreVotes
<1>1. VotesInv /\ PipelineInv /\ SentInv => TotalsAreVotes
  <2> SUFFICES ASSUME VotesInv, PipelineInv, SentInv, published, \A b \in Standing : Plain(b),
                      NEW present \in Presents
               PROVE  LET results == Results(present)
                          seats == ManifestFor(election).contests[1].number_elected
                          counted == Standing \ OtherContest
                      IN  IF \E b \in counted : KeyOf[b] # JointKey THEN results = Refused
                          ELSE
                          /\ results # Refused
                          /\ \A candidate \in ToSet(election.candidates) :
                               results.candidates[candidate] =
                                 Cardinality({b \in counted : candidate \in Intended(b)})
                          /\ SumFunction(results.candidates) <= seats * results.total_valid_ballots
                          /\ results.total_valid_ballots = Cardinality(results.verified)
                          /\ results.total_valid_ballots <= results.total_ballots_cast
    BY Zenon DEF TotalsAreVotes
  <2> DEFINE results == Results(present)
  <2>1. IF UnderOneKey THEN SaysOf(results) ELSE results = Refused
    BY ResultsAre
  <2>2. UnderOneKey <=> \A b \in Voters : KeyOf[b] = JointKey
    BY OneKeyIs
  <2> HIDE DEF results
  <2>3. CASE \E b \in Voters : KeyOf[b] # JointKey
    <3>1. results = Refused
      BY <2>1, <2>2, <2>3
    <3>2. QED
      BY <2>3, <3>1, Zenon DEF results, Voters
  <2>4. CASE \A b \in Voters : KeyOf[b] = JointKey
    <3>1. SaysOf(results)
      BY <2>1, <2>2, <2>4
    <3>2. results # Refused
      BY <3>1 DEF SaysOf
    <3>3. /\ \A candidate \in ToSet(election.candidates) :
               results.candidates[candidate] = Cardinality({b \in Voters : candidate \in Intended(b)})
          /\ SumFunction(results.candidates) <= Seats(election) * results.total_valid_ballots
          /\ results.total_valid_ballots = Cardinality(results.verified)
          /\ results.total_valid_ballots <= results.total_ballots_cast
      BY <3>1, TotalsAre
    <3>4. ~ \E b \in Voters : KeyOf[b] # JointKey
      BY <2>4
    <3>5. QED
      BY <3>2, <3>3, <3>4, Zenon DEF results, Voters, Seats, Description
  <2>5. QED
    BY <2>3, <2>4
<1>2. QED
  BY <1>1, VotesInvariant, PipelineInvariant, SentInvariant, PTL
=============================================================================

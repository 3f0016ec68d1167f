--------------------------------- MODULE Tally ---------------------------------
(***************************************************************************)
(* electionguard/tally.py: a CiphertextTally accumulates the cast ballots, *)
(* one at a time (append) or all at once (batch_append, tally_ballots).    *)
(*                                                                         *)
(* The encrypted total of a contest is abstracted to how many times each   *)
(* ballot went into it.  One tally object is followed: tally_ballots       *)
(* creates it, so it can only be its first call; append and batch_append   *)
(* are methods of it that can be called at any time.                       *)
(***************************************************************************)
EXTENDS BallotBox

CONSTANT MaxCount  \* bound: times a ballot goes into the total of a contest

ASSUME MaxCountAssumption == MaxCount \in Nat \ {0}

VARIABLES
  sums,       \* CiphertextTallyContest by contest: how often each ballot is in it
  castIds,    \* cast_ballot_ids
  spoiledIds, \* spoiled_ballot_ids
  repeated    \* history: the ids a batch counted though they were tallied as cast

tally == <<sums, castIds, spoiledIds, repeated>>
vars == <<store, tally>>

TypeOK ==
  /\ store \in [Ids -> Submitted \union {NoEntry}]
  /\ sums \in [Contests -> [Ballots -> 0 .. MaxCount]]
  /\ castIds \in SUBSET Ids
  /\ spoiledIds \in SUBSET Ids
  /\ repeated \in SUBSET Ids

EmptySums == [c \in Contests |-> [b \in Ballots |-> 0]]

Init ==
  /\ BoxInit
  /\ sums = EmptySums
  /\ castIds = {}
  /\ spoiledIds = {}
  /\ repeated = {}

\* The totals when each ballot of bs is added to the contests in at[b].
Accumulated(bs, at) ==
  [c \in Contests |-> [b \in Ballots |->
     sums[c][b] + (IF b \in bs /\ c \in at[b] THEN 1 ELSE 0)]]

WithinBound == \A c \in Contests, b \in Ballots : sums'[c][b] <= MaxCount

\* Mutant of TallyContains: what batch_append gets for its tuples.
NeverContains(id) == FALSE

\* __contains__, which is false of anything but a submitted ballot.
TallyContains(id) == id \in castIds \union spoiledIds

\* The contests that _add_cast reaches: it stops at the first one that the
\* tally does not have, or has with other selections.
Reached(b) ==
  {ContestsOf[b][k] :
     k \in {k \in DOMAIN ContestsOf[b] : \A j \in 1 .. k : ContestsOf[b][j] \in Contests}}

\* Mutant of AddCast: the ballot is recorded instead of its id.
AddCastAsItself(b) ==
  /\ sums' = Accumulated({b}, [x \in {b} |-> Reached(b)])
  /\ castIds' = IF ContestsOn(b) \subseteq Contests
                THEN castIds \union {b} ELSE castIds
  /\ UNCHANGED spoiledIds

\* _add_cast adds contest by contest, and on its way out on a failure leaves
\* what it has added without recording the ballot.
AddCast(b) ==
  /\ sums' = Accumulated({b}, [x \in {b} |-> Reached(b)])
  /\ castIds' = IF ContestsOn(b) \subseteq Contests
                THEN castIds \union {IdOf[b]} ELSE castIds
  /\ UNCHANGED spoiledIds

AddSpoiled(b) ==
  /\ spoiledIds' = spoiledIds \union {IdOf[b]}
  /\ UNCHANGED <<sums, castIds>>

\* append: a ballot of unknown state, one already tallied and one that is not
\* valid are refused.
AppendBallot(s, validate) ==
  /\ s.state # "UNKNOWN"
  /\ ~TallyContains(IdOf[s.ballot])
  /\ ValidForElection(s.ballot, validate)
  /\ \/ s.state = "CAST" /\ AddCast(s.ballot)
     \/ s.state = "SPOILED" /\ AddSpoiled(s.ballot)
  /\ WithinBound
  /\ UNCHANGED <<store, repeated>>

\* batch_append of a store's entries.  It asks __contains__ about the
\* (id, ballot) tuple, which is never contained, so it counts what is tallied once
\* more; afterwards it records every cast ballot, also those it found not valid.  A
\* total takes what a ballot has for its selections; the ballot's other contests
\* are ignored.
BatchAppend(entries, validate) ==
  LET valid == {s \in entries : ValidForElection(s.ballot, validate)}
      Of(state, from) == {s.ballot : s \in {t \in from : t.state = state}}
  IN  /\ sums' = Accumulated(Of("CAST", valid), [b \in Ballots |-> ContestsOn(b)])
      /\ castIds' = castIds \union {IdOf[b] : b \in Of("CAST", entries)}
      /\ spoiledIds' = spoiledIds \union {IdOf[b] : b \in Of("SPOILED", valid)}
      /\ repeated' = repeated \union (castIds \intersect {IdOf[b] : b \in Of("CAST", valid)})

\* tally_ballots: a new tally of what the ballot box holds.
TallyBallots ==
  /\ tally = <<EmptySums, {}, {}, {}>>
  /\ BatchAppend(Stored, TRUE)
  /\ UNCHANGED store

\* batch_append of the ballot box to the tally there is, whatever is in it.
TallyMore(validate) ==
  /\ BatchAppend(Stored, validate)
  /\ WithinBound
  /\ UNCHANGED store

Submit(b) ==
  /\ Cast(b) \/ Spoil(b)
  /\ UNCHANGED tally

\* Ballots are accepted in the box and tallied from it, together or one by one.
Next ==
  \/ \E b \in Ballots : Submit(b)
  \/ TallyBallots
  \/ \E validate \in BOOLEAN : TallyMore(validate)
  \/ \E s \in Stored, validate \in BOOLEAN : AppendBallot(s, validate)

Spec == Init /\ [][Next]_vars

-----------------------------------------------------------------------------
(* Properties. *)

\* The ballot fits the tally: it has a contest in which to be counted for each of its own.
Fits(b) == ContestsOn(b) \subseteq Contests

\* The tally counts the ballot in the contest.
Counts(b, c) ==
  /\ IdOf[b] \in castIds
  /\ store[IdOf[b]] = [ballot |-> b, state |-> "CAST"]
  /\ c \in ContestsOn(b)

\* The tally is what the ballot box says, however tally_ballots, append and
\* batch_append interleave with the box: a ballot recorded as cast is the ballot the
\* box holds as cast under that id, and it is in the total of each of its contests
\* exactly once, unless a batch met it again: then it is there more than once.
\* Nothing else is in a total but what append added of a ballot before it came to a
\* contest that the tally does not have.
TallyMatchesBox ==
  /\ \A b \in Ballots, c \in Contests :
       /\ Fits(b) => IF ~Counts(b, c) THEN sums[c][b] = 0
                     ELSE sums[c][b] = 1 <=> IdOf[b] \notin repeated
       /\ Counts(b, c) => sums[c][b] > 0
       /\ sums[c][b] > 0 => store[IdOf[b]] = [ballot |-> b, state |-> "CAST"]
  /\ \A id \in castIds : store[id].state = "CAST"
  /\ \A id \in spoiledIds : store[id].state = "SPOILED"

\* A ballot's fate is final: once its id is tallied as cast or spoiled, the box keeps
\* it as it is, and no submission and no append changes what the totals hold of it.
\* Only a batch does, which counts a cast ballot once more, and then in all its
\* contests alike and never as anything else.
FateIsFinal ==
  [][\A b \in Ballots : IdOf[b] \in castIds \union spoiledIds =>
       /\ IdOf[b] \in castIds' <=> IdOf[b] \in castIds
       /\ IdOf[b] \in spoiledIds' <=> IdOf[b] \in spoiledIds
       /\ store'[IdOf[b]] = store[IdOf[b]]
       /\ \/ \A c \in Contests : sums'[c][b] = sums[c][b]
          \/ /\ IdOf[b] \in repeated'
             /\ \A c \in Contests :
                  sums'[c][b] = sums[c][b] + (IF Counts(b, c) THEN 1 ELSE 0)]_vars
=============================================================================

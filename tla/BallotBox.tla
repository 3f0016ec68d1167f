------------------------------- MODULE BallotBox -------------------------------
(***************************************************************************)
(* electionguard/ballot_box.py on a electionguard/data_store.py, with the  *)
(* checks of electionguard/ballot_validator.py.                            *)
(*                                                                         *)
(* A ballot is a model value.  What the code reads of it is given by       *)
(* constant functions: its id, the contests its ballot style requires, the *)
(* contests it carries in their order, and whether is_valid_encryption     *)
(* accepts it in this election.                                            *)
(***************************************************************************)
EXTENDS Integers, FiniteSets

CONSTANTS
  Ballots,     \* encrypted ballots that are presented
  Ids,         \* their ids; two ballots may bear the same one
  Contests,    \* the contests of the election's manifest
  IdOf,        \* object_id
  StyleOf,     \* the contests of the ballot's style in the manifest
  ContestsOf,  \* the contests on the ballot, in order
  Genuine      \* is_valid_encryption for this manifest and joint key, which does
               \* not ask which contests are on the ballot

ASSUME BallotsAssumption ==
  /\ IsFiniteSet(Ballots)
  /\ IdOf \in [Ballots -> Ids]
  /\ StyleOf \in [Ballots -> (SUBSET Contests) \ {{}}]
  /\ Genuine \in [Ballots -> BOOLEAN]
  /\ DOMAIN ContestsOf = Ballots
  /\ \A b \in Ballots : /\ IsFiniteSet(DOMAIN ContestsOf[b])
                       /\ DOMAIN ContestsOf[b] = 1 .. Cardinality(DOMAIN ContestsOf[b])
VARIABLE store  \* DataStore of submitted ballots, by id

BallotBoxStates == {"CAST", "SPOILED", "UNKNOWN"}
Submitted == [ballot : Ballots, state : BallotBoxStates]
NoEntry == [state |-> "none"]

ContestsOn(b) == {ContestsOf[b][k] : k \in DOMAIN ContestsOf[b]}

\* ballot_is_valid_for_style asks for every contest of the style and never
\* whether the ballot carries others.
ValidForStyle(b) == StyleOf[b] \subseteq ContestsOn(b)

\* ballot_is_valid_for_election
ValidForElection(b, validate) == ValidForStyle(b) /\ (validate => Genuine[b])

BoxInit == store = [id \in Ids |-> NoEntry]

\* Mutant of SubmitBallotToBox: a later ballot replaces an earlier one.
ReplaceInBox(b, state) ==
  /\ ValidForElection(b, TRUE)
  /\ store' = [store EXCEPT ![IdOf[b]] = [ballot |-> b, state |-> state]]

\* submit_ballot_to_box, for cast and for spoil: None, and nothing stored, when
\* the ballot is not valid or its id is taken.
SubmitBallotToBox(b, state) ==
  /\ ValidForElection(b, TRUE)
  /\ store[IdOf[b]] = NoEntry
  /\ store' = [store EXCEPT ![IdOf[b]] = [ballot |-> b, state |-> state]]

Cast(b) == SubmitBallotToBox(b, "CAST")
Spoil(b) == SubmitBallotToBox(b, "SPOILED")

\* The submitted ballots in the store.
Stored == {store[id] : id \in {i \in Ids : store[i] # NoEntry}}
=============================================================================

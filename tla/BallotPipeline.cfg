\* One ballot given to a mediator, three requested: one with other parties, one with
\* another contest and one under another joint key;
\* requests of up to three ballots.
SPECIFICATION PipelineSpec
CONSTANTS
  given = given
  asked = asked
  foreign = foreign
  abroad = abroad
  id1 = id1
  id2 = id2
  id3 = id3
  key = key
  otherKey = otherKey
  Ballots <- MCBallots
  Ids <- MCIds
  Contests <- MCContests
  IdOf <- MCIdOf
  StyleOf <- MCStyleOf
  ContestsOf <- MCContestsOf
  Genuine <- MCGenuine
  MaxCount = 2
  MaxRequest = 3
  Elections <- MCElections
  OtherContest = {foreign}
  OtherParties = {asked}
  KeyOf <- MCKeyOf
  JointKey = key
  Given = {given}
  Chosen <- MCChosen
  Plaintexts <- MCPlaintexts
  Expected <- MCExpected
  Holders = {g1, g2, g3}
  Quorum = 2
INVARIANTS LastOfEachIdCounted EncryptedAsVoted ChallengeTellsTheVote CompactingKeepsVotes TotalsAreVotes
CHECK_DEADLOCK FALSE

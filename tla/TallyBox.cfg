\* Ballots accepted by the box and tallied from it, until the box runs full.
SPECIFICATION Spec
CONSTANTS
  b1 = b1
  b2 = b2
  b3 = b3
  b4 = b4
  foreign = foreign
  partial = partial
  forged = forged
  id1 = id1
  id2 = id2
  id3 = id3
  id4 = id4
  id5 = id5
  president = president
  council = council
  extra = extra
  Ballots <- MCBallots
  Ids <- MCIds
  Contests <- MCContests
  IdOf <- MCIdOf
  StyleOf <- MCStyleOf
  ContestsOf <- MCContestsOf
  Genuine <- MCGenuine
  MaxCount = 3
INVARIANTS TypeOK TallyMatchesBox
PROPERTY FateIsFinal
CHECK_DEADLOCK FALSE

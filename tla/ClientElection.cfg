\* Three guardians each of which is a quorum, so that two can be missing and a
\* guardian that is not available can compensate; one may generate credentials
\* twice and the service may restart once.
SPECIFICATION ElectionSpec
CONSTANTS
  g1 = g1
  g2 = g2
  g3 = g3
  Guardians = {g1, g2, g3}
  Quorum = 1
  Tally = tally
  Ballots = {}
  MaxKeys <- OneAgain
  MaxProcess = 2
INVARIANTS AnswerAsRequested ElectionIsCounted KeysComeBack
PROPERTY EveryRequestAnswered
CHECK_DEADLOCK FALSE

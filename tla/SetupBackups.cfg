\* Two guardians set up in one call.
SPECIFICATION ElectionSpec
CONSTANTS
  g1 = g1
  g2 = g2
  g3 = g3
  Guardians = {g1, g2}
  Quorum = 1
  Tally = tally
  Ballots = {}
  MaxKeys <- OnlyOnce
  MaxProcess = 1
PROPERTY SetupAllowsCompensation
CHECK_DEADLOCK FALSE

\* Ceremonies of two guardians out of three, one after the other with one
\* mediator; each guardian may be created anew once, and the mediator reset.
SPECIFICATION FairRoundsSpec
CONSTANTS
  Guardians = {g1, g2, g3}
  NumberOfGuardians = 2
  MaxKey = 2
  MaxChallenges = 0
  MaxResets = 1
  MaxCeremonies = 3
INVARIANTS PublishedKeyIsUsable RaisesForOthersOnly
PROPERTY CleanCeremonyPublishes
CHECK_DEADLOCK FALSE

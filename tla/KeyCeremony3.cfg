\* Three guardians, of which one may be created anew, one challenge, one reset.
SPECIFICATION Spec
CONSTANTS
  Guardians = {g1, g2, g3}
  NumberOfGuardians = 3
  MaxKey = 2
  MaxChallenges = 1
  MaxResets = 1
SYMMETRY Symmetry
CONSTRAINT RenewedInFirstRounds
INVARIANTS TypeOK JointKeyRecoverable
PROPERTY BackupsStayAvailable

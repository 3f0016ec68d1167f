\* Every polynomial of three coefficients, five guardians, one pad; two of the
\* polynomials with every random number and hash of a proof.
SPECIFICATION ProofSpec
CONSTANTS
  P = 29
  Q = 7
  G = 16
  Guardians = {1, 2, 3, 4, 5}
  Quorum = 3
  Owner = 2
  Pads = {25}
  ProvedPolynomials <- TwoPolynomials
  MaxSelections = 2
INVARIANTS OnlyCoordinatesVerify RecoveryKeysMatch QuorumReconstructs BelowQuorumNothingIsKnown HonestProofsVerify AcceptedProofsAreTrue
CHECK_DEADLOCK FALSE

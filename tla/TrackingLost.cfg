\* Two requests at once, of which the second to end cleans up the table.
SPECIFICATION Spec
CONSTANTS
  Workers = {w1}
  Threads = {t1, t2}
  RequestIds = {1, 2}
  Kept = 1
  Removed = 1
  Asked <- MCAsked
  BallotIds = {1}
  MaxRequests = 3
  Encryptions <- MCEncryptions
  MaxRestarts = 0
SYMMETRY Symmetry
INVARIANT TrackingIsTransparent
CHECK_DEADLOCK FALSE

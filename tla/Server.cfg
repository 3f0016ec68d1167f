\* One worker that may restart once, two threads, three tracked requests.
SPECIFICATION Spec
CONSTANTS
  Workers = {w1}
  Threads = {t1, t2}
  RequestIds = {1, 2}
  Kept = 1
  Removed = 1
  Asked <- MCAsked
  BallotIds = {1}
  MaxRequests = 3
  Encryptions <- MCEncryptions
  MaxRestarts = 1
SYMMETRY Symmetry
INVARIANTS TypeOK TableIsBounded StartedMeansRunning BallotsAreCounted EndpointsAgree
CHECK_DEADLOCK FALSE

\* Two threads.
SPECIFICATION Spec
CONSTANTS
  Threads = {t1, t2}
  MaxExponent = 3
  MaxAsked = 4
INVARIANT OnlyTooLargeFails

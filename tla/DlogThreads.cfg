\* Two threads, each asked again and again; exponents up to three, one element
\* beyond them.
SPECIFICATION FairSpec
CONSTANTS
  Threads = {t1, t2}
  MaxExponent = 3
  MaxAsked = 4
INVARIANTS TypeOK CacheIsExact AnswersAreRight
PROPERTY EveryCallEnds

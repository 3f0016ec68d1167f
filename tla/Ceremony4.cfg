\* The orchestrator beside other callers: four guardians of which two are a
\* quorum, so that one may turn up while another stays missing, the tally and
\* one spoiled ballot.  No symmetry, since liveness is checked.
SPECIFICATION FairCeremonySpec
CONSTANTS
  Guardians = {g1, g2, g3, g4}
  Quorum = 2
  Tally = tally
  Ballots = {b1}
INVARIANTS TypeOK EveryoneAccountedFor NeverGarbage
PROPERTIES OwnSharesKept OpensByQuorum TallyIsDecrypted BallotsAreDecrypted

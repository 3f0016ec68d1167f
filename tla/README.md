# ElectionGuard Python API: a TLA+ development

This directory holds TLA+ modules that model the repository's election core, the TLC
configurations that check them on small instances, and theorems about them that TLAPS
checks for every value of the constants. `PROJECT.json` relates each definition to the
lines of the source it stands for, and lists the runs, the mutants, the hazards and the
theorems.

To check: `tlc -config Ceremony4.cfg MCDecryption` for a run (the module of each run is
in the table below), `tlapm KeyCeremonyProofs.tla` for the proofs.

Contents: [The system](#the-system) · [The modules](#the-modules) ·
[What the runs show](#what-the-runs-show) · [Bounds](#bounds) ·
[Fairness and stopping](#fairness-and-stopping) · [What is proved](#what-is-proved) ·
[Disagreements](#disagreements-between-the-code-and-what-is-said-of-it) ·
[Not modelled](#not-modelled) · [Plan](#plan)

## The system

The repository is a Flask service (`api.py`) around a vendored ElectionGuard
(`electionguard/`, `electionguard_tools/`), with one module per endpoint in `services/`.
An election runs in four stages: a **key ceremony** in which guardians make a joint
public key and share their secret keys, **encryption** of ballots, a **tally** of the
cast ballots under encryption, and **decryption** by a quorum of the guardians, who make
up for those that are missing.

The endpoints are stateless with respect to an election: the caller carries keys,
ballots and shares from call to call as JSON, and every call rebuilds the objects it
needs. What outlives a call is state of the process: the discrete logarithm cache, the
manifest caches, the published ballots, the table of running requests. Requests are
served by threads (`app.run(threaded=True)`, `api.py:2011`), or by several worker
processes that share nothing.

| Component | State | Operations | Works with |
| --- | --- | --- | --- |
| Key ceremony: `key_ceremony_mediator.py`, `guardian.py`, `key_ceremony.py` | mediator: announced keys, backups, verifications, challenges; guardian: own keys, keys and backups received | announce, share keys, generate, receive and share backups, verify, challenge, publish the joint key, reset | orchestrator and `services/setup_guardians.py` call it |
| Secret sharing: `group.py`, `election_polynomial.py`, parts of `decryption.py` and `key_ceremony.py` | none | coordinates, encrypted backups, commitments, verification, recovery keys, Lagrange coefficients, reconstruction | both ceremonies |
| Proofs of knowledge, ElGamal: `chaum_pedersen.py`, `schnorr.py`, `elgamal.py` | none | encrypt, add, decrypt, hashed encryption; make proofs, check them | everything |
| Client-side ceremony: `api.py:823-1022` | none here; the clients keep keys, polynomials and backups | credentials, backup shares, combined public keys | decryption services |
| Credential storage: `api.py:1760-1954` | the master key of the process; the clients keep encrypted data and credentials | encrypt, decrypt | client-side ceremony |
| Manifest: `manifest.py`, `services/create_encrypted_ballot.py` | none | create, hash, validity, placeholders, contests by style | encryption, tally, decryption |
| Encryption: `encrypt.py`, `nonces.py`, `ballot_code.py`, `ballot.py` | device, chain of ballot codes | encrypt a ballot, chain codes, check an encryption | ballot box, publication |
| Challenges, decryption with nonces: `benaloh_challenge.py`, `decrypt_with_secrets.py` | none | open a ballot with its nonces or the key | encryption |
| Compact ballots: `ballot_compact.py` | none | compress, expand | encryption |
| Ballot box: `ballot_box.py`, `data_store.py`, `ballot_validator.py` | submitted ballots by id | cast, spoil | tally |
| Tally: `tally.py` | totals, ids of cast and of spoiled ballots | append, batch append, tally a ballot or all | ballot box |
| Tally endpoint: `services/create_encrypted_tally.py` | a store and a tally for one request | submit all as cast, tally | tally, combine endpoint |
| Decryption services: `create_partial_decryption*.py`, `create_compensated_decryption_shares.py` | none | shares, backup lookup | combine endpoint |
| Decryption with shares: `decryption.py`, `decryption_share.py`, `decrypt_with_shares.py` | none | shares of every selection, own, compensated and reconstructed; plaintexts | mediator, decryption services |
| Decryption mediator: `decryption_mediator.py` | available and missing guardians, shares, compensated shares | announce, announce and validate missing, receive compensation, reconstruct, get plaintexts | orchestrator, combine endpoint |
| Combine endpoint: `api.py`, `services/combine_decryption_shares.py` | a mediator for one request | check the request, drive the mediator, publish the results | decryption mediator, discrete logarithm |
| Discrete logarithm: `discrete_log.py` | one dictionary per process | look up, extend, precompute | decryption of every selection |
| Manifest cache: `manifest_cache.py` | manifests and contexts by key | get or create | every endpoint |
| Ballot publication: `ballot_publisher.py`, `ballot_sanitizer.py` | ballots by id, nonces | publish, look up, remove nonces | ballot endpoints |
| Request tracking: `api.py:223-274` | running requests by id | start, finish, clean up | ballot and tally endpoints |
| Guardian ceremony service, serialization, scheduler, tools | none worth the name | | |

What is hard to get right in it:

* **Counting.** Both mediators decide that a round is complete by comparing numbers of
  dictionary entries and never ask whose entries they are.
* **Repetition.** Announcements, backups, verifications, batches and requests can be
  repeated, late, or made by a guardian object that was created anew.
* **Partial participation.** Some available guardians have compensated and others have
  not; someone reported missing turns up after all.
* **Threads.** One cache is extended by whichever thread misses an element, without a
  lock; tables of requests and ballots are shared as well.
* **Exponents.** Sequence orders, indices and powers live in different moduli.
* **Statelessness.** The clients carry ballots, backups and shares from call to call and
  may repeat, mix up or regenerate them; no endpoint remembers what it handed out.
* **Position and id.** Votes, selections, shares and write-ins are matched by position in
  one place and by id in the next.

## The modules

| Module | Models | State |
| --- | --- | --- |
| `KeyCeremony` | the mediator and the guardians' dictionaries, in every interleaving of the rounds | one variable per dictionary; `inFlight` holds verifications between guardian and mediator |
| `KeyCeremonyRounds` | the callers: `perform_full_ceremony` and `setup_guardians_service`, which take guardians through the rounds once, on a mediator that may have been used before; extends `KeyCeremony` | the loop the caller is in, and the guardians still to come in it |
| `Group` | the integers mod P and mod Q | none |
| `ElGamal` | encryption, addition, hashed ElGamal, and all the proofs | extends `Group` |
| `SecretSharing` | one guardian's polynomial, the others' encrypted backups, and the reconstruction of its decryption share | extends `ElGamal` |
| `ZeroKnowledge` | the callers of the proofs, on the keys of `SecretSharing` | `proof`, the proof made last |
| `DecryptionMediator` | every method of the mediator that changes it, called in any order | one variable per dictionary; `plaintext` is the last result for an item |
| `ThresholdDecryption` | the abstract promise: an item is opened after a quorum came forward, and truly unless the decryption was disturbed | `present`, `opened`, `disturbed` |
| `DecryptionCeremony` | `TallyCeremonyOrchestrator`, loop by loop, beside other callers of its mediator; refines `ThresholdDecryption` | where its call stands, and the pairs and items still to come |
| `CombineService` | `/combine_decryption_shares` from its request to its answer, on a `DecryptionMediator` | `request`, `reconstructed`, `answer` |
| `Credentials` | `/api/encrypt` and `/api/decrypt` | none |
| `ClientElection` | an election by guardians that keep their keys on their own machines, or have them from `/setup_guardians`; composes `CombineService` and `Credentials` | what each guardian keeps, the combined key, the process and its environment |
| `BallotBox` | `DataStore`, `ballot_validator.py`, cast and spoil | `store` |
| `Tally` | `CiphertextTally` on a `BallotBox` | `sums`, `castIds`, `spoiledIds` |
| `EncryptedTallyService` | `/create_encrypted_tally` on a `Tally` | `request`, `submitted`, `published` |
| `Manifest` | the manifest of the service, its hash, validity and placeholders | none |
| `BallotEncryption` | a ballot from names to ciphertexts and back: encryption, validation, decryption with nonces, challenges, compact form | none, extends `Manifest` |
| `TallyDecryption` | shares of every selection and decryption with them | none, extends `BallotEncryption` |
| `BallotPipeline` | a ballot from the voter to the results; composes the last three with `EncryptedTallyService` | `election`, `plain`, `cipher`, `encryption_seed` |
| `RequestTracking`, `ManifestCache`, `BallotPublisher` | the three tables of a worker process (`Processes` declares the workers) | one variable per dictionary |
| `Server` | worker processes whose threads serve requests on these tables, and restarts | per thread a step and a request |
| `DiscreteLog` | the cache and the threads inside `discrete_log` and `precompute_cache` | `cache`; per thread a program counter and its local variables |
| `MC...` | model values, elections, ballots and symmetry for TLC | |
| `KeyCeremonyProofs`, `DiscreteLogProofs`, `ServerProofs` | theorems about the modules of that name | |
| `ElectionProofs` | theorems about decryption, from the mediator up to `ClientElection` | |
| `TallyProofs` | theorems about the ballot box, its tally, the tally endpoint and the votes in `BallotPipeline` | |
| `FoldProofs` | lemmas: induction as a fact about sets, folds over finite sets, counting | |
| `GroupProofs` | lemmas: powers, the group, the field of the exponents, finite sums and products | |
| `SharingProofs` | theorems about `SecretSharing` and `ZeroKnowledge`, on these lemmas | |

How data is abstracted, and why nothing the properties ask is lost:

* **Keys, backups, verifications** (`KeyCeremony`). A key pair is the number of times its
  guardian has made one; a backup is the generation of the polynomial it came from and
  of the key it is encrypted to. These two numbers decide whether a backup decrypts and
  whether it verifies. That equal generations verify and unequal ones do not is what
  `SecretSharing` checks of the arithmetic. The `subject` of a verification is no field
  of the code; no action reads it and one property does.
* **Shares** (`DecryptionMediator`). A share is "own" or "reconstructed" from the
  compensated shares of some guardians (`parts`) with the Lagrange coefficients over
  others (`over`). It is the true share exactly when the two agree and are a quorum
  (`IsTrue`), again the statement `SecretSharing` checks. Tally and spoiled ballots are
  handled alike in the code and are "items" here. Proofs in shares are not checked by
  `get_plaintext_*` (`suppress_validity_check`), so a wrong share gives a wrong result
  and no error; the model says `"garbage"`.
* **Totals** (`Tally`). The encrypted total of a contest is how many times each ballot
  went into it. Homomorphic addition is additive, so that is what a decryption would
  show of it. `is_valid_encryption` is a given predicate of a ballot (`Genuine`), which says
  nothing of the contests the ballot has.
* **Ciphertexts** (`BallotEncryption`). An encryption is the vote and the nonce it was made
  with; it opens with that nonce or with the key. A nonce is the master nonce of its
  ballot and the path of sequence orders and ids that leads to it (`NonceOf`), as in
  `nonces.py`. A hash is the record of what goes into it. Which proofs hold of true votes
  and nonces, and that none holds of others, is what `ZeroKnowledge` checks; here a
  selection carries what was proved of it.
* **Shares of selections** (`TallyDecryption`). The pad of a total says how often each
  ballot is in it; a share is that pad and the keys it was raised to.
* **Client-side keys** (`ClientElection`). A key, with its polynomial, is its guardian and
  the number of the call that made it; a coordinate names its polynomial.
* **Group elements** (`DiscreteLog`). g^k is written k; an entry keeps the exponent that
  the code recorded for it separately.

An action is a whole method. Where the code can be interrupted (`DiscreteLog`) it is
one statement that touches the cache; in `Server` it is one statement or one block under a lock. `list(cache)[-1]` and the lookup of its exponent
are one step, since no entry ever changes or goes. Where it raises in the middle
(`Reconstruct`, `AddCast`), what was stored before stays.

## What the runs show

A passing run ends with no error. `Expect: violation` runs check one sentence that the
repository says of its code; TLC shows how the code disagrees.

| Run | Module | Expect | Properties |
| --- | --- | --- | --- |
| `KeyCeremony3` | `MCKeyCeremony` | pass | `TypeOK` `JointKeyRecoverable` `BackupsStayAvailable` |
| `KeyCeremonyRounds` | `MCKeyCeremonyRounds` | pass | `PublishedKeyIsUsable` `RaisesForOthersOnly` `CleanCeremonyPublishes` |
| `Ceremony4` | `MCDecryption` | pass | `TypeOK` `EveryoneAccountedFor` `NeverGarbage` `OwnSharesKept` `OpensByQuorum` `TallyIsDecrypted` `BallotsAreDecrypted` |
| `ClientElection` | `MCClientElection` | pass | `AnswerAsRequested` `ElectionIsCounted` `KeysComeBack` `EveryRequestAnswered` |
| `SetupBackups` | `MCClientElection` | violation | `SetupAllowsCompensation` |
| `TallyBox` | `MCTally` | pass | `TypeOK` `TallyMatchesBox` `FateIsFinal` |
| `BallotPipeline` | `MCBallotPipeline` | pass | `LastOfEachIdCounted` `EncryptedAsVoted` `ChallengeTellsTheVote` `CompactingKeepsVotes` `TotalsAreVotes` |
| `Sharing` | `MCZeroKnowledge` | pass | `OnlyCoordinatesVerify` `RecoveryKeysMatch` `QuorumReconstructs` `BelowQuorumNothingIsKnown` `HonestProofsVerify` `AcceptedProofsAreTrue` |
| `DlogThreads` | `MCDiscreteLog` | pass | `TypeOK` `CacheIsExact` `AnswersAreRight` `EveryCallEnds` |
| `DlogRace` | `MCDiscreteLog` | violation | `OnlyTooLargeFails` |
| `Server` | `MCServer` | pass | `TypeOK` `TableIsBounded` `StartedMeansRunning` `BallotsAreCounted` `EndpointsAgree` |
| `TrackingLost` | `MCServer` | violation | `TrackingIsTransparent` |

**Key ceremony.** While nobody has made a second key pair, a joint key that was published
can be recovered without any one guardian (`JointKeyRecoverable`): each other
guardian holds a backup that decrypts and lies on the owner's polynomial, or a challenge
made the coordinate public. Only a reset takes a complete round back
(`BackupsStayAvailable`).

The callers take their guardians through each round once, and a round that gets `None`
raises. The mediator and the guardians may have been used before, for ceremonies that were
finished or broken off anywhere, with these guardians or with others, some of which were
created anew. Still, what is published combines the current keys of those who took
part, each of them holds a usable backup of every other one, and it is these backups that were
verified (`PublishedKeyIsUsable`): verifications of replaced backups are all
replaced before the end. What makes a ceremony raise is what the mediator or a guardian
knows of guardians that take no part, and nothing else (`RaisesForOthersOnly`); a
ceremony that knows nobody else publishes unless it is broken off (`CleanCeremonyPublishes`).
`/setup_guardians` is the case of new guardians and a new mediator. It hands in the
verifications of one guardian together, and so does the model; `perform_round_3` hands them in
one by one, with nothing in between.

**Decryption.** Nobody is both available and missing, and the counts of
`announcement_complete` account for everyone (`EveryoneAccountedFor`). A share a guardian
gave itself is never replaced by a reconstructed one (`OwnSharesKept`). The orchestrator
checks nothing: it passes over a compensated share that is `None`, reconstructs from
what came in, and others may announce guardians, report them missing, validate or ask for the
plaintext meanwhile. A wrong result has then one of three causes (`Disturbed`): the
guardians it was given are no quorum, one of them could not compensate for
a missing one, or somebody else announced before the shares were combined; nothing
that others call at another time spoils it (`NeverGarbage`). An item is opened only after a quorum came
forward, disturbed or not, and truly if not (`OpensByQuorum`, the refinement of
`ThresholdDecryption` with `present <- available, opened <- plaintext, disturbed <- Disturbed`);
tally and ballots are decrypted in the end or the ceremony was disturbed. Each of the three causes
alone is enough for a wrong result in this run.

**Combining.** The request names the available guardians and carries compensated shares;
nothing in the code relates the two. `AnswerAsRequested` gives the answer to every
request: exact when a quorum is available and exactly the available guardians have
compensated for each missing one, an error for too few guardians or a share of someone
not available, a wrong count when an available guardian's share is absent. Every request
is answered.

**Client-side election.** These requests come from guardians that may generate credentials
again at any time, before or after others have encrypted backups to them or the public keys
were combined, or that were set up by one call of `/setup_guardians`, and from a service that
may restart. Only `/setup_guardians` verifies backups.
Still, if everyone available compensates for everyone missing, the election is counted
exactly when every guardian has the key that was combined, or is missing and the others
still have its backups from `/setup_guardians` (`ElectionIsCounted`): a backup
that is of no use, be it encrypted to an old key or taken in the wrong direction,
shows in a share that is absent, never in a wrong one. A stored private key comes back with
its own credentials, as long as the master key is in the environment or the process is the
same, and only then (`KeysComeBack`).

**Tally.** However submissions, appends and batches interleave, a ballot is in the total of
each of its contests if the box holds it as cast and its id was tallied: exactly once,
unless a batch met it again, for `batch_append` counts what is tallied once more
(`TallyMatchesBox`; the comment at `tally.py:293` says "so they are not double counted").
Nothing else is in a total but what `_add_cast` added of a ballot before it came to a contest
the tally does not have. Once tallied, a ballot's fate is final but for such a batch, which adds
it to all its contests alike (`FateIsFinal`). The endpoint, which makes one batch of a request,
counts of each id the last ballot, if that one is valid for its style (`LastOfEachIdCounted`).

**From the voter to the results.** Elections with one, two or more seats than candidates,
ballots requested by names or given as any list of selections, requests to tally in any
order with repetitions, and every quorum of three guardians; among the ballots one of an
election with another contest, one with other parties and one under another joint key. An
encrypted ballot is a valid encryption in its own election and under its own key, and where
candidates, parties or key are others it is not; the style alone accepts it wherever the contest
is the same. It opens as the voter intended with its nonces, with
the key and with the shares of any quorum, and with no other ballot's nonce; overvotes and
votes above one count for nothing (`EncryptedAsVoted`). A challenge tells the voter's choice
(`ChallengeTellsTheVote`). A compact ballot is restored but for its write-ins
(`CompactingKeepsVotes`). The tally endpoint asks only for the style, so ballots of another
election with the same contest are counted. The results are the intentions of the last ballot
of each id that has this contest, and their counts leave room for them; if one of these ballots is
under another key, there are no results (`TotalsAreVotes`).

**Server.** Threads serve requests to encrypt, to tally and to publish, interleaved at each
access to a shared table. The table of requests stays within 100 and the requests being
served (`TableIsBounded`), an entry that `/health` counts as active is one
(`StartedMeansRunning`), a tally counts all the ballots of its election and the caches never
hand out another one's manifest while names come in one order (`BallotsAreCounted`), and
what the publication endpoints, the list and the counters say of an id agrees
(`EndpointsAgree`). For an id that was published both ways it states what the code does: the
ballot that is served is the cast one and has no nonces, and the nonces endpoint serves those of
the audited one.

**Sharing.** For every polynomial of the small field: a backup verifies exactly when it
is the coordinate, it opens for its recipient only, and in a challenge everyone finds the
same; the recovery public key is the key of the coordinate; any quorum of the others
reconstructs the owner's partial decryption; fewer backups are compatible with every secret
key. For two of the polynomials and all random numbers and hashes, every proof the code
makes is accepted (`HonestProofsVerify`), and for a statement that is false at most one
challenge of the hash has an answer (`AcceptedProofsAreTrue`).

**Discrete logarithms.** Threads that extend one cache at once keep it exact and in
ascending order, nobody gets a wrong exponent, and every call returns.

Each property of a passing run has a mutant in `PROJECT.json`: a definition changed the
way a plausible mistake would change the code (a count that is too low, a guard dropped,
a dictionary cleared, a power in the wrong modulus). The run finds it.
The mutated operators stand in the modules before the definitions they change.

## Bounds

* `KeyCeremony3`: three guardians are the fewest for which a pair's backup and someone
  else's can be confused; one challenge, one reset; one guardian may be created anew, and from
  then on the run follows the first two rounds (`RenewedInFirstRounds`), which is what
  `BackupsStayAvailable` is about. The third round with new keys is in `KeyCeremonyRounds`.
* `KeyCeremonyRounds`: three guardians of which two take part in a ceremony, so that there is
  always one that does not; up to three ceremonies with one mediator (`MaxCeremonies`), two key
  pairs for each guardian, one reset. Two ceremonies leave something of others behind, and a
  third one meets it.
* `Ceremony4`: four guardians with a quorum of two, so that one may turn up while another
  stays missing; any of them attend, with the tally and one ballot.
* `ClientElection`: three guardians with a quorum of one, so that two can be missing and
  each of the three cases of `AnswerAsRequested` occurs, also a guardian that is not available
  and compensates; one guardian may generate credentials twice (`MaxKeys`), and the
  service may restart once (`MaxProcess`). `SetupBackups` has two guardians, the fewest of
  which one can be missing.
* `TallyBox`: seven ballots on five ids: two share an id, one has fewer contests by its
  style, one has a contest more than the election, one lacks a contest of its
  style, one has proofs that do not hold, one is ordinary. `MaxCount = 3` allows a ballot to be
  counted twice too often.
* `BallotPipeline`: four ballots: two of one id, of which one has other parties, one with
  another contest and one under another joint key, in requests of up to three; three candidates; zero, two or four choices, which the manifest takes for one, two and three; plaintexts
  of up to two selections with votes of zero to two, all complete lists, a write-in, an
  unknown name and one selection too many. Three guardians (`Holders`) with a quorum of two:
  every quorum decrypts.
* `Server`: one worker with two threads, three requests, one ballot id, two ids of requests
  and a table that is cleaned up above one entry (`Kept`, `Removed` stand for 100 and
  50); four elections, of which two differ in the order of names, two in the choices and
  one has more candidates than parties; one restart.
* `Sharing`: P = 29, Q = 7, G = 16 of order 7; five guardians, quorum three, all 343
  polynomials, one pad; proofs for two of them (`ProvedPolynomials`) and contests of two
  selections (`MaxSelections`). Sequence orders and their powers stay below P there, as they
  do in every real election (see the observations below).
* Discrete logarithm: exponents up to three and one element beyond them, two threads.
  Lookups, extensions past each other, the limit and elements that do not exist all
  occur; the proofs cover any number of threads.

Symmetry is used only in runs without liveness properties and over sets of model values
that no property or constant tells apart.

## Fairness and stopping

* `KeyCeremonyRounds!FairRoundsSpec`: weak fairness of the caller's next step (`Step`), since
  `perform_full_ceremony` and `setup_guardians_service` are sequential calls that run on until
  they return or raise. `BreakOff` stands for a process that ends. No ceremony has to begin.
* `DecryptionCeremony!FairCeremonySpec`: weak fairness of the orchestrator's next step, also a
  sequential call, and of the retrieval of each plaintext after it. No other caller
  has to do anything.
* `ClientElection!ElectionSpec`: weak fairness of the steps of the service (`Serve`), which is one sequential call. No client has to call it.
* `DiscreteLog!FairSpec`: weak fairness of each thread inside a call: the interpreter
  gives every thread the lock again and again. Nobody has to call.

`BallotPipeline`, `Server` and `Sharing` are checked for safety only: nobody has to send
anything. `CHECK_DEADLOCK FALSE` stands in the runs of `ClientElection`, `Tally`,
`BallotPipeline`, `ZeroKnowledge` and `Server`, which end: the request is answered,
every ballot is submitted and tallied, every share is reconstructed, the requests of the
bound are served.

## What is proved

TLAPS checks these for any finite set of guardians, any bounds, any number of threads,
any group, quorum and polynomial. Assumptions are the `ASSUME`s of the modules, and what a
theorem's own `ASSUME` adds.

| Theorem | Module | Statement |
| --- | --- | --- |
| `TypeCorrect` | `KeyCeremonyProofs` | `Spec => []TypeOK` |
| `PublishedKeyRecoverable` | | `Spec => []JointKeyRecoverable` |
| `BackupsAreKept` | | `Spec => BackupsStayAvailable` |
| `MediatorTypeCorrect` | `ElectionProofs` | `Spec => []TypeOK` |
| `CountsAccountForAll` | | `Spec => []EveryoneAccountedFor` |
| `OwnSharesSurvive` | | `Spec => OwnSharesKept` |
| `CeremonyIsExact` | | `CeremonySpec => []NeverGarbage` |
| `CeremonyRefinesThreshold` | | `CeremonySpec => OpensByQuorum` |
| `DlogTypeCorrect` | `DiscreteLogProofs` | `Spec => []TypeOK` |
| `CacheStaysExact` | | `Spec => []CacheIsExact` |
| `NoWrongAnswer` | | `Spec => []AnswersAreRight` |
| `AloneNothingIsMissed` | | `Threads = {t}` implies `Spec => []OnlyTooLargeFails` |
| `TallyTypeCorrect` | `TallyProofs` | `Spec => []TypeOK` |
| `TallyIsWhatTheBoxSays` | | `Spec => []TallyMatchesBox` |
| `FateStaysFinal` | | `Spec => FateIsFinal` |
| `ServerTypes` | `ServerProofs` | `Spec => []TypeOK` |
| `TableStaysBounded` | | `Spec => []TableIsBounded` |
| `StartedStaysRunning` | | `Spec => []StartedMeansRunning` |
| `EndpointsStayInAgreement` | | `Spec => []EndpointsAgree` |
| `BallotsStayCounted` | | `Spec => []BallotsAreCounted` |
| `QuietTrackingIsTransparent` | | `Quiet` implies `Spec => []TrackingIsTransparent` |
| `AnswerIsTheRequests` | `ElectionProofs` | `ElectionSpec => []AnswerAsRequested` |
| `CountedIfKeysAreKept` | | `ElectionSpec => []ElectionIsCounted` |
| `OnlyOwnKeysComeBack` | | `ElectionSpec => []KeysComeBack` |
| `SetupNeverCompensates` | | `ElectionSpec => [][SetupGuardians => NobodyCompensates']_electionVars` |
| `ElectionRefinesThreshold` | | `ElectionSpec => Promise!Spec` |
| `LastBallotCounts` | `TallyProofs` | `PipelineSpec => []LastOfEachIdCounted` |
| `ValidMeansSubmitted` | | `PipelineSpec => [](published => CountsAreOfIds)` |
| `BallotsAreAsVoted` | | `PipelineSpec => []EncryptedAsVoted` |
| `ChallengesTell` | | `PipelineSpec => []ChallengeTellsTheVote` |
| `CompactBallotsKeepVotes` | | `PipelineSpec => []CompactingKeepsVotes` |
| `ResultsAreVotes` | | `PipelineSpec => []TotalsAreVotes` |
| `RecoveryKeysAreRight` | `SharingProofs` | `Spec => []RecoveryKeysMatch` |
| `OnlyCoordinatesAreVerified` | | `SmallOrders` implies `Spec => []OnlyCoordinatesVerify` |
| `AnyQuorumDecrypts` | | `Spec => []QuorumReconstructs` |
| `FewerKnowNothing` | | `Spec => []BelowQuorumNothingIsKnown` |
| `ProofsOnlyLookOn` | | `ProofSpec => Spec` |
| `WhatIsProvedIsAccepted` | | `ProductsFit` and `CountsAreSane` imply `ProofSpec => []HonestProofsVerify` |
| `FalseStatementsAreRefuted` | | `ProofSpec => []AcceptedProofsAreTrue` |

**Key ceremony.** All but `TypeCorrect` assume that as many guardians take part as the
ceremony asks for (`Cardinality(Guardians) = NumberOfGuardians`); without it the counts
can be made up by others (`RaisesForOthersOnly`, and the observations). The lemma behind the counts is that a subset of
the ordered pairs with n(n-1) elements is all of them, which rests on the cardinality of
the pairs. `JointKeyRecoverable` is not inductive: that a verification arrived says
nothing of the backup the guardian holds, unless it is known that a verification, in
flight or received, was made of a saved backup. `FirstKeysInv` carries this along the
chain from generated backup to mediator to saved backup to verification, as long as
every guardian has its first key pair.

**Decryption.** `EveryoneAccountedFor` follows from disjointness of `available` and
`missing`, which every action keeps, and from finite cardinalities. For `NeverGarbage`
the invariant `CeremonyInv` says that every share the mediator holds is true or the ceremony
disturbed, and follows the orchestrator through its loops (`Exchanged`): until the shares
are combined the guardians available are its own and the `outsiders`, and each of its own was
asked about everyone else, has still to be asked, or gave `None`. The step that matters is
reconstruction: if nothing was disturbed everyone available has compensated, nobody else has, and
they are a quorum, so `parts = over` in the new share; a later announcement changes neither, and
what was decrypted truly stays so although the cause of a disturbance comes later
(`DecryptedStays`). `CeremonyRefinesThreshold` maps each step to `Join`, `Open`, a disturbance or a
stutter.

**Discrete logarithm.** The invariant adds to exactness that every thread's own last
element is in the cache with the exponent it thinks: all a thread has to know of the
others is that the cache never shrinks. `AloneNothingIsMissed` shows that the failure
of `DlogRace` needs a second thread: a thread alone always extends from the end towards
an element the cache does not have yet (`AtTheEnd`).

**Tally.** For any ballots, ids, contests and styles, whatever contests a valid ballot carries.
`TallyMatchesBox` needs two more facts. The box holds only ballots that are valid for the
election, each under its own id, so two different ballots of one id are never both counted; and
what a batch met again had been counted (`repeated` is a part of `castIds`). Of a ballot with a
contest the tally lacks, `_add_cast` adds the contests before it (`Reached`) and records nothing, so it may
be added again; a ballot that fits is added to all its contests (`FittingReached`). A submission
changes no total, since ids of totals are in the box.

**Server.** For any workers, threads, requests, elections and restarts; the threads and ids
are finite sets (`ServerAssumption`, `PublisherAssumption`), as a process has them. Most of the invariant
`ServerInv` says which task a thread has at which place of the code. On it rest three
separate facts. The table: what a cleanup leaves and what is being served bounds it, since a
thread puts back at most the entry of its own request; how many entries the union of
both may have is a matter of cardinalities (`TableStep`). The ballots: `PublishedInv` follows each id
through the two steps of a publication, ballot first and nonces after, in each worker. The
caches: `CachesInv` says that a manifest in a cache, in a ballot or in a thread's hands
belongs to a request with the same key, and that a tally's ballots are of its
election; with one order of names that makes them all the same manifest. `QuietTrackingIsTransparent`
draws the line of the failure `TrackingLost` finds: no answer is lost while there is
a single thread, or the table can hold every id.

**Election and combining.** `ElectionInv` has five parts, one for each thing the request
depends on. `ServiceInv` relates the mediator to the request while the service works on it:
which of its shares are there, and that a share is true, wrong or absent as
`AnswerAsRequested` will have it. `BackupsInv` says where a guardian's backups
come from: none were sent, or it sent one to each with its present or an earlier polynomial, or
`/setup_guardians` handed them out in the wrong places. `StoredInv` is about the encrypted private keys,
`RequestInv` about what the clients had computed before they sent the request, and
`ClientType` types the rest. `AnswerAsRequested` alone is not inductive, since an
answer is decided by shares that were computed before it; `ElectionIsCounted` then follows from
all five in one state. `SetupNeverCompensates` makes a statement for
any guardians of what `SetupBackups` finds for two. `ElectionRefinesThreshold` maps the whole
election to `ThresholdDecryption`: who comes forward is who is available and still has the key that
was combined, and what is opened is the answer that the client gets when it is the true count
(`KeyHolders`, `Counted`). Generated keys, backups, restarts and the other answers are stutters.

**Ballots.** `LastOfEachIdCounted` is about sequences of any length. `StoreInv` says that
the store holds, under each id, the last ballot submitted so far; the totals are computed
from it once. `ValidMeansSubmitted` proves a divergence: `total_valid_ballots` counts ids that
were submitted, valid or not.

**Votes.** For elections with any parties, candidates and choices, any lists of selections,
any sequence of requests and any guardians and quorums. Two assumptions say what the
constants may be. `ElectionsAssumption`: a request's election is one that `ElectionBuilder`
accepts, and no candidate has the id of a placeholder, which nothing in the code checks (see the
observations). `PlaintextsAssumption`: votes are integers, and a ballot is not the mark of a
missing nonce.

The four properties are about the code's results in one state, and not inductive: that a
state's ciphertexts open rightly follows from what they are made of. `VotesInv` says it: under
each id there is nothing yet, a refusal, or the ballot that `EncryptBallot` makes of the
plaintext, with the ballot itself as the nonce. `IsSealed` gives that ballot in closed form: one
contest, whose selections are the candidates with the votes that count and the placeholders
that fill the seats up (`SealedBallot`). So the only step
to prove is encryption (`VotesInvStep`), and after it no operator on lists is unfolded again.
An overvote counts for nobody and fills all seats with placeholders (`IsOvervote`,
`FilledPlaceholders`), so the votes of a contest always sum to its seats and its proofs hold.
From the closed form follow:

* *Opening*: the nonce, the key and the shares of a quorum each give `OpenedBallot`, and
  that has the intended candidates. A share of a missing guardian is rebuilt from those of
  the quorum present (`RebuiltContest`), and shares are matched by id, so it matters that ids
  are unique (`CanBeHeld`).
* *Compact form*: a ballot that lists every selection has the same votes after it was
  expanded; what was written in may move, and nothing else in the ciphertext depends on
  it (`AlikeButForData`).
* *Totals*: `ResultsAreVotes` needs all three invariants. `PipelineInv` says which ballots are in
  the totals, `SentInv` that they were all encrypted (what a client sends was handed out
  earlier), `VotesInv` what is in them. A total is a sum of zeros and ones and so a number of
  voters (`SumOfVotes`). That the valid ballots have room for the votes is double counting: the
  pairs of a candidate and a voter that intends it, summed by candidate, are the counts
  (`SumOfSizes`); by voter they are at most its seats each (`NamesCount`).

The lists come from operators of the community modules that fold over a list. `SumsUp`,
`KeptFirst` and their like say once what these are in closed form: a fold is a recursive function over
the subsets of the list's indices, such a function exists (`FoldsExist`), and what it
has at the first i places follows by `Induction`.

**Sharing.** For every group, quorum, polynomial and number of guardians. `PowMod` is a
recursive function and `AddQ`, `MultP`, `MultQ` are folds, so `FoldProofs` and `GroupProofs` first
prove what they compute: a fact about all numbers is proved for the set of those that have it
(`Induction`, from the least exception), and one about all subsets of a finite set likewise
(`SetInduction`). A fold takes out elements in an order of its own; where operands may change
places any element may be the first (`TakenOut`), and all proofs about sums take out the one they
need. From there:

* Exponents of residues count mod Q (`PowReduced`), because the generator has order Q
  (`GeneratorAssumption`: 2^r mod p, `constants.py`). That suffices for
  `RecoveryKeysAreRight`, also if Q were no prime.
* With Q prime (`PrimeAssumption`) different exponents below Q give different
  powers (`ExponentIsUnique`), so commitments admit one coordinate, and a backup opens with one key:
  `OnlyCoordinatesAreVerified`.
* `AnyQuorumDecrypts` is interpolation. Call the coefficients of a set of guardians its
  weights; weighed with them, the powers of the sequence orders sum to one for the power zero and to zero for every
  other power below the size of the set (`Interpolation`). That is proved by taking
  out a guardian a: the weight of x in A, times a - x, is a times its weight in A without a
  (`OneMore`), which makes the sums over A recurse (`WeighedWithout`); two guardians
  taken out in turn fix them (`InterpolationStep`). A coordinate is a sum over coefficients, the result a sum of coordinates; both sums
  change places (`SumExchange`) and the powers other than zero vanish (`Interpolated`). In the
  exponent this is the product of the shares (`SharesCombine`). `DecryptionInv` ties the
  reconstructed share to it: it is made of the pad and of coordinates
  that really were shared, with the coefficients of those who had compensated.
* `FewerKnowNothing` needs a polynomial through given points with any given secret.
  One more point (a, c) is met by c + (X - a) q, where q passes
  through the slopes to the other points (`FittingStep`); hence up to a quorum of points lie on a polynomial of the degree
  that the ceremony uses (`Fitting`), and with fewer points than that the secret is one more point, at zero
  (`AnySecretFits`).

**Proofs of knowledge.** For every random number and hash, too. `WhatIsProvedIsAccepted` takes the
validations apart into equations of the form g^(u + c s) = g^u (g^s)^c. `FalseStatementsAreRefuted`
extracts: two answers to different challenges for the same commitments
contain the exponent (`Extracted`), the same one for both equations, so the statement is true.
`ProofsOnlyLookOn` carries everything about sharing over to the specification of the run `Sharing`.

Two theorems have a hypothesis about sizes. `WhatIsProvedIsAccepted` has two of them.
`ProductsFit`, (Q - 1) * `MaxSelections` < P: `ConstantChaumPedersenProof`
multiplies challenge and count mod P (`chaum_pedersen.py:329`). `CountsAreSane`: the count is below 10^9,
from which on the validation refuses a proof that holds (`sane_constant`,
`chaum_pedersen.py:316`); with the standard constants this is the limit that is met first. `ElectionsAssumption` has it
for the seats of an election. `SmallOrders`: the powers of the sequence orders agree mod P and
mod Q, as they do while they are below P (see the observations). All are true in the run
`Sharing` and in every real election.

**Only model-checked:** the liveness properties `CleanCeremonyPublishes`, `TallyIsDecrypted`,
`BallotsAreDecrypted`, `EveryRequestAnswered` and `EveryCallEnds`, since the prover has no
fairness; and the safety properties of `KeyCeremonyRounds`, `PublishedKeyIsUsable` and
`RaisesForOthersOnly`. Every other invariant and action property that a passing run checks is
proved.

## Disagreements between the code and what is said of it

The violation runs:

* `SetupBackups`: a test sets guardians up with `/setup_guardians` and expects that an
  available guardian can compensate for a missing one (`tests/test-api.py:264`).
  `/setup_guardians` files under each guardian the backups it has received; the compensation
  looks first for the available guardian under the missing one, finds the backup of the
  available one for the missing one, cannot decrypt it and fails. The right one is where
  the code looks only if it has found none.
* `DlogRace`: a thread misses its element, another extends the cache past it, the first
  walks on to the largest exponent and raises `DiscreteLogExponentError`.
* `TrackingLost`: a request that ends cleans up the 50 smallest of the random ids, running
  or not (`api.py:270`). Noting the end of a request whose entry is gone raises `KeyError`, and
  the client gets an error for what was done and, for a ballot, published.

Observations made while modelling that no run states as a violation:

* When a quorum of the available guardians has compensated but not all of them, the
  coefficients are those of everyone available and the tally is wrong
  (`decryption_mediator.py:200`), though "Quorum of guardians decrypt tally"
  (`.github/copilot-instructions.md:11`); line 141 there asks for all. `AnswerAsRequested` states it.
* `get_publication_stats` counts a ballot twice that is in both dictionaries.
* `share_backups` tests the bound method `all_backups_available` without calling it
  (`key_ceremony_mediator.py:125`), so a guardian that asks early gets a `KeyError` instead of
  `None`.
* `batch_append` asks `__contains__` about an `(id, ballot)` tuple and counts the ballots of a
  store again when it is called twice (`tally.py:274`), despite the comment "so they are not
  double counted" at line 293. `TallyMatchesBox` and `FateIsFinal` state what it does; the
  service calls it once.
* A comment says that ballots are cast without validation as they are "already proved valid"
  (`create_encrypted_tally.py:249`), but nothing asks for which election or under which key: those of an
  election with the same contest and other parties are counted, and one under another joint key
  leaves a total that no discrete logarithm opens. `TotalsAreVotes` states it.
* `TallyCeremonyOrchestrator` passes over a compensated share that is `None`
  (`tally_ceremony_orchestrator.py:122`) and reconstructs all the same; the result may be wrong then
  (`NeverGarbage`).
* `elgamal_encrypt` refuses a zero nonce (`elgamal.py:204`). The nonces of selections are hashes
  (`nonces.py`), of which one may be zero; its selection then has no encryption.
* `negate_q` says "(Q - a) mod q" (`group.py:182`) and raises for zero; a disjunctive proof of
  an encrypted one whose first nonce is zero is not made (`HonestProofsVerify`).
* `hashed_elgamal_encrypt` asks for a nonce in [1, Q) (`elgamal.py:226`) and `rand_q`
  may return zero; the encryption then opens with any key.
* `decrypt_*_with_shares` verifies no proofs (`suppress_validity_check`), and
  `CiphertextDecryptionSelection.is_valid` never asks whether a share is the product of its
  recovered parts.
* `/combine_guardian_public_keys` hashes public keys where the key ceremony hashes
  commitments (`key_ceremony.py:320`), and creates its manifest without `max_choices`.
* The caches sort names and the manifest keeps their order, so with two orders of one
  election a ballot is encrypted for a manifest that the tally does not have, and is not
  counted. `BallotsAreCounted` states what holds while the order is one.
* "Nonces are only available for audited ballots" (`api.py:1147`), but of a ballot id that is
  published as cast and as audited one endpoint serves the cast ballot without nonces and the other
  one the nonces of the audited ballot; `EndpointsAgree` states it. An id that is
  audited twice at once may be left with the ballot of one and the nonces of the other.
* `/health` takes the lock to look for stuck requests and then iterates the table without it
  (`api.py:1114`).
* A compact ballot numbers write-ins from one when it is made and from zero when it is
  expanded (`ballot_compact.py:136`, `:165`), so write-ins move to the next selection; and
  expansion walks through all contests of the manifest (`:152`) where compression has
  those of the ballot.
* `ContestDescription.is_valid` allows `votes_allowed` above `number_elected`
  (`manifest.py:429`), and `valid` then refuses a contest whose seats are all filled
  (`ballot.py:381`). The manifest of the service has both the same.
* Placeholders get ids made of the contest's id and a number (`manifest.py:996`), and nothing
  refuses a candidate of that name; `InternalManifest` would then have two selections of one
  id. `ElectionsAssumption` leaves such elections out.
* Selections are matched by id over all contests, of a tally (`tally.py:285`) and of shares
  (`decryption_share.py:293`), and `Manifest.is_valid` lets two contests share an id of a
  selection. The manifest of the service has one contest.
* The results list spoiled ballots that are of type `PlaintextBallot`
  (`combine_decryption_shares.py:327`), and what the mediator returns is not, so there are none; and
  they list every
  submitted ballot as cast and verified, also one that another of its id replaced or that was
  not valid for the election.
* A new key or backup of a pair leaves the verification of the old backup in place
  (`key_ceremony_mediator.py:202`); `all_verified` can be true of replaced polynomials
  in between. `PublishedKeyIsUsable` shows that the callers, who go through all rounds before they
  publish, replace them in time.
* Backups of a guardian that has not announced are stored and counted
  (`key_ceremony_mediator.py:216`), so with more guardians than the ceremony asks for
  the count can be reached while an announced guardian has sent none, or never, since it must be
  equal. A ceremony with a mediator that others have used may raise on that account
  (`RaisesForOthersOnly`).
* `_add_cast` returns at a contest the tally does not have and leaves the earlier ones
  added (`tally.py:337`). `append` gets there with a ballot
  that has a contest more than its style, validated or not: `ballot_is_valid_for_style`
  asks only for the contests of the style. `TallyMatchesBox` states it.
* Of two ballots of one id in a request both are in `submitted_ballots` and one is in
  the totals (`create_encrypted_tally.py:251`).
* `cast_ballot_ids` has the ids of ballots that were found not valid, and
  `total_valid_ballots` (`combine_decryption_shares.py:305`) counts these ids.
* `verify_polynomial_coordinate` takes `sequence_order ** i` mod P and not mod Q
  (`election_polynomial.py:152`), so with a large enough order a coordinate that is right is
  rejected; with the standard P and a quorum near their number this takes some 450
  guardians.
* "Currently, all the sets are all valid" says `constants.py:49` of the constants for tests. In
  `SMALL_TEST_CONSTANTS` the generator 5 is not of order 251 mod 503: 5^251 is 502. They do not
  satisfy `GeneratorAssumption`; the other sets do.
* `DiscreteLog` instances share `_cache` and not `_max_exponent` or `_lazy_evaluation`,
  and `precompute_cache_async` fills another dictionary than the one that is used.

## Not modelled

* The asynchronous variants in `discrete_log.py`: no service calls them.
* `services/guardian_key_ceremony.py`: `api.py:121` imports it and no endpoint calls it; it
  needs a method of `ElectionPolynomial` and methods of the mediator that do not exist.
* Serialization and formatting: conversions on data that the properties do not tell apart.
  A hash is the record of its inputs; that different inputs have different hashes is assumed.
* Manifests with several contests, districts or languages in the pipeline: the service creates
  one contest. `Tally` and `BallotBox` have several.
* Range proofs and the asynchronous scheduler: no caller.
* Random numbers: a polynomial or nonce is any value. That secrets cannot be guessed is
  outside what is checked here.
* HTTP, rate limits, the scheduler, benchmarks, examples and load
  generators: input and output, or clients of the system.

## Plan

The core came first: both ceremonies, the tally, and what threads share in decryption; then
the state of the server, the path of a ballot, the client-side election and the proofs of
knowledge; then the proofs about each. What is left, in this order:

1. A manifest with several contests and styles in `BallotPipeline`, where selection ids are
   shared and compact ballots skip contests.
2. The asynchronous discrete logarithm, should a service come to call it.

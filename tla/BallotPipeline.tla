----------------------------- MODULE BallotPipeline -----------------------------
(***************************************************************************)
(* A ballot from the voter to the tally: encrypted by                      *)
(* /create_encrypted_ballot or by an EncryptionMediator, challenged by     *)
(* /benaloh_challenge, tallied by /create_encrypted_tally and decrypted by *)
(* /combine_decryption_shares.  The client carries the encrypted ballots   *)
(* from call to call, in any order and as often as it likes.               *)
(***************************************************************************)
EXTENDS EncryptedTallyService, TallyDecryption

CONSTANTS
  Elections,   \* the records [parties, candidates, max_choices] of elections
  OtherContest,\* ballots whose election differs from the tally's in the contest,
  OtherParties,\* and in the parties
  KeyOf,       \* the joint key that a ballot is encrypted under
  JointKey,    \* that of the tally's election
  Chosen,      \* the sequences of names that the requests for a ballot choose
  Given,       \* ballots that an EncryptionMediator is given, not the endpoint
  Plaintexts,  \* the sequences of selections it is given
  Expected,    \* the sets of names that challenges expect
  Quorum       \* how many of the Holders it takes to decrypt

ASSUME PipelineAssumption ==
  /\ Quorum \in 1 .. Cardinality(Holders)
  /\ Contests = {"contest-1"}
  /\ \A b \in Ballots :
       /\ StyleOf[b] = {"contest-1"}
       /\ ContestsOf[b] = IF b \in OtherContest THEN <<"foreign">> ELSE <<"contest-1">>
       /\ Genuine[b] <=> b \notin OtherContest \union OtherParties /\ KeyOf[b] = JointKey

VARIABLES
  election,  \* what the requests say of the election
  plain,     \* the plaintext ballots that encryption was asked for
  cipher,    \* what it returned
  encryption_seed  \* the mediator's: the code of the ballot it encrypted last

pipelineVars == <<serviceVars, election, plain, cipher, encryption_seed>>

Device == <<>>  \* the hash of a device

\* An election with another contest has the candidates in another order, one with
\* other parties has the parties in another order.
ElectionFor(e, b) ==
  [parties |-> IF b \in OtherParties THEN Reverse(e.parties) ELSE e.parties,
   candidates |-> IF b \in OtherContest THEN Reverse(e.candidates) ELSE e.candidates,
   max_choices |-> e.max_choices]
ElectionOf(b) == ElectionFor(election, b)
ManifestFor(e) == CreateElectionManifest(e.parties, e.candidates, e.max_choices)
ManifestOf(b) == ManifestFor(ElectionOf(b))

\* What the requests say of an election is what ElectionBuilder accepts; no candidate
\* has the name of a placeholder and no proof is of too many votes to be accepted,
\* neither of which anything in the code checks.
CanBeHeld(e) ==
  LET d == ManifestFor(e).contests[1]
  IN  /\ e = [parties |-> e.parties, candidates |-> e.candidates, max_choices |-> e.max_choices]
      /\ e.parties \in Seq(ToSet(e.parties)) /\ e.candidates \in Seq(ToSet(e.candidates))
      /\ e.max_choices \in Int
      /\ Builds(ManifestFor(e))
      /\ UniqueIds(d.selections \o Placeholders(d))
      /\ d.number_elected \in SaneConstants

ASSUME ElectionsAssumption ==
  \A e \in Elections :
    /\ CanBeHeld(e)
    /\ \A b \in Ballots :
         /\ CanBeHeld(ElectionFor(e, b))
         /\ b \in OtherContest => ElectionFor(e, b).candidates # e.candidates

ASSUME PlaintextsAssumption ==
  /\ \A p \in Plaintexts : p \in Seq(ToSet(p)) /\ \A s \in ToSet(p) : s.vote \in Int
  /\ NoNonce \notin Ballots

NotYet == [kind |-> "none"]
Encrypted == {b \in Ballots : cipher[b] \notin {NotYet, Refused}}

PipelineInit ==
  /\ ServiceInit
  /\ election \in Elections
  /\ plain = [b \in Ballots |-> NotYet]
  /\ cipher = [b \in Ballots |-> NotYet]
  /\ encryption_seed = Device

\* The master nonce is drawn anew for each ballot: it is the ballot itself.
Encrypt(b, ballot, code_seed) ==
  /\ plain[b] = NotYet
  /\ plain' = [plain EXCEPT ![b] = ballot]
  /\ cipher' = [cipher EXCEPT
       ![b] = IF ballot = Refused THEN Refused ELSE EncryptBallot(ballot, ManifestOf(b), KeyOf[b], code_seed, b)]
  /\ UNCHANGED <<serviceVars, election>>

\* /create_encrypted_ballot: with a mediator and a device of its own.
RequestBallot(b) ==
  /\ b \notin Given
  /\ \E chosen \in Chosen[b] :
       Encrypt(b, CreatePlaintextBallot(ElectionOf(b), chosen, IdOf[b]), Device)
  /\ UNCHANGED encryption_seed

\* EncryptionMediator.encrypt, of any plaintext ballot.
GiveBallot(b) ==
  /\ b \in Given
  /\ \E selections \in Plaintexts :
       Encrypt(b, [id |-> IdOf[b], style |-> "ballot-style-1",
                   contests |-> <<[id |-> "contest-1", selections |-> selections]>>],
               encryption_seed)
  /\ encryption_seed' = IF cipher'[b] = Refused THEN encryption_seed ELSE cipher'[b].code

\* /create_encrypted_tally receives ballots that were encrypted.
SendToTally ==
  /\ \E n \in 1 .. MaxRequest : \E ballots \in [1 .. n -> Encrypted] : Receive(ballots)
  /\ UNCHANGED <<election, plain, cipher, encryption_seed>>

TallyStep == ServiceNext /\ UNCHANGED <<election, plain, cipher, encryption_seed>>

PipelineNext ==
  \/ \E b \in Ballots : RequestBallot(b) \/ GiveBallot(b)
  \/ SendToTally
  \/ TallyStep

PipelineSpec == PipelineInit /\ [][PipelineNext]_pipelineVars

-----------------------------------------------------------------------------
(* The decryption. *)

Presents == {present \in SUBSET Holders : Cardinality(present) >= Quorum}

\* Who is present computes its share and parts of the shares of everyone missing.
TallyShares(contests, present) ==
  [g \in Holders |->
     IF g \in present THEN ComputeDecryptionShare(g, contests)
     ELSE ReconstructDecryptionShare(g, contests,
            [a \in present |-> ComputeCompensatedDecryptionShare(a, g, contests)])]

\* The same for a ballot.
BallotShares(ballot, present) ==
  [g \in Holders |->
     IF g \in present THEN ComputeDecryptionShareForBallot(g, ballot)
     ELSE ReconstructDecryptionShareForBallot(g, ballot,
            [a \in present |-> ComputeCompensatedDecryptionShareForBallot(a, g, ballot)])]

\* The encrypted totals: the pad of a total says which ballots are in it how often.
TallyContests ==
  LET Added(c) == {b \in Encrypted : sums[c.id][b] > 0}
      VoteFor(b, c, id) == WithId(id, WithId(c.id, cipher[b].contests).selections).vote
      Total(c, s) == [id |-> s.id, pad |-> sums[c.id],
                      amount |-> SumFunction([b \in Added(c) |-> sums[c.id][b] * VoteFor(b, c, s.id)])]
  IN  Mapped(LAMBDA c : Contest(c.id, ContestHash(c), Mapped(LAMBDA s : Total(c, s), c.selections)),
             ManifestFor(election).contests)

\* create_encrypted_tally adds up ballots of this contest without asking under which
\* key they are; the sum of different keys has no logarithm that is found with the
\* shares of one.
UnderOneKey ==
  \A c \in Contests, b \in Encrypted : sums[c][b] > 0 => cipher[b].key = JointKey

\* /combine_decryption_shares.  It is sent the submitted ballots with the tally, and
\* no ballot of the endpoint is spoiled: what it says of those is empty.
Results(present) ==
  LET opened == DecryptTally(TallyContests, TallyShares(TallyContests, present), ManifestFor(election))
      all == FlattenSeq(Mapped(LAMBDA c : c.selections, opened.contests))
  IN  IF opened = Refused \/ ~UnderOneKey THEN Refused
      ELSE [total_ballots_cast |-> Len(submitted),
            total_valid_ballots |-> Cardinality(castIds),
            candidates |-> [id \in {s.id : s \in ToSet(all)} |-> WithId(id, all).tally],
            verified |-> {IdOf[b] : b \in ToSet(submitted)}]

-----------------------------------------------------------------------------
(* Properties. *)

Selections(b) == plain[b].contests[1].selections

\* The plaintext says once of a selection what it is.
Plain(b) == UniqueIds(Selections(b))

\* What the voter is entitled to: the chosen ones, and nothing of a contest in
\* which there are more than may be elected or a vote is not 0 or 1.
Intended(b) ==
  LET chosen == {s \in ToSet(Selections(b)) : s.vote > 0}
      seats == ManifestOf(b).contests[1].number_elected
  IN  IF Cardinality(chosen) > seats \/ \E s \in chosen : s.vote > 1 THEN {}
      ELSE {s.id : s \in chosen}

VotesOf(opened) == {s.id : s \in {t \in ToSet(opened.contests[1].selections) : t.vote = 1}}

\* The clients hold the ballots; they do not change once they are sent.
Held == request = <<>> /\ submitted = <<>>

\* A PlaintextTallyContest has the votes of a PlaintextBallotContest.
TalliedContest(c) ==
  [id |-> c.id, selections |-> Mapped(LAMBDA s : [id |-> s.id, tally |-> s.vote], c.selections)]

OpensAsVoted(b) ==
  LET m == ManifestOf(b)
      submittedBallot == MakeSubmitted(cipher[b])
      opened == DecryptBallotWithSecret(submittedBallot, m, KeyOf[b])
  IN  /\ \A e \in {ElectionOf(b), election}, key \in {KeyOf[b], JointKey} :
           IsValidEncryption(cipher[b], ManifestHash(ManifestFor(e)), key)
             <=> e = ElectionOf(b) /\ key = KeyOf[b]
      /\ \A e \in {ElectionOf(b), election} :
           BallotIsValidForStyle(cipher[b], ManifestFor(e)) <=> e.candidates = ElectionOf(b).candidates
      /\ opened # Refused
      /\ Plain(b) => VotesOf(opened) = Intended(b)
      /\ DecryptBallotWithNonce(cipher[b], m, KeyOf[b], NoNonce) = opened
      /\ DecryptBallotWithNonce(submittedBallot, m, KeyOf[b], b) = opened
      /\ DecryptBallotWithNonce(submittedBallot, m, KeyOf[b], NoNonce) = Refused
      /\ \A other \in Ballots \ {b} : DecryptBallotWithNonce(cipher[b], m, KeyOf[b], other) = Refused
      /\ \A present \in Presents :
           DecryptBallot(submittedBallot, BallotShares(submittedBallot, present), m)
             = [contests |-> Mapped(TalliedContest, opened.contests)]

\* Whatever a plaintext ballot looks like, an encrypted one is a valid encryption in
\* the election it was made for and under its key, and not where the candidates, the
\* parties or the key are others; it has the style of every election with the same
\* contest.  The voter's votes are in it; the nonce, the secret key and the shares of
\* any quorum of its key's guardians open the same, also of the ballot that was
\* submitted, which carries no nonces.
EncryptedAsVoted == Held => \A b \in Encrypted : OpensAsVoted(b)

Matches(b, expected) == VotedCandidates(cipher[b]) = expected

\* /benaloh_challenge answers with a match exactly when the voter's choice is
\* expected, whoever encrypted the ballot.
ChallengeTellsTheVote ==
  Held => \A b \in Encrypted, expected \in Expected :
    Plain(b) => (Matches(b, expected) <=> expected = Intended(b))

RestoredFromCompact(b) ==
  LET m == ManifestOf(b)
      restored == ExpandCompactSubmittedBallot(CompressPlaintextBallot(plain[b]), m, KeyOf[b],
                                               cipher[b].code_seed, b)
      IdsIn(list) == [i \in DOMAIN list |-> list[i].id]
      Bare(ballot) == [ballot EXCEPT !.contests = Mapped(LAMBDA c : [c EXCEPT !.data = "left out"], @)]
  IN  (/\ IdsIn(Selections(b)) = IdsIn(m.contests[1].selections)
       /\ \A s \in ToSet(Selections(b)) : s.vote \in {0, 1}) =>
        /\ restored # Refused
        /\ Bare(restored) = Bare(MakeSubmitted(cipher[b]))
        /\ WriteIns(plain[b].contests[1]) = {} => restored = MakeSubmitted(cipher[b])

\* A device may keep a ballot in compact form: a ballot that lists every selection
\* is restored as it was submitted, but for the data about write-ins.
CompactingKeepsVotes == Held => \A b \in Encrypted : RestoredFromCompact(b)

\* The ballot that stands for its id in the request: the last one.
Standing == {submitted[k] : k \in {j \in DOMAIN submitted :
               \A l \in j + 1 .. Len(submitted) : IdOf[submitted[l]] # IdOf[submitted[j]]}}

\* From the voters to the results.  The tally asks of a ballot only that its contest is
\* the election's.  When the last ballots with this contest are all under the joint
\* key, whichever quorum is present, a candidate has as many votes as there are voters
\* whose last ballot with this contest, whatever its parties, intends it, however
\* often ballots are sent and whatever ballots with another contest say; and the
\* counts, which are made of ids and not of totals, leave room for the votes.  A
\* single last ballot with this contest under another key leaves no results at all.
TotalsAreVotes ==
  (published /\ \A b \in Standing : Plain(b)) =>
    \A present \in Presents :
      LET results == Results(present)
          seats == ManifestFor(election).contests[1].number_elected
          counted == Standing \ OtherContest
      IN  IF \E b \in counted : KeyOf[b] # JointKey THEN results = Refused
          ELSE
          /\ results # Refused
          /\ \A candidate \in ToSet(election.candidates) :
               results.candidates[candidate] =
                 Cardinality({b \in counted : candidate \in Intended(b)})
          /\ SumFunction(results.candidates) <= seats * results.total_valid_ballots
          /\ results.total_valid_ballots = Cardinality(results.verified)
          /\ results.total_valid_ballots <= results.total_ballots_cast
=============================================================================

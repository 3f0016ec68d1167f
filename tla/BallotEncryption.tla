---------------------------- MODULE BallotEncryption ----------------------------
(***************************************************************************)
(* encrypt.py and what it needs of ballot.py and nonces.py: how a voter's  *)
(* selections become an encrypted ballot, when it is valid, and how it is  *)
(* decrypted with a nonce or the secret key (decrypt_with_secrets.py) or   *)
(* restored from its compact form (ballot_compact.py).                     *)
(*                                                                         *)
(* An encrypted selection is the vote it encrypts, the nonce it is         *)
(* encrypted under and the nonce field it carries; a nonce is the term it  *)
(* is derived by, a proof the claim it proves.  The key of a ballot stands *)
(* for the joint key and the extended base hash that all of it is made     *)
(* with.                                                                   *)
(***************************************************************************)
EXTENDS Manifest

Refused == [kind |-> "refused"]  \* None, or an exception
NoNonce == <<>>

SumOf(votes) == FoldLeft(LAMBDA a, b : a + b, 0, votes)
Least(numbers) == CHOOSE n \in numbers : \A k \in numbers : n <= k
Mapped(F(_), list) == [i \in DOMAIN list |-> F(list[i])]

\* The entry of a list with an id, the first one if there are more.
Indices(id, list) == {i \in DOMAIN list : list[i].id = id}
WithId(id, list) == list[Least(Indices(id, list))]

-----------------------------------------------------------------------------
\* create_plaintext_ballot: the number is compared with max_choices as it was sent.
CreatePlaintextBallot(asked, chosen, id) ==
  IF \/ ~IsInjective(chosen)
     \/ ~(ToSet(chosen) \subseteq ToSet(asked.candidates))
     \/ Len(chosen) > asked.max_choices
  THEN Refused
  ELSE LET m == CreateElectionManifest(asked.parties, asked.candidates, asked.max_choices)
           Selected(s) == [id |-> s.id, vote |-> IF s.id \in ToSet(chosen) THEN 1 ELSE 0,
                           write_in |-> "none"]
           Filled(c) == [id |-> c.id, selections |-> Mapped(Selected, c.selections)]
       IN  [id |-> id, style |-> m.styles[1].id, contests |-> Mapped(Filled, m.contests)]

\* PlaintextBallotContest.valid: the exception it raises.
ContestError(contest, description) ==
  LET votes == Mapped(LAMBDA s : s.vote, contest.selections)
      selected == Cardinality({i \in DOMAIN votes : votes[i] > 0})
  IN  CASE \/ contest.id # description.id
           \/ Len(contest.selections) > Len(description.selections)
           \/ ~ContestIsValid(description)
           \/ \E s \in ToSet(contest.selections) : Indices(s.id, description.selections) = {}
             -> "refused"
        [] OTHER ->
             IF selected < 1 THEN "nullvote"
             ELSE IF selected < description.number_elected THEN "undervote"
             ELSE IF selected > description.number_elected THEN "overvote"
             ELSE IF SumOf(votes) > description.votes_allowed THEN "overvote"
             ELSE IF selected < description.votes_allowed THEN "refused"
             ELSE "none"

\* Nonces: a value derived from the hash of a description, here its id, and a seed.
NonceOf(description, seed) == <<description.id, description.sequence, seed>>

\* CiphertextBallot.nonce_seed.  The hash of the manifest goes into it as well; no two
\* manifests are used with one nonce here.
NonceSeed(id, nonce) == <<id, nonce>>

\* make_ciphertext_ballot_selection.
MakeSelection(description, vote, placeholder, nonce) ==
  [id |-> description.id, hash |-> description, vote |-> vote, placeholder |-> placeholder,
   under |-> nonce, nonce |-> nonce]

\* PlaintextBallotSelection.is_valid.
SelectionIsValid(s, expected_id) == s.id = expected_id /\ s.vote \in {0, 1}

\* encrypt_selection.
EncryptSelection(selection, description, placeholder, nonce_seed) ==
  IF ~SelectionIsValid(selection, description.id) THEN Refused
  ELSE MakeSelection(description, selection.vote, placeholder, NonceOf(description, nonce_seed))

\* selection_from.
SelectionFrom(description, affirmative) ==
  [id |-> description.id, vote |-> IF affirmative THEN 1 ELSE 0, write_in |-> "none"]

\* Mutant of FilledPlaceholders: one more than the seats left.
FillOneMore(counted, number_elected) == {k \in 1 .. number_elected : counted + k - 2 < number_elected}

\* The placeholders that are true: one for each seat the voter left open.
FilledPlaceholders(counted, number_elected) ==
  {k \in 1 .. number_elected : counted + k - 1 < number_elected}

\* Mutant of Counted: an overvoted contest is encrypted as it is.
CountedAsGiven(contest, d, error) ==
  IF Indices(d.id, contest.selections) = {} THEN SelectionFrom(d, FALSE)
  ELSE WithId(d.id, contest.selections)

\* The selection that is encrypted for a description.
Counted(contest, d, error) ==
  IF error = "overvote" \/ Indices(d.id, contest.selections) = {} THEN SelectionFrom(d, FALSE)
  ELSE WithId(d.id, contest.selections)

WriteIns(contest) ==
  {<<s.id, s.write_in>> : s \in {t \in ToSet(contest.selections) : t.write_in # "none"}}

\* make_ciphertext_ballot_contest.
MakeContest(d, selections, nonce, data) ==
  [id |-> d.id, hash |-> ContestHash(d), selections |-> selections, nonce |-> nonce,
   proved |-> d.number_elected, data |-> data]

\* encrypt_contest.
EncryptContest(contest, internal, nonce_seed) ==
  LET d == internal.description
      error == ContestError(contest, d)
      nonce == NonceOf(d, nonce_seed)
      counted == Mapped(LAMBDA s : Counted(contest, s, error), d.selections)
      filled == FilledPlaceholders(SumOf(Mapped(LAMBDA s : s.vote, counted)), d.number_elected)
      real == [i \in DOMAIN counted |->
                 EncryptSelection(counted[i], d.selections[i], FALSE, nonce)]
      extra == [k \in DOMAIN internal.placeholders |->
                  LET p == internal.placeholders[k]
                  IN  EncryptSelection(SelectionFrom(p, k \in filled), p, TRUE, nonce)]
  IN  IF error = "refused" \/ Refused \in ToSet(real) THEN Refused
      ELSE MakeContest(d, real \o extra, nonce, [error |-> error, write_ins |-> WriteIns(contest)])

\* contest_from: a contest the ballot lacks is voted false.
ContestFrom(d) ==
  [id |-> d.id, selections |-> Mapped(LAMBDA s : SelectionFrom(s, FALSE), d.selections)]

\* encrypt_ballot_contests: contests beyond the ballot's style are left out.
EncryptBallotContests(ballot, m, nonce_seed) ==
  LET Encrypted(internal) ==
        LET d == internal.description
            use == IF Indices(d.id, ballot.contests) = {} THEN ContestFrom(d)
                   ELSE WithId(d.id, ballot.contests)
        IN  EncryptContest(use, internal, nonce_seed)
  IN  Mapped(Encrypted, ContestsFor(m, ballot.style))

\* get_ballot_code: the code of the ballot before goes into it.  The nonce stands for
\* the time and the hash of the ballot.
BallotCode(code_seed, nonce) == <<code_seed, nonce>>

\* make_ciphertext_ballot.
MakeBallot(ballot, m, key, code_seed, contests, nonce) ==
  [id |-> ballot.id, style |-> ballot.style, manifest_hash |-> ManifestHash(m), key |-> key,
   code_seed |-> code_seed, code |-> BallotCode(code_seed, nonce), contests |-> contests,
   nonce |-> nonce]

\* encrypt_ballot.
EncryptBallot(ballot, m, key, code_seed, nonce) ==
  LET contests == EncryptBallotContests(ballot, m, NonceSeed(ballot.id, nonce))
  IN  IF Refused \in ToSet(contests) THEN Refused
      ELSE MakeBallot(ballot, m, key, code_seed, contests, nonce)

\* make_ciphertext_submitted_ballot removes every nonce.
MakeSubmitted(ballot) ==
  LET Bare(c) == [c EXCEPT !.nonce = NoNonce,
                           !.selections = Mapped(LAMBDA s : [s EXCEPT !.nonce = NoNonce], @)]
  IN  [ballot EXCEPT !.nonce = NoNonce, !.contests = Mapped(Bare, @)]

-----------------------------------------------------------------------------
\* CiphertextBallotSelection.is_valid_encryption: its proof is of a 0 or a 1.
SelectionIsValidEncryption(s, hash) == hash = s.hash /\ s.vote \in {0, 1}

\* elgamal_accumulate of a contest's selections.
ElGamalAccumulate(selections) == SumOf(Mapped(LAMBDA s : s.vote, selections))

\* What the validation of a constant proof takes for sane (chaum_pedersen.py:316).
SaneConstants == 0 .. 1000 * 1000 * 1000 - 1

\* CiphertextBallotContest.is_valid_encryption: the accumulated selections are what
\* its proof claims.
ContestIsValidEncryption(c, hash) ==
  hash = c.hash /\ ElGamalAccumulate(c.selections) = c.proved /\ c.proved \in SaneConstants

\* CiphertextBallot.is_valid_encryption: no proof verifies under another key.
IsValidEncryption(ballot, manifest_hash, key) ==
  /\ manifest_hash = ballot.manifest_hash
  /\ key = ballot.key
  /\ \A c \in ToSet(ballot.contests) :
       /\ \A s \in ToSet(c.selections) : SelectionIsValidEncryption(s, s.hash)
       /\ ContestIsValidEncryption(c, c.hash)

\* contest_is_valid_for_style, placeholders counted.
ContestIsValidForStyle(c, internal) ==
  /\ c.hash = ContestHash(internal.description)
  /\ Len(c.selections) = Len(internal.description.selections) + Len(internal.placeholders)

\* selection_is_valid_for_style.
SelectionIsValidForStyle(s, description) == s.hash = description

\* ballot_is_valid_for_style: the contests of the style with their selections are
\* on the ballot.
BallotIsValidForStyle(ballot, m) ==
  \A internal \in ToSet(ContestsFor(m, ballot.style)) :
    LET d == internal.description
        c == WithId(d.id, ballot.contests)
    IN  /\ Indices(d.id, ballot.contests) # {}
        /\ ContestIsValidForStyle(c, internal)
        /\ \A s \in ToSet(d.selections) :
             /\ Indices(s.id, c.selections) # {}
             /\ SelectionIsValidForStyle(WithId(s.id, c.selections), s)

\* selection_for: among the selections and the placeholders of a contest.
SelectionFor(id, m, contest_id) ==
  LET d == WithId(contest_id, m.contests)
  IN  WithId(id, d.selections \o Placeholders(d))

\* decrypt_selection_with_nonce.  Under another nonce there is no vote to be found.
DecryptSelectionWithNonce(s, description, nonce_seed) ==
  LET nonce == NonceOf(description, nonce_seed)
  IN  IF \/ ~SelectionIsValidEncryption(s, description)
         \/ s.nonce \notin {NoNonce, nonce}
         \/ nonce # s.under
      THEN Refused ELSE [id |-> s.id, vote |-> s.vote, placeholder |-> s.placeholder]

\* decrypt_selection_with_secret.
DecryptSelectionWithSecret(s, description) ==
  IF ~SelectionIsValidEncryption(s, description) THEN Refused
  ELSE [id |-> s.id, vote |-> s.vote, placeholder |-> s.placeholder]

WithoutPlaceholders(opened) == Sifted(opened, {s \in ToSet(opened) : ~s.placeholder})

\* decrypt_contest_with_nonce.
DecryptContestWithNonce(c, m, nonce_seed) ==
  LET d == WithId(c.id, m.contests)
      seed == NonceOf(d, nonce_seed)
      opened == Mapped(LAMBDA s : DecryptSelectionWithNonce(s, SelectionFor(s.id, m, c.id), seed),
                       c.selections)
  IN  IF \/ ~ContestIsValidEncryption(c, ContestHash(d))
         \/ c.nonce \notin {NoNonce, seed}
         \/ Refused \in ToSet(opened)
      THEN Refused ELSE [id |-> c.id, selections |-> WithoutPlaceholders(opened)]

\* decrypt_contest_with_secret.
DecryptContestWithSecret(c, m) ==
  LET opened == Mapped(LAMBDA s : DecryptSelectionWithSecret(s, SelectionFor(s.id, m, c.id)),
                       c.selections)
  IN  IF ~ContestIsValidEncryption(c, ContestHash(WithId(c.id, m.contests))) \/ Refused \in ToSet(opened)
      THEN Refused ELSE [id |-> c.id, selections |-> WithoutPlaceholders(opened)]

\* decrypt_ballot_with_nonce; without a nonce it takes the one in the ballot.
DecryptBallotWithNonce(ballot, m, key, nonce) ==
  LET used == IF nonce = NoNonce THEN ballot.nonce ELSE nonce
      opened == Mapped(LAMBDA c : DecryptContestWithNonce(c, m, NonceSeed(ballot.id, used)),
                       ballot.contests)
  IN  IF ~IsValidEncryption(ballot, ManifestHash(m), key) \/ used = NoNonce \/ Refused \in ToSet(opened)
      THEN Refused ELSE [id |-> ballot.id, contests |-> opened]

\* decrypt_ballot_with_secret, with the secret that belongs to the key.
DecryptBallotWithSecret(ballot, m, key) ==
  LET opened == Mapped(LAMBDA c : DecryptContestWithSecret(c, m), ballot.contests)
  IN  IF ~IsValidEncryption(ballot, ManifestHash(m), key) \/ Refused \in ToSet(opened)
      THEN Refused ELSE [id |-> ballot.id, contests |-> opened]

\* Mutant of VotedCandidates: placeholders are taken for candidates.
AnyVoted(ballot) ==
  UNION {{s.id : s \in {t \in ToSet(c.selections) : t.nonce # NoNonce /\ t.vote = 1}} :
         c \in ToSet(ballot.contests)}

\* benaloh_challenge_service: the names whose selection has a nonce and opens as 1.
\* Of the election it is asked with only the joint key plays a part in it, which is
\* the ballot's here.
VotedCandidates(ballot) ==
  UNION {{s.id : s \in {t \in ToSet(c.selections) :
                          ~t.placeholder /\ t.nonce # NoNonce /\ t.vote = 1}} :
         c \in ToSet(ballot.contests)}

-----------------------------------------------------------------------------
\* Mutant of CompressPlaintextBallot: a bit for each vote only.
CompressVotes(ballot) ==
  LET all == FlattenSeq(Mapped(LAMBDA c : c.selections, ballot.contests))
  IN  [id |-> ballot.id, style |-> ballot.style,
       selections |-> Mapped(LAMBDA s : TRUE, Sifted(all, {s \in ToSet(all) : s.vote = 1})),
       write_ins |-> {}]

\* compress_plaintext_ballot: one bit for each selection that is there, and
\* write-ins by the number of their selection, counted from 1.
CompressPlaintextBallot(ballot) ==
  LET all == FlattenSeq(Mapped(LAMBDA c : c.selections, ballot.contests))
  IN  [id |-> ballot.id, style |-> ballot.style, selections |-> Mapped(LAMBDA s : s.vote = 1, all),
       write_ins |-> {<<i, all[i].write_in>> :
                        i \in {k \in DOMAIN all : all[k].write_in # "none"}}]

\* expand_compact_plaintext_ballot: the bits are those of the selections of all
\* contests of the manifest, and their numbers are counted from 0.  It raises when
\* there are too few.
ExpandCompactPlaintextBallot(compact, m) ==
  LET all == FlattenSeq(Mapped(LAMBDA c : c.selections, m.contests))
      Before(k) == SumOf([j \in 1 .. k - 1 |-> Len(m.contests[j].selections)])
      WriteIn(i) == LET own == {w \in compact.write_ins : w[1] = i - 1}
                    IN  IF own = {} THEN "none" ELSE (CHOOSE w \in own : TRUE)[2]
      Selection(i) == [id |-> all[i].id, vote |-> IF compact.selections[i] THEN 1 ELSE 0,
                       write_in |-> WriteIn(i)]
      Contest(k) == [id |-> m.contests[k].id,
                     selections |-> [i \in DOMAIN m.contests[k].selections |-> Selection(Before(k) + i)]]
  IN  IF Len(compact.selections) < Len(all) THEN Refused
      ELSE [id |-> compact.id, style |-> compact.style,
            contests |-> [k \in DOMAIN m.contests |-> Contest(k)]]

\* expand_compact_submitted_ballot encrypts it once more with the nonce it had.
ExpandCompactSubmittedBallot(compact, m, key, code_seed, nonce) ==
  LET ballot == ExpandCompactPlaintextBallot(compact, m)
      encrypted == EncryptBallot(ballot, m, key, code_seed, nonce)
  IN  IF ballot = Refused \/ encrypted = Refused THEN Refused ELSE MakeSubmitted(encrypted)
=============================================================================

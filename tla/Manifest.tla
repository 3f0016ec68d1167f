------------------------------- MODULE Manifest -------------------------------
(***************************************************************************)
(* manifest.py and create_election_manifest: the description of an         *)
(* election, when it is valid, and what encryption and tally make of it.   *)
(* Ids of parties and candidates are their positions, names are model      *)
(* values or strings.  A crypto_hash is the record of what is hashed, so   *)
(* two hashes are equal exactly when the described parts are.              *)
(***************************************************************************)
EXTENDS Integers, Sequences, FiniteSets, SequencesExt

LargerOf(a, b) == IF a > b THEN a ELSE b
SmallerOf(a, b) == IF a < b THEN a ELSE b

\* The entries of a list that are among some, in their order.
Sifted(list, some) == FoldLeft(LAMBDA kept, x : IF x \in some THEN Append(kept, x) ELSE kept, <<>>, list)

County == "county-1"
BallotStyle == [id |-> "ballot-style-1", units |-> <<County>>]

\* The selections are named by the candidates, whose party is the one at the
\* same position, whether or not it exists.
CreateElectionManifest(parties, candidates, max_choices) ==
  LET chosen == LargerOf(1, SmallerOf(max_choices, Len(candidates)))
      selections == [i \in DOMAIN candidates |->
                       [id |-> candidates[i], candidate |-> candidates[i], sequence |-> i - 1]]
      contest == [id |-> "contest-1", sequence |-> 0, district |-> County,
                  variation |-> IF chosen > 1 THEN "n_of_m" ELSE "one_of_m",
                  selections |-> selections, votes_allowed |-> chosen,
                  number_elected |-> chosen]
  IN  [units |-> <<County>>, styles |-> <<BallotStyle>>,
       parties |-> [i \in DOMAIN parties |-> [id |-> i, name |-> parties[i]]],
       candidates |-> [i \in DOMAIN candidates |->
                         [id |-> i, name |-> candidates[i], party |-> i]],
       contests |-> <<contest>>]

\* ContestDescription.crypto_hash: the order of the selections is part of it.
ContestHash(c) ==
  <<c.id, c.sequence, c.district, c.variation, c.number_elected, c.votes_allowed, c.selections>>

\* Manifest.crypto_hash: the candidates are not part of it.
ManifestHash(m) ==
  <<m.units, m.parties, [i \in DOMAIN m.contests |-> ContestHash(m.contests[i])], m.styles>>

ContestIsValid(c) ==
  /\ c.number_elected <= Len(c.selections)
  /\ c.number_elected <= c.votes_allowed
  /\ \A i, j \in DOMAIN c.selections :
       i # j => /\ c.selections[i].id # c.selections[j].id
                /\ c.selections[i].sequence # c.selections[j].sequence
                /\ c.selections[i].candidate # c.selections[j].candidate
  /\ c.variation \in {"one_of_m", "n_of_m"}

UniqueIds(list) == \A i, j \in DOMAIN list : i # j => list[i].id # list[j].id

\* Selection ids need not be unique across contests.
ManifestIsValid(m) ==
  /\ IsInjective(m.units)
  /\ UniqueIds(m.styles)
  /\ \A s \in ToSet(m.styles) : ToSet(s.units) \subseteq ToSet(m.units)
  /\ UniqueIds(m.parties)
  /\ UniqueIds(m.candidates)
  /\ \A c \in ToSet(m.candidates) : \E p \in ToSet(m.parties) : p.id = c.party
  /\ UniqueIds(m.contests)
  /\ \A i, j \in DOMAIN m.contests : i # j => m.contests[i].sequence # m.contests[j].sequence
  /\ \A c \in ToSet(m.contests) : ContestIsValid(c) /\ c.district \in ToSet(m.units)

\* generate_placeholder_selection_from, for a sequence order that is not taken.
PlaceholderFrom(c, sequence) ==
  LET id == c.id \o "-" \o ToString(sequence)
  IN  [id |-> id \o "-placeholder", candidate |-> id \o "-candidate", sequence |-> sequence]

\* generate_placeholder_selections_from: after the largest sequence order.  It
\* raises for a contest without selections.
Placeholders(c) ==
  LET orders == {s.sequence : s \in ToSet(c.selections)}
      last == CHOOSE n \in orders : \A k \in orders : k <= n
  IN  [i \in 1 .. c.number_elected |-> PlaceholderFrom(c, last + i)]

\* contest_description_with_placeholders_from.
WithPlaceholders(c) == [description |-> c, placeholders |-> Placeholders(c)]

\* InternalManifest: the contests with placeholders.
HasInternal(m) == \A c \in ToSet(m.contests) : Len(c.selections) > 0

InternalContests(m) == [i \in DOMAIN m.contests |-> WithPlaceholders(m.contests[i])]

\* get_contests_for.
ContestsFor(m, style) ==
  LET units == UNION {ToSet(s.units) : s \in {t \in ToSet(m.styles) : t.id = style}}
      all == InternalContests(m)
  IN  Sifted(all, {c \in ToSet(all) : c.description.district \in units})

\* ElectionBuilder: no context without a valid manifest.
Builds(m) == HasInternal(m) /\ ManifestIsValid(m)
=============================================================================

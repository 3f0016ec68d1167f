---------------------------- MODULE BallotPublisher ----------------------------
(***************************************************************************)
(* ballot_publisher.py and ballot_sanitizer.py: the published ballots of   *)
(* every worker process.  An encrypted ballot response is the identity of  *)
(* one encryption and whether its nonces are still in it; the nonces of a  *)
(* ballot are represented by that identity.                                *)
(***************************************************************************)
EXTENDS Processes, Integers, FiniteSets

CONSTANTS BallotIds, Encryptions

VARIABLES
  cast_ballots,     \* per worker and ballot id: the encryption published
  audited_ballots,  \* the same for audited ballots
  ballot_nonces     \* per worker and ballot id: whose nonces are kept

published == <<cast_ballots, audited_ballots, ballot_nonces>>

Absent == 0     \* no entry in the dictionary
NoNonces == -1  \* an empty dictionary of nonces

ASSUME PublisherAssumption ==
  /\ IsFiniteSet(BallotIds)
  /\ Encryptions \subseteq Nat \ {0}

EmptyPublished == [b \in BallotIds |-> Absent]

PublisherInit ==
  /\ cast_ballots = [w \in Workers |-> EmptyPublished]
  /\ audited_ballots = [w \in Workers |-> EmptyPublished]
  /\ ballot_nonces = [w \in Workers |-> EmptyPublished]

PublisherType ==
  /\ cast_ballots \in [Workers -> [BallotIds -> Encryptions \union {Absent}]]
  /\ audited_ballots \in [Workers -> [BallotIds -> Encryptions \union {Absent}]]
  /\ ballot_nonces \in [Workers -> [BallotIds -> Encryptions \union {Absent, NoNonces}]]

\* sanitize_ballot: what is taken out of a response.
Extracted(response) == IF response.nonces THEN response.encryption ELSE NoNonces

Sanitized(response) == [response EXCEPT !.nonces = FALSE]

\* publish_ballot stores a cast ballot in one statement ...
PublishCast(w, b, response) ==
  /\ cast_ballots' = [cast_ballots EXCEPT ![w][b] = Sanitized(response).encryption]
  /\ UNCHANGED <<audited_ballots, ballot_nonces>>

\* ... and an audited one in two.
PublishAudited(w, b, response) ==
  /\ audited_ballots' = [audited_ballots EXCEPT ![w][b] = Sanitized(response).encryption]
  /\ UNCHANGED <<cast_ballots, ballot_nonces>>

\* Mutant of PublishNonces: the nonces that are there are kept.
KeepNonces(w, b, response) ==
  /\ ballot_nonces' = [ballot_nonces EXCEPT
       ![w][b] = IF @ = Absent THEN Extracted(response) ELSE @]
  /\ UNCHANGED <<cast_ballots, audited_ballots>>

PublishNonces(w, b, response) ==
  /\ ballot_nonces' = [ballot_nonces EXCEPT ![w][b] = Extracted(response)]
  /\ UNCHANGED <<cast_ballots, audited_ballots>>

\* get_published_ballot looks at the cast ballots first.
GetPublishedBallot(w, b) ==
  IF cast_ballots[w][b] # Absent
  THEN [encryption |-> cast_ballots[w][b], nonces_available |-> FALSE, nonces |-> Absent]
  ELSE [encryption |-> audited_ballots[w][b],
        nonces_available |-> audited_ballots[w][b] # Absent,
        nonces |-> IF audited_ballots[w][b] # Absent THEN ballot_nonces[w][b] ELSE Absent]

\* get_ballot_nonces.
GetBallotNonces(w, b) ==
  IF audited_ballots[w][b] # Absent THEN ballot_nonces[w][b] ELSE Absent

\* Mutant of NoncesStatus: an empty dictionary is an answer.
NoncesStatusOfAny(w, b) ==
  LET ballot == GetPublishedBallot(w, b)
  IN  IF GetBallotNonces(w, b) # Absent THEN 200
      ELSE IF ballot.encryption # Absent /\ ~ballot.nonces_available THEN 403
      ELSE 404

\* The status of GET /ballots/<id>/nonces: an empty dictionary is no answer.
NoncesStatus(w, b) ==
  LET ballot == GetPublishedBallot(w, b)
  IN  IF GetBallotNonces(w, b) \notin {Absent, NoNonces} THEN 200
      ELSE IF ballot.encryption # Absent /\ ~ballot.nonces_available THEN 403
      ELSE 404

\* The status of GET /ballots/<id>.
BallotStatus(w, b) == IF GetPublishedBallot(w, b).encryption # Absent THEN 200 ELSE 404

CastIn(w) == {b \in BallotIds : cast_ballots[w][b] # Absent}
AuditedIn(w) == {b \in BallotIds : audited_ballots[w][b] # Absent}

\* list_published_ballots, with a filter or without: each dictionary by itself.  Of the
\* number of nonces it matters whether there are any.
ListPublishedBallots(w, status_filter) ==
  [cast_ballots |->
     IF status_filter = "AUDITED" THEN {}
     ELSE {[ballot_id |-> b, nonces_available |-> FALSE] : b \in CastIn(w)},
   audited_ballots |->
     IF status_filter = "CAST" THEN {}
     ELSE {[ballot_id |-> b, nonces_available |-> TRUE,
            any_nonces |-> ballot_nonces[w][b] \notin {Absent, NoNonces}] : b \in AuditedIn(w)}]

\* get_publication_stats: a ballot that is in both dictionaries counts twice.
GetPublicationStats(w) ==
  [total_ballots |-> Cardinality(CastIn(w)) + Cardinality(AuditedIn(w)),
   cast_ballots |-> Cardinality(CastIn(w)),
   audited_ballots |-> Cardinality(AuditedIn(w)),
   nonces_stored |-> Cardinality({b \in BallotIds : ballot_nonces[w][b] # Absent})]

ForgetPublished(w) ==
  /\ cast_ballots' = [cast_ballots EXCEPT ![w] = EmptyPublished]
  /\ audited_ballots' = [audited_ballots EXCEPT ![w] = EmptyPublished]
  /\ ballot_nonces' = [ballot_nonces EXCEPT ![w] = EmptyPublished]
=============================================================================

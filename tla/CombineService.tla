---------------------------- MODULE CombineService ----------------------------
(***************************************************************************)
(* The /combine_decryption_shares endpoint: api.py checks a request and    *)
(* services/combine_decryption_shares.py drives a new DecryptionMediator   *)
(* through it.  The request names the available guardians and, for every   *)
(* missing one, the guardians whose compensated shares it carries, if any; *)
(* nothing relates the latter to the former.                               *)
(***************************************************************************)
EXTENDS DecryptionMediator

VARIABLES
  request,        \* the request being answered
  reconstructed,  \* items whose missing shares have been reconstructed
  answer          \* "none" until the request is answered

serviceVars == <<vars, request, reconstructed, answer>>

Requests ==
  UNION {[available : {as},
          by : [Guardians \ as -> SUBSET Guardians]] : as \in SUBSET Guardians}

Missing == Guardians \ request.available

\* "Validate we have enough guardians", and "Missing compensated shares"
Enough ==
  /\ Cardinality(request.available) >= Quorum
  /\ \A m \in Missing : request.by[m] # {}

Refuse ==
  /\ answer = "none"
  /\ ~Enough
  /\ answer' = "error"
  /\ UNCHANGED <<vars, request, reconstructed>>

AnnounceAvailable(g) ==
  /\ answer = "none" /\ Enough
  /\ g \in request.available
  /\ Announce(g, Ballots)
  /\ UNCHANGED <<request, reconstructed, answer>>

ReportMissing(m) ==
  /\ answer = "none" /\ Enough
  /\ available = request.available
  /\ m \in Missing \ missing
  /\ AnnounceMissing(m)
  /\ UNCHANGED <<request, reconstructed, answer>>

AllReported == available = request.available /\ missing = Missing

Receive(g, m, i) ==
  /\ answer = "none"
  /\ AllReported
  /\ m \in Missing /\ g \in request.by[m]
  /\ <<g, m>> \notin compensated[i]
  /\ ReceiveCompensation(g, m, i)
  /\ UNCHANGED <<request, reconstructed, answer>>

AllReceived ==
  /\ AllReported
  /\ \A m \in Missing, i \in Items : \A g \in request.by[m] : <<g, m>> \in compensated[i]

\* Mutant of ReconstructItem: an exception is caught and the call repeated.
RetryReconstruct(i) ==
  /\ answer = "none"
  /\ AllReceived
  /\ i \notin reconstructed
  /\ Reconstruct(i)
  /\ reconstructed' = IF \E m \in ToReconstruct(i) : Raises(i, m)
                       THEN reconstructed ELSE reconstructed \union {i}
  /\ UNCHANGED <<request, answer>>

\* An exception of the mediator ends the request.
ReconstructItem(i) ==
  /\ answer = "none"
  /\ AllReceived
  /\ i \notin reconstructed
  /\ Reconstruct(i)
  /\ reconstructed' = reconstructed \union {i}
  /\ answer' = IF \E m \in ToReconstruct(i) : Raises(i, m) THEN "error" ELSE answer
  /\ UNCHANGED request

\* The tally decides the answer; a wrong share of it makes a wrong count, or
\* one that the discrete logarithm does not find.  "Announcement not complete"
\* and "Failed to decrypt tally" are errors.
Answer ==
  /\ answer = "none"
  /\ reconstructed = Items
  /\ IF AnnouncementComplete /\ ReadyToDecrypt(Tally)
     THEN GetPlaintext(Tally) /\ answer' = plaintext'[Tally]
     ELSE answer' = "error" /\ UNCHANGED vars
  /\ UNCHANGED <<request, reconstructed>>

ServiceNext ==
  \/ Refuse
  \/ \E g \in Guardians : AnnounceAvailable(g) \/ ReportMissing(g)
  \/ \E g, m \in Guardians, i \in Items : Receive(g, m, i)
  \/ \E i \in Items : ReconstructItem(i)
  \/ Answer

-----------------------------------------------------------------------------
(* Properties. *)

\* What the answer is, for every request: it is exact if a quorum is available
\* and all of them, and nobody else, have compensated for everyone missing.
\* Someone else's share ends in an error, an absent one in a wrong count.
AnswerAsRequested ==
  answer # "none" =>
    answer =
      IF \/ Cardinality(request.available) < Quorum
         \/ \E m \in Missing : request.by[m] = {} \/ ~(request.by[m] \subseteq request.available)
      THEN "error"
      ELSE IF \A m \in Missing : request.by[m] = request.available
           THEN "decrypted" ELSE "garbage"
=============================================================================

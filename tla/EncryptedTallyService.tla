------------------------- MODULE EncryptedTallyService -------------------------
(***************************************************************************)
(* services/create_encrypted_tally.py: a request's ballots are all         *)
(* submitted as cast without asking whether they are valid or already      *)
(* there, stored by id and tallied in one batch.                           *)
(***************************************************************************)
EXTENDS Tally, Sequences

CONSTANT MaxRequest  \* bound: ballots in a request

ASSUME MaxRequestAssumption == MaxRequest \in Nat \ {0}

VARIABLES
  request,    \* the ballots of the request that are not submitted yet
  submitted,  \* submitted_ballots
  published   \* the request has been answered

serviceVars == <<vars, request, submitted, published>>

ServiceInit ==
  /\ Init
  /\ request = <<>>
  /\ submitted = <<>>
  /\ published = FALSE

\* A request arrives; an empty one is refused.
Receive(ballots) ==
  /\ request = <<>> /\ submitted = <<>>
  /\ ballots # <<>>
  /\ request' = ballots
  /\ UNCHANGED <<vars, submitted, published>>

\* Mutant of SubmitNext: the first ballot of an id is kept.
SubmitIfAbsent ==
  /\ request # <<>>
  /\ LET b == Head(request)
     IN  store' = IF store[IdOf[b]] # NoEntry THEN store
                  ELSE [store EXCEPT ![IdOf[b]] = [ballot |-> b, state |-> "CAST"]]
  /\ submitted' = Append(submitted, Head(request))
  /\ request' = Tail(request)
  /\ UNCHANGED <<tally, published>>

\* submit_ballot and DataStore.set: the entry of an id is replaced.
SubmitNext ==
  /\ request # <<>>
  /\ LET b == Head(request)
     IN  store' = [store EXCEPT ![IdOf[b]] = [ballot |-> b, state |-> "CAST"]]
  /\ submitted' = Append(submitted, Head(request))
  /\ request' = Tail(request)
  /\ UNCHANGED <<tally, published>>

\* batch_append of the store, without validating.
TallyAll ==
  /\ request = <<>> /\ submitted # <<>>
  /\ ~published
  /\ BatchAppend(Stored, FALSE)
  /\ published' = TRUE
  /\ UNCHANGED <<store, request, submitted>>

ServiceNext == SubmitNext \/ TallyAll

-----------------------------------------------------------------------------
(* Properties. *)

\* What a published tally holds, whatever ballots were sent: of the ballots that
\* bear one id the last, if it is valid for its style, once in each of its
\* contests; and nothing else.
LastOfEachIdCounted ==
  published =>
    \A c \in Contests, b \in Ballots :
      sums[c][b] =
        IF /\ c \in ContestsOn(b)
           /\ ValidForStyle(b)
           /\ \E k \in DOMAIN submitted :
                /\ submitted[k] = b
                /\ \A j \in k + 1 .. Len(submitted) : IdOf[submitted[j]] # IdOf[b]
        THEN 1 ELSE 0
=============================================================================

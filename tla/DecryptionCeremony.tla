-------------------------- MODULE DecryptionCeremony --------------------------
(***************************************************************************)
(* electionguard_tools' TallyCeremonyOrchestrator drives the mediator.     *)
(* perform_compensated_decryption_setup announces the guardians it was     *)
(* given, reports the others missing, asks each of its guardians for the   *)
(* shares of each missing one, and has the mediator combine what came in.  *)
(* It checks nothing on the way: a guardian that lacks the other one's     *)
(* backup returns None and is passed over, the guardians need not be a     *)
(* quorum, and the mediator stays open to other callers, who may announce  *)
(* guardians, report them missing or ask for the plaintext at any time.    *)
(***************************************************************************)
EXTENDS DecryptionMediator

VARIABLES
  attending,   \* available_guardians, the guardians the orchestrator was given
  stage,       \* where perform_compensated_decryption_setup stands
  toExchange,  \* the pairs that the nested loops have still to go through
  toCombine,   \* the items whose missing shares have still to be reconstructed
  withheld,    \* history: the pairs for which the compensated share was None
  outsiders    \* history: the other guardians that announced before the end

ceremony == <<attending, stage, toExchange, toCombine, withheld, outsiders>>
ceremonyVars == <<available, missing, shares, compensated, plaintext, ceremony>>

CeremonyInit ==
  /\ Init
  /\ attending \in SUBSET Guardians
  /\ stage = "announcement"
  /\ toExchange = {}
  /\ toCombine = Items
  /\ withheld = {}
  /\ outsiders = {}

\* A guardian announces, called by the orchestrator or by someone else.
AnnounceOne(g, bs) ==
  /\ Announce(g, bs)
  /\ outsiders' = outsiders \union
       (IF toCombine = {} THEN {} ELSE {g} \ attending)
  /\ UNCHANGED <<attending, stage, toExchange, toCombine, withheld>>

\* Mutant of ToAsk: everyone is asked about everyone.
EveryPair(ms) == attending \X Guardians

\* The two loops, over the available guardians and the missing ones.
ToAsk(ms) == attending \X ms

\* Every guardian it was not given is announced missing; then the list of the
\* missing is fetched, once.
ReportOthers ==
  /\ stage = "announcement"
  /\ attending \subseteq available
  /\ missing' = missing \union ((Guardians \ attending) \ available)
  /\ toExchange' = ToAsk(missing')
  /\ stage' = "exchange"
  /\ UNCHANGED <<available, shares, compensated, plaintext,
                 attending, toCombine, withheld, outsiders>>

\* One turn of the loops: g computes its shares of every item for m, or returns
\* None for all of them, for it lacks the key or the backup of m.
Exchange(g, m) ==
  /\ stage = "exchange"
  /\ <<g, m>> \in toExchange
  /\ toExchange' = toExchange \ {<<g, m>>}
  /\ \/ /\ compensated' = [i \in Items |-> compensated[i] \union {<<g, m>>}]
        /\ UNCHANGED withheld
     \/ /\ withheld' = withheld \union {<<g, m>>}
        /\ UNCHANGED compensated
  /\ UNCHANGED <<available, missing, shares, plaintext,
                 attending, stage, toCombine, outsiders>>

\* reconstruct_shares_for_tally, then reconstruct_shares_for_ballots, ballot by
\* ballot; an exception ends the call.
CombineNext(i) ==
  /\ stage = "exchange"
  /\ i \in toCombine
  /\ i # Tally => Tally \notin toCombine
  /\ Reconstruct(i)
  /\ IF Failing(i) = {}
       THEN toCombine' = toCombine \ {i} /\ UNCHANGED stage
       ELSE stage' = "raised" /\ UNCHANGED toCombine
  /\ UNCHANGED <<attending, toExchange, withheld, outsiders>>

\* Mutant of Combine: in the middle of the loops.
CombineEarly(i) == CombineNext(i)

Combine(i) == toExchange = {} /\ CombineNext(i)

Orchestrator ==
  \/ \E g \in attending, bs \in SUBSET Ballots : AnnounceOne(g, bs)
  \/ ReportOthers
  \/ \E g, m \in Guardians : Exchange(g, m)
  \/ \E i \in Items : Combine(i)

Others ==
  /\ \/ \E g \in Guardians : AnnounceMissing(g)
     \/ \E gs \in SUBSET Guardians : ValidateMissing(gs)
     \/ \E i \in Items : GetPlaintext(i)
  /\ UNCHANGED ceremony

CeremonyNext ==
  \/ Orchestrator
  \/ Others
  \/ \E g \in Guardians \ attending, bs \in SUBSET Ballots : AnnounceOne(g, bs)

CeremonySpec == CeremonyInit /\ [][CeremonyNext]_ceremonyVars

\* The orchestrator's call runs to its end, and then the plaintexts are asked
\* for.  Nobody else has to do anything.
FairCeremonySpec ==
  /\ CeremonySpec
  /\ WF_ceremonyVars(Orchestrator)
  /\ \A i \in Items : WF_ceremonyVars(GetPlaintext(i) /\ UNCHANGED ceremony)

-----------------------------------------------------------------------------
(* Properties. *)

\* What the orchestrator leaves to its caller: its guardians are a quorum, each
\* holds the backups of the missing ones, and nobody else turns up before it
\* is through.
Disturbed ==
  \/ Cardinality(attending) < Quorum
  \/ withheld # {}
  \/ outsiders # {}

\* A wrong plaintext comes out only of a ceremony that was disturbed in one of
\* these ways: reporting in any order, validations, and guardians that announce
\* after the shares are combined never spoil it.
NeverGarbage == (\E i \in Items : plaintext[i] = "garbage") => Disturbed

\* The ceremony keeps the promise of threshold decryption, disturbed or not.
Quorums == {Q \in SUBSET Guardians : Cardinality(Q) >= Quorum}
Threshold == INSTANCE ThresholdDecryption
  WITH present <- available, opened <- plaintext, disturbed <- Disturbed

OpensByQuorum == Threshold!Spec

\* The tally is decrypted in the end, unless the ceremony was disturbed.
TallyIsDecrypted == <>(plaintext[Tally] = "decrypted" \/ Disturbed)

\* And so is every ballot of which all available guardians gave a share.
BallotsAreDecrypted ==
  \A b \in Ballots :
    <>(plaintext[b] = "decrypted" \/ Disturbed \/ ~(available \subseteq Present(b)))
=============================================================================

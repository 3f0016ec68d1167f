--------------------------- MODULE KeyCeremonyRounds ---------------------------
(***************************************************************************)
(* The callers of the key ceremony: perform_full_ceremony of               *)
(* electionguard_tools' KeyCeremonyOrchestrator and setup_guardians_service*)
(* take the guardians they were given through the rounds once, each round  *)
(* a loop over the guardians, and then the joint key is published.  A      *)
(* round that gets None raises, and nothing is tried again.                *)
(*                                                                         *)
(* The mediator and the guardians may have been used before: a ceremony    *)
(* was finished, or broken off anywhere, with the same guardians or with   *)
(* others; some were created anew since; the mediator was reset or not.    *)
(***************************************************************************)
EXTENDS KeyCeremony

CONSTANT MaxCeremonies  \* bound: ceremonies with one mediator

ASSUME CeremoniesAssumption == MaxCeremonies \in Nat

VARIABLES
  participants,  \* the guardians the caller was given
  stage,         \* the loop the caller is in, or how the ceremony ended
  toDo,          \* the guardians that the loop has still to go through
  clean,         \* history: nobody else was known when the ceremony began
  ceremonies     \* number of ceremonies begun

caller == <<participants, stage, toDo, clean, ceremonies>>
roundVars == <<vars, caller>>

Loops == {"announce", "share keys", "send backups", "share backups", "verify"}
Rounds == Loops \union {"publish"}
Ends == {"unused", "broken off", "published", "raised"}

\* The loop that follows another one.
Following(loop) ==
  CASE loop = "announce" -> "share keys"
    [] loop = "share keys" -> "send backups"
    [] loop = "send backups" -> "share backups"
    [] loop = "share backups" -> "verify"
    [] loop = "verify" -> "publish"

KnownTo(g) == {h \in Guardians : guardianKeys[g][h] # NoKey}

\* Neither the mediator nor a guardian of P has anything of somebody else.
OnlyThese(P) ==
  /\ Announced \subseteq P
  /\ \A p \in Received \union Verified : {p[1], p[2]} \subseteq P
  /\ \A g \in P : KnownTo(g) \subseteq P

RoundsInit ==
  /\ Init
  /\ participants = {}
  /\ stage = "unused"
  /\ toDo = {}
  /\ clean = TRUE
  /\ ceremonies = 0

-----------------------------------------------------------------------------
(* Between two ceremonies. *)

Begin(P) ==
  /\ stage \in Ends
  /\ Cardinality(P) = NumberOfGuardians
  /\ ceremonies < MaxCeremonies
  /\ ceremonies' = ceremonies + 1
  /\ participants' = P
  /\ stage' = "announce"
  /\ toDo' = P
  /\ clean' = OnlyThese(P)
  /\ UNCHANGED vars

\* A guardian is created anew, or the mediator is reset.
Prepare ==
  /\ stage \in Ends
  /\ (\E g \in Guardians : Regenerate(g)) \/ Reset
  /\ stage' = "unused"
  /\ UNCHANGED <<participants, toDo, clean, ceremonies>>

BreakOff ==
  /\ stage \in Rounds
  /\ stage' = "broken off"
  /\ UNCHANGED <<vars, participants, toDo, clean, ceremonies>>

-----------------------------------------------------------------------------
(* The rounds. *)

\* g's turn in a loop is over; after the last one the next loop begins.
TurnOver(g) ==
  /\ toDo' = IF toDo = {g} THEN participants ELSE toDo \ {g}
  /\ stage' = IF toDo = {g} THEN Following(stage) ELSE stage
  /\ UNCHANGED <<participants, clean, ceremonies>>

Raise ==
  /\ stage' = "raised"
  /\ UNCHANGED <<vars, participants, toDo, clean, ceremonies>>

AnnounceTurn(g) ==
  /\ stage = "announce"
  /\ Announce(g)
  /\ TurnOver(g)

ShareKeysTurn(g) ==
  /\ stage = "share keys"
  /\ IF AllGuardiansAnnounced THEN SaveAnnouncedKeys(g) /\ TurnOver(g) ELSE Raise

\* Mutant of Sent: the backups are sent before they are generated.
SentBefore(g) == WithBackups(g, backupsToShare[g])

Sent(g) == WithBackups(g, Generated(g))

\* The guardian generates its backups and gives them all to the mediator.
SendBackupsTurn(g) ==
  /\ stage = "send backups"
  /\ backupsToShare' = [backupsToShare EXCEPT ![g] = Generated(g)]
  /\ electionPartialKeyBackups' =
       IF AllGuardiansAnnounced THEN Sent(g) ELSE electionPartialKeyBackups
  /\ UNCHANGED <<key, guardianKeys, guardianBackups, inFlight, electionPublicKeys,
                 electionPartialKeyVerifications, jointKey, challenged, resets>>
  /\ TurnOver(g)

ShareBackupsTurn(g) ==
  /\ stage = "share backups"
  /\ IF ShareBackups(g) = "backups" THEN SaveBackups(g) /\ TurnOver(g) ELSE Raise

\* Mutant of Reported: the first verification of a backup is kept.
ReportedOnce(d) ==
  [p \in Pairs |->
     IF p \notin Verified /\ p[2] = d /\ p[1] \in participants THEN Verification(p[1], d)
     ELSE electionPartialKeyVerifications[p]]

\* The mediator's verifications with those of designated guardian d.
Reported(d) ==
  [p \in Pairs |->
     IF p[2] = d /\ p[1] \in participants THEN Verification(p[1], d)
     ELSE electionPartialKeyVerifications[p]]

\* d verifies the backups of the other participants and reports to the mediator.
VerifyTurn(d) ==
  /\ stage = "verify"
  /\ IF \A o \in participants \ {d} : CanVerify(o, d)
     THEN /\ electionPartialKeyVerifications' =
               IF AllBackupsAvailable THEN Reported(d) ELSE electionPartialKeyVerifications
          /\ UNCHANGED <<guardianVars, inFlight, electionPublicKeys,
                         electionPartialKeyBackups, jointKey, challenged, resets>>
          /\ TurnOver(d)
     ELSE Raise

Publish ==
  /\ stage = "publish"
  /\ IF AllBackupsVerified
     THEN /\ PublishJointKey
          /\ stage' = "published"
          /\ UNCHANGED <<participants, toDo, clean, ceremonies>>
     ELSE Raise

Turn(g) ==
  \/ AnnounceTurn(g)
  \/ ShareKeysTurn(g)
  \/ SendBackupsTurn(g)
  \/ ShareBackupsTurn(g)
  \/ VerifyTurn(g)

Step == (\E g \in toDo : Turn(g)) \/ Publish

RoundsNext ==
  \/ \E P \in SUBSET Guardians : Begin(P)
  \/ Prepare
  \/ BreakOff
  \/ Step

RoundsSpec == RoundsInit /\ [][RoundsNext]_roundVars

\* The loops run on until they end or are broken off; nothing else has to happen.
FairRoundsSpec == RoundsSpec /\ WF_roundVars(Step)

-----------------------------------------------------------------------------
(* Properties. *)

\* Whatever the mediator and the guardians were used for before, a joint key
\* that is published combines the current keys of the participants, nobody
\* else's; each of them holds a backup of each other one that decrypts and lies
\* on its current polynomial; and it is these backups that were verified.
PublishedKeyIsUsable ==
  stage = "published" =>
    /\ \A g \in Guardians : jointKey[g] = IF g \in participants THEN key[g] ELSE NoKey
    /\ \A p \in Pairs : {p[1], p[2]} \subseteq participants =>
         /\ guardianBackups[p[2]][p[1]] =
              [polynomial |-> key[p[1]], encryptedTo |-> key[p[2]]]
         /\ electionPartialKeyVerifications[p] =
              [verified |-> TRUE, subject |-> key[p[1]]]

\* A ceremony raises only on account of others: the mediator, or one of the
\* participants, holds something of a guardian that is not among them.  What the
\* participants themselves left behind is replaced in time: every lookup in
\* share_backups succeeds and no backup fails to verify.
RaisesForOthersOnly == stage = "raised" => ~clean

\* A ceremony that knows nobody else publishes the joint key in the end, unless
\* it is broken off.
CleanCeremonyPublishes ==
  (stage = "announce" /\ clean) ~> (stage \in {"published", "broken off"})
=============================================================================

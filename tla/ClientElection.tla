----------------------------- MODULE ClientElection -----------------------------
(***************************************************************************)
(* An election whose guardians keep their keys on their own machines and   *)
(* use the stateless endpoints of api.py.  Either /setup_guardians hands   *)
(* out everything, or each guardian generates credentials and backups for  *)
(* the others and the public keys are combined.  A private key is stored   *)
(* encrypted, and in the end the guardians that can still open theirs      *)
(* compute shares, their own and compensated ones, which                   *)
(* /combine_decryption_shares combines.  Only /setup_guardians verifies    *)
(* backups, and nothing stops a guardian from generating credentials again *)
(* at any time.                                                            *)
(*                                                                         *)
(* A key, with its polynomial, is the guardian and the number of the call  *)
(* that generated it; a coordinate is the polynomial and the guardian at   *)
(* whose sequence order it was computed.                                   *)
(***************************************************************************)
EXTENDS CombineService, Credentials

CONSTANTS
  MaxKeys,      \* bound: how many credentials each guardian generates
  MaxProcess    \* bound: processes the service has run in

ASSUME ClientAssumption ==
  /\ MaxKeys \in [Guardians -> Nat \ {0}]
  /\ MaxProcess \in Nat \ {0}

VARIABLES
  guardian_data,  \* per guardian: the key and the backups generated with it
  stored,         \* per guardian: the private key as /api/encrypt returned it
  joint,          \* per guardian: the public key that was combined
  environment,    \* whether MASTER_KEY_PQ is set
  process         \* the process the service runs in

clientVars == <<guardian_data, stored, joint, environment, process>>
electionVars == <<serviceVars, clientVars>>

NoKey == 0
NoBackup == [status |-> "none"]
NoCoordinate == [status |-> "error"]
NoRequest == [available |-> {}, by |-> <<>>]
NoJoint == [g \in Guardians |-> NoKey]

Coordinate(g, k, x) == [polynomial |-> <<g, k>>, at |-> x]

-----------------------------------------------------------------------------
(* The endpoints. *)

\* /generate_guardian_credentials: "backups: {}".
GenerateGuardianCredentials(k) == [key |-> k, backups |-> [x \in Guardians |-> NoBackup]]

\* /generate_guardian_backup_shares by g: each coordinate is encrypted with the
\* public key the recipient was listed with.
GenerateGuardianBackupShares(g, data, public_keys) ==
  [data EXCEPT !.backups = [x \in Guardians |->
     IF x \in DOMAIN public_keys
     THEN [key |-> <<x, public_keys[x]>>, coordinate |-> Coordinate(g, data.key, x)]
     ELSE NoBackup]]

\* /setup_guardians: a whole ceremony in one call.  What a guardian is handed out are
\* the backups it has received, by who sent them.
SetupGuardiansService ==
  LET sent == [g \in Guardians |->
        GenerateGuardianBackupShares(g, GenerateGuardianCredentials(1),
                                     [x \in Guardians \ {g} |-> 1])]
  IN  [g \in Guardians |->
         [sent[g] EXCEPT !.backups = [x \in Guardians |-> sent[x].backups[g]]]]

\* Mutant of DecryptBackup: the MAC is not compared; the wrong key yields some
\* number.
DecryptUnauthenticated(backup, g, k) ==
  IF backup.key = <<g, k>> THEN backup.coordinate ELSE Coordinate(g, NoKey, g)

\* decrypt_backup: None unless the MAC agrees.
DecryptBackup(backup, g, k) ==
  IF backup.key = <<g, k>> THEN backup.coordinate ELSE NoCoordinate

\* The missing guardian's backup for the available one, or else, for "older
\* persisted payload shapes", the available one's for the missing one.
BackupFor(a, m) ==
  LET backup == guardian_data[m].backups[a]
  IN  IF backup # NoBackup THEN backup ELSE guardian_data[a].backups[m]

\* /create_compensated_decryption: the coordinate used in the share.
CreateCompensatedDecryption(a, m) ==
  IF BackupFor(a, m) = NoBackup THEN NoCoordinate
  ELSE DecryptBackup(BackupFor(a, m), a, guardian_data[a].key)

\* /api/decrypt with both parts of g's storage.
Recovered(g) ==
  DecryptIt(stored[g].data, stored[g].credentials, MasterKey(environment, process))

\* The guardians that have a key to call the decryption endpoints with.
WithKey == {g \in Guardians : guardian_data[g].key # NoKey /\ Recovered(g) # Failed}

Compensating(m) == {a \in WithKey \ {m} : CreateCompensatedDecryption(a, m) # NoCoordinate}

-----------------------------------------------------------------------------
ElectionInit ==
  /\ Init
  /\ request = NoRequest
  /\ reconstructed = {}
  /\ answer = "none"
  /\ guardian_data = [g \in Guardians |-> GenerateGuardianCredentials(NoKey)]
  /\ stored = [g \in Guardians |-> Failed]
  /\ joint = NoJoint
  /\ environment \in BOOLEAN
  /\ process = 1

Store(g, k) == EncryptIt(<<g, k>>, "password", MasterKey(environment, process))

\* Instead of everything up to the joint key.
SetupGuardians ==
  /\ request = NoRequest /\ joint = NoJoint
  /\ \A g \in Guardians : guardian_data[g].key = NoKey
  /\ guardian_data' = SetupGuardiansService
  /\ joint' = [g \in Guardians |-> 1]
  /\ stored' = [g \in Guardians |-> Store(g, 1)]
  /\ UNCHANGED <<serviceVars, environment, process>>

\* For the first time or again; the private key is stored encrypted.
GenerateCredentials(g) ==
  LET k == guardian_data[g].key + 1
  IN  /\ request = NoRequest
      /\ k <= MaxKeys[g]
      /\ guardian_data' = [guardian_data EXCEPT ![g] = GenerateGuardianCredentials(k)]
      /\ stored' = [stored EXCEPT ![g] = Store(g, k)]
      /\ UNCHANGED <<serviceVars, joint, environment, process>>

\* The public keys are those the others have published so far, now or earlier.
PublicKeys(gs) ==
  {keys \in [gs -> UNION {1 .. MaxKeys[g] : g \in gs}] :
     \A g \in gs : keys[g] <= guardian_data[g].key}

GenerateBackups(g) ==
  /\ request = NoRequest
  /\ guardian_data[g].key # NoKey
  /\ \E keys \in PublicKeys(Guardians \ {g}) :
       guardian_data' =
         [guardian_data EXCEPT ![g] = GenerateGuardianBackupShares(g, @, keys)]
  /\ UNCHANGED <<serviceVars, stored, joint, environment, process>>

\* /combine_guardian_public_keys, once for the election.
CombinePublicKeys ==
  /\ joint = NoJoint
  /\ joint' \in PublicKeys(Guardians)
  /\ UNCHANGED <<serviceVars, guardian_data, stored, environment, process>>

Restart ==
  /\ request = NoRequest
  /\ process < MaxProcess
  /\ process' = process + 1
  /\ UNCHANGED <<serviceVars, guardian_data, stored, joint, environment>>

\* The shares of some guardians; the files they come from stay as they are.
SendRequest ==
  /\ request = NoRequest
  /\ joint # NoJoint
  /\ request' \in {r \in Requests :
       /\ r.available \subseteq WithKey
       /\ \A m \in DOMAIN r.by : r.by[m] \subseteq Compensating(m)}
  /\ UNCHANGED <<vars, reconstructed, answer, clientVars>>

Serve ==
  /\ request # NoRequest
  /\ ServiceNext
  /\ UNCHANGED clientVars

ElectionNext ==
  \/ SetupGuardians
  \/ \E g \in Guardians : GenerateCredentials(g) \/ GenerateBackups(g)
  \/ CombinePublicKeys \/ Restart \/ SendRequest
  \/ Serve

\* Nobody has to send a request; the service is one sequential call.
ElectionSpec == ElectionInit /\ [][ElectionNext]_electionVars /\ WF_electionVars(Serve)

-----------------------------------------------------------------------------
(* Properties. *)

\* Every request is answered, also one with which the mediator raises.
EveryRequestAnswered == (request # NoRequest) ~> (answer # "none")

\* What is in the answer: the mediator takes every share for one of the key
\* that encrypted the ballots, since it does not check the proofs.
Result ==
  IF /\ answer = "decrypted"
     /\ \/ \E g \in request.available : guardian_data[g].key # joint[g]
        \/ \E m \in Missing : \E a \in request.by[m] :
             CreateCompensatedDecryption(a, m) # Coordinate(m, joint[m], a)
  THEN "garbage" ELSE answer

\* Whoever of the missing has sent no backups; then only those that
\* /setup_guardians made can be in use.
SentNothing(m) == \A x \in Guardians : guardian_data[m].backups[x] = NoBackup

\* Although hardly any backup is ever verified, an election in which everyone
\* available compensates for everyone missing is counted exactly when every guardian
\* still has the key that was combined, or is missing and those who compensate still
\* have its backups from the ceremony: a backup that cannot be used
\* shows in a share that is absent, never in a wrong one.
ElectionIsCounted ==
  (/\ answer # "none"
   /\ Cardinality(request.available) >= Quorum
   /\ \A m \in Missing : request.by[m] = request.available)
    => Result = IF \A g \in Guardians :
                     guardian_data[g].key = joint[g] \/ (g \in Missing /\ SentNothing(g))
                THEN "decrypted" ELSE "garbage"

\* "Compensated decryption failed" is what a test says when, with what
\* /setup_guardians has handed out, an available guardian cannot compensate for a
\* missing one (test-api.py:264).
SetupAllowsCompensation ==
  [][SetupGuardians =>
       \A m \in Guardians : \A a \in Guardians \ {m} :
         CreateCompensatedDecryption(a, m)' = Coordinate(m, joint'[m], a)]_electionVars

\* "data will be lost on restart": the private key comes back from storage if
\* and only if the master key is in the environment or there was no restart
\* since; the data of one guardian never opens with another one's credentials.
KeysComeBack ==
  \A g, h \in {x \in Guardians : guardian_data[x].key # NoKey} :
    LET master == stored[g].credentials.encrypted_password.key
        back == DecryptIt(stored[g].data, stored[h].credentials, MasterKey(environment, process))
    IN  IF g = h /\ (environment \/ master = process)
        THEN back = [status |-> "success", private_key |-> <<g, guardian_data[g].key>>]
        ELSE back = Failed
=============================================================================

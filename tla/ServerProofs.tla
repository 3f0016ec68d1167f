------------------------------ MODULE ServerProofs ------------------------------
(***************************************************************************)
(* Proofs about Server, for any number of workers, threads, requests and   *)
(* restarts, any elections that are asked for and any bound on the table.  *)
(***************************************************************************)
EXTENDS Server, FoldProofs, SequenceTheorems

(***************************************************************************)
(* Types.                                                                  *)
(***************************************************************************)
Responses == [encryption : Encryptions, nonces : BOOLEAN]

\* What a tracked request carries, and a request to publish.
TrackedTasks ==
  [kind : {"ballot", "tally"}, asked : Asked, ballot : BallotIds \union {0},
   status : {"CAST", "AUDITED", "none"}, sent : SUBSET Nat, counted : SUBSET Nat,
   response : Responses \union {Nothing}, worker : Workers, id : RequestIds,
   manifest : Manifests \union {Nothing}, result : {"none", "success", "error"},
   answer : {"none", "success", "error", "exception"}]
PublishTasks ==
  [kind : {"publish"}, ballot : BallotIds, status : {"CAST", "AUDITED"}, worker : Workers,
   response : Responses]

EncryptedBallots == [ballot : BallotIds, asked : Asked, manifest : Manifests]

\* The task of a thread goes with its place in the code.
TaskInv(t) ==
  /\ pc[t] = "idle" <=> task[t] = NoTask
  /\ pc[t] \in {"context", "manifest", "create", "build", "finish", "cleanup"} =>
       task[t] \in TrackedTasks
  /\ task[t].kind = "ballot" => task[t].ballot \in BallotIds /\ task[t].status # "none"
  /\ pc[t] = "build" => task[t].manifest \in Manifests
  /\ pc[t] \in {"publish", "nonces"} => task[t].kind \in {"ballot", "publish"}
  /\ (pc[t] = "publish" /\ task[t].kind = "ballot") => task[t].manifest \in Manifests
  /\ pc[t] = "nonces" => task[t].response \in Responses /\ task[t].status = "AUDITED"

ServerType ==
  /\ request_tracking \in TableType
  /\ manifest_cache \in CacheType
  /\ context_cache \in CacheType
  /\ PublisherType
  /\ pc \in [Threads -> Steps]
  /\ task \in [Threads -> TrackedTasks \union PublishTasks \union {NoTask}]
  /\ \A t \in Threads : TaskInv(t)
  /\ encrypted \in Seq(EncryptedBallots)
  /\ requested \in SUBSET Asked
  /\ publications \in [Workers -> [BallotIds -> SUBSET {"CAST", "AUDITED"}]]
  /\ overlapped \in SUBSET (Workers \X BallotIds)

\* The requests that will still encrypt a ballot.
Pending ==
  {t \in Threads : /\ pc[t] \in {"context", "manifest", "create", "build", "publish"}
                   /\ task[t].kind = "ballot"}

\* Why the encryptions stay within the requests.
EncryptionsInv ==
  /\ served \in 0 .. MaxRequests
  /\ Len(encrypted) + Cardinality(Pending) <= served

\* The threads that have stored an audited ballot and will store its nonces.
Storing(w, b) == {t \in Threads : /\ pc[t] = "nonces" /\ task[t].worker = w
                                  /\ task[t].ballot = b}

\* What has been published is what the dictionaries have, and a thread that is
\* between the two statements is alone, unless that is noted.
PublishedOf(w, b) ==
  /\ "CAST" \in publications[w][b] <=> cast_ballots[w][b] # Absent
  /\ "AUDITED" \in publications[w][b] <=> audited_ballots[w][b] # Absent
  /\ ballot_nonces[w][b] # Absent => audited_ballots[w][b] # Absent
  /\ (audited_ballots[w][b] # Absent /\ Storing(w, b) = {}) => ballot_nonces[w][b] # Absent
  /\ (<<w, b>> \notin overlapped /\ Storing(w, b) = {}) =>
       ballot_nonces[w][b] \in {audited_ballots[w][b], NoNonces, Absent}
  /\ \A t \in Storing(w, b) :
       /\ audited_ballots[w][b] # Absent
       /\ <<w, b>> \notin overlapped => /\ audited_ballots[w][b] = task[t].response.encryption
                                       /\ Storing(w, b) = {t}

PublishedInv == \A w \in Workers, b \in BallotIds : PublishedOf(w, b)

\* A manifest is the one that some request with the same key asked for.
From(a, m) == \E other \in requested : Key(other) = Key(a) /\ m = ManifestFor(other)

\* Whatever is found in a cache, or encrypted or tallied with, is from such a request.
CachesInv ==
  /\ \A w \in Workers, a \in Asked :
       /\ manifest_cache[w][Key(a)] # Nothing => From(a, manifest_cache[w][Key(a)])
       /\ context_cache[w][Key(a)] # Nothing => From(a, context_cache[w][Key(a)])
  /\ \A e \in DOMAIN encrypted :
       encrypted[e].asked \in requested /\ From(encrypted[e].asked, encrypted[e].manifest)
  /\ \A t \in Threads : task[t] \in TrackedTasks =>
       /\ task[t].asked \in requested
       /\ pc[t] \in {"build", "publish"} => From(task[t].asked, task[t].manifest)
       /\ task[t].kind = "tally" =>
            /\ \A e \in task[t].sent : e \in DOMAIN encrypted /\ SameElection(encrypted[e].asked, task[t].asked)
            /\ (OneOrder /\ task[t].result = "success") => task[t].counted = task[t].sent

-----------------------------------------------------------------------------
(* What the steps do to a task. *)

\* The parts of a tracked request that no step of its own changes.
SameRequest(k, l) ==
  /\ k.kind = l.kind /\ k.asked = l.asked /\ k.ballot = l.ballot /\ k.status = l.status
  /\ k.sent = l.sent /\ k.worker = l.worker /\ k.id = l.id

LEMMA KindsOfTasks ==
  /\ \A k \in TrackedTasks : k.kind \in {"ballot", "tally"} /\ k \notin PublishTasks /\ k # NoTask
  /\ \A k \in PublishTasks : k.kind = "publish" /\ k # NoTask
  /\ NoTask.kind = "none"
BY DEF TrackedTasks, PublishTasks, NoTask

LEMMA TrackedUpdates ==
  ASSUME NEW k \in TrackedTasks
  PROVE  /\ \A m \in Manifests \union {Nothing} :
              LET l == [k EXCEPT !.manifest = m]
              IN  l \in TrackedTasks /\ SameRequest(k, l) /\ l.manifest = m /\ l.result = k.result /\ l.counted = k.counted
         /\ \A c \in SUBSET Nat :
              LET l == [k EXCEPT !.counted = c, !.result = "success"]
              IN  l \in TrackedTasks /\ SameRequest(k, l) /\ l.counted = c
         /\ LET l == [k EXCEPT !.result = "error"]
            IN  l \in TrackedTasks /\ SameRequest(k, l) /\ l.result = "error"
         /\ \A a \in {"none", "success", "error", "exception"} :
              LET l == [k EXCEPT !.answer = a]
              IN  l \in TrackedTasks /\ SameRequest(k, l) /\ l.result = k.result /\ l.counted = k.counted
         /\ \A r \in Responses :
              LET l == [k EXCEPT !.response = r]
              IN  l \in TrackedTasks /\ SameRequest(k, l) /\ l.response = r
         /\ LET l == [k EXCEPT !.result = "success", !.manifest = Nothing, !.response = Nothing]
            IN  l \in TrackedTasks /\ SameRequest(k, l)
BY DEF TrackedTasks, SameRequest

\* The other threads are where they were.
Alone(t) == \A u \in Threads \ {t} : pc'[u] = pc[u] /\ task'[u] = task[u]

TasksType ==
  /\ pc \in [Threads -> Steps]
  /\ task \in [Threads -> TrackedTasks \union PublishTasks \union {NoTask}]
  /\ \A t \in Threads : TaskInv(t)

\* A thread goes on with another task.
LEMMA ThreadStep ==
  ASSUME TasksType, NEW t \in Threads, NEW step \in Steps,
         NEW k \in TrackedTasks \union PublishTasks \union {NoTask},
         Go(t, step), Set(t, k)
  PROVE  /\ Alone(t) /\ pc'[t] = step /\ task'[t] = k
         /\ pc' \in [Threads -> Steps]
         /\ task' \in [Threads -> TrackedTasks \union PublishTasks \union {NoTask}]
         /\ TaskInv(t)' => TasksType'
<1>1. /\ Alone(t) /\ pc'[t] = step /\ task'[t] = k
      /\ pc' \in [Threads -> Steps]
      /\ task' \in [Threads -> TrackedTasks \union PublishTasks \union {NoTask}]
  BY DEF TasksType, Go, Set, Alone
<1>2. ASSUME NEW u \in Threads \ {t} PROVE TaskInv(u)'
  <2>1. pc'[u] = pc[u] /\ task'[u] = task[u] /\ TaskInv(u)
    BY <1>1 DEF Alone, TasksType
  <2> QED BY <2>1 DEF TaskInv
<1> QED BY <1>1, <1>2 DEF TasksType

\* The lookups and what becomes of a context.
Prepares(t) == LookupContext(t) \/ LookupManifest(t) \/ CreateManifest(t) \/ BuildContext(t)

LEMMA WorkStep ==
  ASSUME TasksType, NEW t \in Threads, task[t] \in TrackedTasks, pc[t] # "idle",
         NEW m \in Manifests, Work(t, m)
  PROVE  /\ TasksType' /\ Alone(t)
         /\ task'[t] \in TrackedTasks /\ SameRequest(task[t], task'[t])
         /\ \/ task[t].kind = "ballot" /\ pc'[t] = "publish" /\ task'[t].manifest = m
            \/ /\ task[t].kind = "tally" /\ pc'[t] = "finish"
               /\ task'[t].counted = Counted(task[t].sent, m)
<1>1. task[t].kind \in {"ballot", "tally"}
  BY KindsOfTasks
<1>2. Counted(task[t].sent, m) \in SUBSET Nat
  BY DEF Counted, TrackedTasks
<1>3. TaskInv(t)
  BY DEF TasksType
<1>4. CASE task[t].kind = "ballot"
  <2> DEFINE k == [task[t] EXCEPT !.manifest = m]
  <2>1. k \in TrackedTasks /\ SameRequest(task[t], k) /\ k.manifest = m
    BY TrackedUpdates
  <2>2. Go(t, "publish") /\ Set(t, k)
    BY <1>4 DEF Work
  <2> HIDE DEF k
  <2>3. /\ Alone(t) /\ pc'[t] = "publish" /\ task'[t] = k
        /\ TaskInv(t)' => TasksType'
    BY <2>1, <2>2, ThreadStep DEF Steps
  <2>4. TaskInv(t)'
    BY <1>3, <1>4, <2>1, <2>3, KindsOfTasks DEF TaskInv, SameRequest
  <2> QED BY <1>4, <2>1, <2>3, <2>4
<1>5. CASE task[t].kind = "tally"
  <2> DEFINE k == [task[t] EXCEPT !.counted = Counted(task[t].sent, m), !.result = "success"]
  <2>1. k \in TrackedTasks /\ SameRequest(task[t], k) /\ k.counted = Counted(task[t].sent, m)
    BY <1>2, TrackedUpdates
  <2>2. Go(t, "finish") /\ Set(t, k)
    BY <1>5 DEF Work
  <2> HIDE DEF k
  <2>3. /\ Alone(t) /\ pc'[t] = "finish" /\ task'[t] = k
        /\ TaskInv(t)' => TasksType'
    BY <2>1, <2>2, ThreadStep DEF Steps
  <2>4. TaskInv(t)'
    BY <1>3, <1>5, <2>1, <2>3, KindsOfTasks DEF TaskInv, SameRequest
  <2> QED BY <1>5, <2>1, <2>3, <2>4
<1> QED BY <1>1, <1>4, <1>5

LEMMA PrepareStep ==
  ASSUME ServerType, NEW t \in Threads, Prepares(t)
  PROVE  /\ TasksType' /\ Alone(t)
         /\ task[t] \in TrackedTasks /\ task'[t] \in TrackedTasks
         /\ SameRequest(task[t], task'[t])
         /\ pc[t] \in {"context", "manifest", "create", "build"}
         /\ pc'[t] \in {"manifest", "create", "build", "publish", "finish"}
         /\ manifest_cache' \in CacheType /\ context_cache' \in CacheType
         /\ UNCHANGED <<request_tracking, cast_ballots, audited_ballots, ballot_nonces,
                        encrypted, restarts, served, requested, publications, overlapped>>
<1>1. /\ pc[t] \in {"context", "manifest", "create", "build"}
      /\ UNCHANGED <<request_tracking, cast_ballots, audited_ballots, ballot_nonces,
                     encrypted, restarts, served, requested, publications, overlapped>>
  BY DEF Prepares, LookupContext, LookupManifest, CreateManifest, BuildContext, tracking,
         published, history
<1>2. task[t] \in TrackedTasks /\ TaskInv(t) /\ TasksType
  BY <1>1 DEF ServerType, TaskInv, TasksType
<1>3. task[t].asked \in Asked /\ task[t].worker \in Workers /\ Key(task[t].asked) \in Keys
  BY <1>2 DEF TrackedTasks, Keys
<1>4. ASSUME NEW step \in {"manifest", "create"}, Go(t, step), UNCHANGED task
      PROVE  TasksType' /\ Alone(t) /\ task'[t] = task[t] /\ pc'[t] = step
  <2>1. Set(t, task[t])
    BY <1>2, <1>4 DEF Set, TasksType
  <2>2. /\ Alone(t) /\ pc'[t] = step /\ task'[t] = task[t]
        /\ TaskInv(t)' => TasksType'
    BY <1>2, <1>4, <2>1, ThreadStep DEF Steps
  <2>3. TaskInv(t)'
    BY <1>1, <1>2, <2>2 DEF TaskInv
  <2> QED BY <2>2, <2>3
<1>5. ASSUME NEW m \in Manifests, Go(t, "build"), Set(t, [task[t] EXCEPT !.manifest = m])
      PROVE  /\ TasksType' /\ Alone(t) /\ task'[t] \in TrackedTasks
             /\ SameRequest(task[t], task'[t]) /\ pc'[t] = "build"
  <2> DEFINE k == [task[t] EXCEPT !.manifest = m]
  <2>1. k \in TrackedTasks /\ SameRequest(task[t], k) /\ k.manifest = m
    BY <1>2, TrackedUpdates
  <2> HIDE DEF k
  <2>2. /\ Alone(t) /\ pc'[t] = "build" /\ task'[t] = k
        /\ TaskInv(t)' => TasksType'
    BY <1>2, <1>5, <2>1, ThreadStep DEF Steps, k
  <2>3. TaskInv(t)'
    BY <1>1, <1>2, <2>1, <2>2, KindsOfTasks DEF TaskInv, SameRequest
  <2> QED BY <2>1, <2>2, <2>3
<1>6. SameRequest(task[t], task[t])
  BY DEF SameRequest
<1>7. CASE LookupContext(t)
  <2> DEFINE found == context_cache[task[t].worker][Key(task[t].asked)]
  <2>1. found # Nothing => found \in Manifests
    BY <1>3 DEF ServerType, CacheType
  <2>2. CASE found # Nothing /\ Work(t, found)
    BY <1>1, <1>2, <1>7, <2>1, <2>2, WorkStep DEF LookupContext, caches, ServerType
  <2>3. CASE Go(t, "manifest") /\ UNCHANGED task
    BY <1>1, <1>2, <1>4, <1>6, <1>7, <2>3 DEF LookupContext, caches, ServerType
  <2> QED BY <1>7, <2>2, <2>3 DEF LookupContext
<1>8. CASE LookupManifest(t)
  <2> DEFINE found == manifest_cache[task[t].worker][Key(task[t].asked)]
  <2>1. found # Nothing => found \in Manifests
    BY <1>3 DEF ServerType, CacheType
  <2>2. CASE found # Nothing /\ Set(t, [task[t] EXCEPT !.manifest = found]) /\ Go(t, "build")
    BY <1>1, <1>2, <1>5, <1>8, <2>1, <2>2 DEF LookupManifest, caches, ServerType
  <2>3. CASE Go(t, "create") /\ UNCHANGED task
    BY <1>1, <1>2, <1>4, <1>6, <1>8, <2>3 DEF LookupManifest, caches, ServerType
  <2> QED BY <1>8, <2>2, <2>3 DEF LookupManifest
<1>9. CASE CreateManifest(t)
  <2> DEFINE m == ManifestFor(task[t].asked)
  <2>1. m \in Manifests
    BY <1>3 DEF Manifests
  <2>2. /\ Set(t, [task[t] EXCEPT !.manifest = m]) /\ Go(t, "build")
        /\ manifest_cache' = [manifest_cache EXCEPT ![task[t].worker][Key(task[t].asked)] = m]
        /\ context_cache' = context_cache
    BY <1>9 DEF CreateManifest, StoreManifest
  <2> HIDE DEF m
  <2>3. manifest_cache' \in CacheType /\ context_cache' \in CacheType
    BY <1>3, <2>1, <2>2 DEF ServerType, CacheType
  <2> QED BY <1>1, <1>2, <1>5, <2>1, <2>2, <2>3
<1>10. CASE BuildContext(t)
  <2> DEFINE m == task[t].manifest
  <2>1. m \in Manifests /\ manifest_cache' \in CacheType
    BY <1>2, <1>10 DEF BuildContext, TaskInv, ServerType
  <2>2. CASE Builds(m)
    <3>1. /\ Work(t, m)
          /\ context_cache' = [context_cache EXCEPT ![task[t].worker][Key(task[t].asked)] = m]
      BY <1>10, <2>2 DEF BuildContext, StoreContext
    <3>2. context_cache' \in CacheType
      BY <1>3, <2>1, <3>1 DEF ServerType, CacheType
    <3> QED BY <1>1, <1>2, <2>1, <3>1, <3>2, WorkStep
  <2>3. CASE ~Builds(m)
    <3> DEFINE k == [task[t] EXCEPT !.result = "error"]
    <3>1. k \in TrackedTasks /\ SameRequest(task[t], k)
      BY <1>2, TrackedUpdates
    <3>2. Set(t, k) /\ Go(t, "finish") /\ UNCHANGED context_cache
      BY <1>10, <2>3 DEF BuildContext
    <3> HIDE DEF k
    <3>3. /\ Alone(t) /\ pc'[t] = "finish" /\ task'[t] = k
          /\ TaskInv(t)' => TasksType'
      BY <1>2, <3>1, <3>2, ThreadStep DEF Steps
    <3>4. TaskInv(t)'
      BY <1>1, <1>2, <3>1, <3>3, KindsOfTasks DEF TaskInv, SameRequest
    <3> QED BY <1>1, <1>2, <2>1, <3>1, <3>2, <3>3, <3>4 DEF ServerType
  <2> QED BY <2>2, <2>3
<1> QED BY <1>7, <1>8, <1>9, <1>10 DEF Prepares

\* A tracked request that is accepted.
Accepts(t, w, r, kind, a, b, status, sent) ==
  /\ \/ kind = "ballot" /\ b \in BallotIds /\ status \in {"CAST", "AUDITED"} /\ sent = {}
     \/ kind = "tally" /\ b = 0 /\ status = "none" /\ sent = Sent(a)
  /\ Accept(t, w, r, Request(kind, a, b, status, sent))

\* A request before a worker and an id are assigned to it.
UnassignedTasks ==
  [kind : {"ballot", "tally"}, asked : Asked, ballot : BallotIds \union {0},
   status : {"CAST", "AUDITED", "none"}, sent : SUBSET Nat, counted : {{}},
   response : {Nothing}, worker : {0}, id : {0}, manifest : {Nothing}, result : {"none"},
   answer : {"none"}]

\* What it changes.
Accepted(t, w, r, kind, a, sent) ==
  /\ TasksType' /\ Alone(t) /\ pc[t] = "idle" /\ pc'[t] = "context"
  /\ task'[t] \in TrackedTasks
  /\ task'[t].kind = kind /\ task'[t].asked = a /\ task'[t].worker = w
  /\ task'[t].id = r /\ task'[t].sent = sent /\ task'[t].result = "none"
  /\ r \notin Tracked(w) /\ SetStatus(w, r, "started")
  /\ served < MaxRequests /\ served' = served + 1
  /\ requested' = requested \union {a}
  /\ UNCHANGED <<manifest_cache, context_cache, cast_ballots, audited_ballots,
                 ballot_nonces, encrypted, restarts, publications, overlapped>>

LEMMA AcceptStep ==
  ASSUME ServerType, NEW t \in Threads, NEW w \in Workers, NEW r \in RequestIds,
         NEW kind, NEW a \in Asked, NEW b, NEW status, NEW sent,
         Accepts(t, w, r, kind, a, b, status, sent)
  PROVE  Accepted(t, w, r, kind, a, sent)
<1> DEFINE q == Request(kind, a, b, status, sent)
<1> DEFINE k == [q EXCEPT !.worker = w, !.id = r]
<1>1. /\ pc[t] = "idle" /\ Go(t, "context") /\ Set(t, k)
      /\ r \notin Tracked(w) /\ SetStatus(w, r, "started")
      /\ served < MaxRequests /\ served' = served + 1
      /\ requested' = requested \union {a}
      /\ UNCHANGED <<manifest_cache, context_cache, cast_ballots, audited_ballots,
                     ballot_nonces, encrypted, restarts, publications, overlapped>>
  BY DEF Accepts, Accept, Start, Request, caches, published
<1>2. sent \in SUBSET Nat
  <2>1. encrypted \in Seq(EncryptedBallots)
    BY DEF ServerType
  <2>2. DOMAIN encrypted = 1 .. Len(encrypted) /\ Len(encrypted) \in Nat
    BY <2>1, LenProperties
  <2> QED BY <2>2 DEF Accepts, Sent
<1>3. /\ kind \in {"ballot", "tally"} /\ b \in BallotIds \union {0}
      /\ status \in {"CAST", "AUDITED", "none"}
      /\ kind = "ballot" => b \in BallotIds /\ status # "none"
  BY DEF Accepts
<1>4. q \in UnassignedTasks /\ q.kind = kind /\ q.asked = a /\ q.sent = sent
      /\ q.result = "none" /\ q.ballot = b /\ q.status = status
  BY <1>2, <1>3 DEF Request, UnassignedTasks
<1> HIDE DEF q
<1>5. /\ k \in TrackedTasks /\ k.kind = kind /\ k.asked = a /\ k.worker = w
      /\ k.id = r /\ k.sent = sent /\ k.result = "none" /\ k.ballot = b /\ k.status = status
  <2>1. /\ k \in TrackedTasks /\ k.worker = w /\ k.id = r
        /\ k.kind = q.kind /\ k.asked = q.asked /\ k.ballot = q.ballot
        /\ k.status = q.status /\ k.sent = q.sent /\ k.result = q.result
    <3>1. q \in UnassignedTasks
      BY <1>4
    <3> QED BY <3>1 DEF UnassignedTasks, TrackedTasks
  <2> HIDE DEF k
  <2> QED BY <1>4, <2>1
<1> HIDE DEF k
<1>6. /\ Alone(t) /\ pc'[t] = "context" /\ task'[t] = k
      /\ TaskInv(t)' => TasksType'
  BY <1>1, <1>5, ThreadStep DEF Steps, ServerType, TasksType, k, q
<1>7. TaskInv(t)'
  BY <1>3, <1>5, <1>6, KindsOfTasks DEF TaskInv
<1> QED BY <1>1, <1>5, <1>6, <1>7 DEF Accepted

LEMMA AcceptIsAccepts ==
  /\ \A t, w, r : AcceptBallot(t, w, r) =>
       \E a \in Asked : \E b, status : Accepts(t, w, r, "ballot", a, b, status, {})
  /\ \A t, w, r : AcceptTally(t, w, r) =>
       \E a \in Asked : Accepts(t, w, r, "tally", a, 0, "none", Sent(a))
BY DEF AcceptBallot, AcceptTally, Accepts

LEMMA AcceptPublishStep ==
  ASSUME ServerType, EncryptionsInv, NEW t \in Threads, NEW w \in Workers, AcceptPublish(t, w)
  PROVE  /\ TasksType' /\ Alone(t) /\ pc[t] = "idle" /\ pc'[t] = "publish"
         /\ task'[t] \in PublishTasks /\ task'[t].worker = w
         /\ served < MaxRequests /\ served' = served + 1
         /\ UNCHANGED <<request_tracking, manifest_cache, context_cache, cast_ballots,
                        audited_ballots, ballot_nonces, encrypted, restarts, requested,
                        publications, overlapped>>
<1>1. PICK e \in DOMAIN encrypted, nonces \in BOOLEAN, status \in {"CAST", "AUDITED"} :
        Set(t, [kind |-> "publish", ballot |-> encrypted[e].ballot, status |-> status,
                worker |-> w, response |-> [encryption |-> e, nonces |-> nonces]])
  BY DEF AcceptPublish
<1> DEFINE k == [kind |-> "publish", ballot |-> encrypted[e].ballot, status |-> status,
                 worker |-> w, response |-> [encryption |-> e, nonces |-> nonces]]
<1>2. encrypted[e].ballot \in BallotIds /\ e \in Encryptions
  <2>1. encrypted \in Seq(EncryptedBallots)
    BY DEF ServerType
  <2>2. /\ DOMAIN encrypted = 1 .. Len(encrypted) /\ Len(encrypted) \in Nat
        /\ encrypted[e] \in EncryptedBallots
    BY <2>1, LenProperties, ElementOfSeq
  <2>3. Cardinality(Pending) \in Nat
    BY FS_Subset, FS_CardinalityType, ServerAssumption DEF Pending
  <2>4. Len(encrypted) <= MaxRequests
    BY <2>2, <2>3, ServerAssumption DEF EncryptionsInv
  <2> QED BY <2>2, <2>4, ServerAssumption DEF EncryptedBallots
<1>3. k \in PublishTasks /\ k.worker = w /\ k.kind = "publish"
  BY <1>2 DEF PublishTasks, Responses
<1>4. /\ pc[t] = "idle" /\ Go(t, "publish") /\ Set(t, k)
      /\ served < MaxRequests /\ served' = served + 1
      /\ UNCHANGED <<request_tracking, manifest_cache, context_cache, cast_ballots,
                     audited_ballots, ballot_nonces, encrypted, restarts, requested,
                     publications, overlapped>>
  BY <1>1 DEF AcceptPublish, tracking, caches, published
<1> HIDE DEF k
<1>5. /\ Alone(t) /\ pc'[t] = "publish" /\ task'[t] = k
      /\ TaskInv(t)' => TasksType'
  BY <1>3, <1>4, ThreadStep DEF Steps, ServerType, TasksType
<1>6. TaskInv(t)'
  BY <1>3, <1>5, KindsOfTasks DEF TaskInv
<1> QED BY <1>3, <1>4, <1>5, <1>6

\* What Ended leaves of a task.
LEMMA EndedTask ==
  ASSUME TasksType, NEW t \in Threads, pc[t] \in {"publish", "nonces"}
  PROVE  /\ task[t].kind = "publish" => task[t] \in PublishTasks /\ Ended(t) = NoTask
                                        /\ AfterPublishing(t) = "idle"
         /\ task[t].kind # "publish" => /\ task[t] \in TrackedTasks /\ task[t].kind = "ballot"
                                        /\ Ended(t) \in TrackedTasks
                                        /\ SameRequest(task[t], Ended(t))
                                        /\ AfterPublishing(t) = "finish"
         /\ task[t].worker \in Workers /\ task[t].ballot \in BallotIds
         /\ task[t].status \in {"CAST", "AUDITED"}
<1>1. /\ task[t] \in TrackedTasks \union PublishTasks /\ task[t].kind \in {"ballot", "publish"}
      /\ task[t].kind = "ballot" => task[t].ballot \in BallotIds /\ task[t].status # "none"
  BY DEF TasksType, TaskInv
<1>2. CASE task[t].kind = "publish"
  <2>1. task[t] \in PublishTasks
    BY <1>1, <1>2, KindsOfTasks
  <2> QED BY <1>2, <2>1 DEF Ended, AfterPublishing, PublishTasks
<1>3. CASE task[t].kind = "ballot"
  <2>1. task[t] \in TrackedTasks
    BY <1>1, <1>3, KindsOfTasks
  <2>2. task[t].worker \in Workers /\ task[t].status \in {"CAST", "AUDITED", "none"}
    BY <2>1 DEF TrackedTasks
  <2> DEFINE k == [task[t] EXCEPT !.result = "success", !.manifest = Nothing, !.response = Nothing]
  <2>3. k \in TrackedTasks /\ SameRequest(task[t], k)
    BY <2>1, TrackedUpdates
  <2>4. Ended(t) \in TrackedTasks /\ SameRequest(task[t], Ended(t))
    BY <1>3, <2>3 DEF Ended
  <2> QED BY <1>1, <1>3, <2>1, <2>2, <2>4 DEF AfterPublishing
<1> QED BY <1>1, <1>2, <1>3

\* The thread is done with publishing.
LEMMA EndedStep ==
  ASSUME TasksType, NEW t \in Threads, pc[t] \in {"publish", "nonces"},
         Set(t, Ended(t)), Go(t, AfterPublishing(t))
  PROVE  /\ TasksType' /\ Alone(t)
         /\ task[t].kind = "publish" => pc'[t] = "idle" /\ task'[t] = NoTask
         /\ task[t].kind # "publish" => /\ pc'[t] = "finish" /\ task'[t] \in TrackedTasks
                                        /\ SameRequest(task[t], task'[t])
<1>1. CASE task[t].kind = "publish"
  <2>1. Go(t, "idle") /\ Set(t, NoTask)
    BY <1>1, EndedTask
  <2>2. /\ Alone(t) /\ pc'[t] = "idle" /\ task'[t] = NoTask
        /\ TaskInv(t)' => TasksType'
    BY <2>1, ThreadStep DEF Steps
  <2>3. TaskInv(t)'
    BY <2>2, KindsOfTasks DEF TaskInv
  <2> QED BY <1>1, <2>2, <2>3
<1>2. CASE task[t].kind # "publish"
  <2>1. /\ Go(t, "finish") /\ Ended(t) \in TrackedTasks /\ SameRequest(task[t], Ended(t))
        /\ task[t] \in TrackedTasks
    BY <1>2, EndedTask
  <2>2. /\ Alone(t) /\ pc'[t] = "finish" /\ task'[t] = Ended(t)
        /\ TaskInv(t)' => TasksType'
    BY <2>1, ThreadStep DEF Steps
  <2>3. TaskInv(t)'
    BY <2>1, <2>2, KindsOfTasks DEF TaskInv, TasksType, SameRequest
  <2> QED BY <1>2, <2>1, <2>2, <2>3
<1> QED BY <1>1, <1>2

\* One thread that moves changes the number of ballots to encrypt by its own one.
LEMMA PendingStep ==
  ASSUME NEW t \in Threads, Alone(t)
  PROVE  /\ Cardinality(Pending) \in Nat /\ Cardinality(Pending') \in Nat
         /\ Cardinality(Pending') <= Cardinality(Pending) + 1
         /\ t \notin Pending' => Cardinality(Pending') <= Cardinality(Pending)
         /\ t \in Pending => Cardinality(Pending') <= Cardinality(Pending)
         /\ t \in Pending /\ t \notin Pending' => Cardinality(Pending') + 1 <= Cardinality(Pending)
<1>1. IsFiniteSet(Pending) /\ IsFiniteSet(Pending')
  BY FS_Subset, ServerAssumption DEF Pending
<1>2. Pending' \ {t} = Pending \ {t}
  BY DEF Pending, Alone
<1>3. /\ IsFiniteSet(Pending \ {t})
      /\ Cardinality(Pending \ {t}) = IF t \in Pending THEN Cardinality(Pending) - 1 ELSE Cardinality(Pending)
  BY <1>1, FS_RemoveElement
<1>4. /\ IsFiniteSet(Pending' \ {t})
      /\ Cardinality(Pending' \ {t}) = IF t \in Pending' THEN Cardinality(Pending') - 1 ELSE Cardinality(Pending')
  BY <1>1, FS_RemoveElement
<1>5. Cardinality(Pending) \in Nat /\ Cardinality(Pending') \in Nat
  BY <1>1, FS_CardinalityType
<1> QED BY <1>2, <1>3, <1>4, <1>5

LEMMA EncryptedLen ==
  ASSUME ServerType
  PROVE  Len(encrypted) \in Nat /\ DOMAIN encrypted = 1 .. Len(encrypted)
BY LenProperties DEF ServerType

\* The dictionary a ballot is published in, and what it says of it.
LEMMA PublishStep ==
  ASSUME ServerType, EncryptionsInv, NEW t \in Threads, Publish(t)
  PROVE  LET w == task[t].worker
             b == task[t].ballot
         IN  /\ TasksType' /\ Alone(t) /\ w \in Workers /\ b \in BallotIds
             /\ pc[t] = "publish" /\ pc'[t] \in {"idle", "nonces", "finish"}
             /\ task[t].kind = "publish" => UNCHANGED encrypted
             /\ task[t].kind # "publish" =>
                  /\ t \in Pending /\ task[t] \in TrackedTasks /\ task'[t] \in TrackedTasks
                  /\ SameRequest(task[t], task'[t]) /\ pc'[t] # "idle"
                  /\ encrypted' = Append(encrypted, [ballot |-> b, asked |-> task[t].asked,
                                                     manifest |-> task[t].manifest])
             /\ PublisherType' /\ ballot_nonces' = ballot_nonces
             /\ publications' = [publications EXCEPT ![w][b] = @ \union {task[t].status}]
             /\ \/ /\ task[t].status = "CAST" /\ pc'[t] # "nonces"
                   /\ \E e \in Encryptions : cast_ballots' = [cast_ballots EXCEPT ![w][b] = e]
                   /\ UNCHANGED <<audited_ballots, overlapped>>
                   /\ task[t].kind = "publish" => pc'[t] = "idle"
                \/ /\ task[t].status = "AUDITED" /\ pc'[t] = "nonces"
                   /\ task'[t].worker = w /\ task'[t].ballot = b
                   /\ task[t].kind = "publish" => task'[t] \in PublishTasks
                   /\ task'[t].response \in Responses
                   /\ audited_ballots' = [audited_ballots EXCEPT ![w][b] = task'[t].response.encryption]
                   /\ UNCHANGED cast_ballots
                   /\ overlapped' = IF \E u \in Busy(w) : pc[u] = "nonces" /\ task[u].ballot = b
                                    THEN overlapped \union {<<w, b>>} ELSE overlapped
             /\ UNCHANGED <<request_tracking, manifest_cache, context_cache, restarts, served, requested>>
<1> DEFINE w == task[t].worker
           b == task[t].ballot
           response == IF task[t].kind = "publish" THEN task[t].response
                       ELSE [encryption |-> Len(encrypted) + 1, nonces |-> TRUE]
<1>1. pc[t] = "publish" /\ TaskInv(t) /\ TasksType
  BY DEF Publish, ServerType, TasksType
<1>2. /\ w \in Workers /\ b \in BallotIds /\ task[t].status \in {"CAST", "AUDITED"}
      /\ task[t].kind = "publish" => task[t] \in PublishTasks
      /\ task[t].kind # "publish" => task[t] \in TrackedTasks /\ task[t].kind = "ballot"
  BY <1>1, EndedTask
<1>3. task[t].kind # "publish" => t \in Pending
  BY <1>1, <1>2 DEF Pending
<1>4. response \in Responses
  <2>1. CASE task[t].kind = "publish"
    BY <1>2, <2>1 DEF PublishTasks
  <2>2. CASE task[t].kind # "publish"
    <3>1. IsFiniteSet(Pending) /\ Pending # {}
      BY <1>3, <2>2, FS_Subset, ServerAssumption DEF Pending
    <3>2. Cardinality(Pending) \in Nat /\ Cardinality(Pending) # 0
      BY <3>1, FS_CardinalityType, FS_EmptySet
    <3>3. Len(encrypted) + 1 \in Encryptions
      BY <3>2, EncryptedLen, ServerAssumption DEF EncryptionsInv
    <3> QED BY <2>2, <3>3 DEF Responses
  <2> QED BY <2>1, <2>2
<1>5. /\ encrypted' = IF task[t].kind = "publish" THEN encrypted
                      ELSE Append(encrypted, [ballot |-> b, asked |-> task[t].asked,
                                              manifest |-> task[t].manifest])
      /\ NotePublication(w, b, task[t].status)
      /\ UNCHANGED <<request_tracking, manifest_cache, context_cache, restarts, served, requested>>
  BY DEF Publish, tracking, caches
<1>6. CASE task[t].status = "CAST"
  <2>1. /\ PublishCast(w, b, response) /\ Set(t, Ended(t)) /\ Go(t, AfterPublishing(t))
        /\ UNCHANGED overlapped
    BY <1>6 DEF Publish
  <2>2. /\ TasksType' /\ Alone(t)
        /\ task[t].kind = "publish" => pc'[t] = "idle" /\ task'[t] = NoTask
        /\ task[t].kind # "publish" => /\ pc'[t] = "finish" /\ task'[t] \in TrackedTasks
                                       /\ SameRequest(task[t], task'[t])
    BY <1>1, <2>1, EndedStep
  <2>3. Sanitized(response).encryption \in Encryptions
    BY <1>4 DEF Sanitized, Responses
  <2> HIDE DEF response
  <2>4. \E e \in Encryptions : cast_ballots' = [cast_ballots EXCEPT ![w][b] = e]
    BY <2>1, <2>3 DEF PublishCast
  <2>5. UNCHANGED <<audited_ballots, ballot_nonces>>
    BY <2>1 DEF PublishCast
  <2>6. PublisherType'
    BY <1>2, <2>4, <2>5 DEF PublisherType, ServerType
  <2> QED BY <1>1, <1>2, <1>3, <1>5, <1>6, <2>1, <2>2, <2>4, <2>5, <2>6 DEF NotePublication
<1>7. CASE task[t].status = "AUDITED"
  <2> DEFINE k == [task[t] EXCEPT !.response = response]
  <2> HIDE DEF response
  <2>1. /\ PublishAudited(w, b, response) /\ Set(t, k) /\ Go(t, "nonces")
        /\ overlapped' = IF \E u \in Busy(w) : pc[u] = "nonces" /\ task[u].ballot = b
                         THEN overlapped \union {<<w, b>>} ELSE overlapped
    BY <1>7 DEF Publish, response
  <2>2. /\ k \in TrackedTasks \union PublishTasks /\ k.response = response
        /\ k.kind = task[t].kind /\ k.worker = w /\ k.ballot = b /\ k.status = "AUDITED"
        /\ task[t].kind # "publish" => k \in TrackedTasks /\ SameRequest(task[t], k)
        /\ task[t].kind = "publish" => k \in PublishTasks
    <3>1. CASE task[t].kind = "publish"
      BY <1>2, <1>4, <1>7, <3>1 DEF PublishTasks
    <3>2. CASE task[t].kind # "publish"
      BY <1>2, <1>4, <1>7, <3>2 DEF TrackedTasks, SameRequest
    <3> QED BY <3>1, <3>2
  <2> HIDE DEF k
  <2>3. /\ Alone(t) /\ pc'[t] = "nonces" /\ task'[t] = k
        /\ TaskInv(t)' => TasksType'
    BY <1>1, <2>1, <2>2, ThreadStep DEF Steps
  <2>4. TaskInv(t)'
    BY <1>2, <1>4, <2>2, <2>3, KindsOfTasks DEF TaskInv
  <2>5. /\ Sanitized(response).encryption = response.encryption
        /\ response.encryption \in Encryptions
    BY <1>4 DEF Sanitized, Responses
  <2>6. /\ audited_ballots' = [audited_ballots EXCEPT ![w][b] = response.encryption]
        /\ UNCHANGED <<cast_ballots, ballot_nonces>>
    BY <2>1, <2>5 DEF PublishAudited
  <2>7. PublisherType'
    BY <1>2, <2>5, <2>6 DEF PublisherType, ServerType
  <2> QED BY <1>1, <1>2, <1>3, <1>4, <1>5, <1>7, <2>1, <2>2, <2>3, <2>4, <2>6, <2>7 DEF NotePublication
<1> QED BY <1>2, <1>6, <1>7

LEMMA StoreNoncesStep ==
  ASSUME ServerType, NEW t \in Threads, StoreNonces(t)
  PROVE  LET w == task[t].worker
             b == task[t].ballot
         IN  /\ TasksType' /\ Alone(t) /\ w \in Workers /\ b \in BallotIds
             /\ pc[t] = "nonces" /\ pc'[t] \in {"idle", "finish"}
             /\ task[t].response \in Responses /\ task[t].status = "AUDITED"
             /\ task[t].kind = "publish" => pc'[t] = "idle"
             /\ task[t].kind # "publish" =>
                  /\ pc'[t] = "finish" /\ task[t] \in TrackedTasks /\ task'[t] \in TrackedTasks
                  /\ SameRequest(task[t], task'[t])
             /\ PublisherType'
             /\ \E n \in {task[t].response.encryption, NoNonces} :
                  ballot_nonces' = [ballot_nonces EXCEPT ![w][b] = n]
             /\ UNCHANGED <<request_tracking, manifest_cache, context_cache, cast_ballots,
                            audited_ballots, encrypted, restarts, served, requested, publications,
                            overlapped>>
<1> DEFINE w == task[t].worker
           b == task[t].ballot
<1>1. pc[t] = "nonces" /\ TasksType /\ TaskInv(t)
  BY DEF StoreNonces, ServerType, TasksType
<1>2. w \in Workers /\ b \in BallotIds /\ task[t].response \in Responses /\ task[t].status = "AUDITED"
  BY <1>1, EndedTask DEF TaskInv
<1>3. /\ PublishNonces(w, b, task[t].response) /\ Set(t, Ended(t)) /\ Go(t, AfterPublishing(t))
      /\ UNCHANGED <<request_tracking, manifest_cache, context_cache, encrypted, restarts, served,
                     requested, publications, overlapped>>
  BY DEF StoreNonces, tracking, caches, history
<1>4. /\ TasksType' /\ Alone(t)
      /\ task[t].kind = "publish" => pc'[t] = "idle"
      /\ task[t].kind # "publish" => /\ pc'[t] = "finish" /\ task[t] \in TrackedTasks
                                     /\ task'[t] \in TrackedTasks
                                     /\ SameRequest(task[t], task'[t])
  BY <1>1, <1>3, EndedStep, EndedTask
<1>5. /\ \E n \in {task[t].response.encryption, NoNonces} :
           ballot_nonces' = [ballot_nonces EXCEPT ![w][b] = n]
      /\ UNCHANGED <<cast_ballots, audited_ballots>>
  BY <1>3 DEF PublishNonces, Extracted
<1>6. PublisherType'
  BY <1>2, <1>5 DEF PublisherType, ServerType, Responses
<1> QED BY <1>1, <1>2, <1>3, <1>4, <1>5, <1>6

LEMMA FinishStep ==
  ASSUME ServerType, NEW t \in Threads, Finish(t)
  PROVE  /\ TasksType' /\ Alone(t) /\ pc[t] = "finish" /\ pc'[t] = "cleanup"
         /\ task[t] \in TrackedTasks /\ task'[t] \in TrackedTasks
         /\ SameRequest(task[t], task'[t])
         /\ task'[t].result = task[t].result /\ task'[t].counted = task[t].counted
         /\ request_tracking' \in TableType
         /\ \/ /\ task[t].id \in Tracked(task[t].worker)
               /\ SetStatus(task[t].worker, task[t].id, "completed")
               /\ task'[t].answer = task[t].result
            \/ /\ task[t].id \notin Tracked(task[t].worker)
               /\ UNCHANGED request_tracking
         /\ UNCHANGED <<manifest_cache, context_cache, cast_ballots, audited_ballots, ballot_nonces,
                        encrypted, restarts, served, requested, publications, overlapped>>
<1>1. pc[t] = "finish" /\ TasksType /\ task[t] \in TrackedTasks /\ TaskInv(t)
  BY DEF Finish, ServerType, TasksType, TaskInv
<1>2. task[t].id \in RequestIds /\ task[t].worker \in Workers
      /\ task[t].result \in {"none", "success", "error", "exception"}
  BY <1>1 DEF TrackedTasks
<1>3. PICK a \in {task[t].result, "exception"} :
        /\ Set(t, [task[t] EXCEPT !.answer = a])
        /\ \/ /\ task[t].id \in Tracked(task[t].worker)
              /\ SetStatus(task[t].worker, task[t].id, "completed")
              /\ a = task[t].result
           \/ /\ task[t].id \notin Tracked(task[t].worker)
              /\ UNCHANGED request_tracking
  BY DEF Finish, Complete, Gone, tracking
<1> DEFINE k == [task[t] EXCEPT !.answer = a]
<1>4. /\ k \in TrackedTasks /\ SameRequest(task[t], k) /\ k.answer = a
      /\ k.result = task[t].result /\ k.counted = task[t].counted
  BY <1>1, <1>2 DEF TrackedTasks, SameRequest
<1>5. Set(t, k) /\ Go(t, "cleanup")
  BY <1>3 DEF Finish
<1> HIDE DEF k
<1>6. /\ Alone(t) /\ pc'[t] = "cleanup" /\ task'[t] = k
      /\ TaskInv(t)' => TasksType'
  BY <1>1, <1>4, <1>5, ThreadStep DEF Steps
<1>7. TaskInv(t)'
  BY <1>1, <1>4, <1>6, KindsOfTasks DEF TaskInv, SameRequest
<1>8. request_tracking' \in TableType
  <2>1. CASE SetStatus(task[t].worker, task[t].id, "completed")
    BY <1>2, <2>1 DEF SetStatus, TableType, Statuses, ServerType
  <2>2. CASE UNCHANGED request_tracking
    BY <2>2 DEF ServerType
  <2> QED BY <1>3, <2>1, <2>2
<1>9. UNCHANGED <<manifest_cache, context_cache, cast_ballots, audited_ballots, ballot_nonces,
                  encrypted, restarts, served, requested, publications, overlapped>>
  BY DEF Finish, caches, published, history
<1> QED BY <1>1, <1>3, <1>4, <1>6, <1>7, <1>8, <1>9

LEMMA AnswerStep ==
  ASSUME ServerType, NEW t \in Threads, Answer(t)
  PROVE  /\ TasksType' /\ Alone(t) /\ pc[t] = "cleanup" /\ pc'[t] = "idle" /\ task'[t] = NoTask
         /\ task[t] \in TrackedTasks /\ Cleanup(task[t].worker)
         /\ request_tracking' \in TableType
         /\ UNCHANGED <<manifest_cache, context_cache, cast_ballots, audited_ballots, ballot_nonces,
                        encrypted, restarts, served, requested, publications, overlapped>>
<1>1. pc[t] = "cleanup" /\ TasksType /\ task[t] \in TrackedTasks
  BY DEF Answer, ServerType, TasksType, TaskInv
<1>2. /\ Cleanup(task[t].worker) /\ Set(t, NoTask) /\ Go(t, "idle")
      /\ UNCHANGED <<manifest_cache, context_cache, cast_ballots, audited_ballots, ballot_nonces,
                     encrypted, restarts, served, requested, publications, overlapped>>
  BY DEF Answer, caches, published, history
<1>3. /\ Alone(t) /\ pc'[t] = "idle" /\ task'[t] = NoTask
      /\ TaskInv(t)' => TasksType'
  BY <1>1, <1>2, ThreadStep DEF Steps
<1>4. TaskInv(t)'
  BY <1>3, KindsOfTasks DEF TaskInv
<1>5. request_tracking' \in TableType
  BY <1>2 DEF Cleanup, TableType, Statuses, ServerType
<1> QED BY <1>1, <1>2, <1>3, <1>4, <1>5

LEMMA RestartStep ==
  ASSUME ServerType, NEW w \in Workers, Restart(w)
  PROVE  /\ TasksType' /\ request_tracking' \in TableType
         /\ \A t \in Threads : IF t \in Busy(w) THEN pc'[t] = "idle" /\ task'[t] = NoTask
                               ELSE pc'[t] = pc[t] /\ task'[t] = task[t]
         /\ request_tracking' = [request_tracking EXCEPT ![w] = EmptyTable]
         /\ manifest_cache' = [manifest_cache EXCEPT ![w] = EmptyCache]
         /\ context_cache' = [context_cache EXCEPT ![w] = EmptyCache]
         /\ manifest_cache' \in CacheType /\ context_cache' \in CacheType
         /\ ForgetPublished(w) /\ PublisherType'
         /\ publications' = [publications EXCEPT ![w] = [b \in BallotIds |-> {}]]
         /\ overlapped' = {o \in overlapped : o[1] # w}
         /\ UNCHANGED <<encrypted, served, requested>>
<1>1. /\ ForgetRequests(w) /\ ForgetCaches(w) /\ ForgetPublished(w)
      /\ pc' = [t \in Threads |-> IF t \in Busy(w) THEN "idle" ELSE pc[t]]
      /\ task' = [t \in Threads |-> IF t \in Busy(w) THEN NoTask ELSE task[t]]
      /\ publications' = [publications EXCEPT ![w] = [b \in BallotIds |-> {}]]
      /\ overlapped' = {o \in overlapped : o[1] # w}
      /\ UNCHANGED <<encrypted, served, requested>>
  BY DEF Restart
<1>2. \A t \in Threads : IF t \in Busy(w) THEN pc'[t] = "idle" /\ task'[t] = NoTask
                         ELSE pc'[t] = pc[t] /\ task'[t] = task[t]
  BY <1>1
<1>3. TasksType'
  <2>1. \A t \in Threads : TaskInv(t)'
    <3> SUFFICES ASSUME NEW t \in Threads PROVE TaskInv(t)'
      OBVIOUS
    <3>1. TaskInv(t)
      BY DEF ServerType
    <3> QED BY <1>2, <3>1, KindsOfTasks DEF TaskInv
  <2>2. pc' \in [Threads -> Steps]
    BY <1>1 DEF ServerType, Steps
  <2>3. task' \in [Threads -> TrackedTasks \union PublishTasks \union {NoTask}]
    BY <1>1 DEF ServerType
  <2> QED BY <2>1, <2>2, <2>3 DEF TasksType
<1>4. request_tracking' \in TableType /\ request_tracking' = [request_tracking EXCEPT ![w] = EmptyTable]
  BY <1>1 DEF ForgetRequests, EmptyTable, TableType, Statuses, ServerType
<1>5. /\ manifest_cache' = [manifest_cache EXCEPT ![w] = EmptyCache]
      /\ context_cache' = [context_cache EXCEPT ![w] = EmptyCache]
      /\ manifest_cache' \in CacheType /\ context_cache' \in CacheType
  BY <1>1 DEF ForgetCaches, EmptyCache, CacheType, ServerType
<1>6. PublisherType'
  BY <1>1 DEF ForgetPublished, EmptyPublished, PublisherType, ServerType
<1> QED BY <1>1, <1>2, <1>3, <1>4, <1>5, <1>6

-----------------------------------------------------------------------------
(***************************************************************************)
(* Types, and why an encryption always has a number (EncryptionsInv).      *)
(***************************************************************************)
ServerInv == ServerType /\ EncryptionsInv

\* The steps of Next, with the lookups taken together.
StepOf(t) ==
  \/ \E w \in Workers, r \in RequestIds, a \in Asked : \E kind, b, status, sent :
       Accepts(t, w, r, kind, a, b, status, sent)
  \/ \E w \in Workers : AcceptPublish(t, w)
  \/ Prepares(t) \/ Publish(t) \/ StoreNonces(t) \/ Finish(t) \/ Answer(t)

LEMMA NextSteps ==
  ASSUME Next
  PROVE  (\E t \in Threads : StepOf(t)) \/ (\E w \in Workers : Restart(w))
<1>1. CASE \E t \in Threads, w \in Workers :
             \/ \E r \in RequestIds : AcceptBallot(t, w, r) \/ AcceptTally(t, w, r)
             \/ AcceptPublish(t, w)
  BY <1>1, AcceptIsAccepts DEF StepOf
<1>2. CASE \E t \in Threads :
             \/ LookupContext(t) \/ LookupManifest(t) \/ CreateManifest(t) \/ BuildContext(t)
             \/ Publish(t) \/ StoreNonces(t)
             \/ Finish(t) \/ Answer(t)
  BY <1>2 DEF StepOf, Prepares
<1> QED BY <1>1, <1>2 DEF Next

LEMMA ServerInit == Init => ServerInv
<1> SUFFICES ASSUME Init PROVE ServerInv
  OBVIOUS
<1>1. /\ request_tracking \in TableType /\ manifest_cache \in CacheType
      /\ context_cache \in CacheType /\ PublisherType
  BY DEF Init, TrackingInit, CachesInit, PublisherInit, TableType, CacheType, PublisherType,
         EmptyTable, EmptyCache, EmptyPublished, Statuses
<1>2. /\ pc \in [Threads -> Steps]
      /\ task \in [Threads -> TrackedTasks \union PublishTasks \union {NoTask}]
      /\ requested \in SUBSET Asked /\ overlapped \in SUBSET (Workers \X BallotIds)
      /\ publications \in [Workers -> [BallotIds -> SUBSET {"CAST", "AUDITED"}]]
  BY DEF Init, Steps
<1>3. \A t \in Threads : TaskInv(t)
  BY KindsOfTasks DEF Init, TaskInv
<1>4. encrypted \in Seq(EncryptedBallots) /\ Len(encrypted) = 0
  BY EmptySeq DEF Init
<1>5. Pending = {}
  BY DEF Init, Pending
<1>6. EncryptionsInv
  BY <1>4, <1>5, FS_EmptySet, ServerAssumption DEF EncryptionsInv, Init
<1> QED BY <1>1, <1>2, <1>3, <1>4, <1>6 DEF ServerInv, ServerType

LEMMA ServerNext ==
  ASSUME ServerInv, [Next]_vars
  PROVE  ServerInv'
<1> USE DEF ServerInv
<1>1. Len(encrypted) \in Nat /\ MaxRequests \in Nat /\ served \in 0 .. MaxRequests
  BY EncryptedLen, ServerAssumption DEF EncryptionsInv
<1>2. ASSUME TasksType', UNCHANGED <<requested, publications, overlapped>>, UNCHANGED encrypted,
             request_tracking' \in TableType, manifest_cache' \in CacheType,
             context_cache' \in CacheType, PublisherType'
      PROVE  ServerType'
  BY <1>2 DEF ServerType, TasksType
<1>3. UNCHANGED <<cast_ballots, audited_ballots, ballot_nonces>> => PublisherType'
  BY DEF ServerType, PublisherType
<1>4. /\ UNCHANGED request_tracking => request_tracking' \in TableType
      /\ UNCHANGED manifest_cache => manifest_cache' \in CacheType
      /\ UNCHANGED context_cache => context_cache' \in CacheType
  BY DEF ServerType
<1>5. ASSUME NEW t \in Threads, Alone(t), t \notin Pending' \/ t \in Pending,
             UNCHANGED <<encrypted, served>>
      PROVE  EncryptionsInv'
  <2>1. Cardinality(Pending') <= Cardinality(Pending) /\ Cardinality(Pending') \in Nat /\ Cardinality(Pending) \in Nat
    BY <1>5, PendingStep
  <2> QED BY <1>1, <1>5, <2>1 DEF EncryptionsInv
<1>6. ASSUME NEW t \in Threads, Alone(t), served < MaxRequests, served' = served + 1, UNCHANGED encrypted
      PROVE  EncryptionsInv'
  <2>1. Cardinality(Pending') <= Cardinality(Pending) + 1 /\ Cardinality(Pending') \in Nat /\ Cardinality(Pending) \in Nat
    BY <1>6, PendingStep
  <2> QED BY <1>1, <1>6, <2>1 DEF EncryptionsInv
<1>7. ASSUME NEW t \in Threads, NEW w \in Workers, NEW r \in RequestIds, NEW kind, NEW a \in Asked,
             NEW b, NEW status, NEW sent, Accepts(t, w, r, kind, a, b, status, sent)
      PROVE  ServerInv'
  <2>0. Accepted(t, w, r, kind, a, sent)
    BY <1>7, AcceptStep
  <2>1. /\ TasksType' /\ Alone(t) /\ SetStatus(w, r, "started")
        /\ served < MaxRequests /\ served' = served + 1
        /\ requested' = requested \union {a}
        /\ UNCHANGED <<manifest_cache, context_cache, cast_ballots, audited_ballots,
                        ballot_nonces, encrypted, publications, overlapped>>
    BY <2>0 DEF Accepted
  <2>2. request_tracking' \in TableType
    BY <2>1 DEF SetStatus, TableType, Statuses, ServerType
  <2>3. ServerType'
    BY <1>3, <2>1, <2>2 DEF ServerType, TasksType
  <2> QED BY <1>6, <2>1, <2>3
<1>8. ASSUME NEW t \in Threads, NEW w \in Workers, AcceptPublish(t, w)
      PROVE  ServerInv'
  BY <1>2, <1>3, <1>4, <1>6, <1>8, AcceptPublishStep
<1>9. ASSUME NEW t \in Threads, Prepares(t)
      PROVE  ServerInv'
  <2>1. t \notin Pending' \/ t \in Pending
    BY <1>9, PrepareStep DEF Pending, SameRequest
  <2> QED BY <1>2, <1>3, <1>4, <1>5, <1>9, <2>1, PrepareStep
<1>10. ASSUME NEW t \in Threads, Publish(t)
      PROVE  ServerInv'
  <2> DEFINE w == task[t].worker
             b == task[t].ballot
             ballot == [ballot |-> b, asked |-> task[t].asked, manifest |-> task[t].manifest]
  <2>1. /\ TasksType' /\ Alone(t) /\ w \in Workers /\ b \in BallotIds /\ PublisherType'
        /\ pc[t] = "publish" /\ t \notin Pending'
        /\ publications' = [publications EXCEPT ![w][b] = @ \union {task[t].status}]
        /\ task[t].status \in {"CAST", "AUDITED"}
        /\ overlapped' \in {overlapped, overlapped \union {<<w, b>>}}
        /\ UNCHANGED <<request_tracking, manifest_cache, context_cache, served, requested>>
    BY <1>10, PublishStep DEF Pending
  <2>2. /\ task[t].kind = "publish" => UNCHANGED encrypted
        /\ task[t].kind # "publish" => /\ t \in Pending /\ task[t] \in TrackedTasks
                                       /\ encrypted' = Append(encrypted, ballot)
    BY <1>10, PublishStep
  <2>3. TaskInv(t)
    BY DEF ServerType
  <2>4. publications' \in [Workers -> [BallotIds -> SUBSET {"CAST", "AUDITED"}]]
    BY <2>1 DEF ServerType
  <2>5. overlapped' \in SUBSET (Workers \X BallotIds)
    BY <2>1 DEF ServerType
  <2>6. ASSUME task[t].kind # "publish"
        PROVE  ballot \in EncryptedBallots /\ encrypted' \in Seq(EncryptedBallots) /\ Len(encrypted') = Len(encrypted) + 1
    <3>1. ballot \in EncryptedBallots
      BY <2>1, <2>2, <2>3, <2>6, KindsOfTasks DEF TaskInv, TrackedTasks, EncryptedBallots
    <3> HIDE DEF ballot
    <3>2. encrypted \in Seq(EncryptedBallots)
      BY DEF ServerType
    <3> QED BY <2>2, <2>6, <3>1, <3>2, AppendProperties
  <2>7. encrypted' \in Seq(EncryptedBallots)
    BY <2>2, <2>6 DEF ServerType
  <2>8. ServerType'
    BY <1>4, <2>1, <2>4, <2>5, <2>7 DEF ServerType, TasksType
  <2>9. EncryptionsInv'
    <3>1. CASE task[t].kind = "publish"
      BY <1>5, <2>1, <2>2, <3>1
    <3>2. CASE task[t].kind # "publish"
      <4>1. Cardinality(Pending') + 1 <= Cardinality(Pending) /\ Cardinality(Pending') \in Nat /\ Cardinality(Pending) \in Nat
        BY <2>1, <2>2, <3>2, PendingStep
      <4>2. Len(encrypted') = Len(encrypted) + 1 /\ served' = served
        BY <2>1, <2>6, <3>2
      <4> QED BY <1>1, <4>1, <4>2 DEF EncryptionsInv
    <3> QED BY <3>1, <3>2
  <2> QED BY <2>8, <2>9
<1>11. ASSUME NEW t \in Threads, StoreNonces(t)
      PROVE  ServerInv'
  <2>1. t \notin Pending'
    BY <1>11, StoreNoncesStep DEF Pending
  <2> QED BY <1>2, <1>4, <1>5, <1>11, <2>1, StoreNoncesStep
<1>12. ASSUME NEW t \in Threads, Finish(t)
      PROVE  ServerInv'
  <2>1. t \notin Pending'
    BY <1>12, FinishStep DEF Pending
  <2> QED BY <1>2, <1>3, <1>4, <1>5, <1>12, <2>1, FinishStep
<1>13. ASSUME NEW t \in Threads, Answer(t)
      PROVE  ServerInv'
  <2>1. t \notin Pending'
    BY <1>13, AnswerStep DEF Pending
  <2> QED BY <1>2, <1>3, <1>4, <1>5, <1>13, <2>1, AnswerStep
<1>14. ASSUME NEW w \in Workers, Restart(w)
      PROVE  ServerInv'
  <2>1. publications' \in [Workers -> [BallotIds -> SUBSET {"CAST", "AUDITED"}]]
    BY <1>14, RestartStep, ZenonT(30) DEF ServerType
  <2>2. overlapped' \in SUBSET (Workers \X BallotIds)
    BY <1>14, RestartStep DEF ServerType
  <2>3. ServerType'
    BY <1>14, <2>1, <2>2, RestartStep DEF ServerType, TasksType
  <2>4. Pending' \subseteq Pending
    BY <1>14, RestartStep DEF Pending
  <2>5. /\ Cardinality(Pending') <= Cardinality(Pending)
        /\ Cardinality(Pending') \in Nat /\ Cardinality(Pending) \in Nat
    <3>1. IsFiniteSet(Pending)
      BY FS_Subset, ServerAssumption DEF Pending
    <3> QED BY <2>4, <3>1, FS_Subset, FS_CardinalityType
  <2>6. UNCHANGED <<encrypted, served>>
    BY <1>14, RestartStep
  <2> QED BY <1>1, <2>3, <2>5, <2>6 DEF EncryptionsInv
<1>15. CASE UNCHANGED vars
  <2>1. ServerType'
    BY <1>15 DEF vars, ServerType, PublisherType, TaskInv
  <2>2. Pending' = Pending
    BY <1>15 DEF vars, Pending
  <2> QED BY <1>15, <2>1, <2>2 DEF vars, EncryptionsInv
<1> QED BY <1>7, <1>8, <1>9, <1>10, <1>11, <1>12, <1>13, <1>14, <1>15, NextSteps DEF StepOf

LEMMA ServerInvariant == Spec => []ServerInv
BY ServerInit, ServerNext, PTL DEF Spec

\* The tables, caches, dictionaries, threads and counters of the server have their
\* types, whatever is asked of it and however its threads interleave.
THEOREM ServerTypes == Spec => []TypeOK
<1>1. ServerInv => TypeOK
  <2> SUFFICES ASSUME ServerInv PROVE TypeOK
    OBVIOUS
  <2>1. Len(encrypted) <= MaxRequests
    <3>1. Cardinality(Pending) \in Nat
      BY FS_Subset, FS_CardinalityType, ServerAssumption DEF Pending
    <3> QED BY <3>1, EncryptedLen, ServerAssumption DEF ServerInv, EncryptionsInv
  <2> QED BY <2>1 DEF ServerInv, ServerType, TypeOK, TaskInv
<1> QED BY <1>1, ServerInvariant, PTL

-----------------------------------------------------------------------------
(***************************************************************************)
(* The table of requests.                                                  *)
(***************************************************************************)
\* The cleanup deletes something, whatever the order of the ids.
LEMMA FirstIsNotEmpty ==
  ASSUME NEW ids \in SUBSET RequestIds, ids # {}
  PROVE  First(ids, Removed) # {}
<1> DEFINE below == [r \in ids |-> {s \in ids : s < r}]
           size == [r \in ids |-> Cardinality(below[r])]
<1>1. ids \in SUBSET Int /\ IsFiniteSet(ids)
  BY FS_Subset, TrackingAssumption
<1>2. \A r \in ids : below[r] \in SUBSET ids /\ IsFiniteSet(below[r]) /\ size[r] \in Nat
  <2>1. \A r \in ids : below[r] \in SUBSET ids
    OBVIOUS
  <2>2. \A r \in ids : IsFiniteSet(below[r]) /\ Cardinality(below[r]) \in Nat
    BY <1>1, <2>1, FS_Subset, FS_CardinalityType
  <2> QED BY <2>1, <2>2
<1>3. PICK r \in ids : \A s \in ids : size[r] <= size[s]
  <2> DEFINE S == {size[r] : r \in ids}
  <2>1. S \in SUBSET Nat /\ S # {}
    BY <1>2
  <2> HIDE DEF size
  <2>2. PICK n \in S : \A m \in S : n <= m
    <3> HIDE DEF S
    <3> QED BY <2>1, LeastNumber
  <2> QED BY <2>2
<1>4. below[r] = {}
  <2> SUFFICES ASSUME NEW s \in below[r] PROVE FALSE
    OBVIOUS
  <2>1. s \in ids /\ s < r /\ s \in Int /\ r \in Int
    BY <1>1
  <2>2. \A u \in below[s] : u \in below[r]
    <3> SUFFICES ASSUME NEW u \in ids, u < s PROVE u < r
      BY <2>1
    <3>1. u \in Int
      BY <1>1
    <3> QED BY <2>1, <3>1
  <2>3. s \notin below[s]
    BY <2>1
  <2>4. below[s] \in SUBSET below[r] /\ below[s] # below[r] /\ IsFiniteSet(below[r])
    BY <1>2, <2>2, <2>3
  <2>5. size[r] <= size[s] /\ size[r] \in Nat /\ size[s] \in Nat
    BY <1>2, <1>3, <2>1
  <2>6. size[r] = Cardinality(below[r]) /\ size[s] = Cardinality(below[s])
    BY <2>1
  <2> HIDE DEF below, size
  <2> QED BY <2>4, <2>5, <2>6, FS_Subset
<1>5. Cardinality({s \in ids : s < r}) < Removed
  BY <1>4, FS_EmptySet, TrackingAssumption
<1> QED BY <1>5 DEF First

\* What the entries become.
LEMMA CleanupStep ==
  ASSUME ServerType, NEW w \in Workers, Cleanup(w)
  PROVE  /\ \A v \in Workers, r \in RequestIds :
              request_tracking'[v][r] \in {request_tracking[v][r], "none"}
         /\ \A v \in Workers \ {w} : request_tracking'[v] = request_tracking[v]
         /\ Cardinality(Tracked(w)) > Kept => Tracked(w)' # Tracked(w)
<1> DEFINE deleted == IF Cardinality(Tracked(w)) > Kept THEN First(Tracked(w), Removed) ELSE {}
<1>1. /\ request_tracking' = [request_tracking EXCEPT
           ![w] = [r \in RequestIds |-> IF r \in deleted THEN "none" ELSE request_tracking[w][r]]]
      /\ request_tracking \in TableType
  BY DEF Cleanup, ServerType
<1>2. ASSUME Cardinality(Tracked(w)) > Kept PROVE Tracked(w)' # Tracked(w)
  <2>1. Tracked(w) # {} /\ Tracked(w) \in SUBSET RequestIds
    BY <1>2, FS_EmptySet, TrackingAssumption DEF Tracked
  <2>2. PICK r \in First(Tracked(w), Removed) : TRUE
    BY <2>1, FirstIsNotEmpty
  <2>3. r \in Tracked(w) /\ r \in deleted /\ r \in RequestIds
    BY <1>2, <2>1, <2>2 DEF First
  <2> HIDE DEF deleted
  <2>4. request_tracking'[w][r] = "none"
    BY <1>1, <2>3 DEF TableType
  <2> QED BY <2>3, <2>4 DEF Tracked
<1> HIDE DEF deleted
<1>3. \A v \in Workers, r \in RequestIds :
        request_tracking'[v][r] \in {request_tracking[v][r], "none"}
  BY <1>1 DEF TableType
<1>4. \A v \in Workers \ {w} : request_tracking'[v] = request_tracking[v]
  BY <1>1 DEF TableType
<1> QED BY <1>2, <1>3, <1>4

LEMMA TablesAreFinite ==
  ASSUME NEW w
  PROVE  /\ IsFiniteSet(Tracked(w)) /\ IsFiniteSet(Tracked(w)')
         /\ IsFiniteSet(Tracking(w)) /\ IsFiniteSet(Tracking(w)')
         /\ Cardinality(Tracked(w)) \in Nat /\ Cardinality(Tracked(w)') \in Nat
         /\ Cardinality(Tracking(w)) \in Nat /\ Cardinality(Tracking(w)') \in Nat
<1>1. /\ Tracked(w) \in SUBSET RequestIds /\ Tracked(w)' \in SUBSET RequestIds
      /\ Tracking(w) \in SUBSET Threads /\ Tracking(w)' \in SUBSET Threads
  BY DEF Tracked, Tracking, Busy
<1> QED BY <1>1, FS_Subset, FS_CardinalityType, TrackingAssumption, ServerAssumption

LEMMA OneMore ==
  ASSUME NEW S, IsFiniteSet(S), NEW x, NEW T \in SUBSET (S \union {x})
  PROVE  Cardinality(T) <= Cardinality(S) + 1
<1>1. /\ IsFiniteSet(S \union {x})
      /\ Cardinality(S \union {x}) = IF x \in S THEN Cardinality(S) ELSE Cardinality(S) + 1
  BY FS_AddElement
<1>2. Cardinality(T) <= Cardinality(S \union {x}) /\ IsFiniteSet(T)
  BY <1>1, FS_Subset
<1>3. Cardinality(S) \in Nat /\ Cardinality(T) \in Nat
  BY <1>2, FS_CardinalityType
<1> QED BY <1>1, <1>2, <1>3

\* A thread stays with its request, or is none that tracks one.
LEMMA TrackingKept ==
  ASSUME NEW t \in Threads, Alone(t), (t \in Tracking(task[t].worker)) =>
           (pc'[t] # "idle" /\ task'[t].worker = task[t].worker /\ task'[t].kind = task[t].kind),
         NEW w
  PROVE  Tracking(w) \subseteq Tracking(w)'
BY DEF Alone, Tracking, Busy

\* The bound on the table is kept by a step that neither adds an entry nor ends a
\* tracked request.
LEMMA BoundKept ==
  ASSUME NEW w \in Workers, Cardinality(Tracked(w)) <= Kept + Cardinality(Tracking(w)),
         Tracked(w)' \subseteq Tracked(w), Tracking(w) \subseteq Tracking(w)'
  PROVE  Cardinality(Tracked(w)') <= Kept + Cardinality(Tracking(w)')
<1>1. /\ Cardinality(Tracked(w)') <= Cardinality(Tracked(w))
      /\ Cardinality(Tracking(w)) <= Cardinality(Tracking(w)')
  BY TablesAreFinite, FS_Subset
<1> QED BY <1>1, TablesAreFinite, TrackingAssumption

LEMMA TableStep ==
  ASSUME ServerInv, TableIsBounded, [Next]_vars
  PROVE  TableIsBounded'
<1> SUFFICES ASSUME NEW w \in Workers
             PROVE  Cardinality(Tracked(w)') <= Kept + Cardinality(Tracking(w)')
  BY DEF TableIsBounded
<1>1. Cardinality(Tracked(w)) <= Kept + Cardinality(Tracking(w)) /\ Kept \in Nat
  BY TrackingAssumption DEF TableIsBounded
<1>2. ServerType
  BY DEF ServerInv
<1>3. UNCHANGED request_tracking => Tracked(w)' \subseteq Tracked(w)
  BY DEF Tracked
<1>4. ASSUME NEW t \in Threads, NEW v \in Workers, NEW r \in RequestIds, NEW kind, NEW a \in Asked,
             NEW b, NEW status, NEW sent, Accepts(t, v, r, kind, a, b, status, sent)
      PROVE  Cardinality(Tracked(w)') <= Kept + Cardinality(Tracking(w)')
  <2>0. Accepted(t, v, r, kind, a, sent)
    BY <1>2, <1>4, AcceptStep
  <2>1. /\ Alone(t) /\ pc[t] = "idle" /\ pc'[t] = "context"
        /\ task'[t].kind # "publish" /\ task'[t].worker = v
        /\ SetStatus(v, r, "started")
    BY <2>0, KindsOfTasks DEF Accepted
  <2>2. CASE w = v
    <3>1. Tracked(w)' \subseteq Tracked(w) \union {r}
      BY <1>2, <2>1, <2>2 DEF SetStatus, Tracked, ServerType, TableType
    <3>2. Cardinality(Tracked(w)') <= Cardinality(Tracked(w)) + 1
      BY <3>1, TablesAreFinite, OneMore
    <3>3. Tracking(w)' = Tracking(w) \union {t} /\ t \notin Tracking(w)
      BY <2>1, <2>2 DEF Alone, Tracking, Busy
    <3>4. Cardinality(Tracking(w)') = Cardinality(Tracking(w)) + 1
      BY <3>3, TablesAreFinite, FS_AddElement
    <3> QED BY <1>1, <3>2, <3>4, TablesAreFinite
  <2>3. CASE w # v
    <3>1. Tracked(w)' \subseteq Tracked(w)
      BY <1>2, <2>1, <2>3 DEF SetStatus, Tracked, ServerType, TableType
    <3>2. Tracking(w) \subseteq Tracking(w)'
      BY <2>1, TrackingKept DEF Tracking, Busy
    <3> QED BY <1>1, <3>1, <3>2, BoundKept
  <2> QED BY <2>2, <2>3
<1>5. ASSUME NEW t \in Threads, \E v \in Workers : AcceptPublish(t, v)
      PROVE  Cardinality(Tracked(w)') <= Kept + Cardinality(Tracking(w)')
  <2>1. Alone(t) /\ pc[t] = "idle" /\ UNCHANGED request_tracking
    BY <1>5, AcceptPublishStep DEF ServerInv
  <2>2. Tracking(w) \subseteq Tracking(w)'
    BY <2>1, TrackingKept DEF Tracking, Busy
  <2> QED BY <1>1, <1>3, <2>1, <2>2, BoundKept
<1>6. ASSUME NEW t \in Threads, Prepares(t)
      PROVE  Cardinality(Tracked(w)') <= Kept + Cardinality(Tracking(w)')
  <2>1. Tracking(w) \subseteq Tracking(w)' /\ UNCHANGED request_tracking
    BY <1>2, <1>6, PrepareStep, TrackingKept DEF SameRequest
  <2> QED BY <1>1, <1>3, <2>1, BoundKept
<1>7. ASSUME NEW t \in Threads, Publish(t) \/ StoreNonces(t)
      PROVE  Cardinality(Tracked(w)') <= Kept + Cardinality(Tracking(w)')
  <2>1. /\ Alone(t) /\ UNCHANGED request_tracking
        /\ task[t].kind # "publish" => pc'[t] # "idle" /\ SameRequest(task[t], task'[t])
    BY <1>2, <1>7, PublishStep, StoreNoncesStep DEF ServerInv
  <2>2. Tracking(w) \subseteq Tracking(w)'
    BY <2>1, TrackingKept DEF SameRequest, Tracking
  <2> QED BY <1>1, <1>3, <2>1, <2>2, BoundKept
<1>8. ASSUME NEW t \in Threads, Finish(t)
      PROVE  Cardinality(Tracked(w)') <= Kept + Cardinality(Tracking(w)')
  <2>1. Tracking(w) \subseteq Tracking(w)'
    BY <1>2, <1>8, FinishStep, TrackingKept DEF SameRequest
  <2>2. Tracked(w)' \subseteq Tracked(w)
    <3>1. CASE /\ task[t].id \in Tracked(task[t].worker)
               /\ SetStatus(task[t].worker, task[t].id, "completed")
      BY <1>2, <3>1 DEF SetStatus, Tracked, ServerType, TableType
    <3> QED BY <1>2, <1>3, <1>8, <3>1, FinishStep
  <2> QED BY <1>1, <2>1, <2>2, BoundKept
<1>9. ASSUME NEW t \in Threads, Answer(t)
      PROVE  Cardinality(Tracked(w)') <= Kept + Cardinality(Tracking(w)')
  <2> DEFINE v == task[t].worker
  <2>1. /\ Alone(t) /\ pc[t] = "cleanup" /\ pc'[t] = "idle" /\ Cleanup(v)
        /\ v \in Workers
    BY <1>2, <1>9, AnswerStep DEF TrackedTasks
  <2>2. /\ \A r \in RequestIds : request_tracking'[w][r] \in {request_tracking[w][r], "none"}
        /\ v = w /\ Cardinality(Tracked(w)) > Kept => Tracked(w)' # Tracked(w)
    BY <1>2, <2>1, CleanupStep
  <2>3. Tracked(w)' \subseteq Tracked(w)
    BY <2>2 DEF Tracked
  <2>4. CASE v # w
    BY <1>1, <2>1, <2>3, <2>4, TrackingKept, BoundKept DEF Tracking, Busy, Alone
  <2>5. CASE v = w /\ Cardinality(Tracked(w)) <= Kept
    <3>1. Cardinality(Tracked(w)') <= Cardinality(Tracked(w))
      BY <2>3, TablesAreFinite, FS_Subset
    <3> QED BY <1>1, <2>5, <3>1, TablesAreFinite
  <2>6. CASE v = w /\ Cardinality(Tracked(w)) > Kept
    <3>1. /\ Cardinality(Tracked(w)') <= Cardinality(Tracked(w))
          /\ Cardinality(Tracked(w)') # Cardinality(Tracked(w))
      BY <2>2, <2>3, <2>6, TablesAreFinite, FS_Subset
    <3>2. Tracking(w) \subseteq Tracking(w)' \union {t}
      BY <2>1 DEF Tracking, Busy, Alone
    <3>3. Cardinality(Tracking(w)) <= Cardinality(Tracking(w)') + 1
      BY <3>2, TablesAreFinite, OneMore
    <3>4. /\ Cardinality(Tracked(w)) \in Nat /\ Cardinality(Tracked(w)') \in Nat
          /\ Cardinality(Tracking(w)) \in Nat /\ Cardinality(Tracking(w)') \in Nat
      BY TablesAreFinite
    <3> QED BY <1>1, <3>1, <3>3, <3>4
  <2> QED BY <2>4, <2>5, <2>6, TablesAreFinite, <1>1
<1>10. ASSUME NEW v \in Workers, Restart(v)
      PROVE  Cardinality(Tracked(w)') <= Kept + Cardinality(Tracking(w)')
  <2>1. /\ request_tracking' = [request_tracking EXCEPT ![v] = EmptyTable]
        /\ \A t \in Threads : t \notin Busy(v) => pc'[t] = pc[t] /\ task'[t] = task[t]
    BY <1>2, <1>10, RestartStep
  <2>2. CASE w = v
    <3>1. Tracked(w)' = {}
      BY <1>2, <2>1, <2>2 DEF Tracked, EmptyTable, ServerType, TableType
    <3> QED BY <1>1, <3>1, FS_EmptySet, TablesAreFinite
  <2>3. CASE w # v
    <3>1. Tracked(w)' \subseteq Tracked(w)
      BY <1>2, <2>1, <2>3 DEF Tracked, ServerType, TableType
    <3>2. Tracking(w) \subseteq Tracking(w)'
      BY <2>1, <2>3 DEF Tracking, Busy
    <3> QED BY <1>1, <3>1, <3>2, BoundKept
  <2> QED BY <2>2, <2>3
<1>11. CASE UNCHANGED vars
  <2>1. Tracked(w)' = Tracked(w) /\ Tracking(w)' = Tracking(w)
    BY <1>11 DEF vars, Tracked, Tracking, Busy
  <2> QED BY <1>1, <2>1
<1> QED BY <1>4, <1>5, <1>6, <1>7, <1>8, <1>9, <1>10, <1>11, NextSteps DEF StepOf

\* The table of a worker process does not grow beyond the limit of the cleanup and
\* the requests that are being served, however long the process runs.
THEOREM TableStaysBounded == Spec => []TableIsBounded
<1>1. Init => TableIsBounded
  <2> SUFFICES ASSUME Init, NEW w \in Workers
               PROVE  Cardinality(Tracked(w)) <= Kept + Cardinality(Tracking(w))
    BY DEF TableIsBounded
  <2>1. Tracked(w) = {}
    BY DEF Init, TrackingInit, Tracked, EmptyTable
  <2> QED BY <2>1, FS_EmptySet, TablesAreFinite, TrackingAssumption
<1> QED BY <1>1, TableStep, ServerInvariant, PTL DEF Spec

\* A request that /health counts as active has its thread.
Runs(t, w, r) ==
  t \in Tracking(w) /\ task[t].id = r /\ pc[t] \notin {"idle", "cleanup"}

LEMMA RunsOn ==
  ASSUME NEW t \in Threads, Alone(t), pc'[t] \notin {"idle", "cleanup"} \/ task[t].kind = "publish"
           \/ pc[t] \in {"idle", "cleanup"},
         \/ task[t].kind = "publish" \/ pc[t] \in {"idle", "cleanup"}
         \/ SameRequest(task[t], task'[t]),
         NEW u \in Threads, NEW w, NEW r, Runs(u, w, r)
  PROVE  Runs(u, w, r)'
BY DEF Alone, Runs, Tracking, Busy, SameRequest

LEMMA StartedStep ==
  ASSUME ServerInv, StartedMeansRunning, [Next]_vars
  PROVE  StartedMeansRunning'
<1> SUFFICES ASSUME NEW w \in Workers, NEW r \in RequestIds, request_tracking'[w][r] = "started"
             PROVE  \E t \in Threads : Runs(t, w, r)'
  BY DEF StartedMeansRunning, Active, Runs, Tracking, Busy
<1>1. ServerType
  BY DEF ServerInv
<1>2. request_tracking[w][r] = "started" => \E u \in Threads : Runs(u, w, r)
  BY DEF StartedMeansRunning, Active, Runs, Tracking, Busy
<1>3. ASSUME NEW t \in Threads, NEW v \in Workers, NEW q \in RequestIds, NEW kind, NEW a \in Asked,
             NEW b, NEW status, NEW sent, Accepts(t, v, q, kind, a, b, status, sent)
      PROVE  \E u \in Threads : Runs(u, w, r)'
  <2>0. Accepted(t, v, q, kind, a, sent)
    BY <1>1, <1>3, AcceptStep
  <2>1. /\ Alone(t) /\ pc[t] = "idle" /\ pc'[t] = "context"
        /\ task'[t].kind # "publish" /\ task'[t].worker = v /\ task'[t].id = q
        /\ SetStatus(v, q, "started")
    BY <2>0, KindsOfTasks DEF Accepted
  <2>2. CASE w = v /\ r = q
    <3>1. Runs(t, w, r)'
      BY <2>1, <2>2 DEF Runs, Tracking, Busy
    <3> QED BY <3>1
  <2>3. CASE ~(w = v /\ r = q)
    <3>1. request_tracking[w][r] = "started"
      BY <1>1, <2>1, <2>3 DEF SetStatus, ServerType, TableType
    <3> QED BY <1>2, <2>1, <3>1, RunsOn
  <2> QED BY <2>2, <2>3
<1>4. ASSUME NEW t \in Threads, \E v \in Workers : AcceptPublish(t, v)
      PROVE  \E u \in Threads : Runs(u, w, r)'
  <2>1. Alone(t) /\ pc[t] = "idle" /\ UNCHANGED request_tracking
    BY <1>4, AcceptPublishStep DEF ServerInv
  <2> QED BY <1>2, <2>1, RunsOn
<1>5. ASSUME NEW t \in Threads, Prepares(t)
      PROVE  \E u \in Threads : Runs(u, w, r)'
  <2>1. /\ Alone(t) /\ pc'[t] \notin {"idle", "cleanup"} /\ SameRequest(task[t], task'[t])
        /\ UNCHANGED request_tracking
    BY <1>1, <1>5, PrepareStep
  <2> QED BY <1>2, <2>1, RunsOn
<1>6. ASSUME NEW t \in Threads, Publish(t) \/ StoreNonces(t)
      PROVE  \E u \in Threads : Runs(u, w, r)'
  <2>1. /\ Alone(t) /\ UNCHANGED request_tracking
        /\ task[t].kind # "publish" => pc'[t] \notin {"idle", "cleanup"} /\ SameRequest(task[t], task'[t])
    BY <1>1, <1>6, PublishStep, StoreNoncesStep DEF ServerInv
  <2> QED BY <1>2, <2>1, RunsOn
<1>7. ASSUME NEW t \in Threads, Finish(t)
      PROVE  \E u \in Threads : Runs(u, w, r)'
  <2> DEFINE v == task[t].worker
             q == task[t].id
  <2>1. /\ Alone(t) /\ v \in Workers /\ q \in RequestIds
        /\ \/ SetStatus(v, q, "completed")
           \/ q \notin Tracked(v) /\ UNCHANGED request_tracking
    BY <1>1, <1>7, FinishStep DEF TrackedTasks
  <2>2. request_tracking[w][r] = "started" /\ ~(w = v /\ r = q)
    BY <1>1, <2>1 DEF SetStatus, ServerType, TableType, Tracked
  <2>3. PICK u \in Threads : Runs(u, w, r)
    BY <1>2, <2>2
  <2>4. u # t
    BY <2>2, <2>3 DEF Runs, Tracking, Busy
  <2>5. Runs(u, w, r)'
    BY <2>1, <2>3, <2>4 DEF Alone, Runs, Tracking, Busy
  <2> QED BY <2>5
<1>8. ASSUME NEW t \in Threads, Answer(t)
      PROVE  \E u \in Threads : Runs(u, w, r)'
  <2>1. /\ Alone(t) /\ pc[t] = "cleanup" /\ Cleanup(task[t].worker) /\ task[t].worker \in Workers
    BY <1>1, <1>8, AnswerStep DEF TrackedTasks
  <2>2. request_tracking[w][r] = "started"
    BY <1>1, <2>1, CleanupStep
  <2> QED BY <1>2, <2>1, <2>2, RunsOn
<1>9. ASSUME NEW v \in Workers, Restart(v)
      PROVE  \E u \in Threads : Runs(u, w, r)'
  <2>1. /\ request_tracking' = [request_tracking EXCEPT ![v] = EmptyTable]
        /\ \A t \in Threads : t \notin Busy(v) => pc'[t] = pc[t] /\ task'[t] = task[t]
    BY <1>1, <1>9, RestartStep
  <2>2. w # v /\ request_tracking[w][r] = "started"
    BY <1>1, <2>1 DEF EmptyTable, ServerType, TableType
  <2>3. PICK u \in Threads : Runs(u, w, r)
    BY <1>2, <2>2
  <2>4. Runs(u, w, r)'
    BY <2>1, <2>2, <2>3 DEF Runs, Tracking, Busy
  <2> QED BY <2>4
<1>10. CASE UNCHANGED vars
  BY <1>2, <1>10 DEF vars, Runs, Tracking, Busy
<1> QED BY <1>3, <1>4, <1>5, <1>6, <1>7, <1>8, <1>9, <1>10, NextSteps DEF StepOf

\* What /health counts as active, and in the end as stuck, is a request that a thread
\* is working on: the finally block and the loss of an entry leave no orphan.
THEOREM StartedStaysRunning == Spec => []StartedMeansRunning
<1>1. Init => StartedMeansRunning
  BY DEF Init, TrackingInit, EmptyTable, StartedMeansRunning, Active
<1> QED BY <1>1, StartedStep, ServerInvariant, PTL DEF Spec

-----------------------------------------------------------------------------
(***************************************************************************)
(* The published ballots.                                                  *)
(***************************************************************************)
LEMMA UnderWayMeansStoring ==
  ASSUME NEW w \in Workers, NEW b \in BallotIds
  PROVE  UnderWay(w, b) <=> Storing(w, b) # {}
BY DEF UnderWay, Storing, Busy

\* A thread that neither begins nor ends the nonces of a ballot disturbs nobody.
LEMMA StoringKept ==
  ASSUME NEW t \in Threads, Alone(t), pc[t] # "nonces", pc'[t] # "nonces",
         NEW w, NEW b
  PROVE  /\ Storing(w, b)' = Storing(w, b)
         /\ \A u \in Storing(w, b) : task'[u] = task[u]
BY DEF Storing, Alone

LEMMA PublishedOfKept ==
  ASSUME NEW w, NEW b, PublishedOf(w, b),
         Storing(w, b)' = Storing(w, b), \A u \in Storing(w, b) : task'[u] = task[u],
         publications'[w][b] = publications[w][b], cast_ballots'[w][b] = cast_ballots[w][b],
         audited_ballots'[w][b] = audited_ballots[w][b],
         ballot_nonces'[w][b] = ballot_nonces[w][b],
         <<w, b>> \in overlapped' <=> <<w, b>> \in overlapped
  PROVE  PublishedOf(w, b)'
<1>1. ASSUME NEW t \in Storing(w, b)'
      PROVE  /\ audited_ballots'[w][b] # Absent
             /\ <<w, b>> \notin overlapped' => /\ audited_ballots'[w][b] = task'[t].response.encryption
                                              /\ Storing(w, b)' = {t}
  BY DEF PublishedOf
<1> QED BY <1>1 DEF PublishedOf

LEMMA PublishedStep ==
  ASSUME ServerInv, PublishedInv, [Next]_vars
  PROVE  PublishedInv'
<1> SUFFICES ASSUME NEW w \in Workers, NEW b \in BallotIds PROVE PublishedOf(w, b)'
  BY DEF PublishedInv
<1>1. PublishedOf(w, b) /\ ServerType
  BY DEF ServerInv, PublishedInv
<1>2. ASSUME NEW t \in Threads, Alone(t), pc[t] # "nonces", pc'[t] # "nonces",
             UNCHANGED <<cast_ballots, audited_ballots, ballot_nonces, publications, overlapped>>
      PROVE  PublishedOf(w, b)'
  BY <1>1, <1>2, StoringKept, PublishedOfKept
<1>3. ASSUME NEW t \in Threads, NEW v \in Workers, NEW r \in RequestIds, NEW kind, NEW a \in Asked,
             NEW c, NEW status, NEW sent, Accepts(t, v, r, kind, a, c, status, sent)
      PROVE  PublishedOf(w, b)'
  BY <1>1, <1>2, <1>3, AcceptStep DEF Accepted
<1>4. ASSUME NEW t \in Threads, \E v \in Workers : AcceptPublish(t, v)
      PROVE  PublishedOf(w, b)'
  BY <1>2, <1>4, AcceptPublishStep DEF ServerInv
<1>5. ASSUME NEW t \in Threads, Prepares(t) \/ Finish(t) \/ Answer(t)
      PROVE  PublishedOf(w, b)'
  <2>1. /\ Alone(t) /\ pc[t] # "nonces" /\ pc'[t] # "nonces"
        /\ UNCHANGED <<cast_ballots, audited_ballots, ballot_nonces, publications, overlapped>>
    BY <1>1, <1>5, PrepareStep, FinishStep, AnswerStep
  <2> QED BY <1>2, <2>1
<1>6. ASSUME NEW t \in Threads, Publish(t)
      PROVE  PublishedOf(w, b)'
  <2> DEFINE v == task[t].worker
             c == task[t].ballot
  <2>1. /\ Alone(t) /\ v \in Workers /\ c \in BallotIds /\ pc[t] = "publish"
        /\ ballot_nonces' = ballot_nonces
        /\ publications' = [publications EXCEPT ![v][c] = @ \union {task[t].status}]
    BY <1>6, PublishStep DEF ServerInv
  <2>2. /\ \A x \in Workers, y \in BallotIds :
             publications'[x][y] = IF x = v /\ y = c THEN publications[x][y] \union {task[t].status}
                                   ELSE publications[x][y]
    BY <1>1, <2>1 DEF ServerType
  <2>3. CASE task[t].status = "CAST"
    <3>1. PICK e \in Encryptions : cast_ballots' = [cast_ballots EXCEPT ![v][c] = e]
      BY <1>6, <2>3, PublishStep DEF ServerInv
    <3>2. UNCHANGED <<audited_ballots, overlapped>> /\ pc'[t] # "nonces" /\ e # Absent
      BY <1>6, <2>3, PublishStep, PublisherAssumption DEF ServerInv, Absent
    <3>3. cast_ballots'[w][b] = IF w = v /\ b = c THEN e ELSE cast_ballots[w][b]
      BY <1>1, <2>1, <3>1 DEF ServerType, PublisherType
    <3>4. Storing(w, b)' = Storing(w, b) /\ \A u \in Storing(w, b) : task'[u] = task[u]
      BY <2>1, <3>2, StoringKept
    <3>5. CASE w = v /\ b = c
      <4>1. /\ "CAST" \in publications'[w][b] /\ cast_ballots'[w][b] # Absent
            /\ "AUDITED" \in publications'[w][b] <=> "AUDITED" \in publications[w][b]
        <5>1. publications'[w][b] = publications[w][b] \union {"CAST"}
          BY <2>2, <2>3, <3>5
        <5> QED BY <3>2, <3>3, <3>5, <5>1
      <4> QED BY <1>1, <2>1, <3>2, <3>4, <4>1 DEF PublishedOf
    <3>6. CASE ~(w = v /\ b = c)
      BY <1>1, <2>1, <2>2, <3>2, <3>3, <3>4, <3>6, PublishedOfKept
    <3> QED BY <3>5, <3>6
  <2>4. CASE task[t].status = "AUDITED"
    <3>1. /\ pc'[t] = "nonces" /\ task'[t].worker = v /\ task'[t].ballot = c
          /\ task'[t].response \in Responses
          /\ audited_ballots' = [audited_ballots EXCEPT ![v][c] = task'[t].response.encryption]
          /\ UNCHANGED cast_ballots
          /\ overlapped' = IF \E u \in Busy(v) : pc[u] = "nonces" /\ task[u].ballot = c
                           THEN overlapped \union {<<v, c>>} ELSE overlapped
      BY <1>6, <2>4, PublishStep DEF ServerInv
    <3>2. task'[t].response.encryption # Absent
      BY <3>1, PublisherAssumption DEF Responses, Absent
    <3>3. audited_ballots'[w][b] = IF w = v /\ b = c THEN task'[t].response.encryption
                                   ELSE audited_ballots[w][b]
      BY <1>1, <2>1, <3>1 DEF ServerType, PublisherType
    <3>4. CASE w = v /\ b = c
      <4>1. Storing(w, b)' = Storing(w, b) \union {t}
        BY <2>1, <3>1, <3>4 DEF Storing, Alone
      <4>2. <<w, b>> \notin overlapped' => Storing(w, b) = {}
        BY <3>1, <3>4 DEF Storing, Busy
      <4>3. /\ "AUDITED" \in publications'[w][b] /\ audited_ballots'[w][b] # Absent
            /\ audited_ballots'[w][b] = task'[t].response.encryption
            /\ "CAST" \in publications'[w][b] <=> "CAST" \in publications[w][b]
            /\ cast_ballots'[w][b] = cast_ballots[w][b]
        <5>1. publications'[w][b] = publications[w][b] \union {"AUDITED"}
          BY <2>2, <2>4, <3>4
        <5> QED BY <3>1, <3>2, <3>3, <3>4, <5>1
      <4>4. <<w, b>> \notin overlapped' => Storing(w, b)' = {t}
        BY <4>1, <4>2
      <4>5. Storing(w, b)' # {}
        BY <4>1
      <4>6. \A u \in Storing(w, b)' : <<w, b>> \notin overlapped' => u = t
        BY <4>4
      <4> QED BY <1>1, <4>3, <4>4, <4>5, <4>6 DEF PublishedOf
    <3>5. CASE ~(w = v /\ b = c)
      <4>1. Storing(w, b)' = Storing(w, b) /\ \A u \in Storing(w, b) : task'[u] = task[u]
        BY <2>1, <3>1, <3>5 DEF Storing, Alone
      <4>2. <<w, b>> \in overlapped' <=> <<w, b>> \in overlapped
        BY <3>1, <3>5
      <4> QED BY <1>1, <2>1, <2>2, <3>1, <3>3, <3>5, <4>1, <4>2, PublishedOfKept
    <3> QED BY <3>4, <3>5
  <2> QED BY <1>6, <2>3, <2>4, PublishStep DEF ServerInv
<1>7. ASSUME NEW t \in Threads, StoreNonces(t)
      PROVE  PublishedOf(w, b)'
  <2> DEFINE v == task[t].worker
             c == task[t].ballot
  <2>1. /\ Alone(t) /\ v \in Workers /\ c \in BallotIds /\ pc[t] = "nonces" /\ pc'[t] # "nonces"
        /\ task[t].response \in Responses
        /\ UNCHANGED <<cast_ballots, audited_ballots, publications, overlapped>>
    BY <1>1, <1>7, StoreNoncesStep
  <2>2. PICK n \in {task[t].response.encryption, NoNonces} :
          ballot_nonces' = [ballot_nonces EXCEPT ![v][c] = n]
    BY <1>1, <1>7, StoreNoncesStep
  <2>3. n # Absent
    BY <2>1, PublisherAssumption DEF Responses, Absent, NoNonces
  <2>4. ballot_nonces'[w][b] = IF w = v /\ b = c THEN n ELSE ballot_nonces[w][b]
    BY <1>1, <2>1, <2>2 DEF ServerType, PublisherType
  <2>5. CASE w = v /\ b = c
    <3>1. t \in Storing(w, b) /\ Storing(w, b)' = Storing(w, b) \ {t}
          /\ \A u \in Storing(w, b)' : task'[u] = task[u]
      BY <2>1, <2>5 DEF Storing, Alone
    <3> QED BY <1>1, <2>1, <2>2, <2>3, <2>4, <2>5, <3>1 DEF PublishedOf
  <2>6. CASE ~(w = v /\ b = c)
    <3>1. Storing(w, b)' = Storing(w, b) /\ \A u \in Storing(w, b) : task'[u] = task[u]
      BY <2>1, <2>6 DEF Storing, Alone
    <3> QED BY <1>1, <2>1, <2>4, <2>6, <3>1, PublishedOfKept
  <2> QED BY <2>5, <2>6
<1>8. ASSUME NEW v \in Workers, Restart(v)
      PROVE  PublishedOf(w, b)'
  <2>1. /\ \A t \in Threads : IF t \in Busy(v) THEN pc'[t] = "idle" /\ task'[t] = NoTask
                              ELSE pc'[t] = pc[t] /\ task'[t] = task[t]
        /\ cast_ballots' = [cast_ballots EXCEPT ![v] = EmptyPublished]
        /\ audited_ballots' = [audited_ballots EXCEPT ![v] = EmptyPublished]
        /\ ballot_nonces' = [ballot_nonces EXCEPT ![v] = EmptyPublished]
        /\ publications' = [publications EXCEPT ![v] = [x \in BallotIds |-> {}]]
        /\ overlapped' = {o \in overlapped : o[1] # v}
    BY <1>1, <1>8, RestartStep DEF ForgetPublished
  <2>2. CASE w = v
    <3>1. Storing(w, b)' = {}
      BY <2>1, <2>2 DEF Storing, Busy
    <3>2. /\ publications'[w][b] = {} /\ cast_ballots'[w][b] = Absent
          /\ audited_ballots'[w][b] = Absent /\ ballot_nonces'[w][b] = Absent
      BY <1>1, <2>1, <2>2 DEF EmptyPublished, ServerType, PublisherType
    <3> QED BY <3>1, <3>2 DEF PublishedOf
  <2>3. CASE w # v
    <3>1. Storing(w, b)' = Storing(w, b) /\ \A u \in Storing(w, b) : task'[u] = task[u]
      BY <2>1, <2>3 DEF Storing, Busy
    <3>2. /\ publications'[w][b] = publications[w][b] /\ cast_ballots'[w][b] = cast_ballots[w][b]
          /\ audited_ballots'[w][b] = audited_ballots[w][b] /\ ballot_nonces'[w][b] = ballot_nonces[w][b]
          /\ <<w, b>> \in overlapped' <=> <<w, b>> \in overlapped
      BY <1>1, <2>1, <2>3 DEF ServerType, PublisherType
    <3> QED BY <1>1, <3>1, <3>2, PublishedOfKept
  <2> QED BY <2>2, <2>3
<1>9. CASE UNCHANGED vars
  BY <1>1, <1>9 DEF vars, PublishedOf, Storing
<1> QED BY <1>3, <1>4, <1>5, <1>6, <1>7, <1>8, <1>9, NextSteps DEF StepOf

LEMMA PublishedInvariant == Spec => []PublishedInv
<1>1. Init => PublishedInv
  <2> SUFFICES ASSUME Init, NEW w \in Workers, NEW b \in BallotIds PROVE PublishedOf(w, b)
    BY DEF PublishedInv
  <2>1. /\ publications[w][b] = {} /\ cast_ballots[w][b] = Absent
        /\ audited_ballots[w][b] = Absent /\ ballot_nonces[w][b] = Absent
    BY DEF Init, PublisherInit, EmptyPublished
  <2>2. Storing(w, b) = {}
    BY DEF Init, Storing
  <2> QED BY <2>1, <2>2 DEF PublishedOf
<1> QED BY <1>1, PublishedStep, ServerInvariant, PTL DEF Spec

\* The nonces that are stored are those of the audited ballot they were published with.
LEMMA NoncesStay ==
  ASSUME NEW w \in Workers, NEW b \in BallotIds, PublishedOf(w, b), Storing(w, b) = {},
         <<w, b>> \notin overlapped
  PROVE  NoncesFit(w, b)
<1> SUFFICES ASSUME NoncesStatus(w, b) = 200
             PROVE  IF "CAST" \in publications[w][b]
                    THEN /\ GetPublishedBallot(w, b).encryption = cast_ballots[w][b]
                         /\ GetBallotNonces(w, b) = audited_ballots[w][b]
                    ELSE GetBallotNonces(w, b) = GetPublishedBallot(w, b).encryption
  BY DEF NoncesFit
<1>1. GetBallotNonces(w, b) \notin {Absent, NoNonces}
  BY DEF NoncesStatus
<1>2. GetBallotNonces(w, b) = audited_ballots[w][b]
  BY <1>1 DEF PublishedOf, GetBallotNonces
<1>3. GetPublishedBallot(w, b).encryption =
        IF "CAST" \in publications[w][b] THEN cast_ballots[w][b] ELSE audited_ballots[w][b]
  BY DEF PublishedOf, GetPublishedBallot
<1> QED BY <1>2, <1>3

\* A list of records that name each ballot once is as long as the set of ballots.
LEMMA ListedOnce ==
  ASSUME NEW S \in SUBSET BallotIds
  PROVE  /\ Cardinality({[ballot_id |-> b, nonces_available |-> FALSE] : b \in S}) = Cardinality(S)
         /\ \A N \in [BallotIds -> BOOLEAN] :
              Cardinality({[ballot_id |-> b, nonces_available |-> TRUE, any_nonces |-> N[b]] : b \in S})
                = Cardinality(S)
<1>1. IsFiniteSet(S)
  BY FS_Subset, PublisherAssumption
<1>2. Cardinality({[ballot_id |-> b, nonces_available |-> FALSE] : b \in S}) = Cardinality(S)
  <2> DEFINE T == {[ballot_id |-> b, nonces_available |-> FALSE] : b \in S}
             f == [b \in S |-> [ballot_id |-> b, nonces_available |-> FALSE]]
  <2>1. f \in Bijection(S, T)
    BY DEF Bijection, Injection, Surjection, IsInjective
  <2> QED BY <1>1, <2>1, FS_Bijection DEF ExistsBijection
<1>3. ASSUME NEW N \in [BallotIds -> BOOLEAN]
      PROVE  Cardinality({[ballot_id |-> b, nonces_available |-> TRUE, any_nonces |-> N[b]] : b \in S})
               = Cardinality(S)
  <2> DEFINE T == {[ballot_id |-> b, nonces_available |-> TRUE, any_nonces |-> N[b]] : b \in S}
             f == [b \in S |-> [ballot_id |-> b, nonces_available |-> TRUE, any_nonces |-> N[b]]]
  <2>1. f \in Bijection(S, T)
    BY DEF Bijection, Injection, Surjection, IsInjective
  <2> QED BY <1>1, <2>1, FS_Bijection DEF ExistsBijection
<1> QED BY <1>2, <1>3

LEMMA ListingStep ==
  ASSUME ServerInv, PublishedInv, NEW w \in Workers
  PROVE  ListingAgrees(w)
<1> DEFINE N == [b \in BallotIds |-> ballot_nonces[w][b] \notin {Absent, NoNonces}]
           castEntries == {[ballot_id |-> b, nonces_available |-> FALSE] : b \in CastIn(w)}
           auditedEntries == {[ballot_id |-> b, nonces_available |-> TRUE,
                               any_nonces |-> ballot_nonces[w][b] \notin {Absent, NoNonces}] : b \in AuditedIn(w)}
<1>1. \A b \in BallotIds : PublishedOf(w, b)
  BY DEF PublishedInv
<1>2. \A b \in BallotIds : publications[w][b] \in SUBSET {"CAST", "AUDITED"}
  BY DEF ServerInv, ServerType
<1>3. /\ CastIn(w) = {b \in BallotIds : "CAST" \in publications[w][b]}
      /\ AuditedIn(w) = {b \in BallotIds : "AUDITED" \in publications[w][b]}
  BY <1>1 DEF PublishedOf, CastIn, AuditedIn
<1>4. /\ CastIn(w) \in SUBSET BallotIds /\ IsFiniteSet(CastIn(w)) /\ Cardinality(CastIn(w)) \in Nat
      /\ AuditedIn(w) \in SUBSET BallotIds /\ IsFiniteSet(AuditedIn(w)) /\ Cardinality(AuditedIn(w)) \in Nat
  BY FS_Subset, FS_CardinalityType, PublisherAssumption DEF CastIn, AuditedIn
<1>5. Cardinality(castEntries) = Cardinality(CastIn(w))
  BY <1>4, ListedOnce
<1>6. Cardinality(auditedEntries) = Cardinality(AuditedIn(w))
  <2>1. N \in [BallotIds -> BOOLEAN]
    OBVIOUS
  <2>2. auditedEntries = {[ballot_id |-> b, nonces_available |-> TRUE, any_nonces |-> N[b]] : b \in AuditedIn(w)}
    BY <1>4
  <2> HIDE DEF N
  <2> QED BY <1>4, <2>1, <2>2, ListedOnce
<1>7. /\ ListPublishedBallots(w, "none") = [cast_ballots |-> castEntries, audited_ballots |-> auditedEntries]
      /\ ListPublishedBallots(w, "CAST") = [cast_ballots |-> castEntries, audited_ballots |-> {}]
      /\ ListPublishedBallots(w, "AUDITED") = [cast_ballots |-> {}, audited_ballots |-> auditedEntries]
  BY DEF ListPublishedBallots
<1>8. \A b \in CastIn(w) : "CAST" \in publications[w][b]
  BY <1>3
<1>9. \A b \in AuditedIn(w) : Cardinality(publications[w][b]) = 1 =>
        /\ publications[w][b] = {"AUDITED"}
        /\ ballot_nonces[w][b] \notin {Absent, NoNonces} <=> NoncesStatus(w, b) = 200
  <2> SUFFICES ASSUME NEW b \in AuditedIn(w), Cardinality(publications[w][b]) = 1
               PROVE  /\ publications[w][b] = {"AUDITED"}
                      /\ ballot_nonces[w][b] \notin {Absent, NoNonces} <=> NoncesStatus(w, b) = 200
    OBVIOUS
  <2>1. IsFiniteSet({"CAST", "AUDITED"})
    <3>1. IsFiniteSet({"CAST"})
      BY FS_Singleton
    <3> QED BY <3>1, FS_AddElement
  <2>2. IsFiniteSet(publications[w][b])
    BY <1>2, <1>4, <2>1, FS_Subset
  <2>3. PICK x : publications[w][b] = {x}
    BY <2>2, FS_Singleton
  <2>4. publications[w][b] = {"AUDITED"}
    BY <1>3, <2>3
  <2>5. audited_ballots[w][b] # Absent
    BY DEF AuditedIn
  <2> QED BY <2>4, <2>5 DEF NoncesStatus, GetBallotNonces
<1>10. /\ Cardinality(castEntries) + Cardinality({})
            = Cardinality({b \in BallotIds : "CAST" \in publications[w][b]})
       /\ Cardinality({}) + Cardinality(auditedEntries)
            = Cardinality({b \in BallotIds : "AUDITED" \in publications[w][b]})
  <2> HIDE DEF castEntries, auditedEntries
  <2> QED BY <1>3, <1>4, <1>5, <1>6, FS_EmptySet
<1>11. ASSUME \A b \in BallotIds : publications[w][b] = {} \/ Cardinality(publications[w][b]) = 1
       PROVE  Cardinality(CastIn(w)) + Cardinality(AuditedIn(w))
                = Cardinality({b \in BallotIds : BallotStatus(w, b) = 200})
  <2>1. CastIn(w) \cap AuditedIn(w) = {}
    BY <1>3, <1>8, <1>9, <1>11, <1>4
  <2>2. {b \in BallotIds : BallotStatus(w, b) = 200} = CastIn(w) \union AuditedIn(w)
    BY DEF BallotStatus, GetPublishedBallot, CastIn, AuditedIn
  <2>3. Cardinality(CastIn(w) \union AuditedIn(w))
          = Cardinality(CastIn(w)) + Cardinality(AuditedIn(w)) - Cardinality(CastIn(w) \cap AuditedIn(w))
    BY <1>4, FS_Union
  <2>4. Cardinality(CastIn(w) \cap AuditedIn(w)) = 0
    BY <2>1, FS_EmptySet
  <2>5. Cardinality({b \in BallotIds : BallotStatus(w, b) = 200}) = Cardinality(CastIn(w) \union AuditedIn(w))
    BY <2>2
  <2> QED BY <1>4, <2>3, <2>4, <2>5
<1>12. {b \in BallotIds : ballot_nonces[w][b] # Absent}
         = {b \in AuditedIn(w) : GetBallotNonces(w, b) # Absent}
  BY <1>1 DEF PublishedOf, AuditedIn, GetBallotNonces
<1> HIDE DEF N
<1>13. \A entry \in castEntries : "CAST" \in publications[w][entry.ballot_id]
  BY <1>8
<1>14. \A entry \in auditedEntries : Cardinality(publications[w][entry.ballot_id]) = 1 =>
         /\ publications[w][entry.ballot_id] = {"AUDITED"}
         /\ entry.any_nonces <=> NoncesStatus(w, entry.ballot_id) = 200
  <2> TAKE entry \in auditedEntries
  <2>1. PICK b \in AuditedIn(w) :
          entry = [ballot_id |-> b, nonces_available |-> TRUE,
                   any_nonces |-> ballot_nonces[w][b] \notin {Absent, NoNonces}]
    OBVIOUS
  <2>2. /\ entry.ballot_id = b
        /\ entry.any_nonces <=> ballot_nonces[w][b] \notin {Absent, NoNonces}
    BY <2>1
  <2> QED BY <1>9, <2>2
<1> HIDE DEF castEntries, auditedEntries
<1>15. /\ ListPublishedBallots(w, "none").cast_ballots = castEntries
       /\ ListPublishedBallots(w, "none").audited_ballots = auditedEntries
       /\ ListPublishedBallots(w, "CAST").cast_ballots = castEntries
       /\ ListPublishedBallots(w, "CAST").audited_ballots = {}
       /\ ListPublishedBallots(w, "AUDITED").cast_ballots = {}
       /\ ListPublishedBallots(w, "AUDITED").audited_ballots = auditedEntries
  BY <1>7
<1>16. /\ GetPublicationStats(w).total_ballots = Cardinality(CastIn(w)) + Cardinality(AuditedIn(w))
       /\ GetPublicationStats(w).nonces_stored = Cardinality({b \in BallotIds : ballot_nonces[w][b] # Absent})
  BY DEF GetPublicationStats
<1>17. \A status \in {"CAST", "AUDITED"} :
         Cardinality(ListPublishedBallots(w, status).cast_ballots)
           + Cardinality(ListPublishedBallots(w, status).audited_ballots)
           = Cardinality({b \in BallotIds : status \in publications[w][b]})
  BY <1>10, <1>15
<1>18. GetPublicationStats(w).nonces_stored =
         Cardinality({b \in AuditedIn(w) : GetBallotNonces(w, b) # Absent})
  BY <1>12, <1>16
<1> QED BY <1>11, <1>13, <1>14, <1>15, <1>16, <1>17, <1>18, Zenon DEF ListingAgrees

\* GET /ballots, its statistics, GET /ballots/<id> and the nonces endpoint agree on
\* every ballot that no thread is publishing and that was published in one way; of one
\* that was published in both ways they tell what EndpointsAgree says.
THEOREM EndpointsStayInAgreement == Spec => []EndpointsAgree
<1> DEFINE Agree(w, b) ==
             /\ publications[w][b] = {} => BallotStatus(w, b) = 404 /\ NoncesStatus(w, b) = 404
             /\ publications[w][b] = {"CAST"} => BallotStatus(w, b) = 200 /\ NoncesStatus(w, b) = 403
             /\ publications[w][b] = {"AUDITED"} =>
                  /\ BallotStatus(w, b) = 200
                  /\ GetPublishedBallot(w, b).nonces_available
                  /\ NoncesStatus(w, b) = IF GetPublishedBallot(w, b).nonces = NoNonces THEN 404 ELSE 200
             /\ publications[w][b] = {"CAST", "AUDITED"} =>
                  /\ BallotStatus(w, b) = 200
                  /\ ~GetPublishedBallot(w, b).nonces_available
                  /\ NoncesStatus(w, b) = IF ballot_nonces[w][b] = NoNonces THEN 403 ELSE 200
             /\ <<w, b>> \notin overlapped => NoncesFit(w, b)
<1>1. ASSUME ServerInv, PublishedInv, NEW w \in Workers, NEW b \in BallotIds, ~UnderWay(w, b)
      PROVE  Agree(w, b)
  <2>1. PublishedOf(w, b) /\ Storing(w, b) = {}
    BY <1>1, UnderWayMeansStoring DEF PublishedInv
  <2>2. CASE publications[w][b] = {}
    <3>1. cast_ballots[w][b] = Absent /\ audited_ballots[w][b] = Absent
      BY <2>1, <2>2 DEF PublishedOf
    <3>2. BallotStatus(w, b) = 404 /\ NoncesStatus(w, b) = 404
      BY <3>1 DEF BallotStatus, NoncesStatus, GetPublishedBallot, GetBallotNonces
    <3> QED BY <2>2, <3>2 DEF NoncesFit
  <2>3. CASE publications[w][b] = {"CAST"}
    <3>1. cast_ballots[w][b] # Absent /\ audited_ballots[w][b] = Absent
      BY <2>1, <2>3 DEF PublishedOf
    <3>2. BallotStatus(w, b) = 200 /\ NoncesStatus(w, b) = 403
      BY <3>1 DEF BallotStatus, NoncesStatus, GetPublishedBallot, GetBallotNonces
    <3> QED BY <2>3, <3>2 DEF NoncesFit
  <2>4. CASE publications[w][b] = {"AUDITED"}
    <3>1. /\ cast_ballots[w][b] = Absent /\ audited_ballots[w][b] # Absent
          /\ ballot_nonces[w][b] # Absent
      BY <2>1, <2>4 DEF PublishedOf
    <3>2. GetPublishedBallot(w, b) =
            [encryption |-> audited_ballots[w][b], nonces_available |-> TRUE, nonces |-> ballot_nonces[w][b]]
      BY <3>1 DEF GetPublishedBallot
    <3>3. GetBallotNonces(w, b) = ballot_nonces[w][b]
      BY <3>1 DEF GetBallotNonces
    <3> HIDE DEF Agree
    <3>4. <<w, b>> \notin overlapped => NoncesFit(w, b)
      BY <1>1, <2>1, NoncesStay
    <3> QED BY <2>4, <3>1, <3>2, <3>3, <3>4 DEF BallotStatus, NoncesStatus, Agree
  <2>5. CASE publications[w][b] = {"CAST", "AUDITED"}
    <3>1. /\ cast_ballots[w][b] # Absent /\ audited_ballots[w][b] # Absent
          /\ ballot_nonces[w][b] # Absent
      BY <2>1, <2>5 DEF PublishedOf
    <3>2. GetPublishedBallot(w, b) =
            [encryption |-> cast_ballots[w][b], nonces_available |-> FALSE, nonces |-> Absent]
      BY <3>1 DEF GetPublishedBallot
    <3>3. GetBallotNonces(w, b) = ballot_nonces[w][b]
      BY <3>1 DEF GetBallotNonces
    <3>4. <<w, b>> \notin overlapped => NoncesFit(w, b)
      BY <1>1, <2>1, NoncesStay
    <3> QED BY <2>5, <3>1, <3>2, <3>3, <3>4 DEF BallotStatus, NoncesStatus
  <2> QED BY <1>1, <2>1, <2>2, <2>3, <2>4, <2>5, NoncesStay
<1>2. ASSUME ServerInv, PublishedInv, NEW w \in Workers PROVE ListingAgrees(w)
  BY <1>2, ListingStep
<1> HIDE DEF Agree
<1>3. ServerInv /\ PublishedInv => EndpointsAgree
  <2> SUFFICES ASSUME ServerInv, PublishedInv PROVE EndpointsAgree
    OBVIOUS
  <2>1. \A w \in Workers : \A b \in BallotIds : ~UnderWay(w, b) => Agree(w, b)
    BY <1>1
  <2>2. \A w \in Workers : ListingAgrees(w)
    BY <1>2
  <2> QED BY <2>1, <2>2 DEF EndpointsAgree, Agree
<1> QED BY <1>3, ServerInvariant, PublishedInvariant, PTL

-----------------------------------------------------------------------------
(***************************************************************************)
(* The caches, and the ballots a tally counts.                             *)
(***************************************************************************)
LEMMA KeyMeansSameElection == \A a, b : Key(a) = Key(b) <=> SameElection(a, b)
BY DEF Key, SameElection

\* As long as names come in one order, a manifest is that of its own election.
LEMMA OneManifest ==
  ASSUME OneOrder, NEW a \in requested, NEW m, From(a, m)
  PROVE  m = ManifestFor(a)
<1>1. PICK other \in requested : Key(other) = Key(a) /\ m = ManifestFor(other)
  BY DEF From
<1>2. other = a
  BY <1>1, KeyMeansSameElection DEF OneOrder
<1> QED BY <1>1, <1>2

\* What a tally with such a manifest counts.
LEMMA AllAreCounted ==
  ASSUME OneOrder, NEW a \in requested, NEW m, From(a, m), NEW sent,
         \A e \in sent : /\ encrypted[e].asked \in requested
                         /\ From(encrypted[e].asked, encrypted[e].manifest)
                         /\ SameElection(encrypted[e].asked, a)
  PROVE  Counted(sent, m) = sent
<1>1. \A e \in sent : encrypted[e].manifest = m
  <2> SUFFICES ASSUME NEW e \in sent PROVE encrypted[e].manifest = m
    OBVIOUS
  <2>1. encrypted[e].asked = a
    BY DEF OneOrder
  <2> QED BY <2>1, OneManifest
<1> QED BY <1>1 DEF Counted

\* The conditions on one task.
TaskOrigin(t) ==
  task[t] \in TrackedTasks =>
    /\ task[t].asked \in requested
    /\ pc[t] \in {"build", "publish"} => From(task[t].asked, task[t].manifest)
    /\ task[t].kind = "tally" =>
         /\ \A e \in task[t].sent : e \in DOMAIN encrypted /\ SameElection(encrypted[e].asked, task[t].asked)
         /\ (OneOrder /\ task[t].result = "success") => task[t].counted = task[t].sent

CacheOrigin ==
  \A w \in Workers, a \in Asked :
    /\ manifest_cache[w][Key(a)] # Nothing => From(a, manifest_cache[w][Key(a)])
    /\ context_cache[w][Key(a)] # Nothing => From(a, context_cache[w][Key(a)])

EncryptedOrigin ==
  \A e \in DOMAIN encrypted :
    encrypted[e].asked \in requested /\ From(encrypted[e].asked, encrypted[e].manifest)

LEMMA CachesParts ==
  CachesInv <=> CacheOrigin /\ EncryptedOrigin /\ \A t \in Threads : TaskOrigin(t)
BY DEF CachesInv, CacheOrigin, EncryptedOrigin, TaskOrigin

\* Requests only add to what manifests may come from, and ballots are added at the
\* end.
LEMMA OriginKept ==
  ASSUME requested \subseteq requested', DOMAIN encrypted \subseteq DOMAIN encrypted',
         \A e \in DOMAIN encrypted : encrypted'[e] = encrypted[e]
  PROVE  /\ OneOrder' => OneOrder
         /\ \A a, m : From(a, m) => From(a, m)'
         /\ \A t \in Threads :
              (TaskOrigin(t) /\ task'[t] = task[t] /\ pc'[t] = pc[t]) => TaskOrigin(t)'
<1>1. OneOrder' => OneOrder
  BY DEF OneOrder, SameElection
<1>2. \A a, m : From(a, m) => From(a, m)'
  BY DEF From, Key, ManifestFor
<1>3. ASSUME NEW t \in Threads, TaskOrigin(t), task'[t] = task[t], pc'[t] = pc[t]
      PROVE  TaskOrigin(t)'
  BY <1>1, <1>2, <1>3 DEF TaskOrigin, SameElection
<1> QED BY <1>1, <1>2, <1>3

\* The manifest a request goes on with.
LEMMA WorkOrigin ==
  ASSUME ServerType, CachesInv, NEW t \in Threads, task[t] \in TrackedTasks, pc[t] # "idle",
         NEW m \in Manifests, From(task[t].asked, m), Work(t, m)
  PROVE  /\ pc'[t] \in {"build", "publish"} => From(task[t].asked, task'[t].manifest)
         /\ (task'[t].kind = "tally" /\ OneOrder) => task'[t].counted = task'[t].sent
<1>1. /\ SameRequest(task[t], task'[t])
      /\ \/ task[t].kind = "ballot" /\ pc'[t] = "publish" /\ task'[t].manifest = m
         \/ /\ task[t].kind = "tally" /\ pc'[t] = "finish"
            /\ task'[t].counted = Counted(task[t].sent, m)
  BY WorkStep DEF ServerType, TasksType
<1>2. ASSUME task[t].kind = "tally", OneOrder PROVE Counted(task[t].sent, m) = task[t].sent
  BY <1>2, AllAreCounted DEF CachesInv
<1> QED BY <1>1, <1>2 DEF SameRequest

LEMMA PrepareOrigin ==
  ASSUME ServerType, CachesInv, NEW t \in Threads, Prepares(t)
  PROVE  /\ pc'[t] \in {"build", "publish"} => From(task[t].asked, task'[t].manifest)
         /\ (task'[t].kind = "tally" /\ OneOrder /\ task'[t].result = "success") =>
              task'[t].counted = task'[t].sent
         /\ \A w \in Workers, a \in Asked :
              /\ manifest_cache'[w][Key(a)] # Nothing => From(a, manifest_cache'[w][Key(a)])
              /\ context_cache'[w][Key(a)] # Nothing => From(a, context_cache'[w][Key(a)])
<1> DEFINE a == task[t].asked
           w == task[t].worker
<1>1. /\ pc[t] \in {"context", "manifest", "create", "build"} /\ task[t] \in TrackedTasks
      /\ SameRequest(task[t], task'[t])
  BY PrepareStep
<1>2. a \in Asked /\ w \in Workers /\ Key(a) \in Keys /\ a \in requested /\ TaskInv(t)
  BY <1>1 DEF TrackedTasks, Keys, CachesInv, ServerType
<1>3. UNCHANGED manifest_cache =>
        \A v \in Workers, c \in Asked :
          manifest_cache'[v][Key(c)] # Nothing => From(c, manifest_cache'[v][Key(c)])
  BY DEF CachesInv
<1>4. UNCHANGED context_cache =>
        \A v \in Workers, c \in Asked :
          context_cache'[v][Key(c)] # Nothing => From(c, context_cache'[v][Key(c)])
  BY DEF CachesInv
<1>5. (task[t].kind = "tally" /\ OneOrder /\ task[t].result = "success") => task[t].counted = task[t].sent
  BY <1>1 DEF CachesInv
<1>6. ASSUME NEW m, Set(t, [task[t] EXCEPT !.manifest = m])
      PROVE  /\ task'[t].manifest = m /\ task'[t].result = task[t].result
             /\ task'[t].counted = task[t].counted
  BY <1>1, <1>6 DEF Set, ServerType, TrackedTasks
<1>7. CASE LookupContext(t)
  <2> DEFINE found == context_cache[w][Key(a)]
  <2>1. UNCHANGED <<manifest_cache, context_cache>>
    BY <1>7 DEF LookupContext, caches
  <2>2. CASE found # Nothing /\ Work(t, found)
    <3>1. found \in Manifests /\ From(a, found)
      BY <1>2, <2>2 DEF ServerType, CacheType, CachesInv
    <3> QED BY <1>1, <1>3, <1>4, <2>1, <2>2, <3>1, WorkOrigin
  <2>3. CASE Go(t, "manifest") /\ UNCHANGED task
    <3>1. pc'[t] = "manifest"
      BY <2>3 DEF Go, ServerType
    <3> QED BY <1>3, <1>4, <1>5, <2>1, <2>3, <3>1
  <2> QED BY <1>7, <2>2, <2>3 DEF LookupContext
<1>8. CASE LookupManifest(t)
  <2> DEFINE found == manifest_cache[w][Key(a)]
  <2>1. UNCHANGED <<manifest_cache, context_cache>>
    BY <1>8 DEF LookupManifest, caches
  <2>2. CASE found # Nothing /\ Set(t, [task[t] EXCEPT !.manifest = found])
    <3>1. From(a, found)
      BY <1>2, <2>2 DEF CachesInv
    <3> HIDE DEF found
    <3> QED BY <1>1, <1>3, <1>4, <1>5, <1>6, <2>1, <2>2, <3>1 DEF SameRequest
  <2>3. CASE Go(t, "create") /\ UNCHANGED task
    <3>1. pc'[t] = "create"
      BY <2>3 DEF Go, ServerType
    <3> QED BY <1>3, <1>4, <1>5, <2>1, <2>3, <3>1
  <2> QED BY <1>8, <2>2, <2>3 DEF LookupManifest
<1>9. CASE CreateManifest(t)
  <2> DEFINE m == ManifestFor(a)
  <2>1. /\ Set(t, [task[t] EXCEPT !.manifest = m])
        /\ manifest_cache' = [manifest_cache EXCEPT ![w][Key(a)] = m]
        /\ UNCHANGED context_cache
    BY <1>9 DEF CreateManifest, StoreManifest
  <2>2. From(a, m)
    BY <1>2 DEF From
  <2> HIDE DEF m
  <2>3. \A v \in Workers, c \in Asked :
          manifest_cache'[v][Key(c)] = IF v = w /\ Key(c) = Key(a) THEN m ELSE manifest_cache[v][Key(c)]
    BY <1>2, <2>1 DEF ServerType, CacheType, Keys
  <2>4. \A v \in Workers, c \in Asked :
          manifest_cache'[v][Key(c)] # Nothing => From(c, manifest_cache'[v][Key(c)])
    BY <2>2, <2>3 DEF CachesInv, From
  <2> QED BY <1>1, <1>4, <1>5, <1>6, <2>1, <2>2, <2>4 DEF SameRequest
<1>10. CASE BuildContext(t)
  <2> DEFINE m == task[t].manifest
  <2>1. From(a, m) /\ m \in Manifests /\ UNCHANGED manifest_cache
    BY <1>1, <1>2, <1>10 DEF BuildContext, CachesInv, TaskInv
  <2>2. CASE Builds(m)
    <3>1. /\ Work(t, m)
          /\ context_cache' = [context_cache EXCEPT ![w][Key(a)] = m]
      BY <1>10, <2>2 DEF BuildContext, StoreContext
    <3> HIDE DEF m
    <3>2. \A v \in Workers, c \in Asked :
            context_cache'[v][Key(c)] = IF v = w /\ Key(c) = Key(a) THEN m ELSE context_cache[v][Key(c)]
      BY <1>2, <3>1 DEF ServerType, CacheType, Keys
    <3>3. \A v \in Workers, c \in Asked :
            context_cache'[v][Key(c)] # Nothing => From(c, context_cache'[v][Key(c)])
      BY <2>1, <3>2 DEF CachesInv, From
    <3> QED BY <1>1, <1>3, <2>1, <3>1, <3>3, WorkOrigin
  <2>3. CASE ~Builds(m)
    <3>1. Set(t, [task[t] EXCEPT !.result = "error"]) /\ Go(t, "finish") /\ UNCHANGED context_cache
      BY <1>10, <2>3 DEF BuildContext
    <3>2. task'[t].result = "error" /\ pc'[t] = "finish"
      BY <1>1, <3>1 DEF Set, Go, ServerType, TrackedTasks
    <3> QED BY <1>3, <1>4, <2>1, <3>1, <3>2
  <2> QED BY <2>2, <2>3
<1> QED BY <1>7, <1>8, <1>9, <1>10 DEF Prepares

LEMMA CachesStep ==
  ASSUME ServerInv, CachesInv, [Next]_vars
  PROVE  CachesInv'
<1>1. ServerType /\ CacheOrigin /\ EncryptedOrigin /\ \A t \in Threads : TaskOrigin(t)
  BY CachesParts DEF ServerInv
<1>2. ASSUME CacheOrigin', EncryptedOrigin', \A t \in Threads : TaskOrigin(t)' PROVE CachesInv'
  BY <1>2 DEF CachesInv, CacheOrigin, EncryptedOrigin, TaskOrigin
<1>3. ASSUME requested \subseteq requested',
             UNCHANGED encrypted, UNCHANGED <<manifest_cache, context_cache>>,
             \A t \in Threads : TaskOrigin(t)' \/ (task'[t] = task[t] /\ pc'[t] = pc[t])
      PROVE  CachesInv'
  <2>1. \A a, m : From(a, m) => From(a, m)'
    BY <1>3, OriginKept
  <2>2. \A t \in Threads : TaskOrigin(t)'
    BY <1>1, <1>3, OriginKept
  <2>3. CacheOrigin' /\ EncryptedOrigin'
    BY <1>1, <1>3, <2>1 DEF CacheOrigin, EncryptedOrigin, Key
  <2> QED BY <1>2, <2>2, <2>3
<1>4. ASSUME NEW t \in Threads, Alone(t), requested \subseteq requested', UNCHANGED encrypted,
             UNCHANGED <<manifest_cache, context_cache>>, TaskOrigin(t)'
      PROVE  CachesInv'
  BY <1>3, <1>4 DEF Alone
<1>5. ASSUME NEW t \in Threads, NEW v \in Workers, NEW r \in RequestIds, NEW kind, NEW a \in Asked,
             NEW b, NEW status, NEW sent, Accepts(t, v, r, kind, a, b, status, sent)
      PROVE  CachesInv'
  <2>0. Accepted(t, v, r, kind, a, sent)
    BY <1>1, <1>5, AcceptStep
  <2>1. /\ Alone(t) /\ pc'[t] = "context" /\ task'[t].kind = kind /\ task'[t].asked = a
        /\ task'[t].sent = sent /\ task'[t].result = "none"
        /\ requested' = requested \union {a}
        /\ UNCHANGED <<manifest_cache, context_cache, encrypted>>
    BY <2>0 DEF Accepted
  <2>2. kind = "tally" => \A e \in sent : e \in DOMAIN encrypted /\ SameElection(encrypted[e].asked, a)
    BY <1>5 DEF Accepts, Sent
  <2>3. TaskOrigin(t)'
    BY <2>1, <2>2 DEF TaskOrigin, SameElection
  <2> QED BY <1>4, <2>1, <2>3
<1>6. ASSUME NEW t \in Threads, \E v \in Workers : AcceptPublish(t, v)
      PROVE  CachesInv'
  <2>1. /\ Alone(t) /\ task'[t] \in PublishTasks
        /\ UNCHANGED <<manifest_cache, context_cache, encrypted, requested>>
    BY <1>6, AcceptPublishStep DEF ServerInv
  <2>2. TaskOrigin(t)'
    BY <2>1, KindsOfTasks DEF TaskOrigin
  <2> QED BY <1>4, <2>1, <2>2
<1>7. ASSUME NEW t \in Threads, Prepares(t)
      PROVE  CachesInv'
  <2>1. /\ Alone(t) /\ task[t] \in TrackedTasks /\ SameRequest(task[t], task'[t])
        /\ UNCHANGED <<encrypted, requested>>
    BY <1>1, <1>7, PrepareStep
  <2>2. /\ pc'[t] \in {"build", "publish"} => From(task[t].asked, task'[t].manifest)
        /\ (task'[t].kind = "tally" /\ OneOrder /\ task'[t].result = "success") =>
             task'[t].counted = task'[t].sent
        /\ \A w \in Workers, a \in Asked :
             /\ manifest_cache'[w][Key(a)] # Nothing => From(a, manifest_cache'[w][Key(a)])
             /\ context_cache'[w][Key(a)] # Nothing => From(a, context_cache'[w][Key(a)])
    BY <1>1, <1>7, PrepareOrigin
  <2>3. OneOrder' => OneOrder
    BY <2>1, OriginKept
  <2>4. \A a, m : From(a, m) => From(a, m)'
    BY <2>1, OriginKept
  <2>5. TaskOrigin(t)'
    BY <1>1, <2>1, <2>2, <2>3, <2>4 DEF TaskOrigin, SameRequest, SameElection
  <2>6. \A u \in Threads : TaskOrigin(u)'
    BY <1>1, <2>1, <2>5, OriginKept DEF Alone
  <2>7. CacheOrigin' /\ EncryptedOrigin'
    BY <1>1, <2>1, <2>2, <2>4 DEF CacheOrigin, EncryptedOrigin, Key
  <2> QED BY <1>2, <2>6, <2>7
<1>8. ASSUME NEW t \in Threads, Publish(t)
      PROVE  CachesInv'
  <2> DEFINE ballot == [ballot |-> task[t].ballot, asked |-> task[t].asked, manifest |-> task[t].manifest]
  <2>1. /\ TasksType' /\ Alone(t) /\ pc[t] = "publish" /\ pc'[t] \in {"idle", "nonces", "finish"}
        /\ task[t].kind = "publish" => UNCHANGED encrypted /\ (pc'[t] = "idle" \/ task'[t] \in PublishTasks)
        /\ task[t].kind # "publish" =>
             /\ t \in Pending /\ task[t] \in TrackedTasks /\ SameRequest(task[t], task'[t])
             /\ encrypted' = Append(encrypted, ballot)
        /\ UNCHANGED <<manifest_cache, context_cache, requested>>
    BY <1>8, PublishStep DEF ServerInv
  <2>2. CASE task[t].kind = "publish"
    <3>1. task'[t] \notin TrackedTasks
      BY <2>1, <2>2, KindsOfTasks DEF TasksType, TaskInv
    <3> QED BY <1>4, <2>1, <2>2, <3>1 DEF TaskOrigin
  <2>3. CASE task[t].kind # "publish"
    <3>1. task[t].kind = "ballot"
      BY <2>1, <2>3 DEF Pending
    <3>2. task[t].asked \in requested /\ From(task[t].asked, task[t].manifest)
      BY <1>1, <2>1, <2>3 DEF TaskOrigin
    <3>3. /\ ballot \in EncryptedBallots
          /\ ballot.asked = task[t].asked /\ ballot.manifest = task[t].manifest
      BY <1>1, <2>1, <2>3, <3>1 DEF EncryptedBallots, TrackedTasks, ServerType, TaskInv
    <3> HIDE DEF ballot
    <3>4. /\ DOMAIN encrypted' = DOMAIN encrypted \union {Len(encrypted) + 1}
          /\ \A e \in DOMAIN encrypted : encrypted'[e] = encrypted[e]
          /\ encrypted'[Len(encrypted) + 1] = ballot
      <4>1. encrypted \in Seq(EncryptedBallots) /\ encrypted' = Append(encrypted, ballot)
        BY <1>1, <2>1, <2>3 DEF ServerType, ballot
      <4>2. /\ Len(encrypted) \in Nat /\ DOMAIN encrypted = 1 .. Len(encrypted)
            /\ encrypted' \in Seq(EncryptedBallots) /\ Len(encrypted') = Len(encrypted) + 1
            /\ \A e \in 1 .. Len(encrypted) : encrypted'[e] = encrypted[e]
            /\ encrypted'[Len(encrypted) + 1] = ballot
        BY <1>1, <3>3, <4>1, EncryptedLen, AppendProperties
      <4>3. DOMAIN encrypted' = 1 .. Len(encrypted')
        BY <4>2, LenProperties
      <4> QED BY <4>2, <4>3
    <3>5. \A a, m : From(a, m) => From(a, m)'
      BY <2>1, <3>4, OriginKept
    <3>6. TaskOrigin(t)'
      BY <2>1, <2>3, <3>1, <3>2 DEF TaskOrigin, SameRequest
    <3>7. \A u \in Threads : TaskOrigin(u)'
      BY <1>1, <2>1, <3>4, <3>6, OriginKept DEF Alone
    <3>8. EncryptedOrigin'
      BY <1>1, <2>1, <3>2, <3>3, <3>4, <3>5 DEF EncryptedOrigin
    <3>9. CacheOrigin'
      BY <1>1, <2>1, <3>5 DEF CacheOrigin, Key
    <3> QED BY <1>2, <3>7, <3>8, <3>9
  <2> QED BY <2>2, <2>3
<1>9. ASSUME NEW t \in Threads, StoreNonces(t)
      PROVE  CachesInv'
  <2>1. /\ TasksType' /\ Alone(t) /\ pc[t] = "nonces"
        /\ task[t].kind = "publish" => pc'[t] = "idle"
        /\ task[t].kind # "publish" =>
             /\ pc'[t] = "finish" /\ task[t] \in TrackedTasks /\ SameRequest(task[t], task'[t])
        /\ UNCHANGED <<manifest_cache, context_cache, encrypted, requested>>
    BY <1>1, <1>9, StoreNoncesStep
  <2>2. task[t].kind \in {"ballot", "publish"}
    BY <1>1, <2>1 DEF ServerType, TaskInv
  <2>3. TaskOrigin(t)'
    BY <1>1, <2>1, <2>2, KindsOfTasks DEF TaskOrigin, SameRequest, TasksType, TaskInv
  <2> QED BY <1>4, <2>1, <2>3
<1>10. ASSUME NEW t \in Threads, Finish(t)
      PROVE  CachesInv'
  <2>1. /\ Alone(t) /\ pc'[t] = "cleanup" /\ task[t] \in TrackedTasks
        /\ SameRequest(task[t], task'[t])
        /\ task'[t].result = task[t].result /\ task'[t].counted = task[t].counted
        /\ UNCHANGED <<manifest_cache, context_cache, encrypted, requested>>
    BY <1>1, <1>10, FinishStep
  <2>2. OneOrder' => OneOrder
    BY <2>1, OriginKept
  <2>3. TaskOrigin(t)'
    BY <1>1, <2>1, <2>2 DEF TaskOrigin, SameRequest, SameElection
  <2> QED BY <1>4, <2>1, <2>3
<1>11. ASSUME NEW t \in Threads, Answer(t)
      PROVE  CachesInv'
  <2>1. /\ Alone(t) /\ task'[t] = NoTask
        /\ UNCHANGED <<manifest_cache, context_cache, encrypted, requested>>
    BY <1>1, <1>11, AnswerStep
  <2>2. TaskOrigin(t)'
    BY <2>1, KindsOfTasks DEF TaskOrigin
  <2> QED BY <1>4, <2>1, <2>2
<1>12. ASSUME NEW v \in Workers, Restart(v)
      PROVE  CachesInv'
  <2>1. /\ \A t \in Threads : task'[t] = NoTask \/ (pc'[t] = pc[t] /\ task'[t] = task[t])
        /\ manifest_cache' = [manifest_cache EXCEPT ![v] = EmptyCache]
        /\ context_cache' = [context_cache EXCEPT ![v] = EmptyCache]
        /\ UNCHANGED <<encrypted, requested>>
    BY <1>1, <1>12, RestartStep
  <2>2. \A t \in Threads : TaskOrigin(t)'
    <3>1. \A t \in Threads : task'[t] = NoTask => TaskOrigin(t)'
      BY KindsOfTasks DEF TaskOrigin
    <3> QED BY <1>1, <2>1, <3>1, OriginKept
  <2>3. \A a, m : From(a, m) => From(a, m)'
    BY <2>1, OriginKept
  <2>4. \A w \in Workers, a \in Asked :
          /\ manifest_cache'[w][Key(a)] \in {Nothing, manifest_cache[w][Key(a)]}
          /\ context_cache'[w][Key(a)] \in {Nothing, context_cache[w][Key(a)]}
    BY <1>1, <2>1 DEF ServerType, CacheType, EmptyCache, Keys
  <2>5. CacheOrigin' /\ EncryptedOrigin'
    BY <1>1, <2>1, <2>3, <2>4 DEF CacheOrigin, EncryptedOrigin, Key
  <2> QED BY <1>2, <2>2, <2>5
<1>13. CASE UNCHANGED vars
  BY <1>3, <1>13 DEF vars, caches
<1> QED BY <1>5, <1>6, <1>7, <1>8, <1>9, <1>10, <1>11, <1>12, <1>13, NextSteps DEF StepOf

LEMMA CachesInvariant == Spec => []CachesInv
<1>1. Init => CachesInv
  <2> SUFFICES ASSUME Init PROVE CachesInv
    OBVIOUS
  <2>1. CacheOrigin
    BY DEF Init, CachesInit, CacheOrigin, EmptyCache, Keys
  <2>2. EncryptedOrigin
    BY DEF Init, EncryptedOrigin
  <2>3. \A t \in Threads : TaskOrigin(t)
    BY KindsOfTasks DEF Init, TaskOrigin
  <2> QED BY <2>1, <2>2, <2>3, CachesParts
<1> QED BY <1>1, CachesStep, ServerInvariant, PTL DEF Spec

\* While clients keep to one order of the names, no ballot is missing from a tally,
\* whatever the caches of the workers hold and whatever else they serve.
THEOREM BallotsStayCounted == Spec => []BallotsAreCounted
<1>1. ServerInv /\ CachesInv => BallotsAreCounted
  BY DEF ServerInv, ServerType, TaskInv, CachesInv, BallotsAreCounted
<1> QED BY <1>1, ServerInvariant, CachesInvariant, PTL

-----------------------------------------------------------------------------
(***************************************************************************)
(* When tracking cannot be noticed.  The run TrackingLost finds a handler's *)
(* answer replaced by an exception; it takes both a second thread and more *)
(* entries than the cleanup keeps.                                         *)
(***************************************************************************)
Quiet == (\A t, u \in Threads : t = u) \/ Cardinality(RequestIds) <= Kept

\* The entry of a request is there until its thread has noted the completion.
EntryInv ==
  \A t \in Threads : task[t] \in TrackedTasks =>
    IF pc[t] = "cleanup" THEN task[t].answer = task[t].result
    ELSE task[t].id \in Tracked(task[t].worker)

\* A full table is not cleaned up beneath another thread.
LEMMA QuietCleanup ==
  ASSUME Quiet, ServerType, NEW t \in Threads, NEW u \in Threads, u # t, NEW w \in Workers,
         Cleanup(w), NEW v \in Workers, NEW r \in Tracked(v)
  PROVE  r \in Tracked(v)'
<1>1. Cardinality(RequestIds) <= Kept
  BY DEF Quiet
<1>2. ~(Cardinality(Tracked(w)) > Kept)
  <2>1. /\ Cardinality(Tracked(w)) <= Cardinality(RequestIds)
        /\ Cardinality(Tracked(w)) \in Nat /\ Cardinality(RequestIds) \in Nat
    BY FS_Subset, FS_CardinalityType, TrackingAssumption DEF Tracked
  <2> QED BY <1>1, <2>1, TrackingAssumption
<1>3. request_tracking' = [request_tracking EXCEPT
        ![w] = [q \in RequestIds |-> request_tracking[w][q]]]
  BY <1>2 DEF Cleanup
<1> QED BY <1>3 DEF Tracked, ServerType, TableType

LEMMA EntryStep ==
  ASSUME Quiet, ServerInv, EntryInv, [Next]_vars
  PROVE  EntryInv'
<1> DEFINE EntryOf(t) == task[t] \in TrackedTasks =>
             IF pc[t] = "cleanup" THEN task[t].answer = task[t].result
             ELSE task[t].id \in Tracked(task[t].worker)
<1>1. ServerType /\ \A t \in Threads : EntryOf(t)
  BY DEF ServerInv, EntryInv
<1>2. ASSUME \A t \in Threads : EntryOf(t)' PROVE EntryInv'
  BY <1>2 DEF EntryInv
<1>3. ASSUME NEW t \in Threads, Alone(t), EntryOf(t)',
             \A v \in Workers : Tracked(v) \subseteq Tracked(v)'
      PROVE  EntryInv'
  <2>1. ASSUME NEW u \in Threads \ {t} PROVE EntryOf(u)'
    <3>1. pc'[u] = pc[u] /\ task'[u] = task[u]
      BY <1>3 DEF Alone
    <3>2. task[u] \in TrackedTasks => task[u].worker \in Workers
      BY DEF TrackedTasks
    <3> QED BY <1>1, <1>3, <3>1, <3>2
  <2> QED BY <1>2, <1>3, <2>1
<1>4. UNCHANGED request_tracking => \A v \in Workers : Tracked(v) \subseteq Tracked(v)'
  BY DEF Tracked
<1>5. \A v \in Workers, r \in RequestIds, status \in {"started", "completed"} :
        SetStatus(v, r, status) =>
          r \in Tracked(v)' /\ \A x \in Workers : Tracked(x) \subseteq Tracked(x)'
  BY <1>1 DEF SetStatus, Tracked, ServerType, TableType
<1>6. ASSUME NEW t \in Threads, NEW v \in Workers, NEW r \in RequestIds, NEW kind, NEW a \in Asked,
             NEW b, NEW status, NEW sent, Accepts(t, v, r, kind, a, b, status, sent)
      PROVE  EntryInv'
  <2>0. Accepted(t, v, r, kind, a, sent)
    BY <1>1, <1>6, AcceptStep
  <2>1. /\ Alone(t) /\ pc'[t] = "context" /\ task'[t].worker = v /\ task'[t].id = r
        /\ SetStatus(v, r, "started")
    BY <2>0 DEF Accepted
  <2> QED BY <1>3, <1>5, <2>1
<1>7. ASSUME NEW t \in Threads, \E v \in Workers : AcceptPublish(t, v)
      PROVE  EntryInv'
  <2>1. Alone(t) /\ task'[t] \notin TrackedTasks /\ UNCHANGED request_tracking
    BY <1>7, AcceptPublishStep, KindsOfTasks DEF ServerInv
  <2> QED BY <1>3, <1>4, <2>1
<1>8. ASSUME NEW t \in Threads, Prepares(t) \/ Publish(t) \/ StoreNonces(t)
      PROVE  EntryInv'
  <2>1. /\ Alone(t) /\ UNCHANGED request_tracking /\ TasksType'
        /\ pc[t] # "cleanup" /\ pc'[t] # "cleanup"
        /\ task[t].kind # "publish" => task[t] \in TrackedTasks /\ SameRequest(task[t], task'[t])
        /\ task[t].kind = "publish" => pc'[t] = "idle" \/ task'[t] \in PublishTasks
    BY <1>1, <1>8, PrepareStep, PublishStep, StoreNoncesStep, KindsOfTasks DEF ServerInv
  <2>2. EntryOf(t)'
    <3>1. CASE task[t].kind = "publish"
      BY <2>1, <3>1, KindsOfTasks DEF TasksType, TaskInv
    <3>2. CASE task[t].kind # "publish"
      BY <1>1, <2>1, <3>2 DEF SameRequest, Tracked
    <3> QED BY <3>1, <3>2
  <2> QED BY <1>3, <1>4, <2>1, <2>2
<1>9. ASSUME NEW t \in Threads, Finish(t)
      PROVE  EntryInv'
  <2>1. /\ Alone(t) /\ pc[t] = "finish" /\ pc'[t] = "cleanup" /\ task[t] \in TrackedTasks
        /\ task'[t].result = task[t].result
        /\ \/ /\ task[t].id \in Tracked(task[t].worker)
              /\ SetStatus(task[t].worker, task[t].id, "completed")
              /\ task'[t].answer = task[t].result
           \/ task[t].id \notin Tracked(task[t].worker)
    BY <1>1, <1>9, FinishStep
  <2>2. task[t].id \in Tracked(task[t].worker) /\ task[t].id \in RequestIds /\ task[t].worker \in Workers
    BY <1>1, <2>1 DEF TrackedTasks
  <2> QED BY <1>3, <1>5, <2>1, <2>2
<1>10. ASSUME NEW t \in Threads, Answer(t)
      PROVE  EntryInv'
  <2>1. /\ Alone(t) /\ task'[t] = NoTask /\ task[t].worker \in Workers /\ Cleanup(task[t].worker)
    BY <1>1, <1>10, AnswerStep DEF TrackedTasks
  <2>2. EntryOf(t)'
    BY <2>1, KindsOfTasks
  <2>3. ASSUME NEW u \in Threads \ {t} PROVE EntryOf(u)'
    <3>1. pc'[u] = pc[u] /\ task'[u] = task[u]
      BY <2>1 DEF Alone
    <3>2. task[u] \in TrackedTasks => task[u].worker \in Workers
      BY DEF TrackedTasks
    <3>3. \A v \in Workers : \A r \in Tracked(v) : r \in Tracked(v)'
      <4>1. PICK w \in Workers : Cleanup(w)
        BY <2>1
      <4> QED BY <1>1, <4>1, QuietCleanup
    <3> QED BY <1>1, <3>1, <3>2, <3>3
  <2> QED BY <1>2, <2>2, <2>3
<1>11. ASSUME NEW v \in Workers, Restart(v)
      PROVE  EntryInv'
  <2>1. /\ \A t \in Threads : IF t \in Busy(v) THEN pc'[t] = "idle" /\ task'[t] = NoTask
                              ELSE pc'[t] = pc[t] /\ task'[t] = task[t]
        /\ request_tracking' = [request_tracking EXCEPT ![v] = EmptyTable]
    BY <1>1, <1>11, RestartStep
  <2>2. ASSUME NEW t \in Threads PROVE EntryOf(t)'
    <3>1. CASE t \in Busy(v)
      BY <2>1, <3>1, KindsOfTasks
    <3>2. CASE t \notin Busy(v)
      <4>1. task[t] \in TrackedTasks => task[t].worker # v
        BY <1>1, <3>2, KindsOfTasks DEF Busy, ServerType, TaskInv
      <4>2. \A x \in Workers \ {v} : Tracked(x)' = Tracked(x)
        BY <1>1, <2>1 DEF Tracked, ServerType, TableType
      <4>3. task[t] \in TrackedTasks => task[t].worker \in Workers
        BY DEF TrackedTasks
      <4> QED BY <1>1, <2>1, <3>2, <4>1, <4>2, <4>3
    <3> QED BY <3>1, <3>2
  <2> QED BY <1>2, <2>2
<1>12. CASE UNCHANGED vars
  BY <1>1, <1>2, <1>12 DEF vars, Tracked
<1> QED BY <1>6, <1>7, <1>8, <1>9, <1>10, <1>11, <1>12, NextSteps DEF StepOf

\* A process with one thread, or with so few ids that nothing is ever cleaned up,
\* answers what the handler answers: what TrackingLost shows is the only way in which
\* the decorator changes an answer.
THEOREM QuietTrackingIsTransparent ==
  ASSUME Quiet
  PROVE  Spec => []TrackingIsTransparent
<1>1. Init => EntryInv
  BY KindsOfTasks DEF Init, EntryInv
<1>2. ServerInv /\ EntryInv => TrackingIsTransparent
  BY DEF ServerInv, ServerType, TaskInv, EntryInv, TrackingIsTransparent
<1>3. ServerInv /\ EntryInv /\ [Next]_vars => EntryInv'
  BY EntryStep
<1> QED BY <1>1, <1>2, <1>3, ServerInvariant, PTL DEF Spec
=============================================================================

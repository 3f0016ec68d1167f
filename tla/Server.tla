-------------------------------- MODULE Server --------------------------------
(***************************************************************************)
(* api.py: worker processes whose threads serve requests.  A request to    *)
(* encrypt a ballot or to tally is tracked, looks its election up in the   *)
(* caches and, for a ballot, publishes what it encrypted; every statement  *)
(* on state that threads share is a step of its own.  Nothing is shared    *)
(* between processes or survives them.                                     *)
(***************************************************************************)
EXTENDS RequestTracking, ManifestCache, BallotPublisher

CONSTANTS
  Threads,
  MaxRequests,    \* requests that are served altogether
  MaxRestarts

ASSUME ServerAssumption ==
  /\ IsFiniteSet(Threads)
  /\ MaxRequests \in Nat
  /\ Encryptions = 1 .. MaxRequests

VARIABLES
  pc,           \* per thread: the next step of its request
  task,         \* per thread: its request
  encrypted,    \* the ballots that were encrypted, in order
  served,       \* number of requests so far
  restarts,     \* number of restarts so far
  requested,    \* history: the elections they asked for
  publications, \* history: per worker and ballot id, the statuses published
  overlapped    \* history: ids audited twice at the same time, per worker

vars == <<request_tracking, manifest_cache, context_cache, cast_ballots, audited_ballots,
          ballot_nonces, pc, task, encrypted, served, restarts, requested,
          publications, overlapped>>

tracking == request_tracking
history == <<served, requested, publications, overlapped>>

NoTask == [kind |-> "none"]

Steps == {"idle", "context", "manifest", "create", "build", "publish", "nonces", "finish",
          "cleanup"}

Init ==
  /\ TrackingInit
  /\ CachesInit
  /\ PublisherInit
  /\ pc = [t \in Threads |-> "idle"]
  /\ task = [t \in Threads |-> NoTask]
  /\ encrypted = <<>>
  /\ served = 0
  /\ restarts = 0
  /\ requested = {}
  /\ publications = [w \in Workers |-> [b \in BallotIds |-> {}]]
  /\ overlapped = {}

Busy(w) == {t \in Threads : pc[t] # "idle" /\ task[t].worker = w}
Tracking(w) == {t \in Busy(w) : task[t].kind # "publish"}

Go(t, step) == pc' = [pc EXCEPT ![t] = step]
Set(t, record) == task' = [task EXCEPT ![t] = record]

\* Two requests are about one election when they differ in the order of names only.
SameElection(a, b) ==
  /\ Sorted(a.parties) = Sorted(b.parties)
  /\ Sorted(a.candidates) = Sorted(b.candidates)
  /\ a.max_choices = b.max_choices

\* The ballots a client sends: those it had encrypted for this election, the last
\* one of each id.
Sent(a) ==
  LET own == {e \in DOMAIN encrypted : SameElection(encrypted[e].asked, a)}
  IN  {e \in own : \A f \in own : encrypted[f].ballot = encrypted[e].ballot => f <= e}

\* The ballots that are valid for the manifest of the tally.
Counted(sent, m) ==
  {e \in sent : \A i \in DOMAIN m.contests :
     ContestHash(encrypted[e].manifest.contests[i]) = ContestHash(m.contests[i])}

-----------------------------------------------------------------------------
\* A tracked request reaches a worker: track_request.
Accept(t, w, r, request) ==
  /\ pc[t] = "idle"
  /\ served < MaxRequests
  /\ Start(w, r)
  /\ Set(t, [request EXCEPT !.worker = w, !.id = r])
  /\ Go(t, "context")
  /\ served' = served + 1
  /\ requested' = requested \union {request.asked}
  /\ UNCHANGED <<caches, published, encrypted, restarts, publications, overlapped>>

Request(kind, a, b, status, sent) ==
  [kind |-> kind, asked |-> a, ballot |-> b, status |-> status, sent |-> sent, counted |-> {},
   response |-> Nothing, worker |-> 0, id |-> 0, manifest |-> Nothing, result |-> "none", answer |-> "none"]

AcceptBallot(t, w, r) ==
  \E a \in Asked, b \in BallotIds, status \in {"CAST", "AUDITED"} :
    Accept(t, w, r, Request("ballot", a, b, status, {}))

AcceptTally(t, w, r) ==
  \E a \in Asked : Accept(t, w, r, Request("tally", a, 0, "none", Sent(a)))

\* What the handler does with its context: a ballot is encrypted and goes to the
\* publisher, a tally is made.
Work(t, m) ==
  IF task[t].kind = "ballot"
  THEN /\ Set(t, [task[t] EXCEPT !.manifest = m])
       /\ Go(t, "publish")
  ELSE /\ Set(t, [task[t] EXCEPT !.counted = Counted(task[t].sent, m), !.result = "success"])
       /\ Go(t, "finish")

\* get_or_create_context.
LookupContext(t) ==
  /\ pc[t] = "context"
  /\ LET found == context_cache[task[t].worker][Key(task[t].asked)]
     IN  IF found # Nothing THEN Work(t, found) ELSE Go(t, "manifest") /\ UNCHANGED task
  /\ UNCHANGED <<tracking, caches, published, encrypted, restarts, history>>

\* get_or_create_manifest.
LookupManifest(t) ==
  /\ pc[t] = "manifest"
  /\ LET found == manifest_cache[task[t].worker][Key(task[t].asked)]
     IN  IF found # Nothing
         THEN Set(t, [task[t] EXCEPT !.manifest = found]) /\ Go(t, "build")
         ELSE Go(t, "create") /\ UNCHANGED task
  /\ UNCHANGED <<tracking, caches, published, encrypted, restarts, history>>

CreateManifest(t) ==
  /\ pc[t] = "create"
  /\ LET m == ManifestFor(task[t].asked)
     IN  /\ StoreManifest(task[t].worker, task[t].asked, m)
         /\ Set(t, [task[t] EXCEPT !.manifest = m])
  /\ Go(t, "build")
  /\ UNCHANGED <<tracking, context_cache, published, encrypted, restarts, history>>

\* The election builder.  Without a context the handler answers with an error.
BuildContext(t) ==
  /\ pc[t] = "build"
  /\ IF Builds(task[t].manifest)
     THEN /\ StoreContext(task[t].worker, task[t].asked, task[t].manifest)
          /\ Work(t, task[t].manifest)
     ELSE /\ Set(t, [task[t] EXCEPT !.result = "error"])
          /\ Go(t, "finish")
          /\ UNCHANGED context_cache
  /\ UNCHANGED <<tracking, manifest_cache, published, encrypted, restarts, history>>

-----------------------------------------------------------------------------
\* publish_ballot, for a ballot that was just encrypted and for /publish_ballot.
AfterPublishing(t) == IF task[t].kind = "publish" THEN "idle" ELSE "finish"

\* Mutant of Ended: a request to publish is not let go.
Unended(t) == [task[t] EXCEPT !.kind = "publish"]

Ended(t) == IF task[t].kind = "publish" THEN NoTask ELSE [task[t] EXCEPT !.result = "success", !.manifest = Nothing, !.response = Nothing]

NotePublication(w, b, status) ==
  publications' = [publications EXCEPT ![w][b] = @ \union {status}]

Publish(t) ==
  /\ pc[t] = "publish"
  /\ LET w == task[t].worker
         b == task[t].ballot
         response == IF task[t].kind = "publish" THEN task[t].response
                     ELSE [encryption |-> Len(encrypted) + 1, nonces |-> TRUE]
     IN  /\ encrypted' = IF task[t].kind = "publish" THEN encrypted
                         ELSE Append(encrypted, [ballot |-> b, asked |-> task[t].asked,
                                                 manifest |-> task[t].manifest])
         /\ NotePublication(w, b, task[t].status)
         /\ IF task[t].status = "CAST"
            THEN /\ PublishCast(w, b, response)
                 /\ Set(t, Ended(t))
                 /\ Go(t, AfterPublishing(t))
                 /\ UNCHANGED overlapped
            ELSE /\ PublishAudited(w, b, response)
                 /\ Set(t, [task[t] EXCEPT !.response = response])
                 /\ Go(t, "nonces")
                 /\ overlapped' =
                      IF \E u \in Busy(w) : pc[u] = "nonces" /\ task[u].ballot = b
                      THEN overlapped \union {<<w, b>>}
                      ELSE overlapped
  /\ UNCHANGED <<tracking, caches, restarts, served, requested>>

StoreNonces(t) ==
  /\ pc[t] = "nonces"
  /\ PublishNonces(task[t].worker, task[t].ballot, task[t].response)
  /\ Set(t, Ended(t))
  /\ Go(t, AfterPublishing(t))
  /\ UNCHANGED <<tracking, caches, encrypted, restarts, history>>

\* /publish_ballot, with a ballot as it was encrypted or as it was published.
AcceptPublish(t, w) ==
  /\ pc[t] = "idle"
  /\ \E e \in DOMAIN encrypted, nonces \in BOOLEAN, status \in {"CAST", "AUDITED"} :
       Set(t, [kind |-> "publish", ballot |-> encrypted[e].ballot, status |-> status,
               worker |-> w, response |-> [encryption |-> e, nonces |-> nonces]])
  /\ Go(t, "publish")
  /\ served < MaxRequests
  /\ served' = served + 1
  /\ UNCHANGED <<tracking, caches, published, encrypted, restarts, requested, publications,
                 overlapped>>

-----------------------------------------------------------------------------
\* Mutant of Finish: an error is not noted in the table.
FinishSuccess(t) ==
  /\ pc[t] = "finish"
  /\ LET w == task[t].worker
         r == task[t].id
     IN  \/ /\ task[t].result = "success"
            /\ Complete(w, r)
            /\ Set(t, [task[t] EXCEPT !.answer = task[t].result])
         \/ /\ Gone(w, r) \/ task[t].result = "error"
            /\ Set(t, [task[t] EXCEPT !.answer = "exception"])
            /\ UNCHANGED tracking
  /\ Go(t, "cleanup")
  /\ UNCHANGED <<caches, published, encrypted, restarts, history>>

\* The wrapper notes completion, of errors the handler answered with too, unless
\* the entry is gone: then it raises.
Finish(t) ==
  /\ pc[t] = "finish"
  /\ LET w == task[t].worker
         r == task[t].id
     IN  \/ /\ Complete(w, r)
            /\ Set(t, [task[t] EXCEPT !.answer = task[t].result])
         \/ /\ Gone(w, r)
            /\ Set(t, [task[t] EXCEPT !.answer = "exception"])
            /\ UNCHANGED tracking
  /\ Go(t, "cleanup")
  /\ UNCHANGED <<caches, published, encrypted, restarts, history>>

Answer(t) ==
  /\ pc[t] = "cleanup"
  /\ Cleanup(task[t].worker)
  /\ Go(t, "idle")
  /\ Set(t, NoTask)
  /\ UNCHANGED <<caches, published, encrypted, restarts, history>>

\* A process ends, with the requests it was serving, and another takes its place.
Restart(w) ==
  /\ restarts < MaxRestarts
  /\ restarts' = restarts + 1
  /\ ForgetRequests(w)
  /\ ForgetCaches(w)
  /\ ForgetPublished(w)
  /\ pc' = [t \in Threads |-> IF t \in Busy(w) THEN "idle" ELSE pc[t]]
  /\ task' = [t \in Threads |-> IF t \in Busy(w) THEN NoTask ELSE task[t]]
  /\ publications' = [publications EXCEPT ![w] = [b \in BallotIds |-> {}]]
  /\ overlapped' = {o \in overlapped : o[1] # w}
  /\ UNCHANGED <<encrypted, served, requested>>

Next ==
  \/ \E t \in Threads, w \in Workers :
       \/ \E r \in RequestIds : AcceptBallot(t, w, r) \/ AcceptTally(t, w, r)
       \/ AcceptPublish(t, w)
  \/ \E t \in Threads :
       \/ LookupContext(t) \/ LookupManifest(t) \/ CreateManifest(t) \/ BuildContext(t)
       \/ Publish(t) \/ StoreNonces(t)
       \/ Finish(t) \/ Answer(t)
  \/ \E w \in Workers : Restart(w)

Spec == Init /\ [][Next]_vars

-----------------------------------------------------------------------------
\* Every variable has its type; the lists of entries stay within their bounds.
TypeOK ==
  /\ request_tracking \in TableType
  /\ manifest_cache \in CacheType
  /\ context_cache \in CacheType
  /\ PublisherType
  /\ pc \in [Threads -> Steps]
  /\ \A t \in Threads : pc[t] = "idle" <=> task[t] = NoTask
  /\ Len(encrypted) <= MaxRequests
  /\ \A o \in overlapped : o \in Workers \X BallotIds

\* The table of a worker holds at most Kept requests and those it is serving:
\* "keep last 100" (api.py:268) bounds the memory of a process that runs for weeks.
TableIsBounded ==
  \A w \in Workers : Cardinality(Tracked(w)) <= Kept + Cardinality(Tracking(w))

\* An entry that /health counts as active, and in the end as stuck, is of a request
\* that is being served, whatever failed and was cleaned up before.
StartedMeansRunning ==
  \A w \in Workers : \A r \in Active(w) :
    \E t \in Tracking(w) : task[t].id = r /\ pc[t] \notin {"idle", "cleanup"}

\* No two requests so far listed the same names in another order.
OneOrder ==
  \A a, b \in requested : SameElection(a, b) => a = b

\* While all clients list the names in the same order, a tally counts every ballot
\* that was encrypted for its election, whichever workers encrypted it, and
\* whatever other elections share their names with it: the caches never hand out
\* the manifest of another one.
BallotsAreCounted ==
  OneOrder => \A t \in Threads :
    (pc[t] = "finish" /\ task[t].kind = "tally" /\ task[t].result = "success") =>
      task[t].counted = task[t].sent

UnderWay(w, b) == \E t \in Busy(w) : pc[t] = "nonces" /\ task[t].ballot = b

\* The nonces that are served for an id are those of the ballot that is served for it,
\* unless the id was published as cast too: then the ballot is the cast one, and the
\* nonces of the audited one are served beside it.
NoncesFit(w, b) ==
  NoncesStatus(w, b) = 200 =>
    IF "CAST" \in publications[w][b]
    THEN /\ GetPublishedBallot(w, b).encryption = cast_ballots[w][b]
         /\ GetBallotNonces(w, b) = audited_ballots[w][b]
    ELSE GetBallotNonces(w, b) = GetPublishedBallot(w, b).encryption

\* GET /ballots lists a ballot as it was published, with nonces if and only if they
\* can be fetched, and counts each ballot once.
ListingAgrees(w) ==
  LET listed == ListPublishedBallots(w, "none")
      stats == GetPublicationStats(w)
      Once(b) == Cardinality(publications[w][b]) = 1
  IN  /\ \A entry \in listed.cast_ballots : "CAST" \in publications[w][entry.ballot_id]
      /\ \A entry \in listed.audited_ballots :
           LET b == entry.ballot_id
           IN  Once(b) => /\ publications[w][b] = {"AUDITED"}
                          /\ entry.any_nonces <=> NoncesStatus(w, b) = 200
      /\ \A status \in {"CAST", "AUDITED"} :
           LET filtered == ListPublishedBallots(w, status)
           IN  Cardinality(filtered.cast_ballots) + Cardinality(filtered.audited_ballots)
                 = Cardinality({b \in BallotIds : status \in publications[w][b]})
      /\ (\A b \in BallotIds : publications[w][b] = {} \/ Once(b)) =>
           stats.total_ballots = Cardinality({b \in BallotIds : BallotStatus(w, b) = 200})
      /\ stats.nonces_stored =
           Cardinality({b \in AuditedIn(w) : GetBallotNonces(w, b) # Absent})

\* The endpoints agree on an id that was published in one way only: a cast ballot has no
\* nonces to show and an audited one shows those it has, its own.  On an id that was
\* published in both ways they do not, although "Nonces are only available for audited
\* ballots" (api.py:1147): the ballot is cast and has none, and the nonces are there.
\* Nothing is said of an id while it is being published, or of whose nonces those are
\* that was audited twice at once.
EndpointsAgree ==
  \A w \in Workers : ListingAgrees(w) /\ \A b \in BallotIds :
    ~UnderWay(w, b) =>
      /\ publications[w][b] = {} => BallotStatus(w, b) = 404 /\ NoncesStatus(w, b) = 404
      /\ publications[w][b] = {"CAST"} => BallotStatus(w, b) = 200 /\ NoncesStatus(w, b) = 403
      /\ publications[w][b] = {"AUDITED"} =>
           /\ BallotStatus(w, b) = 200
           /\ GetPublishedBallot(w, b).nonces_available
           /\ NoncesStatus(w, b) = IF GetPublishedBallot(w, b).nonces = NoNonces THEN 404 ELSE 200
      /\ publications[w][b] = {"CAST", "AUDITED"} =>
           /\ BallotStatus(w, b) = 200
           /\ ~GetPublishedBallot(w, b).nonces_available
           /\ NoncesStatus(w, b) = IF ballot_nonces[w][b] = NoNonces THEN 403 ELSE 200
      /\ <<w, b>> \notin overlapped => NoncesFit(w, b)

\* "Decorator to track request execution and detect hangs" (api.py:224): it does not
\* change what the handler answers.
TrackingIsTransparent ==
  \A t \in Threads : pc[t] = "cleanup" => task[t].answer = task[t].result
=============================================================================

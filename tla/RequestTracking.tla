---------------------------- MODULE RequestTracking ----------------------------
(***************************************************************************)
(* api.py: the table of requests that the decorator track_request keeps in *)
(* every worker process, under a lock.  Every block under the lock is one  *)
(* action.  A request id is the start of a random UUID, so the order in    *)
(* which the cleanup sorts ids says nothing of their age.                  *)
(***************************************************************************)
EXTENDS Processes, Integers, FiniteSets

CONSTANTS
  RequestIds,  \* ids that are drawn, in the order of sorted()
  Kept,        \* 100: a larger table is cleaned up
  Removed      \* 50: entries the cleanup deletes

ASSUME TrackingAssumption ==
  /\ RequestIds \subseteq Int
  /\ IsFiniteSet(RequestIds)
  /\ Kept \in Nat
  /\ Removed \in Nat \ {0}

VARIABLE request_tracking  \* per worker: the status of each id

Statuses == {"none", "started", "completed", "failed"}

TableType == [Workers -> [RequestIds -> Statuses]]

EmptyTable == [r \in RequestIds |-> "none"]

TrackingInit == request_tracking = [w \in Workers |-> EmptyTable]

Tracked(w) == {r \in RequestIds : request_tracking[w][r] # "none"}

\* What /health counts as active, and watches for being stuck.
Active(w) == {r \in RequestIds : request_tracking[w][r] = "started"}

SetStatus(w, r, status) ==
  request_tracking' = [request_tracking EXCEPT ![w][r] = status]

Start(w, r) ==
  /\ r \notin Tracked(w)
  /\ SetStatus(w, r, "started")

\* The writes after the handler look the entry up first: a KeyError when a
\* cleanup has deleted it.
Complete(w, r) == r \in Tracked(w) /\ SetStatus(w, r, "completed")

Gone(w, r) == r \notin Tracked(w)

\* The first n ids in the order of sorted().
First(ids, n) == {r \in ids : Cardinality({s \in ids : s < r}) < n}

\* Mutant of Cleanup: the table may grow by one more.
CleanupLate(w) ==
  LET table == Tracked(w)
      deleted == IF Cardinality(table) > Kept + 1 THEN First(table, Removed) ELSE {}
  IN  request_tracking' = [request_tracking EXCEPT
        ![w] = [r \in RequestIds |-> IF r \in deleted THEN "none" ELSE @[r]]]

\* The finally block.
Cleanup(w) ==
  LET table == Tracked(w)
      deleted == IF Cardinality(table) > Kept THEN First(table, Removed) ELSE {}
  IN  request_tracking' = [request_tracking EXCEPT
        ![w] = [r \in RequestIds |-> IF r \in deleted THEN "none" ELSE @[r]]]

\* The process ends and another takes its place.
ForgetRequests(w) == request_tracking' = [request_tracking EXCEPT ![w] = EmptyTable]
=============================================================================

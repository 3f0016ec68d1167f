----------------------------- MODULE ManifestCache -----------------------------
(***************************************************************************)
(* manifest_cache.py: manifests and election contexts by key, in every     *)
(* worker process, shared by its threads without a lock.                   *)
(*                                                                         *)
(* What a request asks for is the order in which it lists parties and      *)
(* candidates, and max_choices; joint key, commitment hash and numbers of  *)
(* guardians are those of one election throughout.  A context is           *)
(* represented by the manifest it was built from.                          *)
(***************************************************************************)
EXTENDS Processes, Manifest

CONSTANT
  Asked  \* the records [parties, candidates, max_choices] that requests carry

VARIABLES
  manifest_cache,  \* per worker: _manifest_cache, by key
  context_cache    \* per worker: _context_cache, by key

caches == <<manifest_cache, context_cache>>

Nothing == [kind |-> "none"]

ManifestFor(a) == CreateElectionManifest(a.parties, a.candidates, a.max_choices)

\* How often each name is listed: what sorted() leaves of a list.
Sorted(names) ==
  [n \in ToSet(names) |-> Cardinality({i \in DOMAIN names : names[i] = n})]

\* Mutant of Key: max_choices is left out.
KeyWithoutChoices(a) ==
  [parties |-> Sorted(a.parties), candidates |-> Sorted(a.candidates)]

\* _get_manifest_key.  The key of a context adds what one election has once.
Key(a) ==
  [parties |-> Sorted(a.parties), candidates |-> Sorted(a.candidates),
   max_choices |-> a.max_choices]

Keys == {Key(a) : a \in Asked}
Manifests == {ManifestFor(a) : a \in Asked}

EmptyCache == [k \in Keys |-> Nothing]

CachesInit ==
  /\ manifest_cache = [w \in Workers |-> EmptyCache]
  /\ context_cache = [w \in Workers |-> EmptyCache]

CacheType == [Workers -> [Keys -> Manifests \union {Nothing}]]

StoreManifest(w, a, m) ==
  manifest_cache' = [manifest_cache EXCEPT ![w][Key(a)] = m]

StoreContext(w, a, m) ==
  context_cache' = [context_cache EXCEPT ![w][Key(a)] = m]

ForgetCaches(w) ==
  /\ manifest_cache' = [manifest_cache EXCEPT ![w] = EmptyCache]
  /\ context_cache' = [context_cache EXCEPT ![w] = EmptyCache]
=============================================================================

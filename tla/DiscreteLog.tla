------------------------------ MODULE DiscreteLog ------------------------------
(***************************************************************************)
(* electionguard/discrete_log.py: decryption looks up discrete logarithms  *)
(* in one cache of the process, a dictionary that maps g^0, g^1, ... to    *)
(* their exponents and is extended, without a lock, by whichever request   *)
(* thread misses an element.  Each insertion is atomic, the loop around it *)
(* is not.  Evaluation is lazy and the largest exponent the same for all,  *)
(* as in every use the services make of it; entries are never removed.     *)
(*                                                                         *)
(* The element g^k is written k.  What comes out of the cache's entries is *)
(* kept apart from it: an entry has the element and the exponent that the  *)
(* code recorded for it.                                                   *)
(***************************************************************************)
EXTENDS Integers, Sequences

CONSTANTS
  Threads,      \* threads that decrypt
  MaxExponent,  \* _DLOG_MAX_EXPONENT
  MaxAsked      \* bound: the largest k for which g^k is asked for

ASSUME ExponentsAssumption == MaxExponent \in Nat /\ MaxAsked \in Nat

VARIABLES
  cache,       \* entries of DiscreteLog._cache, in the order of insertion
  pc,          \* where a thread is
  element,     \* what it was asked for: an element, or an exponent to precompute
  maxElement,  \* its local variables
  exponent,
  answer       \* of its last call

vars == <<cache, pc, element, maxElement, exponent, answer>>
locals == <<maxElement, exponent>>

Elements == 0 .. MaxAsked
Entries == [element : Nat, exponent : Nat]
None == -2
Failed == -1  \* DiscreteLogExponentError

Places == {"idle", "lookup", "extend", "walk", "precompute", "fill"}

TypeOK ==
  /\ cache \in Seq(Entries)
  /\ Len(cache) \in 1 .. MaxExponent + 1
  /\ pc \in [Threads -> Places]
  /\ element \in [Threads -> Elements]
  /\ maxElement \in [Threads -> Nat]
  /\ exponent \in [Threads -> Nat]
  /\ answer \in [Threads -> Nat \union {None, Failed}]

Cached(e) == \E n \in DOMAIN cache : cache[n].element = e
ExponentOf(e) == cache[CHOOSE n \in DOMAIN cache : cache[n].element = e].exponent
Last == cache[Len(cache)]

\* cache[e] = x: an element that is there keeps its place.
Store(e, x) ==
  IF Cached(e)
  THEN [n \in DOMAIN cache |->
          IF cache[n].element = e THEN [element |-> e, exponent |-> x] ELSE cache[n]]
  ELSE Append(cache, [element |-> e, exponent |-> x])

Init ==
  /\ cache = <<[element |-> 0, exponent |-> 0]>>
  /\ pc = [t \in Threads |-> "idle"]
  /\ element = [t \in Threads |-> 0]
  /\ maxElement = [t \in Threads |-> 0]
  /\ exponent = [t \in Threads |-> 0]
  /\ answer = [t \in Threads |-> None]

Call(t, e, place) ==
  /\ pc[t] = "idle"
  /\ pc' = [pc EXCEPT ![t] = place]
  /\ element' = [element EXCEPT ![t] = e]
  /\ answer' = [answer EXCEPT ![t] = None]
  /\ UNCHANGED <<cache, locals>>

Return(t, value) ==
  /\ pc' = [pc EXCEPT ![t] = "idle"]
  /\ answer' = [answer EXCEPT ![t] = value]
  /\ UNCHANGED <<cache, element, locals>>

Goto(t, place) ==
  /\ pc' = [pc EXCEPT ![t] = place]
  /\ UNCHANGED <<element, answer>>

\* mult_p and the insertion of one more element.
Insert(t) ==
  /\ cache' = Store(maxElement[t] + 1, exponent[t] + 1)
  /\ maxElement' = [maxElement EXCEPT ![t] = @ + 1]
  /\ exponent' = [exponent EXCEPT ![t] = @ + 1]
  /\ UNCHANGED <<pc, element, answer>>

-----------------------------------------------------------------------------
(* discrete_log *)

DiscreteLog(t, e) == Call(t, e, "lookup")

Lookup(t) ==
  /\ pc[t] = "lookup"
  /\ IF Cached(element[t]) THEN Return(t, ExponentOf(element[t]))
     ELSE Goto(t, "extend") /\ UNCHANGED <<cache, locals>>

\* Mutant of ReadLast: the exponent is taken to be the number of entries.
CountEntries(t) ==
  /\ maxElement' = [maxElement EXCEPT ![t] = Last.element]
  /\ exponent' = [exponent EXCEPT ![t] = Len(cache)]
  /\ UNCHANGED cache

\* The element inserted last and its exponent.
ReadLast(t) ==
  /\ maxElement' = [maxElement EXCEPT ![t] = Last.element]
  /\ exponent' = [exponent EXCEPT ![t] = ExponentOf(Last.element)]
  /\ UNCHANGED cache

Extend(t) ==
  /\ pc[t] = "extend"
  /\ ReadLast(t)
  /\ Goto(t, "walk")

\* Mutants of Walk: the limit is tested before the exponent is incremented, or
\* sends the thread back; the answer is the last entry's.
WalkTooFar(t) ==
  /\ pc[t] = "walk"
  /\ \/ element[t] = maxElement[t] /\ Return(t, ExponentOf(element[t]))
     \/ element[t] # maxElement[t] /\ exponent[t] > MaxExponent /\ Return(t, Failed)
     \/ element[t] # maxElement[t] /\ exponent[t] <= MaxExponent /\ Insert(t)
WalkAgain(t) ==
  /\ pc[t] = "walk"
  /\ \/ element[t] = maxElement[t] /\ Return(t, ExponentOf(element[t]))
     \/ /\ element[t] # maxElement[t] /\ exponent[t] + 1 > MaxExponent
        /\ Goto(t, "extend") /\ UNCHANGED <<cache, locals>>
     \/ element[t] # maxElement[t] /\ exponent[t] + 1 <= MaxExponent /\ Insert(t)
WalkAnswersLast(t) ==
  /\ pc[t] = "walk"
  /\ \/ element[t] = maxElement[t] /\ Return(t, Last.exponent)
     \/ element[t] # maxElement[t] /\ exponent[t] + 1 > MaxExponent /\ Return(t, Failed)
     \/ element[t] # maxElement[t] /\ exponent[t] + 1 <= MaxExponent /\ Insert(t)

\* One turn of the loop of compute_discrete_log_cache, or the return after it.
Walk(t) ==
  /\ pc[t] = "walk"
  /\ \/ element[t] = maxElement[t] /\ Return(t, ExponentOf(element[t]))
     \/ element[t] # maxElement[t] /\ exponent[t] + 1 > MaxExponent /\ Return(t, Failed)
     \/ element[t] # maxElement[t] /\ exponent[t] + 1 <= MaxExponent /\ Insert(t)

-----------------------------------------------------------------------------
(* precompute_cache, whose exponent is cut down to the maximum *)

PrecomputeCache(t, e) ==
  Call(t, IF e > MaxExponent THEN MaxExponent ELSE e, "precompute")

Precompute(t) ==
  /\ pc[t] = "precompute"
  /\ ReadLast(t)
  /\ Goto(t, IF ExponentOf(Last.element) >= element[t] THEN "idle" ELSE "fill")

Fill(t) ==
  /\ pc[t] = "fill"
  /\ \/ exponent[t] < element[t] /\ Insert(t)
     \/ exponent[t] >= element[t] /\ Return(t, None)

-----------------------------------------------------------------------------
Step(t) == Lookup(t) \/ Extend(t) \/ Walk(t) \/ Precompute(t) \/ Fill(t)

Next ==
  \E t \in Threads :
    \/ \E e \in Elements : DiscreteLog(t, e) \/ PrecomputeCache(t, e)
    \/ Step(t)

Spec == Init /\ [][Next]_vars

\* The interpreter lets every thread run again and again; none has to be asked.
FairSpec == Spec /\ \A t \in Threads : WF_vars(Step(t))

-----------------------------------------------------------------------------
(* Properties. *)

\* Whatever the threads do to each other's loops, the cache is exact, without
\* gaps and in ascending order: the last element, from which every extension
\* starts, is the largest one.
CacheIsExact ==
  \A n \in DOMAIN cache : cache[n] = [element |-> n - 1, exponent |-> n - 1]

\* A thread that gets an exponent gets that of its element, also when another
\* one has extended the cache meanwhile.
AnswersAreRight == \A t \in Threads : answer[t] >= 0 => answer[t] = element[t]

\* Every call returns, at the latest when the largest exponent is reached.
EveryCallEnds == \A t \in Threads : pc[t] # "idle" ~> pc[t] = "idle"

\* DiscreteLogExponentError: "Raised when the max exponent is larger than the
\* system allows".  An element whose exponent is allowed is found.
OnlyTooLargeFails ==
  \A t \in Threads : answer[t] = Failed => element[t] > MaxExponent
=============================================================================

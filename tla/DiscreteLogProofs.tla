---------------------------- MODULE DiscreteLogProofs ----------------------------
(***************************************************************************)
(* Proofs about DiscreteLog, for any threads and any largest exponent.     *)
(*                                                                         *)
(* Of another thread's work a thread only needs to know that the cache     *)
(* never shrinks and that its own last element stays in it: Inv says so,   *)
(* and that every entry is the one its place demands.                      *)
(***************************************************************************)
EXTENDS DiscreteLog, TLAPS

\* A thread's own element is in the cache, and what is precomputed is allowed.
WithinCache ==
  \A t \in Threads :
    /\ maxElement[t] = exponent[t]
    /\ exponent[t] < Len(cache)
    /\ pc[t] \in {"precompute", "fill"} => element[t] <= MaxExponent

Inv == TypeOK /\ CacheIsExact /\ WithinCache /\ AnswersAreRight

-----------------------------------------------------------------------------
(* Lookups and insertions in an exact cache. *)

\* In an exact cache the elements up to its length are found with the right
\* exponent, and the last entry is the largest.
LEMMA ExactLookup ==
  ASSUME TypeOK, CacheIsExact
  PROVE  /\ \A e \in Nat : Cached(e) <=> e < Len(cache)
         /\ \A e \in Nat : e < Len(cache) => ExponentOf(e) = e
         /\ Last = [element |-> Len(cache) - 1, exponent |-> Len(cache) - 1]
<1>1. Len(cache) \in Nat \ {0} /\ DOMAIN cache = 1 .. Len(cache)
  BY ExponentsAssumption DEF TypeOK
<1>2. \A n \in DOMAIN cache : cache[n].element = n - 1 /\ cache[n].exponent = n - 1
  BY DEF CacheIsExact
<1>3. ASSUME NEW e \in Nat PROVE Cached(e) <=> e < Len(cache)
  <2>1. CASE e < Len(cache)
    <3>1. e + 1 \in DOMAIN cache /\ cache[e + 1].element = e
      BY <1>1, <1>2, <2>1
    <3> QED BY <2>1, <3>1 DEF Cached
  <2>2. CASE ~(e < Len(cache))
    BY <1>1, <1>2, <2>2 DEF Cached
  <2> QED BY <2>1, <2>2
<1>4. ASSUME NEW e \in Nat, e < Len(cache) PROVE ExponentOf(e) = e
  <2>1. \E n \in DOMAIN cache : cache[n].element = e
    BY <1>3, <1>4 DEF Cached
  <2> DEFINE k == CHOOSE n \in DOMAIN cache : cache[n].element = e
  <2>2. k \in DOMAIN cache /\ cache[k].element = e
    BY <2>1
  <2>3. cache[k].exponent = e
    BY <1>1, <1>2, <2>2
  <2> QED BY <2>3 DEF ExponentOf
<1>5. Last = [element |-> Len(cache) - 1, exponent |-> Len(cache) - 1]
  BY <1>1 DEF Last, CacheIsExact
<1> QED BY <1>3, <1>4, <1>5

\* Storing the element after one that is in the cache keeps the cache exact and
\* makes it longer by at most one.
LEMMA ExactStore ==
  ASSUME TypeOK, CacheIsExact, NEW x \in Nat, x < Len(cache)
  PROVE  /\ Store(x + 1, x + 1) \in Seq(Entries)
         /\ Len(Store(x + 1, x + 1)) = IF x + 1 < Len(cache) THEN Len(cache) ELSE x + 2
         /\ \A n \in DOMAIN Store(x + 1, x + 1) :
              Store(x + 1, x + 1)[n] = [element |-> n - 1, exponent |-> n - 1]
<1> DEFINE new == Store(x + 1, x + 1)
<1> SUFFICES /\ new \in Seq(Entries)
             /\ Len(new) = IF x + 1 < Len(cache) THEN Len(cache) ELSE x + 2
             /\ \A n \in DOMAIN new : new[n] = [element |-> n - 1, exponent |-> n - 1]
  OBVIOUS
<1> HIDE DEF new
<1>1. Len(cache) \in Nat \ {0} /\ DOMAIN cache = 1 .. Len(cache)
  BY ExponentsAssumption DEF TypeOK
<1>2. cache \in Seq(Entries)
  BY DEF TypeOK
<1>3. Len(cache) \in Nat /\ x < Len(cache)
  BY <1>1
<1>4. Cached(x + 1) <=> x + 1 < Len(cache)
  BY ExactLookup
<1>5. \A n \in DOMAIN cache : cache[n] = [element |-> n - 1, exponent |-> n - 1]
  BY DEF CacheIsExact
<1>6. CASE x + 1 < Len(cache)
  <2>1. new = [n \in DOMAIN cache |->
                 IF cache[n].element = x + 1 THEN [element |-> x + 1, exponent |-> x + 1]
                 ELSE cache[n]]
    BY <1>4, <1>6 DEF Store, new
  <2>2. DOMAIN new = 1 .. Len(cache)
    BY <1>1, <2>1
  <2>3. \A n \in 1 .. Len(cache) : new[n] = [element |-> n - 1, exponent |-> n - 1]
    BY <1>1, <1>5, <2>1
  <2>4. ASSUME NEW n \in 1 .. Len(cache) PROVE new[n] \in Entries
    <3>1. n - 1 \in Nat
      BY <1>3
    <3>2. [element |-> n - 1, exponent |-> n - 1] \in Entries
      BY <3>1 DEF Entries
    <3> QED BY <2>3, <3>2
  <2>5. new \in Seq(Entries) /\ Len(new) = Len(cache)
    <3>1. new = [n \in 1 .. Len(cache) |-> new[n]]
      BY <1>1, <2>1
    <3>2. new \in [1 .. Len(cache) -> Entries]
      BY <2>4, <3>1
    <3> QED BY <1>1, <3>2
  <2> QED BY <1>6, <2>2, <2>3, <2>5
<1>7. CASE ~(x + 1 < Len(cache))
  <2>1. Len(cache) = x + 1
    BY <1>7, <1>3
  <2>2. new = Append(cache, [element |-> x + 1, exponent |-> x + 1])
    BY <1>4, <1>7 DEF Store, new
  <2>3. [element |-> x + 1, exponent |-> x + 1] \in Entries
    BY DEF Entries
  <2>4. new \in Seq(Entries) /\ Len(new) = x + 2 /\ DOMAIN new = 1 .. x + 2
    BY <1>2, <2>1, <2>2, <2>3
  <2>5. ASSUME NEW n \in 1 .. x + 2
        PROVE new[n] = [element |-> n - 1, exponent |-> n - 1]
    <3>1. CASE n = x + 2
      BY <1>2, <2>1, <2>2, <2>3, <3>1
    <3>2. CASE n # x + 2
      <4>1. n \in DOMAIN cache /\ new[n] = cache[n]
        BY <1>1, <1>2, <2>1, <2>2, <2>3, <3>2
      <4> QED BY <1>5, <4>1
    <3> QED BY <3>1, <3>2
  <2> QED BY <1>7, <2>4, <2>5
<1> QED BY <1>6, <1>7

-----------------------------------------------------------------------------
(* The invariant. *)

LEMMA InitInv == Init => Inv
<1> SUFFICES ASSUME Init PROVE Inv
  OBVIOUS
<1>1. /\ cache \in Seq(Entries)
      /\ Len(cache) = 1
      /\ DOMAIN cache = 1 .. 1
      /\ cache[1] = [element |-> 0, exponent |-> 0]
  BY DEF Init, Entries
<1> QED
  BY <1>1, ExponentsAssumption
  DEF Init, Inv, TypeOK, CacheIsExact, WithinCache, AnswersAreRight, Places, Elements,
      None, Failed

\* A step that leaves the cache alone keeps it exact.
LEMMA SameCache ==
  ASSUME CacheIsExact, cache' = cache
  PROVE  CacheIsExact'
BY DEF CacheIsExact

\* Inserting the next element keeps Inv, as long as it is an allowed exponent.
LEMMA InsertInv ==
  ASSUME Inv, NEW t \in Threads, Insert(t), exponent[t] + 1 <= MaxExponent
  PROVE  Inv'
<1> USE ExponentsAssumption
<1>1. /\ exponent[t] \in Nat /\ maxElement[t] = exponent[t] /\ exponent[t] < Len(cache)
      /\ Len(cache) \in 1 .. MaxExponent + 1
  BY DEF Inv, TypeOK, WithinCache
<1>2. cache' = Store(exponent[t] + 1, exponent[t] + 1)
  BY <1>1 DEF Insert
<1>3. /\ cache' \in Seq(Entries)
      /\ Len(cache') = IF exponent[t] + 1 < Len(cache) THEN Len(cache) ELSE exponent[t] + 2
      /\ \A n \in DOMAIN cache' : cache'[n] = [element |-> n - 1, exponent |-> n - 1]
  BY <1>1, <1>2, ExactStore DEF Inv
<1>4. Len(cache') >= Len(cache) /\ exponent[t] + 1 < Len(cache')
      /\ Len(cache') \in 1 .. MaxExponent + 1
  BY <1>1, <1>3
<1>5. /\ maxElement' = [maxElement EXCEPT ![t] = @ + 1]
      /\ exponent' = [exponent EXCEPT ![t] = @ + 1]
      /\ UNCHANGED <<pc, element, answer>>
  BY DEF Insert
<1>6. TypeOK'
  BY <1>3, <1>4, <1>5 DEF Inv, TypeOK
<1>7. CacheIsExact'
  BY <1>3 DEF CacheIsExact
<1>8. WithinCache'
  BY <1>1, <1>4, <1>5 DEF Inv, TypeOK, WithinCache
<1>9. AnswersAreRight'
  BY <1>5 DEF Inv, AnswersAreRight
<1> QED BY <1>6, <1>7, <1>8, <1>9 DEF Inv

\* Beginning to extend the cache from its last entry keeps Inv.
LEMMA ReadLastInv ==
  ASSUME Inv, NEW t \in Threads, ReadLast(t), NEW place \in Places, Goto(t, place),
         place \in {"precompute", "fill"} => element[t] <= MaxExponent
  PROVE  Inv'
<1> USE ExponentsAssumption
<1>1. Len(cache) \in 1 .. MaxExponent + 1
  BY DEF Inv, TypeOK
<1>2. Last.element = Len(cache) - 1 /\ ExponentOf(Last.element) = Len(cache) - 1
  BY <1>1, ExactLookup DEF Inv
<1>3. /\ maxElement' = [maxElement EXCEPT ![t] = Len(cache) - 1]
      /\ exponent' = [exponent EXCEPT ![t] = Len(cache) - 1]
      /\ UNCHANGED <<cache, element, answer>>
      /\ pc' = [pc EXCEPT ![t] = place]
  BY <1>2 DEF ReadLast, Goto
<1>4. TypeOK'
  BY <1>1, <1>3 DEF Inv, TypeOK
<1>5. CacheIsExact'
  BY <1>3, SameCache DEF Inv
<1>6. WithinCache'
  BY <1>1, <1>3 DEF Inv, TypeOK, WithinCache
<1>7. AnswersAreRight'
  BY <1>3 DEF Inv, AnswersAreRight
<1> QED BY <1>4, <1>5, <1>6, <1>7 DEF Inv

\* Returning keeps Inv when the answer is none, a failure, or right.
LEMMA ReturnInv ==
  ASSUME Inv, NEW t \in Threads, NEW value \in {None, Failed, element[t]}, Return(t, value)
  PROVE  Inv'
<1> USE ExponentsAssumption
<1>1. /\ pc' = [pc EXCEPT ![t] = "idle"]
      /\ answer' = [answer EXCEPT ![t] = value]
      /\ UNCHANGED <<cache, element, maxElement, exponent>>
  BY DEF Return, locals
<1>2. element[t] \in Nat
  BY DEF Inv, TypeOK, Elements
<1>3. TypeOK'
  BY <1>1, <1>2 DEF Inv, TypeOK, Places
<1>4. CacheIsExact'
  BY <1>1, SameCache DEF Inv
<1>5. WithinCache'
  BY <1>1 DEF Inv, TypeOK, WithinCache
<1>6. AnswersAreRight'
  BY <1>1 DEF Inv, TypeOK, AnswersAreRight, None, Failed
<1> QED BY <1>3, <1>4, <1>5, <1>6 DEF Inv

\* Calling keeps Inv when what is precomputed is allowed.
LEMMA CallInv ==
  ASSUME Inv, NEW t \in Threads, NEW e \in Elements, NEW place \in Places, Call(t, e, place),
         place \in {"precompute", "fill"} => e <= MaxExponent
  PROVE  Inv'
<1> USE ExponentsAssumption
<1>1. /\ pc' = [pc EXCEPT ![t] = place]
      /\ element' = [element EXCEPT ![t] = e]
      /\ answer' = [answer EXCEPT ![t] = None]
      /\ UNCHANGED <<cache, maxElement, exponent>>
  BY DEF Call, locals
<1>2. TypeOK'
  BY <1>1 DEF Inv, TypeOK
<1>3. CacheIsExact'
  BY <1>1, SameCache DEF Inv
<1>4. WithinCache'
  BY <1>1 DEF Inv, TypeOK, WithinCache
<1>5. AnswersAreRight'
  BY <1>1 DEF Inv, TypeOK, AnswersAreRight, None
<1> QED BY <1>2, <1>3, <1>4, <1>5 DEF Inv

LEMMA NextInv == Inv /\ [Next]_vars => Inv'
<1> USE ExponentsAssumption
<1> SUFFICES ASSUME Inv, [Next]_vars PROVE Inv'
  OBVIOUS
<1>1. ASSUME NEW t \in Threads, NEW e \in Elements, DiscreteLog(t, e) PROVE Inv'
  <2>1. Call(t, e, "lookup")
    BY <1>1 DEF DiscreteLog
  <2> QED BY <2>1, CallInv DEF Places
<1>2. ASSUME NEW t \in Threads, NEW e \in Elements, PrecomputeCache(t, e) PROVE Inv'
  <2> DEFINE cut == IF e > MaxExponent THEN MaxExponent ELSE e
  <2>1. cut \in Elements /\ cut <= MaxExponent
    BY DEF Elements
  <2>2. Call(t, cut, "precompute")
    BY <1>2 DEF PrecomputeCache
  <2> HIDE DEF cut
  <2> QED BY <2>1, <2>2, CallInv DEF Places
<1>3. ASSUME NEW t \in Threads, Lookup(t) PROVE Inv'
  <2>1. CASE Cached(element[t])
    <3>1. Return(t, element[t])
      BY <1>3, <2>1, ExactLookup DEF Lookup, Inv, TypeOK, Elements
    <3> QED BY <3>1, ReturnInv
  <2>2. CASE ~Cached(element[t])
    <3>1. /\ pc' = [pc EXCEPT ![t] = "extend"]
          /\ UNCHANGED <<cache, element, maxElement, exponent, answer>>
      BY <1>3, <2>2 DEF Lookup, Goto, locals
    <3>2. TypeOK'
      BY <3>1 DEF Inv, TypeOK, Places
    <3>3. CacheIsExact'
      BY <3>1, SameCache DEF Inv
    <3>4. WithinCache' /\ AnswersAreRight'
      BY <3>1 DEF Inv, TypeOK, WithinCache, AnswersAreRight
    <3> QED BY <3>2, <3>3, <3>4 DEF Inv
  <2> QED BY <2>1, <2>2
<1>4. ASSUME NEW t \in Threads, Extend(t) PROVE Inv'
  BY <1>4, ReadLastInv DEF Extend, Places
<1>5. ASSUME NEW t \in Threads, Walk(t) PROVE Inv'
  <2>1. CASE element[t] = maxElement[t] /\ Return(t, ExponentOf(element[t]))
    <3>1. element[t] < Len(cache) /\ element[t] \in Nat
      BY <2>1 DEF Inv, TypeOK, WithinCache, Elements
    <3>2. ExponentOf(element[t]) = element[t]
      BY <3>1, ExactLookup DEF Inv
    <3> QED BY <2>1, <3>2, ReturnInv
  <2>2. CASE Return(t, Failed)
    BY <2>2, ReturnInv
  <2>3. CASE exponent[t] + 1 <= MaxExponent /\ Insert(t)
    BY <2>3, InsertInv
  <2> QED BY <1>5, <2>1, <2>2, <2>3 DEF Walk
<1>6. ASSUME NEW t \in Threads, Precompute(t) PROVE Inv'
  <2> DEFINE place == IF ExponentOf(Last.element) >= element[t] THEN "idle" ELSE "fill"
  <2>1. place \in Places /\ Goto(t, place) /\ ReadLast(t)
    BY <1>6 DEF Precompute, Places
  <2>2. element[t] <= MaxExponent
    BY <1>6 DEF Precompute, Inv, WithinCache
  <2> HIDE DEF place
  <2> QED BY <2>1, <2>2, ReadLastInv
<1>7. ASSUME NEW t \in Threads, Fill(t) PROVE Inv'
  <2>1. CASE exponent[t] < element[t] /\ Insert(t)
    <3>1. exponent[t] + 1 <= MaxExponent
      BY <1>7, <2>1 DEF Fill, Inv, TypeOK, WithinCache, Elements
    <3> QED BY <2>1, <3>1, InsertInv
  <2>2. CASE Return(t, None)
    BY <2>2, ReturnInv
  <2> QED BY <1>7, <2>1, <2>2 DEF Fill
<1>8. CASE UNCHANGED vars
  BY <1>8 DEF vars, Inv, TypeOK, CacheIsExact, WithinCache, AnswersAreRight
<1> QED BY <1>1, <1>2, <1>3, <1>4, <1>5, <1>6, <1>7, <1>8 DEF Next, Step

\* The invariant holds of the cache and of every thread inside the code, for any threads.
THEOREM SpecInv == Spec => []Inv
BY InitInv, NextInv, PTL DEF Spec

-----------------------------------------------------------------------------
(* What follows. *)

\* Every variable keeps its type; the cache never holds more than the largest
\* exponent and zero.
THEOREM DlogTypeCorrect == Spec => []TypeOK
<1>1. Inv => TypeOK
  BY DEF Inv
<1> QED BY <1>1, SpecInv, PTL

\* The cache stays exact however many threads extend it at once.
THEOREM CacheStaysExact == Spec => []CacheIsExact
<1>1. Inv => CacheIsExact
  BY DEF Inv
<1> QED BY <1>1, SpecInv, PTL

\* No thread is ever given a wrong discrete logarithm.
THEOREM NoWrongAnswer == Spec => []AnswersAreRight
<1>1. Inv => AnswersAreRight
  BY DEF Inv
<1> QED BY <1>1, SpecInv, PTL

-----------------------------------------------------------------------------
(* A single thread. *)

\* A thread that is alone extends the cache from its end, and only towards an
\* element that the cache does not have yet.
AtTheEnd(t) ==
  /\ pc[t] \in {"extend", "walk"} => element[t] >= Len(cache) - 1
  /\ pc[t] = "extend" => element[t] >= Len(cache)
  /\ pc[t] = "walk" => exponent[t] = Len(cache) - 1

\* In a process with one thread, an element whose exponent is allowed is always
\* found: the failures of OnlyTooLargeFails need a second thread.
THEOREM AloneNothingIsMissed ==
  ASSUME NEW t \in Threads, Threads = {t}
  PROVE  Spec => []OnlyTooLargeFails
<1> DEFINE Alone == Inv /\ AtTheEnd(t) /\ OnlyTooLargeFails
<1> USE ExponentsAssumption
<1>1. Init => AtTheEnd(t) /\ OnlyTooLargeFails
  BY DEF Init, AtTheEnd, OnlyTooLargeFails, None, Failed
<1>2. ASSUME Inv, AtTheEnd(t), OnlyTooLargeFails, [Next]_vars
      PROVE  AtTheEnd(t)' /\ OnlyTooLargeFails'
  <2> USE <1>2
  <2>1. /\ Len(cache) \in 1 .. MaxExponent + 1
        /\ element[t] \in Nat /\ exponent[t] \in Nat /\ maxElement[t] = exponent[t]
        /\ pc \in [Threads -> Places] /\ answer \in [Threads -> Nat \union {None, Failed}]
        /\ exponent \in [Threads -> Nat]
    BY DEF Inv, TypeOK, Elements, WithinCache
  <2>2. ASSUME NEW e \in Elements, NEW place \in {"lookup", "precompute"}, Call(t, e, place)
        PROVE  AtTheEnd(t)' /\ OnlyTooLargeFails'
    BY <2>1, <2>2 DEF Call, AtTheEnd, OnlyTooLargeFails, None, Failed
  <2>3. ASSUME NEW value, value = Failed => element[t] > MaxExponent, Return(t, value)
        PROVE  AtTheEnd(t)' /\ OnlyTooLargeFails'
    BY <2>1, <2>3 DEF Return, AtTheEnd, OnlyTooLargeFails
  <2>4. ASSUME Lookup(t) PROVE AtTheEnd(t)' /\ OnlyTooLargeFails'
    <3>1. CASE Cached(element[t])
      <4>1. ExponentOf(element[t]) = element[t]
        BY <2>1, <3>1, ExactLookup DEF Inv
      <4>2. Return(t, element[t]) /\ element[t] # Failed
        BY <2>1, <2>4, <3>1, <4>1 DEF Lookup, Failed
      <4> QED BY <2>3, <4>2
    <3>2. CASE ~Cached(element[t])
      <4>1. element[t] >= Len(cache)
        BY <2>1, <3>2, ExactLookup DEF Inv
      <4> QED BY <2>1, <2>4, <3>2, <4>1 DEF Lookup, Goto, locals, AtTheEnd, OnlyTooLargeFails
    <3> QED BY <3>1, <3>2
  <2>5. ASSUME ReadLast(t), NEW place \in Places \ {"extend"}, Goto(t, place),
               place = "walk" => pc[t] = "extend"
        PROVE  AtTheEnd(t)' /\ OnlyTooLargeFails'
    <3>1. ExponentOf(Last.element) = Len(cache) - 1
      BY <2>1, ExactLookup DEF Inv
    <3> QED BY <2>1, <2>5, <3>1 DEF ReadLast, Goto, AtTheEnd, OnlyTooLargeFails
  <2>6. ASSUME Walk(t) PROVE AtTheEnd(t)' /\ OnlyTooLargeFails'
    <3>1. exponent[t] = Len(cache) - 1 /\ element[t] >= Len(cache) - 1
      BY <2>6 DEF Walk, AtTheEnd
    <3>2. CASE element[t] = maxElement[t] /\ Return(t, ExponentOf(element[t]))
      <4>1. ExponentOf(element[t]) # Failed
        BY <2>1, <3>1, <3>2, ExactLookup DEF Inv, Failed
      <4> QED BY <2>3, <3>2, <4>1
    <3>3. CASE /\ element[t] # maxElement[t] /\ exponent[t] + 1 > MaxExponent
               /\ Return(t, Failed)
      <4>1. element[t] > MaxExponent
        BY <2>1, <3>1, <3>3
      <4> QED BY <2>3, <3>3, <4>1
    <3>4. CASE element[t] # maxElement[t] /\ Insert(t)
      <4>1. Len(cache') = Len(cache) + 1
        <5>1. cache' = Store(exponent[t] + 1, exponent[t] + 1)
          BY <2>1, <3>4 DEF Insert
        <5>2. exponent[t] < Len(cache) /\ ~(exponent[t] + 1 < Len(cache))
          BY <2>1, <3>1
        <5>3. Len(cache') = exponent[t] + 2
          BY <2>1, <5>1, <5>2, ExactStore DEF Inv
        <5> QED BY <2>1, <3>1, <5>3
      <4> QED BY <2>1, <2>6, <3>1, <3>4, <4>1
          DEF Insert, Walk, AtTheEnd, OnlyTooLargeFails
    <3> QED BY <2>6, <3>2, <3>3, <3>4 DEF Walk
  <2>7. ASSUME Fill(t) PROVE AtTheEnd(t)' /\ OnlyTooLargeFails'
    <3>1. CASE Insert(t)
      BY <2>1, <2>7, <3>1 DEF Fill, Insert, AtTheEnd, OnlyTooLargeFails
    <3>2. CASE Return(t, None)
      BY <2>3, <3>2 DEF None, Failed
    <3> QED BY <2>7, <3>1, <3>2 DEF Fill
  <2>8. ASSUME Precompute(t) PROVE AtTheEnd(t)' /\ OnlyTooLargeFails'
    <3>1. PICK place \in {"idle", "fill"} : Goto(t, place)
      BY <2>8 DEF Precompute
    <3> QED BY <2>5, <2>8, <3>1 DEF Precompute, Places
  <2>9. CASE UNCHANGED vars
    BY <2>9 DEF vars, AtTheEnd, OnlyTooLargeFails
  <2>10. ASSUME Extend(t) PROVE AtTheEnd(t)' /\ OnlyTooLargeFails'
    BY <2>5, <2>10 DEF Extend, Places
  <2>11. ASSUME NEW e \in Elements, DiscreteLog(t, e) \/ PrecomputeCache(t, e)
         PROVE  AtTheEnd(t)' /\ OnlyTooLargeFails'
    <3>1. (IF e > MaxExponent THEN MaxExponent ELSE e) \in Elements
      BY DEF Elements
    <3> QED BY <2>2, <2>11, <3>1 DEF DiscreteLog, PrecomputeCache
  <2> QED
    BY <2>4, <2>6, <2>7, <2>8, <2>9, <2>10, <2>11 DEF Next, Step
<1>3. Init /\ [][Next]_vars => []Alone
  BY <1>1, <1>2, InitInv, NextInv, PTL
<1> QED BY <1>3, PTL DEF Spec
=============================================================================

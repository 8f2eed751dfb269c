------------------------ MODULE IntentStore_proofs ------------------------
(***************************************************************************)
(* Proofs about IntentStore, for any requests, subjects, limit and bounds. *)
(***************************************************************************)
EXTENDS IntentStore, FiniteSetTheorems, TLAPS

(* A collection of numbers up to n is finite. *)
LEMMA Countable ==
    ASSUME NEW n \in Nat, NEW entries \in SUBSET (1..n)
    PROVE  IsFiniteSet(entries) /\ Cardinality(entries) \in Nat
<1>1. 1 \in Int /\ n \in Int
  OBVIOUS
<1>2. IsFiniteSet(1..n)
  BY <1>1, FS_Interval
<1>3. IsFiniteSet(entries)
  BY <1>2, FS_Subset
<1> QED BY <1>3, FS_CardinalityType

(* A collection stays within its limit, and what it drops is Limit entries   *)
(* old: the dropped one was the oldest of Limit numbers up to n.             *)
LEMMA Insertion ==
    ASSUME NEW n \in Nat, NEW entries \in SUBSET (1..n),
           Cardinality(entries) <= Limit,
           NEW dropped \in Trimmed(entries)
    PROVE  LET new == (entries \ dropped) \union {n + 1}
           IN  /\ new \subseteq 1..(n + 1)
               /\ Cardinality(new) <= Limit
               /\ dropped \subseteq entries
               /\ \A m \in dropped : n + 1 >= m + Limit
<1> DEFINE new == (entries \ dropped) \union {n + 1}
<1>1. IsFiniteSet(entries) /\ Cardinality(entries) \in Nat
  BY Countable
<1>2. n + 1 \notin entries
  OBVIOUS
<1>3. CASE Cardinality(entries) < Limit
  <2>1. dropped = {}
    BY <1>3 DEF Trimmed
  <2>2. Cardinality(entries \union {n + 1}) = Cardinality(entries) + 1
    BY <1>1, <1>2, FS_AddElement
  <2> QED BY <1>1, <1>3, <2>1, <2>2, LimitAssumption
<1>4. CASE ~(Cardinality(entries) < Limit)
  <2>1. PICK m \in entries : dropped = {m} /\ \A u \in entries : m <= u
    BY <1>4 DEF Trimmed
  <2>2. IsFiniteSet(entries \ {m})
          /\ Cardinality(entries \ {m}) = Cardinality(entries) - 1
    BY <1>1, FS_RemoveElement
  <2>3. Cardinality((entries \ {m}) \union {n + 1}) = Cardinality(entries)
    <3>1. n + 1 \notin entries \ {m}
      BY <1>2
    <3>2. Cardinality((entries \ {m}) \union {n + 1})
            = Cardinality(entries \ {m}) + 1
      BY <2>2, <3>1, FS_AddElement
    <3> QED BY <1>1, <2>2, <3>2
  <2>4. entries \subseteq m..n
    BY <2>1
  <2>5. IsFiniteSet(m..n) /\ Cardinality(m..n) = n - m + 1
    BY <2>1, FS_Interval
  <2>6. Cardinality(entries) <= n - m + 1
    BY <2>4, <2>5, FS_Subset
  <2>7. n + 1 >= m + Limit
    BY <1>1, <1>4, <2>1, <2>6, LimitAssumption
  <2> QED BY <2>1, <2>3, <2>7
<1> QED BY <1>3, <1>4

(* Taking an entry out keeps a collection within its limit. *)
LEMMA Removal ==
    ASSUME NEW n \in Nat, NEW entries \in SUBSET (1..n),
           Cardinality(entries) <= Limit, NEW t
    PROVE  Cardinality(entries \ {t}) <= Limit
<1>1. IsFiniteSet(entries) /\ Cardinality(entries) \in Nat
  BY Countable
<1>2. Cardinality(entries \ {t})
        \in {Cardinality(entries), Cardinality(entries) - 1}
  BY <1>1, FS_RemoveElement
<1> QED BY <1>1, <1>2, LimitAssumption

---------------------------------------------------------------------------
LEMMA InvInit == Init => IInv
<1> SUFFICES ASSUME Init PROVE IInv
  OBVIOUS
<1>1. TypeOK
  BY MaxTokensAssumption, MaxRestartsAssumption DEF Init, TypeOK, PC
<1>2. AtMostOnce /\ OnlyWhatWasShown /\ Spent
  BY DEF Init, AtMostOnce, OnlyWhatWasShown, Spent
<1>3. Bounded
  BY FS_EmptySet, LimitAssumption DEF Init, Bounded
<1>4. LiveOrOld
  BY DEF Init, LiveOrOld
<1>5. RefusedForAReason /\ ResultIsThere
  BY DEF Init, RefusedForAReason, ResultIsThere
<1> QED BY <1>1, <1>2, <1>3, <1>4, <1>5 DEF IInv

LEMMA InvStep == IInv /\ [Next]_vars => IInv'
<1> SUFFICES ASSUME IInv, [Next]_vars PROVE IInv'
  OBVIOUS
<1> USE DEF IInv, storeVars, requestVars, ghostVars
<1>0. MaxTokens \in Nat /\ Limit \in Nat \ {0} /\ issued \in Nat /\ saved \in Nat
  BY MaxTokensAssumption, LimitAssumption DEF TypeOK
<1>1. CASE UNCHANGED vars
  BY <1>1 DEF vars, TypeOK, AtMostOnce, OnlyWhatWasShown, Bounded, Spent,
              LiveOrOld, RefusedForAReason, ResultIsThere, Matches
<1>2. CASE CreateIntent
  <2>1. PICK dropped \in Trimmed(intents) :
          intents' = (intents \ dropped) \union {issued + 1}
    BY <1>2 DEF CreateIntent
  <2>2. /\ intents' \subseteq 1..(issued + 1)
        /\ Cardinality(intents') <= Limit
        /\ dropped \subseteq intents
        /\ \A m \in dropped : issued + 1 >= m + Limit
    BY <1>0, <2>1, Insertion DEF TypeOK, Bounded
  <2>3. /\ issued' = issued + 1 /\ issued < MaxTokens
        /\ UNCHANGED <<store, owner, saved, results, pc, token, subject, result,
                       restarts, popped, lost, ran>>
    BY <1>2 DEF CreateIntent
  <2>4. TypeOK'
    BY <1>0, <2>2, <2>3 DEF TypeOK
  <2>5. (AtMostOnce /\ OnlyWhatWasShown /\ Spent)'
    BY <1>0, <2>3 DEF TypeOK, AtMostOnce, OnlyWhatWasShown, Spent
  <2>6. Bounded'
    BY <2>2, <2>3 DEF Bounded
  <2>7. LiveOrOld'
    BY <1>0, <2>1, <2>2, <2>3 DEF TypeOK, LiveOrOld
  <2>8. (RefusedForAReason /\ ResultIsThere)'
    BY <1>0, <2>3 DEF TypeOK, RefusedForAReason, ResultIsThere
  <2> QED BY <2>4, <2>5, <2>6, <2>7, <2>8
<1>3. ASSUME NEW r \in Request, Confirm(r) PROVE IInv'
  <2>1. PICK t \in 0..issued : token' = [token EXCEPT ![r] = t]
    BY <1>3 DEF Confirm
  <2>2. /\ pc[r] = "idle" /\ pc' = [pc EXCEPT ![r] = "taking"]
        /\ UNCHANGED <<store, owner, issued, intents, saved, results, subject,
                       result, restarts, popped, lost, ran>>
    BY <1>3 DEF Confirm, Goto
  <2>3. TypeOK'
    BY <1>0, <2>1, <2>2 DEF TypeOK, PC
  <2>4. ~ran[r]
    BY <2>2 DEF Spent
  <2>5. (AtMostOnce /\ OnlyWhatWasShown /\ Spent)'
    BY <1>0, <2>1, <2>2, <2>4 DEF TypeOK, AtMostOnce, OnlyWhatWasShown, Spent
  <2>6. (Bounded /\ LiveOrOld)'
    BY <2>2 DEF Bounded, LiveOrOld
  <2>7. (RefusedForAReason /\ ResultIsThere)'
    BY <2>1, <2>2 DEF TypeOK, RefusedForAReason, ResultIsThere
  <2> QED BY <2>3, <2>5, <2>6, <2>7
<1>4. ASSUME NEW r \in Request, TakeIntent(r) PROVE IInv'
  <2> DEFINE t == token[r]
  <2>1. /\ pc[r] = "taking"
        /\ intents' = intents \ {t}
        /\ popped' = popped \union (intents \cap {t})
        /\ UNCHANGED <<store, owner, issued, saved, results, token, subject,
                       result, restarts, lost>>
    BY <1>4 DEF TakeIntent
  <2>2. \/ /\ t \in intents /\ Matches(r)
           /\ pc' = [pc EXCEPT ![r] = "executing"]
           /\ ran' = [ran EXCEPT ![r] = TRUE]
        \/ /\ ~(t \in intents /\ Matches(r))
           /\ pc' = [pc EXCEPT ![r] = "refused"]
           /\ ran' = ran
    BY <1>4 DEF TakeIntent, Goto
  <2>3. t \in Nat /\ t <= issued
    BY <1>0 DEF TypeOK, Spent
  <2>4. TypeOK'
    BY <1>0, <2>1, <2>2 DEF TypeOK, PC
  <2>5. AtMostOnce'
    <3>1. t \in intents => \A q \in Request : ran[q] => token[q] # t
      BY DEF Spent, LiveOrOld
    <3> QED BY <2>1, <2>2, <3>1 DEF TypeOK, AtMostOnce
  <2>6. OnlyWhatWasShown'
    BY <2>1, <2>2 DEF TypeOK, OnlyWhatWasShown, Matches
  <2>7. Spent'
    BY <2>1, <2>2 DEF TypeOK, Spent
  <2>8. Bounded'
    BY <1>0, <2>1, Removal DEF TypeOK, Bounded
  <2>9. LiveOrOld'
    BY <2>1 DEF LiveOrOld
  <2>10. RefusedForAReason'
    <3>1. t \notin intents =>
            t = 0 \/ t \in popped \/ t <= lost.intent \/ issued >= t + Limit
      BY <1>0, <2>3 DEF LiveOrOld
    <3>2. t \in intents => t \in popped'
      BY <2>1
    <3>3. t \notin intents =>
            t = 0 \/ t \in popped' \/ t <= lost.intent \/ issued >= t + Limit
      BY <2>1, <3>1
    <3>4. \A q \in Request \ {r} : pc'[q] = pc[q]
      BY <2>2 DEF TypeOK
    <3>5. popped \subseteq popped'
      BY <2>1
    <3> QED BY <2>1, <3>2, <3>3, <3>4, <3>5 DEF RefusedForAReason
  <2>11. ResultIsThere'
    BY <2>1, <2>2 DEF TypeOK, ResultIsThere
  <2> QED BY <2>4, <2>5, <2>6, <2>7, <2>8, <2>9, <2>10, <2>11
<1>5. ASSUME NEW r \in Request, NEW label \in {"finished", "error"},
             pc[r] \in {"executing", "refused"}, Goto(r, label),
             UNCHANGED <<store, owner, storeVars, token, subject, result,
                         restarts, ghostVars>>
      PROVE  IInv'
  <2>1. TypeOK'
    BY <1>5 DEF Goto, TypeOK, PC
  <2>2. (AtMostOnce /\ OnlyWhatWasShown /\ Spent)'
    BY <1>5 DEF Goto, TypeOK, AtMostOnce, OnlyWhatWasShown, Spent
  <2>3. (Bounded /\ LiveOrOld)'
    BY <1>5 DEF Bounded, LiveOrOld
  <2>4. (RefusedForAReason /\ ResultIsThere)'
    BY <1>5 DEF Goto, TypeOK, RefusedForAReason, ResultIsThere
  <2> QED BY <2>1, <2>2, <2>3, <2>4
<1>6. ASSUME NEW r \in Request, SaveResult(r) PROVE IInv'
  <2>1. PICK dropped \in Trimmed(results) :
          results' = (results \ dropped) \union {saved + 1}
    BY <1>6 DEF SaveResult
  <2>2. /\ results' \subseteq 1..(saved + 1)
        /\ Cardinality(results') <= Limit
        /\ dropped \subseteq results
        /\ \A m \in dropped : saved + 1 >= m + Limit
    BY <1>0, <2>1, Insertion DEF TypeOK, Bounded
  <2>3. /\ saved' = saved + 1 /\ pc[r] \in {"finished", "refused"}
        /\ result' = [result EXCEPT ![r] = saved + 1]
        /\ pc' = [pc EXCEPT ![r] = "redirected"]
        /\ UNCHANGED <<store, owner, issued, intents, token, subject, restarts,
                       popped, lost, ran>>
    BY <1>6 DEF SaveResult, Goto
  <2>4. TypeOK'
    BY <1>0, <2>2, <2>3 DEF TypeOK, PC
  <2>5. (AtMostOnce /\ OnlyWhatWasShown /\ Spent)'
    BY <1>0, <2>3 DEF TypeOK, AtMostOnce, OnlyWhatWasShown, Spent
  <2>6. Bounded'
    BY <2>2, <2>3 DEF Bounded
  <2>7. LiveOrOld'
    BY <1>0, <2>1, <2>2, <2>3 DEF TypeOK, LiveOrOld
  <2>8. RefusedForAReason'
    BY <2>3 DEF TypeOK, RefusedForAReason
  <2>9. ResultIsThere'
    BY <1>0, <2>3 DEF TypeOK, ResultIsThere
  <2> QED BY <2>4, <2>5, <2>6, <2>7, <2>8, <2>9
<1>7. ASSUME NEW r \in Request, GetResult(r) PROVE IInv'
  <2>1. /\ pc[r] = "redirected"
        /\ pc' = [pc EXCEPT ![r] =
                    IF result[r] \in results THEN "shown" ELSE "not_found"]
        /\ UNCHANGED <<store, owner, storeVars, token, subject, result,
                       restarts, ghostVars>>
    BY <1>7 DEF GetResult, Goto
  <2>2. TypeOK'
    BY <2>1 DEF TypeOK, PC
  <2>3. (AtMostOnce /\ OnlyWhatWasShown /\ Spent)'
    BY <2>1 DEF TypeOK, AtMostOnce, OnlyWhatWasShown, Spent
  <2>4. (Bounded /\ LiveOrOld)'
    BY <2>1 DEF Bounded, LiveOrOld
  <2>5. RefusedForAReason'
    BY <2>1 DEF TypeOK, RefusedForAReason
  <2>6. ResultIsThere'
    <3>1. result[r] \in Nat /\ result[r] <= saved /\ lost.result \in Nat
      BY <1>0 DEF TypeOK, Spent
    <3>2. result[r] \notin results =>
            result[r] <= lost.result \/ saved >= result[r] + Limit
      BY <1>0, <3>1 DEF LiveOrOld
    <3>3. \A q \in Request \ {r} : pc'[q] = pc[q]
      BY <2>1 DEF TypeOK
    <3>4. pc'[r] = "not_found" => result[r] \notin results
      BY <2>1 DEF TypeOK
    <3> QED BY <2>1, <3>2, <3>3, <3>4 DEF ResultIsThere
  <2> QED BY <2>2, <2>3, <2>4, <2>5, <2>6
<1>8. CASE Restart
  <2>1. /\ intents' = {} /\ results' = {}
        /\ lost' = [intent |-> issued, result |-> saved]
        /\ pc' = [r \in Request |-> IF pc[r] \in Running THEN "error" ELSE pc[r]]
        /\ restarts < MaxRestarts /\ restarts' = restarts + 1
        /\ UNCHANGED <<store, owner, issued, saved, token, subject, result,
                       popped, ran>>
    BY <1>8 DEF Restart
  <2>2. TypeOK'
    BY <1>0, <2>1, MaxRestartsAssumption DEF TypeOK, PC
  <2>3. (AtMostOnce /\ OnlyWhatWasShown)'
    BY <2>1 DEF AtMostOnce, OnlyWhatWasShown
  <2>4. Spent'
    BY <2>1 DEF TypeOK, Spent, Running
  <2>5. Bounded'
    BY <1>0, <2>1, FS_EmptySet DEF Bounded
  <2>6. LiveOrOld'
    BY <1>0, <2>1 DEF LiveOrOld
  <2>7. RefusedForAReason'
    BY <2>1 DEF RefusedForAReason, Running
  <2>8. ResultIsThere'
    <3>1. \A r \in Request : pc'[r] = "not_found" => pc[r] = "not_found"
      BY <2>1
    <3>2. lost.result \in Nat /\ lost.result <= saved /\ lost'.result = saved
      BY <1>0, <2>1 DEF TypeOK
    <3> QED BY <1>0, <2>1, <3>1, <3>2 DEF TypeOK, ResultIsThere
  <2> QED BY <2>2, <2>3, <2>4, <2>5, <2>6, <2>7, <2>8
<1>9. ASSUME NEW r \in Request, Execute(r) \/ RefuseImport(r) PROVE IInv'
  BY <1>5, <1>9 DEF Execute, RefuseImport
<1> QED
  BY <1>1, <1>2, <1>3, <1>4, <1>6, <1>7, <1>8, <1>9 DEF Next

(* The inductive invariant holds of every behaviour. *)
THEOREM Invariance == Spec => []IInv
BY InvInit, InvStep, PTL DEF Spec

(* No plan is executed twice: take_intent pops under the lock. *)
THEOREM Once == Spec => []AtMostOnce
BY Invariance, PTL DEF IInv

(* Nothing is executed that was not shown for the same subject. *)
THEOREM Shown == Spec => []OnlyWhatWasShown
BY Invariance, PTL DEF IInv

(* Neither the intents nor the results outgrow the limit. *)
THEOREM Limited == Spec => []Bounded
BY Invariance, PTL DEF IInv

(* A refusal has a reason: the newest Limit plans are always confirmable. *)
THEOREM Refusals == Spec => []RefusedForAReason
BY Invariance, PTL DEF IInv

(* A redirect leads to its result, unless Limit newer results or a restart   *)
(* came in between.                                                          *)
THEOREM Results == Spec => []ResultIsThere
BY Invariance, PTL DEF IInv

===========================================================================

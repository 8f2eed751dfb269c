------------------------- MODULE JsonStore_proofs -------------------------
(***************************************************************************)
(* Proofs about JsonStore, for any threads, rows and bound on failures:    *)
(* its lists have unique keys and a damaged file stays as it is however    *)
(* the calls interleave, and it is atomic when the calls come one by one.  *)
(***************************************************************************)
EXTENDS JsonStore, Repositories_proofs

(* A method stays among the rows its repository may hold. *)
LEMMA MethodKeepsRows ==
    ASSUME NEW k \in Kinds, NEW o \in Calls(k),
           NEW rows \in SUBSET RowsOf(k, Row)
    PROVE  After(k, o, rows) \in SUBSET RowsOf(k, Row)
<1>1. o.method \in Methods(k) /\ o.row \in RowsOf(k, Row)
  BY DEF Calls
<1>2. CASE o.method \in {"add", "append", "upsert", "update"}
  BY <1>1, <1>2 DEF After
<1>3. CASE o.method \in {"remove", "delete", "delete_for_product"}
  BY <1>3 DEF After
<1> QED BY <1>1, <1>2, <1>3 DEF Methods, Kinds

(* No list of rows is the damaged file. *)
LEMMA RowsAreNotDamage ==
    ASSUME NEW k \in Kinds, NEW rows \in SUBSET RowsOf(k, Row)
    PROVE  rows # Damaged
BY ScrapAssumption DEF Damaged, RowsOf

(* A call that ends forgets what its thread held, and nothing else.         *)
LEMMA AnswerForgets ==
    ASSUME TypeOK, NEW t \in Thread, NEW label \in {"returned", "raised"},
           Answer(t, label)
    PROVE  /\ pc' \in [Thread -> Idle \union Working]
           /\ op' \in [Thread -> Calls(kind) \union {NoCall}]
           /\ items' \in [Thread -> SUBSET RowsOf(kind, Row)]
           /\ temp' \in [Thread -> {"none", "torn", "whole"}]
           /\ items'[t] = {}
           /\ pc'[t] = label
           /\ \A q \in Thread \ {t} :
                /\ pc'[q] = pc[q]
                /\ op'[q] = op[q]
                /\ items'[q] = items[q]
                /\ temp'[q] = temp[q]
BY DEF TypeOK, Answer, Goto, Idle

---------------------------------------------------------------------------
LEMMA FaultType ==
    ASSUME TypeOK, Fault \/ NoFault
    PROVE  faults' \in 0..MaxFaults
BY MaxFaultsAssumption DEF TypeOK, Fault, NoFault

LEMMA InvInit == Init => IInv
<1> SUFFICES ASSUME Init PROVE IInv
  OBVIOUS
<1>1. TypeOK
  BY MaxFaultsAssumption, ModesAssumption DEF Init, TypeOK, Idle
<1>2. UniqueKeys
  BY DEF Init, UniqueKeys
<1>3. WritesAreSound
  BY DEF Init, WritesAreSound, Unique, Working
<1>4. SerialView
  BY DEF Init, SerialView, Working
<1> QED BY <1>1, <1>2, <1>3, <1>4 DEF IInv

LEMMA InvStep == IInv /\ [Next]_vars => IInv'
<1> SUFFICES ASSUME IInv, [Next]_vars PROVE IInv'
  OBVIOUS
<1> USE DEF IInv
<1>1. CASE UNCHANGED vars
  BY <1>1 DEF vars, TypeOK, UniqueKeys, WritesAreSound, SerialView
<1>2. ASSUME NEW t \in Thread, Call(t) PROVE IInv'
  <2>1. PICK o \in Calls(kind) : op' = [op EXCEPT ![t] = o]
    BY <1>2 DEF Call
  <2>2. TypeOK'
    <3>1. op' \in [Thread -> Calls(kind) \union {NoCall}]
      BY <2>1 DEF TypeOK
    <3>2. pc' \in [Thread -> Idle \union Working]
      BY <1>2 DEF Call, Goto, TypeOK, Working
    <3> QED BY <1>2, <3>1, <3>2 DEF Call, TypeOK
  <2>3. UniqueKeys'
    BY <1>2 DEF Call, UniqueKeys
  <2>4. o # NoCall
    BY NoCallAssumption DEF TypeOK
  <2>5. WritesAreSound'
    BY <1>2, <2>1, <2>4 DEF Call, Goto, TypeOK, WritesAreSound, Working
  <2>6. SerialView'
    BY <1>2, <2>1 DEF Call, Goto, TypeOK, SerialView, Working
  <2> QED BY <2>2, <2>3, <2>5, <2>6
<1>3. ASSUME NEW t \in Thread, Read(t), Writes(kind, op[t], file) PROVE IInv'
  <2>1. op[t] \in Calls(kind) /\ file \in SUBSET RowsOf(kind, Row) /\ kind \in Kinds
    BY <1>3 DEF Read, TypeOK, WritesAreSound, Working
  <2> DEFINE new == After(kind, op[t], file)
  <2>2. /\ new \in SUBSET RowsOf(kind, Row)
        /\ Unique(kind, new)
    BY <1>3, <2>1, MethodKeepsKeys, MethodKeepsRows
    DEF Read, Calls, UniqueKeys, RowsOf
  <2>3. /\ items' = [items EXCEPT ![t] = new]
        /\ pc' = [pc EXCEPT ![t] = "writing"]
        /\ UNCHANGED <<op, temp, serial, kind, file, faults>>
        /\ file # Damaged /\ ~Raises(kind, op[t], file) /\ pc[t] = "reading"
    BY <1>3 DEF Read, Goto
  <2> HIDE DEF new
  <2>4. TypeOK'
    BY <2>2, <2>3 DEF TypeOK, Working
  <2>5. UniqueKeys'
    BY <2>3 DEF UniqueKeys
  <2>6. WritesAreSound'
    BY <2>2, <2>3 DEF TypeOK, WritesAreSound, Working
  <2>7. SerialView'
    BY <2>3 DEF TypeOK, SerialView, Working, new
  <2> QED BY <2>4, <2>5, <2>6, <2>7
<1>4. ASSUME NEW t \in Thread, NEW label \in {"returned", "raised"},
             Answer(t, label), UNCHANGED <<serial, kind, file>>, Fault \/ NoFault
      PROVE  IInv'
  <2>1. TypeOK'
    BY <1>4, AnswerForgets, FaultType DEF TypeOK
  <2>2. UniqueKeys'
    BY <1>4 DEF UniqueKeys
  <2>3. WritesAreSound'
    BY <1>4, AnswerForgets DEF WritesAreSound, Unique, Working
  <2>4. SerialView'
    BY <1>4, AnswerForgets DEF SerialView, Working
  <2> QED BY <2>1, <2>2, <2>3, <2>4
<1>5. ASSUME NEW t \in Thread, WriteTemp(t) PROVE IInv'
  <2>1. TypeOK'
    BY <1>5 DEF WriteTemp, Goto, TypeOK, Working
  <2>2. UniqueKeys'
    BY <1>5 DEF WriteTemp, UniqueKeys
  <2>3. WritesAreSound'
    BY <1>5 DEF WriteTemp, Goto, TypeOK, WritesAreSound, Working
  <2>4. SerialView'
    BY <1>5 DEF WriteTemp, Goto, TypeOK, SerialView, Working
  <2> QED BY <2>1, <2>2, <2>3, <2>4
<1>6. ASSUME NEW t \in Thread, Replace(t) PROVE IInv'
  <2>1. /\ Answer(t, "returned") /\ UNCHANGED <<serial, kind, faults>>
        /\ file' = items[t] /\ pc[t] = "replacing"
        /\ items[t] \in SUBSET RowsOf(kind, Row) /\ kind \in Kinds
    BY <1>6 DEF Replace, TypeOK, WritesAreSound
  <2>2. file' # Damaged
    BY <2>1, RowsAreNotDamage
  <2>3. TypeOK'
    BY <2>1, AnswerForgets DEF TypeOK
  <2>4. UniqueKeys'
    BY <2>1 DEF UniqueKeys, WritesAreSound
  <2>5. WritesAreSound'
    BY <2>1, <2>2, AnswerForgets DEF WritesAreSound, Unique, Working, Damaged
  <2>6. SerialView'
    <3>1. serial => \A q \in Thread \ {t} : pc'[q] \notin Working
      BY <2>1, AnswerForgets DEF SerialView, Working
    <3>2. pc'[t] \notin Working
      BY <2>1, AnswerForgets DEF Working
    <3> QED BY <2>1, <3>1, <3>2 DEF SerialView, Working
  <2> QED BY <2>3, <2>4, <2>5, <2>6
<1>7. ASSUME Crash PROVE IInv'
  <2>1. TypeOK'
    BY <1>7, FaultType DEF Crash, TypeOK, Idle
  <2>2. UniqueKeys'
    BY <1>7 DEF Crash, UniqueKeys
  <2>3. \A t \in Thread : pc'[t] \notin Working
    BY <1>7 DEF Crash, TypeOK, Working
  <2>4. WritesAreSound'
    BY <1>7, <2>3 DEF Crash, WritesAreSound, Unique, Working
  <2>5. SerialView'
    BY <2>3 DEF SerialView, Working
  <2> QED BY <2>1, <2>2, <2>4, <2>5
<1>8. ASSUME NEW t \in Thread,
             ReadRaises(t) \/ WriteTempFails(t) \/ ReplaceFails(t)
      PROVE  IInv'
  BY <1>4, <1>8 DEF ReadRaises, WriteTempFails, ReplaceFails
<1>9. ASSUME NEW t \in Thread, Read(t), ~Writes(kind, op[t], file) PROVE IInv'
  BY <1>4, <1>9 DEF Read, NoFault
<1> QED BY <1>1, <1>2, <1>3, <1>5, <1>6, <1>7, <1>8, <1>9 DEF Next

(* The inductive invariant holds of every behaviour. *)
THEOREM Invariance == Spec => []IInv
BY InvInit, InvStep, PTL DEF Spec

(* No interleaving, failure or death of the calls makes two rows clash. *)
THEOREM Keys == Spec => []UniqueKeys
BY Invariance, PTL DEF IInv

(* No call writes over a damaged file, and none damages it. *)
THEOREM Damage == Spec => DamageIsKept
<1>1. IInv /\ [Next]_vars => [(file = Damaged) <=> (file' = Damaged)]_vars
  <2> SUFFICES ASSUME IInv, [Next]_vars
               PROVE  \/ (file = Damaged) <=> (file' = Damaged)
                      \/ UNCHANGED vars
    OBVIOUS
  <2>1. ASSUME NEW t \in Thread, Replace(t)
        PROVE  file # Damaged /\ file' # Damaged
    <3>1. file' = items[t] /\ items[t] \in SUBSET RowsOf(kind, Row)
            /\ kind \in Kinds /\ file # Damaged
      BY <2>1 DEF Replace, IInv, TypeOK, WritesAreSound
    <3> QED BY <3>1, RowsAreNotDamage
  <2>2. ASSUME ~(\E t \in Thread : Replace(t)), ~UNCHANGED vars
        PROVE  UNCHANGED file
    BY <2>2 DEF Next, Call, Read, ReadRaises, WriteTemp, WriteTempFails,
                ReplaceFails, Crash
  <2> QED BY <2>1, <2>2 DEF Damaged
<1> QED BY <1>1, Invariance, PTL DEF Spec, DamageIsKept

---------------------------------------------------------------------------
(* The abstract repository computes with the same methods. *)
LEMMA SameMethods ==
    /\ Store!Damaged = Damaged
    /\ \A k : Store!Calls(k) = Calls(k)
    /\ \A k, o, rows : Store!Raises(k, o, rows) <=> Raises(k, o, rows)
    /\ \A k, o, rows : Store!After(k, o, rows) = After(k, o, rows)
<1>1. Store!Damaged = Damaged
  BY DEF Store!Damaged, Damaged
<1>2. \A k : Store!Calls(k) = Calls(k)
  BY Zenon DEF Store!Calls, Calls, Store!Methods, Methods, Store!RowsOf, RowsOf
<1>4. \A k, o, rows : Store!Raises(k, o, rows) <=> Raises(k, o, rows)
  BY Zenon DEF Store!Raises, Raises, Store!Found, Found, Store!Clash, Clash
<1>5. \A k, o, rows : Store!After(k, o, rows) = After(k, o, rows)
  BY Zenon DEF Store!After, After, Store!Found, Found, Store!Filtered, Filtered,
               Store!Owned, Owned, Store!Writes, Writes
<1> QED BY <1>1, <1>2, <1>4, <1>5

SeenFile == IF serial THEN file ELSE {}

SeenOp == IF serial THEN op ELSE [t \in Thread |-> NoCall]

(* A call that ends is seen to end. *)
LEMMA AnswerSeen ==
    ASSUME TypeOK, NEW t \in Thread, pc[t] \in Working, serial, serial',
           NEW label \in {"returned", "raised"}, Answer(t, label)
    PROVE  /\ Seen[t] = "working"
           /\ Seen' = [Seen EXCEPT ![t] = label]
           /\ op' = [op EXCEPT ![t] = NoCall]
<1>1. pc' = [pc EXCEPT ![t] = label] /\ op' = [op EXCEPT ![t] = NoCall]
  BY DEF Answer, Goto
<1>2. label \notin Working
  BY DEF Working
<1> QED BY <1>1, <1>2 DEF Seen, TypeOK

(* A step of a call that does not end it is not seen. *)
LEMMA WorkUnseen ==
    ASSUME TypeOK, NEW t \in Thread, pc[t] \in Working, UNCHANGED serial,
           NEW label \in Working, Goto(t, label)
    PROVE  Seen' = Seen
BY DEF Seen, TypeOK, Goto

(* Whether requests come one at a time is settled at the start. *)
LEMMA ModeStays == [Next]_vars => UNCHANGED <<serial, kind>>
BY DEF Next, vars, Call, Read, ReadRaises, WriteTemp, WriteTempFails, Replace,
       ReplaceFails, Crash

(* One request at a time, a repository is atomic: a method that returns has *)
(* applied to the list it found, one that raises has changed nothing.       *)
THEOREM Atomicity == Spec => IsAtomic
<1> DEFINE aVars == <<kind, SeenFile, SeenOp, Seen>>
<1>1. Init => Store!Init
  <2> SUFFICES ASSUME Init PROVE Store!Init
    OBVIOUS
  <2>1. Seen = [t \in Thread |-> "idle"]
    BY DEF Init, Seen, Working
  <2>2. Store!Kinds = Kinds /\ Store!RowsOf(kind, Row) = RowsOf(kind, Row)
    BY DEF Store!Kinds, Kinds, Store!RowsOf, RowsOf
  <2>3. SeenOp = [t \in Thread |-> NoCall]
    BY DEF Init, SeenOp
  <2>4. SeenFile \in (SUBSET RowsOf(kind, Row)) \union {Damaged}
    BY DEF Init, SeenFile
  <2>5. kind \in Kinds
    BY DEF Init
  <2> QED BY <2>1, <2>2, <2>3, <2>4, <2>5, SameMethods
          DEF Store!Init, Seen, SeenOp, SeenFile
<1>2. IInv /\ [Next]_vars => [Store!Next]_aVars
  <2> SUFFICES ASSUME IInv, [Next]_vars PROVE [Store!Next]_aVars
    OBVIOUS
  <2>0. TypeOK
    BY DEF IInv
  <2>1. CASE UNCHANGED vars
    BY <2>1 DEF vars, Seen, SeenOp, SeenFile
  <2>2. CASE ~serial
    BY <2>2, ModeStays DEF Seen, SeenOp, SeenFile
  <2>3. CASE serial /\ Next
    <3>0. /\ serial /\ serial' /\ UNCHANGED serial
          /\ SeenFile = file /\ SeenFile' = file'
          /\ SeenOp = op /\ SeenOp' = op'
      BY <2>3, ModeStays DEF SeenFile, SeenOp
    <3>2. ASSUME NEW t \in Thread, Call(t) PROVE Store!Call(t)
      <4>1. Seen[t] # "working"
        BY <3>2 DEF Call, Seen, Idle
      <4>2. Seen' = [Seen EXCEPT ![t] = "working"]
        BY <2>0, <3>0, <3>2 DEF Call, Goto, TypeOK, Seen, Working
      <4>3. \E o \in Store!Calls(kind) : SeenOp' = [SeenOp EXCEPT ![t] = o]
        BY <3>0, <3>2, SameMethods DEF Call
      <4> QED BY <3>0, <3>2, <4>1, <4>2, <4>3
              DEF Call, Store!Call, Seen, SeenOp, SeenFile
    <3>3. ASSUME NEW t \in Thread, Read(t), Writes(kind, op[t], file)
          PROVE  UNCHANGED aVars
      BY <2>0, <3>0, <3>3, WorkUnseen DEF Read, Working
    <3>4. ASSUME NEW t \in Thread, Read(t), ~Writes(kind, op[t], file)
          PROVE  Store!Return(t)
      <4>1. pc[t] \in Working /\ Answer(t, "returned") /\ UNCHANGED <<serial, kind, file>>
              /\ file # Damaged /\ ~Raises(kind, op[t], file)
        BY <3>4 DEF Read, Working
      <4>2. After(kind, op[t], file) = file
        BY Zenon, <3>4 DEF Writes, After
      <4> QED BY <2>0, <3>0, <4>1, <4>2, AnswerSeen, SameMethods
              DEF Store!Return, Seen, SeenOp, SeenFile
    <3>5. ASSUME NEW t \in Thread,
                 ReadRaises(t) \/ WriteTempFails(t) \/ ReplaceFails(t)
          PROVE  Store!Raise(t)
      <4>1. pc[t] \in Working /\ Answer(t, "raised") /\ UNCHANGED <<serial, kind, file>>
        BY <3>5 DEF ReadRaises, WriteTempFails, ReplaceFails, Working
      <4> QED BY <2>0, <3>0, <4>1, AnswerSeen DEF Store!Raise, Seen, SeenOp, SeenFile
    <3>6. ASSUME NEW t \in Thread, WriteTemp(t)
          PROVE  UNCHANGED aVars
      BY <2>0, <3>0, <3>6, WorkUnseen DEF WriteTemp, Working
    <3>7. ASSUME NEW t \in Thread, Replace(t)
          PROVE  Store!Return(t)
      <4>1. pc[t] \in Working /\ Answer(t, "returned") /\ UNCHANGED <<serial, kind>>
              /\ file # Damaged /\ ~Raises(kind, op[t], file)
              /\ file' = After(kind, op[t], file)
        BY <3>0, <3>7 DEF Replace, IInv, WritesAreSound, SerialView, Working
      <4> QED BY <2>0, <3>0, <4>1, AnswerSeen, SameMethods
              DEF Store!Return, Seen, SeenOp, SeenFile
    <3>8. ASSUME Crash PROVE Store!Die
      <4>1. Seen' = [t \in Thread |->
                      IF Seen[t] = "working" THEN "dead" ELSE Seen[t]]
        BY <2>0, <3>0, <3>8 DEF Crash, Seen, TypeOK, Idle, Working
      <4> QED BY <3>0, <3>8, <4>1 DEF Crash, Store!Die, Seen, SeenOp, SeenFile
    <3> QED
      BY <2>3, <3>2, <3>3, <3>4, <3>5, <3>6, <3>7, <3>8 DEF Next, Store!Next
  <2> QED BY <2>1, <2>2, <2>3
<1> QED
  BY <1>1, <1>2, Invariance, PTL
  DEF Spec, IsAtomic, Store!Spec, Seen, SeenOp, SeenFile

===========================================================================

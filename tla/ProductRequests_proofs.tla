----------------------- MODULE ProductRequests_proofs -----------------------
(***************************************************************************)
(* Proofs about deleting, saving and importing products, for any requests, *)
(* files, packages and number of failures: the keys of every file stay     *)
(* unique, a deletion leaves the rows of other products alone, and, of     *)
(* requests that come one at a time, nothing is left behind for a product  *)
(* that is gone and what they answer is true.                              *)
(***************************************************************************)
EXTENDS ProductRequests, Repositories_proofs

Packages == UNION {Range(b) : b \in Bundle}
PluginIds == {q.id : q \in UNION {Range(p.plugins) : p \in Packages}}

(* What an import may call, and its cleanup. *)
Puttings ==
    {Call("products", "add", ProductRow(p)) : p \in Packages}
    \union {Call("configurations", "upsert", ConfigurationRow(p, x)) :
                p \in Packages, x \in PluginIds}
Cleanings ==
    {Call("products", "remove", ProductRow(p)) : p \in Packages}
    \union {Call("configurations", "delete", ConfigurationRow(p, x)) :
                p \in Packages, x \in PluginIds}

PluginResults == {"unsupported", "omitted", "configured", "rollback_attempted",
                  "not_configured"}
Reports == [status   : {"CREATED", "BLOCKED", "FAILED"},
            complete : BOOLEAN,
            plugins  : Seq(PluginResults)]

(* A list for each of the files, and nothing else. *)
Lists(files) == files = [k \in Files |-> files[k]]

TypeOK ==
    /\ DOMAIN file = Files /\ Lists(file) /\ DOMAIN reply = Request
    /\ DOMAIN pc = Request /\ DOMAIN copy = Request /\ DOMAIN saving = Request
    /\ DOMAIN target = Deleter
    /\ stage \in [Deleter -> 1..4]
    /\ DOMAIN removed = Deleter
    /\ \A d \in Deleter : DOMAIN removed[d] = Files
    /\ complete \in [Request -> BOOLEAN] /\ DOMAIN before = Request
    /\ DOMAIN bundle = Importer
    /\ DOMAIN todo = Importer
    /\ configured \in [Importer -> Seq(PluginIds)]
    /\ report \in [Importer -> Seq(Reports)]

(* A list about to be written was read without a clash, and the call that    *)
(* writes it does not raise for it.                                          *)
Ready2Write(r, call) ==
    /\ call.kind \in Files /\ call.method \in Methods(call.kind)
    /\ Unique(call.kind, copy[r])
    /\ ~Raises(call.kind, call, copy[r])

DeleterOK(d) ==
    /\ pc[d] = "dropping" => Unique(KindAt(d), copy[d])
    /\ pc[d] = "returning" => Ready2Write(d, saving[d])

SaverOK(s) ==
    /\ pc[s] \in {"saving", "storing"} => saving[s] \in Savable
    /\ pc[s] = "storing" => Ready2Write(s, saving[s])

ImporterOK(i) ==
    /\ pc[i] \notin {"absent", "idle", "dead", "answered"} =>
            bundle[i] \in Bundle
    /\ pc[i] \in {"putting", "writing", "clearing", "cleaning"} =>
            Package(i) \in Packages
    /\ pc[i] \in {"putting", "writing"} => todo[i] \in Seq(Puttings)
    /\ pc[i] \in {"clearing", "cleaning"} => todo[i] \in Seq(Cleanings)
    /\ pc[i] \in {"writing", "cleaning"} =>
            todo[i] # <<>> /\ Ready2Write(i, Head(todo[i]))

KInv ==
    /\ TypeOK
    /\ \A k \in Files : Unique(k, file[k])
    /\ \A d \in Deleter : DeleterOK(d)
    /\ \A s \in Saver : SaverOK(s)
    /\ \A i \in Importer : ImporterOK(i)

(* Requests that come one at a time are alone; a deletion that is alone has  *)
(* read what is there, and has taken out only rows of its product.           *)
OneAtATime ==
    serial => \A q, r \in Request : pc[q] \in Active /\ pc[r] \in Active => q = r

OwnRows(d) ==
    /\ \A k \in Files : \A a \in removed[d][k] : a.product = target[d]
    /\ pc[d] = "returning" =>
          /\ saving[d].row.product = target[d]
          /\ saving[d].kind \in Files \ {"products"}
          /\ saving[d].method \in {"add", "upsert"}
    /\ serial /\ pc[d] = "dropping" => copy[d] = file[KindAt(d)]
    /\ serial /\ pc[d] = "returning" => copy[d] = file[saving[d].kind]

SInv == OneAtATime /\ \A d \in Deleter : OwnRows(d)

IInv == KInv /\ SInv

LEMMA StartsRight == Init => IInv
<1> SUFFICES ASSUME Init
             PROVE  IInv
  OBVIOUS
<1> USE DEF Init, DeletionInit, ImportInit
<1>1. PICK t \in Setting : file = t.files
  OBVIOUS
<1>2. DOMAIN file = Files /\ Lists(file) /\ \A k \in Files : Unique(k, file[k])
  BY <1>1, SettingAssumption DEF Lists
<1>3. TypeOK
  BY <1>2 DEF TypeOK, Nothing
<1>4. \A r \in Request : pc[r] \in {"idle", "absent"}
  OBVIOUS
<1>5. /\ \A d \in Deleter : DeleterOK(d)
      /\ \A s \in Saver : SaverOK(s)
      /\ \A i \in Importer : ImporterOK(i)
  BY <1>4 DEF DeleterOK, SaverOK, ImporterOK, Request
<1>6. SInv
  BY <1>4 DEF SInv, OneAtATime, OwnRows, Active, Request, Nothing
<1> QED BY <1>2, <1>3, <1>5, <1>6 DEF IInv, KInv

---------------------------------------------------------------------------
(* The step of one request leaves what belongs to the others alone. *)
Same(r) ==
    /\ pc'[r] = pc[r] /\ copy'[r] = copy[r] /\ saving'[r] = saving[r]
    /\ before'[r] = before[r] /\ complete'[r] = complete[r]
    /\ reply'[r] = reply[r]
    /\ r \in Deleter => /\ stage'[r] = stage[r] /\ removed'[r] = removed[r]
                        /\ target'[r] = target[r]
    /\ r \in Importer => /\ bundle'[r] = bundle[r] /\ todo'[r] = todo[r]
                         /\ report'[r] = report[r]
                         /\ configured'[r] = configured[r]

LEMMA SameIsOK ==
    ASSUME KInv, NEW r \in Request, Same(r)
    PROVE  /\ r \in Deleter => DeleterOK(r)'
           /\ r \in Saver => SaverOK(r)'
           /\ r \in Importer => ImporterOK(r)'
<1> USE DEF KInv, Same
<1>1. r \in Deleter => DeleterOK(r)'
  BY DEF DeleterOK, KindAt, Ready2Write
<1>2. r \in Saver => SaverOK(r)'
  BY DEF SaverOK, Ready2Write
<1>3. r \in Importer => ImporterOK(r)'
  BY DEF ImporterOK, Package, Ready2Write
<1> QED BY <1>1, <1>2, <1>3

(* What is left to show of a step of request q. *)
LEMMA OneSteps ==
    ASSUME KInv, NEW q \in Request, \A r \in Request \ {q} : Same(r), TypeOK',
           \A k \in Files : Unique(k, file'[k]),
           /\ q \in Deleter => DeleterOK(q)'
           /\ q \in Saver => SaverOK(q)'
           /\ q \in Importer => ImporterOK(q)'
    PROVE  KInv'
<1>1. ASSUME NEW d \in Deleter
      PROVE  DeleterOK(d)'
  BY SameIsOK DEF Request
<1>2. ASSUME NEW s \in Saver
      PROVE  SaverOK(s)'
  BY SameIsOK DEF Request
<1>3. ASSUME NEW i \in Importer
      PROVE  ImporterOK(i)'
  BY SameIsOK DEF Request
<1> QED BY <1>1, <1>2, <1>3 DEF KInv

LEMMA ListsStay ==
    ASSUME NEW files, DOMAIN files = Files, NEW k, NEW rows
    PROVE  Lists([files EXCEPT ![k] = rows])
BY DEF Lists

(* The call that writes a list leaves its keys unique. *)
LEMMA WriteKeepsKeys ==
    ASSUME KInv, NEW r \in Request, NEW call, Ready2Write(r, call),
           file' = [file EXCEPT ![call.kind] = After(call.kind, call, copy[r])]
    PROVE  DOMAIN file' = Files /\ Lists(file') /\ \A k \in Files : Unique(k, file'[k])
<1>1. Unique(call.kind, After(call.kind, call, copy[r]))
  BY MethodKeepsKeys DEF Ready2Write, Files, Kinds
<1>2. Lists(file')
  BY ListsStay DEF KInv, TypeOK
<1> QED BY <1>1, <1>2 DEF KInv, TypeOK, Ready2Write

(* A step of request q is a step of no other, and of one that is under way   *)
(* or begins.                                                                *)
Moves(q) ==
    /\ UNCHANGED given
    /\ \A r \in Request \ {q} : Same(r)
    /\ \/ pc[q] \in Active
       \/ file' = file /\ (serial => \A r \in Request : pc[r] \notin Active)

LEMMA DeleteMoves ==
    ASSUME KInv, NEW d \in Deleter, Delete(d), UNCHANGED importing
    PROVE  Moves(d)
<1> d \in Request
  BY DEF Request
<1> USE DEF Goto, Answer, Moves, Same, KInv, TypeOK, given, importing, Active
<1>1. CASE Begin(d, "checking")
  BY <1>1 DEF Begin
<1>2. CASE Preflight(d)
  BY <1>2 DEF Preflight
<1>3. CASE ReadForDeletion(d)
  BY <1>3 DEF ReadForDeletion
<1>4. CASE DropRows(d)
  BY <1>4 DEF DropRows
<1>5. CASE DeletionFails(d)
  BY <1>5 DEF DeletionFails
<1>6. CASE ReadForRestore(d)
  BY <1>6 DEF ReadForRestore
<1>7. CASE ReturnRow(d)
  BY <1>7 DEF ReturnRow
<1>8. CASE RestoreFails(d)
  BY <1>8 DEF RestoreFails
<1>9. CASE RestoreEnds(d)
  BY <1>9 DEF RestoreEnds
<1> QED
  BY <1>1, <1>2, <1>3, <1>4, <1>5, <1>6, <1>7, <1>8, <1>9 DEF Delete

LEMMA SaveMoves ==
    ASSUME KInv, NEW s \in Saver, Save(s), UNCHANGED importing
    PROVE  Moves(s)
<1> s \in Request
  BY DEF Request
<1> USE DEF Goto, Answer, Moves, Same, KInv, TypeOK, given, importing, Active
<1>1. CASE Begin(s, "looking")
  BY <1>1 DEF Begin
<1>2. CASE LookUp(s)
  BY <1>2 DEF LookUp
<1>3. CASE ReadForSaving(s)
  BY <1>3 DEF ReadForSaving
<1>4. CASE StoreRow(s)
  BY <1>4 DEF StoreRow
<1>5. CASE SavingFails(s)
  BY <1>5 DEF SavingFails
<1> QED BY <1>1, <1>2, <1>3, <1>4, <1>5 DEF Save

LEMMA ImportMoves ==
    ASSUME KInv, NEW i \in Importer, Import(i)
    PROVE  Moves(i)
<1> i \in Request
  BY DEF Request
<1> USE DEF Goto, Answer, Moves, Same, KInv, TypeOK, given, importing, Active,
            NextPackage
<1>1. CASE BeginImport(i)
  BY <1>1 DEF BeginImport, Begin
<1>2. CASE ReviewImport(i)
  BY <1>2 DEF ReviewImport
<1>3. CASE StartPackage(i)
  <2>1. CASE CanImport(i, Package(i))
    BY <1>3, <2>1 DEF StartPackage
  <2>2. CASE ~CanImport(i, Package(i))
    BY <1>3, <2>2 DEF StartPackage
  <2> QED BY <2>1, <2>2
<1>4. CASE ReadForImport(i)
  BY <1>4 DEF ReadForImport
<1>5. CASE WriteForImport(i)
  BY <1>5 DEF WriteForImport
<1>6. CASE ImportFails(i)
  BY <1>6 DEF ImportFails
<1>7. CASE PackageCreated(i)
  BY <1>7 DEF PackageCreated
<1>8. CASE ReadForCleanup(i)
  BY <1>8 DEF ReadForCleanup
<1>9. CASE WriteForCleanup(i)
  BY <1>9 DEF WriteForCleanup
<1>10. CASE CleanupFails(i)
  BY <1>10 DEF CleanupFails
<1>11. CASE PackageFailed(i)
  BY <1>11 DEF PackageFailed
<1>12. CASE AllImported(i)
  BY <1>12 DEF AllImported
<1> QED
  BY <1>1, <1>2, <1>3, <1>4, <1>5, <1>6, <1>7, <1>8, <1>9, <1>10, <1>11, <1>12
     DEF Import

(* The deletion goes through the four files. *)
LEMMA KindIsFile ==
    ASSUME NEW d \in Deleter, stage[d] \in 1..4
    PROVE  KindAt(d) \in Files
BY DEF KindAt, DeletionOrder, Files

(* Deleting. *)
LEMMA DeleteKeeps ==
    ASSUME KInv, NEW d \in Deleter, Delete(d), UNCHANGED importing
    PROVE  KInv'
<1> d \in Request
  BY DEF Request
<1> \A r \in Request \ {d} : Same(r)
  BY DeleteMoves DEF Moves
<1> USE DEF Goto, NoFault, Fault, Answer
<1>1. CASE Begin(d, "checking")
  <2> USE <1>1 DEF Begin
  <2>2. TypeOK'
    BY DEF KInv, TypeOK, given, importing
  <2>3. pc'[d] = "checking" /\ file' = file
    BY DEF KInv, TypeOK
  <2> QED BY <2>2, <2>3, OneSteps, RequestAssumption DEF KInv, DeleterOK
<1>2. CASE Preflight(d)
  <2> USE <1>2 DEF Preflight
  <2>2. TypeOK'
    BY DEF KInv, TypeOK, given, importing
  <2>3. pc'[d] \in {"deleting", "answered"} /\ file' = file
    BY DEF KInv, TypeOK
  <2> QED BY <2>2, <2>3, OneSteps, RequestAssumption DEF KInv, DeleterOK
<1>3. CASE ReadForDeletion(d)
  <2> USE <1>3 DEF ReadForDeletion
  <2>2. TypeOK'
    BY DEF KInv, TypeOK, given, importing
  <2>3. /\ pc'[d] = "dropping" /\ file' = file /\ copy'[d] = file[KindAt(d)]
        /\ stage' = stage
    BY DEF KInv, TypeOK
  <2>4. KindAt(d) \in Files
    BY KindIsFile DEF KInv, TypeOK
  <2>5. DeleterOK(d)'
    BY <2>3, <2>4 DEF KInv, DeleterOK, KindAt
  <2> QED BY <2>2, <2>3, <2>5, OneSteps, RequestAssumption DEF KInv
<1>4. CASE DropRows(d)
  <2> DEFINE call == [kind |-> KindAt(d), method |-> Deletion(d).method,
                      row |-> Deletion(d).row]
  <2>0. KindAt(d) \in Files /\ stage[d] \in 1..4
    BY KindIsFile DEF KInv, TypeOK
  <2>2. Ready2Write(d, call)
    BY <1>4, <2>0 DEF DropRows, KInv, DeleterOK, Ready2Write, Deletion, Raises,
       Methods, Files
  <2>3. After(KindAt(d), Deletion(d), copy[d]) = After(call.kind, call, copy[d])
    BY DEF After, Writes
  <2>4. DOMAIN file' = Files /\ Lists(file') /\ \A k \in Files : Unique(k, file'[k])
    <3> HIDE DEF call
    <3>1. call.kind = KindAt(d)
      BY DEF call
    <3> QED BY <1>4, <2>2, <2>3, <3>1, WriteKeepsKeys DEF DropRows
  <2>5. TypeOK'
    <3>1. KindAt(d) # "products" => stage[d] # 4
      BY DEF KindAt, DeletionOrder
    <3>2. stage' \in [Deleter -> 1..4]
      <4>1. CASE KindAt(d) = "products"
        BY <1>4, <4>1 DEF DropRows, KInv, TypeOK
      <4>2. CASE KindAt(d) # "products"
        <5>1. stage[d] + 1 \in 1..4
          BY <2>0, <3>1, <4>2
        <5>2. stage' = [stage EXCEPT ![d] = stage[d] + 1]
          BY <1>4, <4>2 DEF DropRows
        <5> QED BY <5>1, <5>2 DEF KInv, TypeOK
      <4> QED BY <4>1, <4>2
    <3>3. DOMAIN removed' = Deleter /\ \A e \in Deleter : DOMAIN removed'[e] = Files
      BY <1>4 DEF DropRows, KInv, TypeOK
    <3> QED
      BY <1>4, <2>4, <3>2, <3>3 DEF DropRows, KInv, TypeOK, given, importing
  <2>6. pc'[d] \in {"answered", "deleting"}
    BY <1>4 DEF DropRows, KInv, TypeOK
  <2> QED BY <2>4, <2>5, <2>6, OneSteps, RequestAssumption DEF DeleterOK
<1>5. CASE DeletionFails(d)
  <2> USE <1>5 DEF DeletionFails
  <2>2. TypeOK'
    BY DEF KInv, TypeOK, given, importing
  <2>3. pc'[d] = "restoring" /\ file' = file
    BY DEF KInv, TypeOK
  <2> QED BY <2>2, <2>3, OneSteps, RequestAssumption DEF KInv, DeleterOK
<1>6. CASE ReadForRestore(d)
  <2> USE <1>6 DEF ReadForRestore
  <2>2. TypeOK'
    BY DEF KInv, TypeOK, given, importing
  <2>3. PICK call \in Restorable(d) :
            /\ ~Raises(call.kind, call, file[call.kind])
            /\ copy' = [copy EXCEPT ![d] = file[call.kind]]
            /\ saving' = [saving EXCEPT ![d] = call]
    OBVIOUS
  <2>4. call.kind \in Files /\ call.method \in Methods(call.kind)
    BY DEF Restorable, RestoreOrder, Files, Methods
  <2>5. /\ pc'[d] = "returning" /\ file' = file /\ saving'[d] = call
        /\ copy'[d] = file[call.kind]
    BY <2>3 DEF KInv, TypeOK
  <2>6. DeleterOK(d)'
    BY <2>3, <2>4, <2>5 DEF KInv, DeleterOK, Ready2Write
  <2> QED BY <2>2, <2>5, <2>6, OneSteps, RequestAssumption DEF KInv
<1>7. CASE ReturnRow(d)
  <2>2. Ready2Write(d, saving[d])
    BY <1>7 DEF ReturnRow, KInv, DeleterOK
  <2>3. DOMAIN file' = Files /\ Lists(file') /\ \A k \in Files : Unique(k, file'[k])
    BY <1>7, <2>2, WriteKeepsKeys DEF ReturnRow
  <2>4. TypeOK'
    BY <1>7, <2>3 DEF ReturnRow, KInv, TypeOK, given, importing
  <2>5. pc'[d] = "restoring"
    BY <1>7 DEF ReturnRow, KInv, TypeOK
  <2> QED BY <2>3, <2>4, <2>5, OneSteps, RequestAssumption DEF DeleterOK
<1>8. CASE RestoreFails(d)
  <2> USE <1>8 DEF RestoreFails
  <2>2. TypeOK'
    BY DEF KInv, TypeOK, given, importing
  <2>3. pc'[d] = "restoring" /\ file' = file
    BY DEF KInv, TypeOK
  <2> QED BY <2>2, <2>3, OneSteps, RequestAssumption DEF KInv, DeleterOK
<1>9. CASE RestoreEnds(d)
  <2> USE <1>9 DEF RestoreEnds
  <2>2. TypeOK'
    BY DEF KInv, TypeOK, given, importing
  <2>3. pc'[d] = "answered" /\ file' = file
    BY DEF KInv, TypeOK
  <2> QED BY <2>2, <2>3, OneSteps, RequestAssumption DEF KInv, DeleterOK
<1> QED
  BY <1>1, <1>2, <1>3, <1>4, <1>5, <1>6, <1>7, <1>8, <1>9 DEF Delete

(* Saving. *)
LEMMA SaveKeeps ==
    ASSUME KInv, NEW s \in Saver, Save(s), UNCHANGED importing
    PROVE  KInv'
<1> s \in Request
  BY DEF Request
<1> \A r \in Request \ {s} : Same(r)
  BY SaveMoves DEF Moves
<1> USE DEF Goto, NoFault, Fault, Answer
<1>1. CASE Begin(s, "looking")
  <2> USE <1>1 DEF Begin
  <2>2. TypeOK'
    BY DEF KInv, TypeOK, given, importing
  <2>3. pc'[s] = "looking" /\ file' = file
    BY DEF KInv, TypeOK
  <2> QED BY <2>2, <2>3, OneSteps, RequestAssumption DEF KInv, SaverOK
<1>2. CASE LookUp(s)
  <2> USE <1>2 DEF LookUp
  <2>2. TypeOK'
    BY DEF KInv, TypeOK, given, importing
  <2>3. /\ file' = file
        /\ \/ pc'[s] = "saving" /\ saving'[s] \in Savable
           \/ pc'[s] = "answered"
    BY DEF KInv, TypeOK
  <2> QED BY <2>2, <2>3, OneSteps, RequestAssumption DEF KInv, SaverOK
<1>3. CASE ReadForSaving(s)
  <2> USE <1>3 DEF ReadForSaving
  <2>2. TypeOK'
    BY DEF KInv, TypeOK, given, importing
  <2>3. saving[s] \in Savable
    BY DEF KInv, SaverOK
  <2>4. saving[s].kind \in Files /\ saving[s].method \in Methods(saving[s].kind)
    BY <2>3, SavableAssumption
  <2>5. /\ pc'[s] = "storing" /\ file' = file /\ saving' = saving
        /\ copy'[s] = file[saving[s].kind]
    BY DEF KInv, TypeOK
  <2>6. SaverOK(s)'
    BY <2>3, <2>4, <2>5 DEF KInv, SaverOK, Ready2Write
  <2> QED BY <2>2, <2>5, <2>6, OneSteps, RequestAssumption DEF KInv
<1>4. CASE StoreRow(s)
  <2>2. Ready2Write(s, saving[s])
    BY <1>4 DEF StoreRow, KInv, SaverOK
  <2>3. DOMAIN file' = Files /\ Lists(file') /\ \A k \in Files : Unique(k, file'[k])
    BY <1>4, <2>2, WriteKeepsKeys DEF StoreRow
  <2>4. TypeOK'
    BY <1>4, <2>3 DEF StoreRow, KInv, TypeOK, given, importing
  <2>5. pc'[s] = "answered"
    BY <1>4 DEF StoreRow, KInv, TypeOK
  <2> QED BY <2>3, <2>4, <2>5, OneSteps, RequestAssumption DEF SaverOK
<1>5. CASE SavingFails(s)
  <2> USE <1>5 DEF SavingFails
  <2>2. TypeOK'
    BY DEF KInv, TypeOK, given, importing
  <2>3. pc'[s] = "answered" /\ file' = file
    BY DEF KInv, TypeOK
  <2> QED BY <2>2, <2>3, OneSteps, RequestAssumption DEF KInv, SaverOK
<1> QED BY <1>1, <1>2, <1>3, <1>4, <1>5 DEF Save

(* The process dies: what the dead had under way is of no consequence. *)
LEMMA CrashKeeps ==
    ASSUME KInv, Crash, UNCHANGED importing
    PROVE  KInv'
<1> USE DEF Crash, Fault
<1>1. TypeOK'
  BY DEF KInv, TypeOK, given, importing
<1>2. \A r \in Request : pc'[r] = pc[r] \/ pc'[r] = "dead"
  OBVIOUS
<1>3. ASSUME NEW d \in Deleter
      PROVE  DeleterOK(d)'
  <2>1. d \in Request
    BY DEF Request
  <2> QED
    BY <1>2, <2>1 DEF KInv, DeleterOK, KindAt, Ready2Write
<1>4. ASSUME NEW s \in Saver
      PROVE  SaverOK(s)'
  <2>1. s \in Request
    BY DEF Request
  <2> QED
    BY <1>2, <2>1 DEF KInv, SaverOK, Ready2Write
<1>5. ASSUME NEW i \in Importer
      PROVE  ImporterOK(i)'
  <2>1. i \in Request
    BY DEF Request
  <2> QED
    BY <1>2, <2>1 DEF KInv, ImporterOK, Package, Ready2Write, importing
<1> QED BY <1>1, <1>3, <1>4, <1>5 DEF KInv

---------------------------------------------------------------------------
(* The package an import has come to is one of those confirmed. *)
LEMMA PackageAtHand ==
    ASSUME KInv, NEW i \in Importer, bundle[i] \in Bundle,
           Len(report[i]) < Len(bundle[i])
    PROVE  Package(i) \in Packages
<1>1. bundle[i] \in Seq(Range(bundle[i])) /\ Len(report[i]) \in Nat
  BY BundleAssumption DEF KInv, TypeOK
<1>2. Len(report[i]) + 1 \in DOMAIN bundle[i]
  BY <1>1
<1>3. Package(i) \in Range(bundle[i])
  BY <1>2 DEF Package, Range
<1> QED BY <1>3 DEF Packages

LEMMA PackageIsTyped ==
    ASSUME NEW p \in Packages
    PROVE  /\ p.plugins \in Seq(Range(p.plugins))
           /\ Ready(p) \in Seq(Range(p.plugins))
           /\ \A n \in DOMAIN Ready(p) : Ready(p)[n].id \in PluginIds
<1>1. /\ p.plugins \in Seq(Range(p.plugins))
      /\ Ready(p) \in Seq(Range(p.plugins))
  BY BundleAssumption DEF Packages
<1>2. ASSUME NEW n \in DOMAIN Ready(p)
      PROVE  Ready(p)[n].id \in PluginIds
  <2>1. Ready(p)[n] \in Range(p.plugins)
    BY <1>1
  <2> QED BY <2>1 DEF PluginIds
<1> QED BY <1>1, <1>2

(* The calls of an import, and of its cleanup, are for the files there are. *)
LEMMA ImportCallsTyped ==
    ASSUME NEW p \in Packages
    PROVE  ImportCalls(p) \in Seq(Puttings)
<1> DEFINE rest == [n \in DOMAIN Ready(p) |->
                      Call("configurations", "upsert",
                           ConfigurationRow(p, Ready(p)[n].id))]
<1>1. DOMAIN Ready(p) = 1..Len(Ready(p)) /\ Len(Ready(p)) \in Nat
  BY PackageIsTyped
<1>2. \A n \in DOMAIN Ready(p) : rest[n] \in Puttings
  BY PackageIsTyped DEF Puttings
<1>3. rest \in Seq(Puttings)
  <2> HIDE DEF rest
  <2>1. DOMAIN rest = 1..Len(Ready(p))
    BY <1>1 DEF rest
  <2>2. rest = [n \in 1..Len(Ready(p)) |-> rest[n]]
    BY <2>1 DEF rest
  <2> QED BY <1>1, <1>2, <2>1, <2>2
<1>4. <<Call("products", "add", ProductRow(p))>> \in Seq(Puttings)
  BY DEF Puttings
<1> HIDE DEF rest
<1>5. ImportCalls(p) = <<Call("products", "add", ProductRow(p))>> \o rest
  BY DEF ImportCalls, rest
<1> QED BY <1>3, <1>4, <1>5

LEMMA CleanupCallsTyped ==
    ASSUME NEW p \in Packages, NEW done \in Seq(PluginIds), NEW x \in PluginIds
    PROVE  CleanupCalls(p, done, x) \in Seq(Cleanings)
<1> DEFINE ids == Append(done, x)
           first == [n \in 1..(Len(done) + 1) |->
                        Call("configurations", "delete",
                             ConfigurationRow(p, ids[n]))]
<1>1. \A n \in 1..(Len(done) + 1) : ids[n] \in PluginIds
  OBVIOUS
<1>2. \A n \in 1..(Len(done) + 1) : first[n] \in Cleanings
  BY <1>1 DEF Cleanings
<1>3. first \in Seq(Cleanings)
  <2>1. Len(done) + 1 \in Nat
    OBVIOUS
  <2> HIDE DEF first
  <2>2. first = [n \in 1..(Len(done) + 1) |-> first[n]]
    BY DEF first
  <2> QED BY <1>2, <2>1, <2>2
<1>4. <<Call("products", "remove", ProductRow(p))>> \in Seq(Cleanings)
  BY DEF Cleanings
<1> HIDE DEF first
<1>5. CleanupCalls(p, done, x)
        = first \o <<Call("products", "remove", ProductRow(p))>>
  BY DEF CleanupCalls, first
<1> QED BY <1>3, <1>4, <1>5

LEMMA CallsAreCalls ==
    ASSUME NEW call
    PROVE  /\ call \in Puttings =>
                /\ call.kind \in Files /\ call.method \in Methods(call.kind)
                /\ call.kind # "products" => call.row.id \in PluginIds
           /\ call \in Cleanings =>
                /\ call.kind \in Files /\ call.method \in Methods(call.kind)
                /\ \A rows : ~Raises(call.kind, call, rows)
BY DEF Puttings, Cleanings, Call, Files, Methods, Raises, ConfigurationRow

LEMMA ResultIsTyped ==
    ASSUME KInv, NEW i \in Importer, Package(i) \in Packages,
           NEW status \in {"CREATED", "BLOCKED", "FAILED"}
    PROVE  ImportResult(i, status) \in Reports
<1> DEFINE p == Package(i)
           told == [n \in DOMAIN p.plugins |->
                        PluginResult(p.plugins[n], status, configured[i])]
<1>1. p.plugins \in Seq(Range(p.plugins))
  BY PackageIsTyped
<1>2. \A q, done : PluginResult(q, status, done) \in PluginResults
  BY DEF PluginResult, PluginResults
<1>3. told \in Seq(PluginResults)
  <2> HIDE DEF p
  <2>1. told = [n \in 1..Len(p.plugins) |->
                  PluginResult(p.plugins[n], status, configured[i])]
    BY <1>1
  <2>2. Len(p.plugins) \in Nat
    BY <1>1
  <2> QED BY <1>2, <2>1, <2>2
<1>4. (status # "FAILED" \/ complete[i]) \in BOOLEAN
  OBVIOUS
<1> HIDE DEF told
<1>5. ImportResult(i, status) =
        [status |-> status, complete |-> status # "FAILED" \/ complete[i],
         plugins |-> told]
  BY DEF ImportResult, told
<1> QED BY <1>3, <1>4, <1>5 DEF Reports

(* Importing. *)
LEMMA ImportKeeps ==
    ASSUME KInv, NEW i \in Importer, Import(i)
    PROVE  KInv'
<1> i \in Request
  BY DEF Request
<1>0. i \notin Deleter /\ i \notin Saver
  BY RequestAssumption
<1> \A r \in Request \ {i} : Same(r)
  BY ImportMoves DEF Moves
<1> USE DEF Goto, NoFault, Fault, Answer
<1>1. CASE BeginImport(i)
  <2> USE <1>1 DEF BeginImport, Begin
  <2>2. TypeOK'
    BY DEF KInv, TypeOK, given, importing
  <2>3. pc'[i] = "reviewing" /\ file' = file /\ bundle'[i] \in Bundle
    BY DEF KInv, TypeOK
  <2> QED BY <1>0, <2>2, <2>3, OneSteps DEF KInv, ImporterOK
<1>2. CASE ReviewImport(i)
  <2> USE <1>2 DEF ReviewImport
  <2>2. bundle[i] \in Bundle
    BY DEF KInv, ImporterOK
  <2>3. report'[i] \in Seq(Reports)
    <3> DEFINE failed == [status |-> "FAILED", complete |-> TRUE, plugins |-> <<>>]
    <3>1. failed \in Reports
      BY DEF Reports
    <3>2. bundle[i] \in Seq(Range(bundle[i]))
      BY <2>2, BundleAssumption
    <3> HIDE DEF failed
    <3>3. [n \in DOMAIN bundle[i] |-> failed] \in Seq(Reports)
      <4>1. Len(bundle[i]) \in Nat /\ DOMAIN bundle[i] = 1..Len(bundle[i])
        BY <3>2
      <4>2. [n \in 1..Len(bundle[i]) |-> failed] \in Seq(Reports)
        BY <3>1, <4>1
      <4> QED BY <4>1, <4>2
    <3>4. report'[i] = report[i] \/ report'[i] = [n \in DOMAIN bundle[i] |-> failed]
      BY DEF failed, KInv, TypeOK
    <3> QED BY <3>3, <3>4 DEF KInv, TypeOK
  <2>4. TypeOK'
    <3>1. report' \in [Importer -> Seq(Reports)]
      BY <2>3 DEF KInv, TypeOK
    <3> QED BY <3>1 DEF KInv, TypeOK, given
  <2>5. /\ pc'[i] \in {"importing", "answered"} /\ file' = file
        /\ bundle'[i] \in Bundle
    BY <2>2 DEF KInv, TypeOK
  <2> QED BY <1>0, <2>4, <2>5, OneSteps DEF KInv, ImporterOK
<1>3. CASE StartPackage(i)
  <2>0. bundle[i] \in Bundle /\ Package(i) \in Packages
    BY <1>3, PackageAtHand DEF StartPackage, KInv, ImporterOK
  <2>2. CASE CanImport(i, Package(i))
    <3>1. /\ todo' = [todo EXCEPT ![i] = ImportCalls(Package(i))]
          /\ report' = report /\ bundle' = bundle
          /\ pc' = [pc EXCEPT ![i] = "putting"]
      BY <1>3, <2>2 DEF StartPackage
    <3>2. TypeOK'
      BY <1>3, <3>1 DEF StartPackage, KInv, TypeOK, given
    <3>3. /\ pc'[i] = "putting" /\ file' = file /\ bundle'[i] \in Bundle
          /\ Package(i)' \in Packages /\ todo'[i] \in Seq(Puttings)
      BY <1>3, <2>0, <3>1, ImportCallsTyped
         DEF StartPackage, KInv, TypeOK, Package
    <3> QED BY <1>0, <3>2, <3>3, OneSteps DEF KInv, ImporterOK
  <2>3. CASE ~CanImport(i, Package(i))
    <3>1. NextPackage(i, "BLOCKED")
      BY <1>3, <2>3 DEF StartPackage
    <3>2. report' \in [Importer -> Seq(Reports)]
      BY <2>0, <3>1, ResultIsTyped DEF NextPackage, KInv, TypeOK
    <3>3. TypeOK'
      BY <1>3, <3>1, <3>2 DEF StartPackage, NextPackage, KInv, TypeOK, given
    <3>4. pc'[i] = "importing" /\ file' = file /\ bundle'[i] \in Bundle
      BY <1>3, <2>0, <3>1 DEF StartPackage, NextPackage, KInv, TypeOK
    <3> QED BY <1>0, <3>3, <3>4, OneSteps DEF KInv, ImporterOK
  <2> QED BY <2>2, <2>3
<1>4. CASE ReadForImport(i)
  <2> DEFINE call == Head(todo[i])
  <2>0. /\ bundle[i] \in Bundle /\ Package(i) \in Packages
        /\ todo[i] \in Seq(Puttings) /\ todo[i] # <<>>
    BY <1>4 DEF ReadForImport, KInv, ImporterOK
  <2>2. TypeOK'
    BY <1>4 DEF ReadForImport, KInv, TypeOK, given, importing
  <2>3. call \in Puttings
    BY <2>0
  <2>4. /\ call.kind \in Files /\ call.method \in Methods(call.kind)
        /\ ~Raises(call.kind, call, file[call.kind])
    BY <1>4, <2>3, CallsAreCalls DEF ReadForImport
  <2>5. /\ pc'[i] = "writing" /\ file' = file /\ bundle' = bundle
        /\ report' = report /\ todo' = todo
        /\ copy'[i] = file[call.kind]
    BY <1>4 DEF ReadForImport, KInv, TypeOK, importing
  <2>6. Ready2Write(i, call)'
    BY <2>4, <2>5 DEF KInv, Ready2Write
  <2>7. ImporterOK(i)'
    BY <2>0, <2>5, <2>6 DEF ImporterOK, Package
  <2> QED BY <1>0, <2>2, <2>5, <2>7, OneSteps DEF KInv
<1>5. CASE WriteForImport(i)
  <2> DEFINE call == Head(todo[i])
  <2>0. /\ bundle[i] \in Bundle /\ Package(i) \in Packages
        /\ todo[i] \in Seq(Puttings) /\ todo[i] # <<>>
        /\ Ready2Write(i, call) /\ call \in Puttings
    BY <1>5 DEF WriteForImport, KInv, ImporterOK
  <2>2. DOMAIN file' = Files /\ Lists(file') /\ \A k \in Files : Unique(k, file'[k])
    BY <1>5, <2>0, WriteKeepsKeys DEF WriteForImport
  <2>3. /\ pc'[i] = "putting" /\ bundle' = bundle /\ report' = report
        /\ todo'[i] = Tail(todo[i])
    BY <1>5 DEF WriteForImport, KInv, TypeOK
  <2>4. configured' \in [Importer -> Seq(PluginIds)]
    <3>1. call.kind # "products" => call.row.id \in PluginIds
      BY <2>0, CallsAreCalls
    <3>2. CASE call.kind = "products"
      BY <1>5, <3>2 DEF WriteForImport, KInv, TypeOK
    <3>3. CASE call.kind # "products"
      <4>1. configured' = [configured EXCEPT ![i] = Append(@, call.row.id)]
        BY <1>5, <3>3 DEF WriteForImport
      <4>2. Append(configured[i], call.row.id) \in Seq(PluginIds)
        BY <3>1, <3>3 DEF KInv, TypeOK
      <4> QED BY <4>1, <4>2 DEF KInv, TypeOK
    <3> QED BY <3>2, <3>3
  <2>5. TypeOK'
    BY <1>5, <2>2, <2>4 DEF WriteForImport, KInv, TypeOK, given
  <2>6. ImporterOK(i)'
    BY <2>0, <2>3 DEF ImporterOK, Package
  <2> QED BY <1>0, <2>2, <2>5, <2>6, OneSteps
<1>6. CASE ImportFails(i)
  <2> DEFINE call == Head(todo[i])
  <2>0. /\ bundle[i] \in Bundle /\ Package(i) \in Packages
        /\ todo[i] \in Seq(Puttings) /\ todo[i] # <<>> /\ call \in Puttings
    BY <1>6 DEF ImportFails, KInv, ImporterOK
  <2>2. CASE call.kind = "products"
    <3>1. NextPackage(i, "FAILED")
      BY <1>6, <2>2 DEF ImportFails
    <3>2. report' \in [Importer -> Seq(Reports)]
      BY <2>0, <3>1, ResultIsTyped DEF NextPackage, KInv, TypeOK
    <3>3. TypeOK'
      BY <1>6, <3>1, <3>2 DEF ImportFails, NextPackage, KInv, TypeOK, given
    <3>4. pc'[i] = "importing" /\ file' = file /\ bundle'[i] \in Bundle
      BY <1>6, <2>0, <3>1 DEF ImportFails, NextPackage, KInv, TypeOK
    <3> QED BY <1>0, <3>3, <3>4, OneSteps DEF KInv, ImporterOK
  <2>3. CASE call.kind # "products"
    <3> DEFINE calls == CleanupCalls(Package(i), configured[i], call.row.id)
    <3>1. calls \in Seq(Cleanings)
      BY <2>0, <2>3, CallsAreCalls, CleanupCallsTyped DEF KInv, TypeOK
    <3>2. /\ todo' = [todo EXCEPT ![i] = calls]
          /\ pc' = [pc EXCEPT ![i] = "clearing"]
          /\ report' = report /\ bundle' = bundle /\ file' = file
      BY <1>6, <2>3 DEF ImportFails
    <3> HIDE DEF calls
    <3>3. TypeOK'
      BY <1>6, <3>2 DEF ImportFails, KInv, TypeOK, given
    <3>4. pc'[i] = "clearing" /\ todo'[i] = calls
      BY <3>2 DEF KInv, TypeOK
    <3>5. ImporterOK(i)'
      BY <2>0, <3>1, <3>2, <3>4 DEF ImporterOK, Package
    <3> QED BY <1>0, <3>2, <3>3, <3>5, OneSteps DEF KInv
  <2> QED BY <2>2, <2>3
<1>7. CASE PackageCreated(i)
  <2> USE <1>7 DEF PackageCreated, NextPackage
  <2>0. bundle[i] \in Bundle /\ Package(i) \in Packages
    BY DEF KInv, ImporterOK
  <2>2. report' \in [Importer -> Seq(Reports)]
    BY <2>0, ResultIsTyped DEF KInv, TypeOK
  <2>3. TypeOK'
    BY <2>2 DEF KInv, TypeOK, given
  <2>4. pc'[i] = "importing" /\ file' = file /\ bundle'[i] \in Bundle
    BY <2>0 DEF KInv, TypeOK
  <2> QED BY <1>0, <2>3, <2>4, OneSteps DEF KInv, ImporterOK
<1>8. CASE ReadForCleanup(i)
  <2> DEFINE call == Head(todo[i])
  <2>0. /\ bundle[i] \in Bundle /\ Package(i) \in Packages
        /\ todo[i] \in Seq(Cleanings) /\ todo[i] # <<>>
    BY <1>8 DEF ReadForCleanup, KInv, ImporterOK
  <2>2. TypeOK'
    BY <1>8 DEF ReadForCleanup, KInv, TypeOK, given, importing
  <2>3. call \in Cleanings
    BY <2>0
  <2>4. /\ call.kind \in Files /\ call.method \in Methods(call.kind)
        /\ ~Raises(call.kind, call, file[call.kind])
    BY <1>8, <2>3, CallsAreCalls DEF ReadForCleanup
  <2>5. /\ pc'[i] = "cleaning" /\ file' = file /\ bundle' = bundle
        /\ report' = report /\ todo' = todo
        /\ copy'[i] = file[call.kind]
    BY <1>8 DEF ReadForCleanup, KInv, TypeOK, importing
  <2>6. Ready2Write(i, call)'
    BY <2>4, <2>5 DEF KInv, Ready2Write
  <2>7. ImporterOK(i)'
    BY <2>0, <2>5, <2>6 DEF ImporterOK, Package
  <2> QED BY <1>0, <2>2, <2>5, <2>7, OneSteps DEF KInv
<1>9. CASE WriteForCleanup(i)
  <2> DEFINE call == Head(todo[i])
  <2>0. /\ bundle[i] \in Bundle /\ Package(i) \in Packages
        /\ todo[i] \in Seq(Cleanings) /\ todo[i] # <<>>
        /\ Ready2Write(i, call) /\ call \in Cleanings
    BY <1>9 DEF WriteForCleanup, KInv, ImporterOK
  <2>2. DOMAIN file' = Files /\ Lists(file') /\ \A k \in Files : Unique(k, file'[k])
    BY <1>9, <2>0, WriteKeepsKeys DEF WriteForCleanup
  <2>3. /\ pc'[i] = "clearing" /\ bundle' = bundle /\ report' = report
        /\ todo'[i] = Tail(todo[i])
    BY <1>9 DEF WriteForCleanup, KInv, TypeOK
  <2>4. configured' \in [Importer -> Seq(PluginIds)]
    BY <1>9 DEF WriteForCleanup, KInv, TypeOK
  <2>5. TypeOK'
    BY <1>9, <2>2, <2>4 DEF WriteForCleanup, KInv, TypeOK, given
  <2>6. ImporterOK(i)'
    BY <2>0, <2>3 DEF ImporterOK, Package
  <2> QED BY <1>0, <2>2, <2>5, <2>6, OneSteps
<1>10. CASE CleanupFails(i)
  <2> USE <1>10 DEF CleanupFails
  <2>0. /\ bundle[i] \in Bundle /\ Package(i) \in Packages
        /\ todo[i] \in Seq(Cleanings) /\ todo[i] # <<>>
    BY DEF KInv, ImporterOK
  <2>2. TypeOK'
    BY DEF KInv, TypeOK, given
  <2>3. /\ pc'[i] = "clearing" /\ file' = file /\ bundle' = bundle
        /\ report' = report /\ todo'[i] = Tail(todo[i])
    BY DEF KInv, TypeOK
  <2>4. ImporterOK(i)'
    BY <2>0, <2>3 DEF ImporterOK, Package
  <2> QED BY <1>0, <2>2, <2>3, <2>4, OneSteps DEF KInv
<1>11. CASE PackageFailed(i)
  <2> USE <1>11 DEF PackageFailed, NextPackage
  <2>0. bundle[i] \in Bundle /\ Package(i) \in Packages
    BY DEF KInv, ImporterOK
  <2>2. report' \in [Importer -> Seq(Reports)]
    BY <2>0, ResultIsTyped DEF KInv, TypeOK
  <2>3. TypeOK'
    BY <2>2 DEF KInv, TypeOK, given
  <2>4. pc'[i] = "importing" /\ file' = file /\ bundle'[i] \in Bundle
    BY <2>0 DEF KInv, TypeOK
  <2> QED BY <1>0, <2>3, <2>4, OneSteps DEF KInv, ImporterOK
<1>12. CASE AllImported(i)
  <2> USE <1>12 DEF AllImported
  <2>2. TypeOK'
    BY DEF KInv, TypeOK, given, importing
  <2>3. pc'[i] = "answered" /\ file' = file
    BY DEF KInv, TypeOK
  <2> QED BY <1>0, <2>2, <2>3, OneSteps DEF KInv, ImporterOK
<1> QED
  BY <1>1, <1>2, <1>3, <1>4, <1>5, <1>6, <1>7, <1>8, <1>9, <1>10, <1>11, <1>12
     DEF Import

---------------------------------------------------------------------------
(* The keys of every file stay unique (KeysStayUnique): the requests of any  *)
(* kind may interleave, fail and die as they like, because the list that a   *)
(* method writes back was itself without a clash when it was read, and the   *)
(* row that goes in was compared with that list (the repositories' add,      *)
(* upsert and update; ProductDeletionService.delete, _persist_import_product).*)
THEOREM KeysStayUniqueHolds == Spec => []KeysStayUnique
<1>1. Init => KInv
  BY StartsRight DEF IInv
<1>2. KInv /\ [Next]_<<vars, importing>> => KInv'
  <2> SUFFICES ASSUME KInv, [Next]_<<vars, importing>>
               PROVE  KInv'
    OBVIOUS
  <2>1. CASE Next
    BY <2>1, DeleteKeeps, SaveKeeps, ImportKeeps, CrashKeeps DEF Next
  <2>2. CASE UNCHANGED <<vars, importing>>
    BY <2>2 DEF vars, given, importing, KInv, TypeOK, DeleterOK, SaverOK,
                ImporterOK, Ready2Write, KindAt, Package
  <2> QED BY <2>1, <2>2
<1>3. KInv => KeysStayUnique
  BY DEF KInv, TypeOK, KeysStayUnique
<1> QED BY <1>1, <1>2, <1>3, PTL DEF Spec

---------------------------------------------------------------------------
(* A product's row is taken out of the products by its id alone. *)
LEMMA RemovalKeepsOthers ==
    ASSUME NEW o, NEW rows, o.method = "remove"
    PROVE  {a \in After("products", o, rows) : a.id # o.row.id}
               = {a \in rows : a.id # o.row.id}
BY DEF After, Filtered, Found

(* A request that comes alone keeps the others from beginning. *)
LEMMA StepsKeepAlone ==
    ASSUME KInv, OneAtATime, NEW q \in Request, Moves(q)
    PROVE  OneAtATime'
<1> SUFFICES ASSUME serial, NEW r \in Request, NEW t \in Request,
                    pc'[r] \in Active, pc'[t] \in Active
             PROVE  r = t
  BY DEF OneAtATime, Moves, given
<1>1. \A x \in Request \ {q} : pc'[x] = pc[x]
  BY DEF Moves, Same
<1>2. CASE pc[q] \in Active
  BY <1>1, <1>2 DEF OneAtATime
<1>3. CASE \A x \in Request : pc[x] \notin Active
  BY <1>1, <1>3
<1> QED BY <1>2, <1>3 DEF Moves

(* What a deletion holds, no other request that moves can touch. *)
LEMMA OthersLeaveIt ==
    ASSUME KInv, SInv, NEW q \in Request, Moves(q), NEW d \in Deleter, d # q
    PROVE  OwnRows(d)'
<1> d \in Request /\ Same(d) /\ serial' = serial
  BY DEF Request, Moves, given
<1>1. serial => pc[d] \notin Active \/ pc[q] \notin Active
  BY DEF SInv, OneAtATime
<1>2. serial => pc[d] \notin {"dropping", "returning"}
  BY <1>1 DEF Moves, Active
<1> QED BY <1>2 DEF SInv, OwnRows, Same

LEMMA DeletionOwnsItsRows ==
    ASSUME KInv, SInv, NEW d \in Deleter, Delete(d), UNCHANGED importing
    PROVE  OwnRows(d)'
<1> d \in Request /\ OwnRows(d) /\ Moves(d)
  BY DeleteMoves DEF Request, SInv
<1> serial' = serial /\ target' = target
  BY DEF Moves, given
<1> USE DEF Goto, Answer
<1>1. CASE Begin(d, "checking")
  BY <1>1 DEF Begin, OwnRows, KInv, TypeOK
<1>2. CASE Preflight(d)
  BY <1>2 DEF Preflight, OwnRows, KInv, TypeOK
<1>3. CASE ReadForDeletion(d)
  BY <1>3 DEF ReadForDeletion, OwnRows, KInv, TypeOK, KindAt
<1>4. CASE DropRows(d)
  <2>1. pc'[d] \in {"answered", "deleting"}
    BY <1>4 DEF DropRows, KInv, TypeOK
  <2>2. CASE KindAt(d) = "products"
    BY <1>4, <2>1, <2>2 DEF DropRows, OwnRows
  <2>3. CASE KindAt(d) # "products"
    <3>1. KindAt(d) \in Files
      BY KindIsFile DEF KInv, TypeOK
    <3>2. removed' = [removed EXCEPT ![d][KindAt(d)] = Owned(copy[d], target[d])]
      BY <1>4, <2>3 DEF DropRows
    <3>3. \A a \in Owned(copy[d], target[d]) : a.product = target[d]
      BY DEF Owned
    <3>4. \A k \in Files : \A a \in removed'[d][k] : a.product = target[d]
      BY <3>1, <3>2, <3>3 DEF OwnRows, KInv, TypeOK
    <3> QED BY <2>1, <3>4 DEF OwnRows
  <2> QED BY <2>2, <2>3
<1>5. CASE DeletionFails(d)
  BY <1>5 DEF DeletionFails, OwnRows, KInv, TypeOK
<1>6. CASE ReadForRestore(d)
  <2>1. PICK call \in Restorable(d) :
            /\ copy' = [copy EXCEPT ![d] = file[call.kind]]
            /\ saving' = [saving EXCEPT ![d] = call]
    BY <1>6 DEF ReadForRestore
  <2>2. /\ call.kind \in Files \ {"products"}
        /\ call.method \in {"add", "upsert"}
        /\ call.row \in removed[d][call.kind]
    BY DEF Restorable, RestoreOrder, Files
  <2>3. /\ pc'[d] = "returning" /\ file' = file /\ removed' = removed
        /\ saving'[d] = call /\ copy'[d] = file[call.kind]
    BY <1>6, <2>1 DEF ReadForRestore, KInv, TypeOK
  <2> QED BY <2>2, <2>3 DEF OwnRows
<1>7. CASE ReturnRow(d)
  <2>1. \A k \in Files : removed'[d][k] \subseteq removed[d][k]
    BY <1>7 DEF ReturnRow, KInv, TypeOK
  <2>2. pc'[d] = "restoring"
    BY <1>7 DEF ReturnRow, KInv, TypeOK
  <2> QED BY <2>1, <2>2 DEF OwnRows
<1>8. CASE RestoreFails(d)
  <2>1. \A k \in Files : removed'[d][k] \subseteq removed[d][k]
    BY <1>8 DEF RestoreFails, KInv, TypeOK
  <2>2. pc'[d] = "restoring"
    BY <1>8 DEF RestoreFails, KInv, TypeOK
  <2> QED BY <2>1, <2>2 DEF OwnRows
<1>9. CASE RestoreEnds(d)
  BY <1>9 DEF RestoreEnds, OwnRows, KInv, TypeOK
<1> QED
  BY <1>1, <1>2, <1>3, <1>4, <1>5, <1>6, <1>7, <1>8, <1>9 DEF Delete

LEMMA StaysInductive == IInv /\ [Next]_<<vars, importing>> => IInv'
<1> SUFFICES ASSUME KInv, SInv, [Next]_<<vars, importing>>
             PROVE  KInv' /\ SInv'
  BY DEF IInv
<1>1. ASSUME NEW d \in Deleter, Delete(d), UNCHANGED importing
      PROVE  KInv' /\ SInv'
  <2>1. d \in Request /\ Moves(d)
    BY <1>1, DeleteMoves DEF Request
  <2> QED
    BY <1>1, <2>1, DeleteKeeps, StepsKeepAlone, OthersLeaveIt,
       DeletionOwnsItsRows DEF SInv
<1>2. ASSUME NEW s \in Saver, Save(s), UNCHANGED importing
      PROVE  KInv' /\ SInv'
  <2>1. s \in Request /\ s \notin Deleter /\ Moves(s)
    BY <1>2, SaveMoves, RequestAssumption DEF Request
  <2> QED BY <1>2, <2>1, SaveKeeps, StepsKeepAlone, OthersLeaveIt DEF SInv
<1>3. ASSUME NEW i \in Importer, Import(i)
      PROVE  KInv' /\ SInv'
  <2>1. i \in Request /\ i \notin Deleter /\ Moves(i)
    BY <1>3, ImportMoves, RequestAssumption DEF Request
  <2> QED BY <1>3, <2>1, ImportKeeps, StepsKeepAlone, OthersLeaveIt DEF SInv
<1>4. CASE Crash /\ UNCHANGED importing
  <2>1. \A r \in Request : pc'[r] \notin Active
    BY <1>4 DEF Crash, Active
  <2>2. OneAtATime'
    BY <2>1 DEF OneAtATime
  <2>3. ASSUME NEW d \in Deleter
        PROVE  OwnRows(d)'
    <3>1. pc'[d] \notin {"dropping", "returning"}
      BY <2>1 DEF Request, Active
    <3> QED BY <1>4, <3>1 DEF Crash, SInv, OwnRows, given
  <2> QED BY <1>4, <2>2, <2>3, CrashKeeps DEF SInv
<1>5. CASE UNCHANGED <<vars, importing>>
  <2>1. KInv'
    BY <1>5 DEF vars, given, importing, KInv, TypeOK, DeleterOK, SaverOK,
                ImporterOK, Ready2Write, KindAt, Package
  <2>2. SInv'
    BY <1>5 DEF vars, given, importing, SInv, OneAtATime, OwnRows, KindAt
  <2> QED BY <2>1, <2>2
<1> QED BY <1>1, <1>2, <1>3, <1>4, <1>5 DEF Next

(* What one step of a deletion writes, or of its rollback. *)
LEMMA OnlyItsRows ==
    ASSUME KInv, SInv, serial, NEW d \in Deleter,
           pc[d] \in {"dropping", "returning"}, Delete(d)
    PROVE  Without(file', target[d]) = Without(file, target[d])
<1> d \in Request /\ OwnRows(d) /\ DOMAIN file = Files
  BY DEF Request, SInv, KInv, TypeOK
<1>1. CASE file' = file
  BY <1>1
<1>2. CASE DropRows(d)
  <2> DEFINE k == KindAt(d)
             p == target[d]
  <2>1. k \in Files /\ copy[d] = file[k]
    BY <1>2, KindIsFile DEF DropRows, KInv, TypeOK, OwnRows
  <2>2. file' = [file EXCEPT ![k] = After(k, Deletion(d), file[k])]
    BY <1>2, <2>1 DEF DropRows
  <2>3. Deletion(d).row.id = p /\ Deletion(d).row.product = p
    BY DEF Deletion
  <2>4. CASE k = "products"
    <3>1. Deletion(d).method = "remove"
      BY <2>4 DEF Deletion
    <3>2. {a \in After(k, Deletion(d), file[k]) : a.id # p}
            = {a \in file[k] : a.id # p}
      BY <2>3, <2>4, <3>1, RemovalKeepsOthers
    <3> HIDE DEF k, p
    <3> QED BY <2>1, <2>2, <2>4, <3>2 DEF Without, p
  <2>5. CASE k # "products"
    <3>1. Deletion(d).method = "delete_for_product"
      BY <2>5 DEF Deletion
    <3>2. {a \in After(k, Deletion(d), file[k]) : a.product # p}
            = {a \in file[k] : a.product # p}
      BY <2>1, <2>3, <2>5, <3>1, DeletionKeepsOthers DEF Files, Kinds
    <3> HIDE DEF k, p
    <3> QED BY <2>1, <2>2, <2>5, <3>2 DEF Without, p
  <2> QED BY <2>4, <2>5
<1>3. CASE ReturnRow(d)
  <2> DEFINE call == saving[d]
             k == call.kind
             p == target[d]
  <2>1. /\ k \in Files \ {"products"} /\ copy[d] = file[k]
        /\ call.row.product = p /\ call.method \in {"add", "upsert"}
    BY <1>3 DEF ReturnRow, OwnRows
  <2>2. file' = [file EXCEPT ![k] = After(k, call, file[k])]
    BY <1>3, <2>1 DEF ReturnRow
  <2>3. {a \in After(k, call, file[k]) : a.product # p}
          = {a \in file[k] : a.product # p}
    BY <2>1, SavingKeepsOthers DEF Files, Kinds
  <2> HIDE DEF k, p
  <2> QED BY <2>1, <2>2, <2>3 DEF Without, p
<1> QED
  BY <1>1, <1>2, <1>3
     DEF Delete, Begin, Preflight, ReadForDeletion, DeletionFails,
         ReadForRestore, RestoreFails, RestoreEnds

(* Neither a deletion nor its rollback touches a row of another product     *)
(* (OthersUntouched): what it writes back is the list as it still is, less  *)
(* rows of its own product or with one of them put back                     *)
(* (ProductDeletionService.delete and _restore_removed).                    *)
THEOREM OthersUntouchedHolds == Spec => OthersUntouched
<1> DEFINE Keeps == serial => \A d \in Deleter : pc[d] \in {"dropping", "returning"} =>
                        Without(file', target[d]) = Without(file, target[d])
<1>1. Init => IInv
  BY StartsRight
<1>2. IInv /\ [Next]_<<vars, importing>> => [Keeps]_vars
  <2> SUFFICES ASSUME KInv, SInv, Next, serial, NEW d \in Deleter,
                      pc[d] \in {"dropping", "returning"}
               PROVE  Without(file', target[d]) = Without(file, target[d])
    BY DEF IInv, vars
  <2> d \in Request /\ pc[d] \in Active
    BY DEF Request, Active
  <2>1. ASSUME NEW q \in Request, Moves(q)
        PROVE  q = d
    BY <2>1 DEF Moves, SInv, OneAtATime
  <2>2. ASSUME NEW e \in Deleter, Delete(e), UNCHANGED importing
        PROVE  Without(file', target[d]) = Without(file, target[d])
    BY <2>1, <2>2, DeleteMoves, OnlyItsRows DEF Request
  <2>3. ASSUME NEW s \in Saver, Save(s), UNCHANGED importing
        PROVE  FALSE
    BY <2>1, <2>3, SaveMoves, RequestAssumption DEF Request
  <2>4. ASSUME NEW i \in Importer, Import(i)
        PROVE  FALSE
    BY <2>1, <2>4, ImportMoves, RequestAssumption DEF Request
  <2>5. CASE Crash
    BY <2>5 DEF Crash
  <2> QED BY <2>2, <2>3, <2>4, <2>5 DEF Next
<1>3. IInv /\ [Next]_<<vars, importing>> => IInv'
  BY StaysInductive
<1> QED BY <1>1, <1>2, <1>3, PTL DEF Spec, OthersUntouched


---------------------------------------------------------------------------
(* One request at a time: how far each of them is, told from the files as    *)
(* they were when it began (or when the import came to the package at hand). *)

(* What is left of a product has been told, or can be told no more. *)
Told(p) == LeftBehind(p) \/ Untold(p)

(* An import is cleaning up, incompletely so far. *)
CleansInPart(p) ==
    \E i \in Importer :
        pc[i] \in {"clearing", "cleaning"} /\ ~complete[i] /\ Package(i).id = p

Belongs ==
    \A k \in Files : \A a \in file[k] :
        Exists(a.product) \/ Told(a.product) \/ CleansInPart(a.product)

OwnIds == \A a \in file["products"] : a.id = a.product

(* A deletion. *)
Place == [configurations |-> 1, snapshots |-> 2, profiles |-> 3, products |-> 4]

Deletable(d) ==
    /\ DOMAIN before[d] = Files /\ Lists(before[d])
    /\ \A k \in Files : Unique(k, before[d][k])
    /\ \E a \in before[d]["products"] : a.id = target[d]

NotDeleted(d) ==
    /\ stage[d] = 1 /\ complete[d]
    /\ \A k \in Files : removed[d][k] = {}

DeletedSoFar(d) ==
    /\ complete[d]
    /\ \A k \in Files :
        LET mine == Owned(before[d][k], target[d])
        IN  IF Place[k] < stage[d]
            THEN file[k] = before[d][k] \ mine /\ removed[d][k] = mine
            ELSE file[k] = before[d][k] /\ removed[d][k] = {}

RestoredSoFar(d) ==
    /\ file["products"] = before[d]["products"] /\ removed[d]["products"] = {}
    /\ \A k \in Files :
        /\ file[k] \subseteq before[d][k]
        /\ removed[d][k] \subseteq before[d][k] \ file[k]
        /\ before[d][k] \ Owned(before[d][k], target[d]) \subseteq file[k]
        /\ complete[d] => before[d][k] \subseteq file[k] \union removed[d][k]
    /\ ~complete[d] =>
          \E k \in Files : \E a \in before[d][k] : a \notin file[k] \union removed[d][k]

DeleterShape(d) ==
    /\ pc[d] \in {"absent", "idle", "checking"} => NotDeleted(d)
    /\ pc[d] = "checking" => file = before[d]
    /\ pc[d] \in {"deleting", "dropping"} => Deletable(d) /\ DeletedSoFar(d)
    /\ pc[d] \in {"restoring", "returning"} => Deletable(d) /\ RestoredSoFar(d)
    /\ pc[d] = "returning" => saving[d].row \in removed[d][saving[d].kind]

(* A saving request. *)
SaverShape(s) ==
    /\ pc[s] \in {"saving", "storing"} =>
            saving[s].kind = "products" \/ Exists(saving[s].row.product)
    /\ pc[s] = "storing" => copy[s] = file[saving[s].kind]

(* An import. *)
ReadyIds(p) == {Ready(p)[n].id : n \in DOMAIN Ready(p)}

NewTo(files, p) == \A a \in files["products"] : a.id # p.id

NotAdded(i) ==
    /\ todo[i] = ImportCalls(Package(i)) /\ configured[i] = <<>>
    /\ file = before[i]

(* The rows of the package that were there belong to an earlier import. *)
OldAreTold(i) ==
    LET p == Package(i)
    IN  Told(p.id) \/ \A k \in Files : \A a \in before[i][k] : a.product # p.id

(* The configurations with those of a package for some plugins. *)
Configured(rows, p, ids) ==
    {a \in rows : ~(a.product = p.id /\ a.id \in ids)}
        \union {ConfigurationRow(p, x) : x \in ids}

AddedSoFar(i) ==
    LET p == Package(i)
        done == Range(configured[i])
    IN  /\ NewTo(before[i], p)
        /\ \A a \in before[i]["products"] : a.body # p.name
        /\ file["products"] = before[i]["products"] \union {ProductRow(p)}
        /\ file["configurations"] =
                Configured(before[i]["configurations"], p, done)
        /\ \A k \in {"snapshots", "profiles"} : file[k] = before[i][k]
        /\ \A n \in DOMAIN todo[i] : \E x \in ReadyIds(p) :
             todo[i][n] = Call("configurations", "upsert", ConfigurationRow(p, x))
        /\ ReadyIds(p) = done \union {todo[i][n].row.id : n \in DOMAIN todo[i]}

(* Nothing of the package stays but what a call is left for. *)
ClearedSoFar(i) ==
    LET p == Package(i)
    IN  /\ NewTo(before[i], p)
        /\ {a \in file["products"] : a.id # p.id} = before[i]["products"]
        /\ {a \in file["configurations"] : a.product # p.id}
                = {a \in before[i]["configurations"] : a.product # p.id}
        /\ \A k \in {"snapshots", "profiles"} : file[k] = before[i][k]
        /\ \A n \in DOMAIN todo[i] :
             IF n = Len(todo[i])
             THEN todo[i][n] = Call("products", "remove", ProductRow(p))
             ELSE todo[i][n] = Call("configurations", "delete",
                                    ConfigurationRow(p, todo[i][n].row.id))
        /\ todo[i] # <<>> =>
             file["products"] = before[i]["products"] \union {ProductRow(p)}
        /\ complete[i] /\ todo[i] = <<>> =>
             file["products"] = before[i]["products"]
        /\ complete[i] =>
             \A a \in file["configurations"] \ before[i]["configurations"] :
                \E n \in DOMAIN todo[i] : todo[i][n] =
                    Call("configurations", "delete", ConfigurationRow(p, a.id))

ImporterShape(i) ==
    /\ pc[i] \in {"absent", "idle"} => bundle[i] = <<>>
    /\ pc[i] \in {"absent", "idle", "reviewing"} => report[i] = <<>>
    /\ pc[i] = "answered" => Len(report[i]) = Len(bundle[i])
    /\ pc[i] = "importing" => Len(report[i]) <= Len(bundle[i])
    /\ pc[i] = "reviewing" => file = before[i]
    /\ pc[i] \in {"putting", "writing", "clearing", "cleaning"} =>
            /\ Len(report[i]) < Len(bundle[i])
            /\ DOMAIN before[i] = Files /\ Lists(before[i])
    /\ pc[i] \in {"putting", "writing"} =>
            complete[i] /\ (NotAdded(i) \/ (OldAreTold(i) /\ AddedSoFar(i)))
    /\ pc[i] \in {"clearing", "cleaning"} => OldAreTold(i) /\ ClearedSoFar(i)
    /\ pc[i] \in {"writing", "cleaning"} => copy[i] = file[Head(todo[i]).kind]

NInv ==
    serial =>
        /\ OwnIds /\ Belongs
        /\ \A d \in Deleter : DeleterShape(d)
        /\ \A s \in Saver : SaverShape(s)
        /\ \A i \in Importer : ImporterShape(i)

LEMMA StartsShapely == Init => NInv
<1> SUFFICES ASSUME Init
             PROVE  NInv
  OBVIOUS
<1> USE DEF Init, DeletionInit, ImportInit
<1>1. PICK t \in Setting : file = t.files
  OBVIOUS
<1>2. OwnIds /\ Belongs
  BY <1>1, SettingAssumption DEF OwnIds, Belongs, Exists
<1>3. \A r \in Request : pc[r] \in {"idle", "absent"}
  OBVIOUS
<1>4. \A d \in Deleter : NotDeleted(d)
  BY DEF NotDeleted, Nothing, Request
<1>5. \A d \in Deleter : DeleterShape(d)
  BY <1>3, <1>4 DEF DeleterShape, Request
<1>6. \A s \in Saver : SaverShape(s)
  BY <1>3 DEF SaverShape, Request
<1>7. \A i \in Importer : ImporterShape(i)
  BY <1>3 DEF ImporterShape, Request
<1> QED BY <1>2, <1>5, <1>6, <1>7 DEF NInv

(* While one request takes its steps, no other is under way. *)
LEMMA Alone ==
    ASSUME OneAtATime, serial, NEW q \in Request, Moves(q)
    PROVE  \A r \in Request \ {q} : pc[r] \notin Active /\ pc'[r] = pc[r]
BY DEF OneAtATime, Moves, Same

LEMMA OthersKeepShape ==
    ASSUME OneAtATime, serial, NEW q \in Request, Moves(q),
           NEW r \in Request \ {q}
    PROVE  /\ r \in Deleter /\ DeleterShape(r) => DeleterShape(r)'
           /\ r \in Saver /\ SaverShape(r) => SaverShape(r)'
           /\ r \in Importer /\ ImporterShape(r) => ImporterShape(r)'
<1>1. Same(r) /\ pc[r] \notin Active /\ pc'[r] = pc[r]
  BY Alone DEF Moves
<1>2. r \in Deleter /\ DeleterShape(r) => DeleterShape(r)'
  BY <1>1 DEF Same, DeleterShape, NotDeleted, Active
<1>3. r \in Saver /\ SaverShape(r) => SaverShape(r)'
  BY <1>1 DEF Same, SaverShape, Active
<1>4. r \in Importer /\ ImporterShape(r) => ImporterShape(r)'
  BY <1>1 DEF Same, ImporterShape, Active
<1> QED BY <1>2, <1>3, <1>4

(* An import that goes on takes back nothing it has told. *)
TellsOn(i) ==
    /\ pc[i] # "dead"
    /\ \/ report[i] = <<>>
       \/ /\ bundle'[i] = bundle[i]
          /\ report'[i] = report[i] \/ \E x : report'[i] = Append(report[i], x)

LEMMA ToldStays ==
    ASSUME KInv, NEW q \in Request, Moves(q), q \in Importer => TellsOn(q),
           NEW p, Told(p)
    PROVE  Told(p)'
<1>1. CASE LeftBehind(p)
  <2>0. PICK i \in Importer : \E n \in DOMAIN report[i] :
            bundle[i][n].id = p /\ ~report[i][n].complete
    BY <1>1 DEF LeftBehind
  <2>1. PICK n \in DOMAIN report[i] :
            bundle[i][n].id = p /\ ~report[i][n].complete
    BY <2>0
  <2>2. report[i] \in Seq(Reports) /\ i \in Request
    BY DEF KInv, TypeOK, Request
  <2>3. n \in DOMAIN report'[i] /\ bundle'[i] = bundle[i]
        /\ report'[i][n] = report[i][n]
    <3>1. CASE i # q
      BY <2>2, <3>1 DEF Moves, Same
    <3>2. CASE i = q
      <4>1. report[i] # <<>>
        BY <2>2
      <4>2. bundle'[i] = bundle[i]
        BY <3>2, <4>1 DEF TellsOn
      <4>3. CASE report'[i] = report[i]
        BY <4>2, <4>3
      <4>4. ASSUME NEW x, report'[i] = Append(report[i], x)
            PROVE  n \in DOMAIN report'[i] /\ report'[i][n] = report[i][n]
        BY <2>2, <4>4
      <4> QED BY <3>2, <4>1, <4>2, <4>3, <4>4 DEF TellsOn
    <3> QED BY <3>1, <3>2
  <2>4. LeftBehind(p)'
    BY <2>1, <2>3 DEF LeftBehind
  <2> QED BY <2>4 DEF Told
<1>2. CASE Untold(p)
  <2>1. PICK i \in Importer :
            /\ pc[i] = "dead" /\ ~complete[i]
            /\ Len(report[i]) < Len(bundle[i]) /\ Package(i).id = p
    BY <1>2 DEF Untold
  <2>2. i # q /\ i \in Request
    BY <2>1 DEF TellsOn, Request
  <2>3. /\ pc'[i] = pc[i] /\ complete'[i] = complete[i]
        /\ report'[i] = report[i] /\ bundle'[i] = bundle[i]
    BY <2>2 DEF Moves, Same
  <2>4. Untold(p)'
    BY <2>1, <2>3 DEF Untold, Package
  <2> QED BY <2>4 DEF Told
<1> QED BY <1>1, <1>2 DEF Told

(* What is left to show of a step of request q. *)
LEMMA OneSerialStep ==
    ASSUME OneAtATime, NInv, serial, NEW q \in Request, Moves(q),
           OwnIds', Belongs',
           /\ q \in Deleter => DeleterShape(q)'
           /\ q \in Saver => SaverShape(q)'
           /\ q \in Importer => ImporterShape(q)'
    PROVE  NInv'
<1>1. ASSUME NEW d \in Deleter
      PROVE  DeleterShape(d)'
  BY OthersKeepShape DEF NInv, Request
<1>2. ASSUME NEW s \in Saver
      PROVE  SaverShape(s)'
  BY OthersKeepShape DEF NInv, Request
<1>3. ASSUME NEW i \in Importer
      PROVE  ImporterShape(i)'
  BY OthersKeepShape DEF NInv, Request
<1> QED BY <1>1, <1>2, <1>3 DEF NInv

(* Nothing is being cleaned up while another request takes its steps. *)
LEMMA NoneCleans ==
    ASSUME OneAtATime, serial, NEW q \in Request, Moves(q),
           pc[q] \notin {"clearing", "cleaning"}
    PROVE  \A p : ~CleansInPart(p)
<1>1. ASSUME NEW i \in Importer, pc[i] \in {"clearing", "cleaning"}
      PROVE  FALSE
  <2>1. i \in Request /\ pc[i] \in Active
    BY <1>1 DEF Request, Active
  <2> QED BY <1>1, <2>1, Alone
<1> QED BY <1>1 DEF CleansInPart

(* A step that changes no file, of a request that cleans nothing up. *)
LEMMA NoFileChanges ==
    ASSUME KInv, OneAtATime, NInv, serial, NEW q \in Request, Moves(q),
           q \in Importer => TellsOn(q), pc[q] \notin {"clearing", "cleaning"},
           file' = file
    PROVE  OwnIds' /\ Belongs'
<1>1. OwnIds'
  BY DEF NInv, OwnIds
<1>3. \A p : ~CleansInPart(p)
  BY NoneCleans
<1>4. \A p : Exists(p) => Exists(p)'
  BY DEF Exists
<1>5. Belongs'
  <2> SUFFICES ASSUME NEW k \in Files, NEW a \in file[k]
               PROVE  Exists(a.product)' \/ Told(a.product)'
    BY DEF Belongs
  <2>1. Exists(a.product) \/ Told(a.product)
    BY <1>3 DEF NInv, Belongs
  <2> QED BY <2>1, <1>4, ToldStays
<1> QED BY <1>1, <1>5

(* The stages of the deletion, and where they are in the order. *)
LEMMA PlaceIsStage ==
    ASSUME NEW d \in Deleter, stage[d] \in 1..4
    PROVE  /\ KindAt(d) \in Files /\ Place[KindAt(d)] = stage[d]
           /\ \A k \in Files : /\ Place[k] \in 1..4
                               /\ Place[k] = stage[d] <=> k = KindAt(d)
                               /\ Place[k] = 4 <=> k = "products"
BY DEF KindAt, DeletionOrder, Files, Place

(* A row that is put back was in none of the rows that are there. *)
LEMMA RowComesBack ==
    ASSUME NEW call, call.kind \in Files \ {"products"},
           call.method \in {"add", "upsert"}, NEW rows, NEW old,
           Unique(call.kind, old), rows \subseteq old, call.row \in old \ rows
    PROVE  After(call.kind, call, rows) = rows \union {call.row}
<1>1. CASE call.method = "add"
  BY <1>1 DEF After
<1>2. CASE call.method = "upsert"
  <2>1. ASSUME NEW a \in Found(call.kind, rows, call.row)
        PROVE  FALSE
    <3>1. a \in rows /\ Clash(call.kind, a, call.row)
      BY DEF Found, Clash, Files
    <3>2. a = call.row
      BY <3>1 DEF Unique
    <3> QED BY <3>1, <3>2
  <2>2. Found(call.kind, rows, call.row) = {}
    BY <2>1
  <2> QED BY <1>2, <2>2 DEF After
<1> QED BY <1>1, <1>2

LEMMA DeleteKeepsShape ==
    ASSUME KInv, SInv, NInv, serial, NEW d \in Deleter, Delete(d),
           UNCHANGED importing
    PROVE  NInv'
<1> d \in Request /\ OwnRows(d) /\ Moves(d) /\ DeleterShape(d) /\ OneAtATime
  BY DeleteMoves DEF Request, SInv, NInv
<1>0. d \notin Saver /\ d \notin Importer
  BY RequestAssumption
<1> serial' = serial /\ target' = target /\ DOMAIN file = Files
  BY DEF Moves, given, KInv, TypeOK
<1> stage[d] \in 1..4
  BY DEF KInv, TypeOK
<1> SUFFICES OwnIds' /\ Belongs' /\ DeleterShape(d)'
  BY <1>0, OneSerialStep
<1> USE DEF Goto, Answer
<1>1. ASSUME file' = file, pc[d] \notin {"clearing", "cleaning"}
      PROVE  OwnIds' /\ Belongs'
  BY <1>0, <1>1, NoFileChanges
<1>2. CASE Begin(d, "checking")
  <2>1. /\ pc'[d] = "checking" /\ file' = file /\ before'[d] = file
        /\ stage' = stage /\ removed' = removed /\ complete' = complete
    BY <1>2 DEF Begin, KInv, TypeOK
  <2>2. pc[d] = "idle"
    BY <1>2 DEF Begin
  <2> QED BY <1>1, <2>1, <2>2 DEF DeleterShape, NotDeleted
<1>3. CASE Preflight(d)
  <2>1. /\ file' = file /\ before' = before /\ pc[d] = "checking"
        /\ stage' = stage /\ removed' = removed /\ complete' = complete
        /\ \/ pc'[d] = "deleting" /\ Exists(target[d])
           \/ pc'[d] = "answered"
    BY <1>3 DEF Preflight, KInv, TypeOK
  <2>2. file = before[d] /\ NotDeleted(d)
    BY <2>1 DEF DeleterShape
  <2>3. pc'[d] = "deleting" => Deletable(d)'
    <3>1. Lists(file) /\ DOMAIN file = Files /\ \A k \in Files : Unique(k, file[k])
      BY DEF KInv, TypeOK
    <3> QED BY <2>1, <2>2, <3>1 DEF Deletable, Exists
  <2>4. DeletedSoFar(d)'
    <3>1. \A k \in Files : ~(Place[k] < 1)
      BY PlaceIsStage
    <3> QED BY <2>1, <2>2, <3>1 DEF DeletedSoFar, NotDeleted
  <2> QED BY <1>1, <2>1, <2>3, <2>4 DEF DeleterShape
<1>4. CASE ReadForDeletion(d)
  <2>1. /\ pc'[d] = "dropping" /\ file' = file /\ before' = before
        /\ stage' = stage /\ removed' = removed /\ complete' = complete
        /\ pc[d] = "deleting"
    BY <1>4 DEF ReadForDeletion, KInv, TypeOK
  <2> QED BY <1>1, <2>1 DEF DeleterShape, Deletable, DeletedSoFar
<1>5. CASE DropRows(d)
  <2> DEFINE k == KindAt(d)
             t == target[d]
  <2>1. /\ k \in Files /\ copy[d] = file[k] /\ pc[d] = "dropping"
        /\ Deletable(d) /\ DeletedSoFar(d)
    BY <1>5, PlaceIsStage DEF DropRows, OwnRows, DeleterShape
  <2>2. file' = [file EXCEPT ![k] = After(k, Deletion(d), file[k])]
    BY <1>5, <2>1 DEF DropRows
  <2>3. /\ before' = before /\ complete' = complete
    BY <1>5 DEF DropRows
  <2>4. file[k] = before[d][k] /\ removed[d][k] = {}
    BY <2>1, PlaceIsStage DEF DeletedSoFar
  <2>5. CASE k = "products"
    <3>1. pc'[d] = "answered"
      BY <1>5, <2>5 DEF DropRows, KInv, TypeOK
    <3>2. \A x \in file'[k] : x \in file[k] /\ x.id # t
      BY <2>1, <2>2, <2>5 DEF After, Deletion, Filtered, Found, Writes
    <3>3. \A x \in file[k] : x.id # t => x \in file'[k]
      BY <2>1, <2>2, <2>5 DEF After, Deletion, Filtered, Found
    <3>4. \A j \in Files \ {"products"} : file'[j] = file[j]
                /\ \A x \in file[j] : x.product # t
      <4> SUFFICES ASSUME NEW j \in Files \ {"products"}
                   PROVE  file'[j] = file[j] /\ \A x \in file[j] : x.product # t
        OBVIOUS
      <4>1. Place[j] < stage[d]
        BY <2>5, PlaceIsStage
      <4>2. file[j] = before[d][j] \ Owned(before[d][j], target[d])
        BY <2>1, <4>1 DEF DeletedSoFar
      <4>3. file'[j] = file[j]
        BY <2>2, <2>5
      <4> QED BY <4>2, <4>3 DEF Owned
    <3>5. OwnIds'
      BY <2>5, <3>2 DEF OwnIds, NInv
    <3>6. \A j \in Files : \A x \in file'[j] : x \in file[j] /\ x.product # t
      BY <2>5, <3>2, <3>4 DEF OwnIds, NInv
    <3>7. Belongs'
      <4> SUFFICES ASSUME NEW j \in Files, NEW x \in file'[j]
                   PROVE  Exists(x.product)' \/ Told(x.product)'
        BY DEF Belongs
      <4>1. x \in file[j] /\ x.product # t
        BY <3>6
      <4>2. Exists(x.product) => Exists(x.product)'
        BY <2>5, <3>3, <4>1 DEF Exists
      <4>3. ~CleansInPart(x.product)
        BY <2>1, NoneCleans
      <4> QED BY <1>0, <4>1, <4>2, <4>3, ToldStays DEF NInv, Belongs
    <3> QED BY <3>1, <3>5, <3>7 DEF DeleterShape
  <2>6. CASE k # "products"
    <3>1. /\ pc'[d] = "deleting" /\ stage'[d] = stage[d] + 1
          /\ removed'[d] = [removed[d] EXCEPT ![k] = Owned(file[k], t)]
      BY <1>5, <2>1, <2>6 DEF DropRows, KInv, TypeOK
    <3>2. DOMAIN removed[d] = Files
      BY DEF KInv, TypeOK
    <3>3. file'[k] = before[d][k] \ Owned(before[d][k], t)
      BY <2>1, <2>2, <2>4, <2>6 DEF After, Deletion
    <3>4. \A j \in Files \ {k} : file'[j] = file[j] /\ removed'[d][j] = removed[d][j]
      BY <2>2, <3>1, <3>2
    <3>5. removed'[d][k] = Owned(before[d][k], t)
      BY <2>1, <2>4, <3>1, <3>2
    <3>6. DeletedSoFar(d)'
      <4> SUFFICES ASSUME NEW j \in Files
                   PROVE  LET mine == Owned(before[d][j], t)
                          IN IF Place[j] < stage'[d]
                             THEN file'[j] = before[d][j] \ mine
                                    /\ removed'[d][j] = mine
                             ELSE file'[j] = before[d][j] /\ removed'[d][j] = {}
        BY <2>1, <2>3 DEF DeletedSoFar
      <4>1. CASE j = k
        <5>1. Place[j] < stage'[d]
          BY <3>1, <4>1, PlaceIsStage
        <5> QED BY <5>1, <3>3, <3>5, <4>1
      <4>2. CASE j # k
        <5>1. Place[j] < stage'[d] <=> Place[j] < stage[d]
          BY <3>1, <4>2, PlaceIsStage
        <5> HIDE DEF k
        <5> QED BY <5>1, <3>4, <4>2, <2>1 DEF DeletedSoFar
      <4> QED BY <4>1, <4>2
    <3>7. Deletable(d)'
      BY <2>1, <2>3 DEF Deletable
    <3>8. \A j \in Files : file'[j] \subseteq file[j]
      BY <3>3, <3>4, <2>4
    <3>9. file'["products"] = file["products"]
      BY <2>6, <3>4 DEF Files
    <3>10. OwnIds'
      BY <3>9 DEF OwnIds, NInv
    <3>11. Belongs'
      <4> SUFFICES ASSUME NEW j \in Files, NEW x \in file'[j]
                   PROVE  Exists(x.product)' \/ Told(x.product)'
        BY DEF Belongs
      <4>1. x \in file[j] /\ (Exists(x.product) => Exists(x.product)')
        BY <3>8, <3>9 DEF Exists
      <4>3. ~CleansInPart(x.product)
        BY <2>1, NoneCleans
      <4> QED BY <1>0, <4>1, <4>3, ToldStays DEF NInv, Belongs
    <3> QED BY <3>1, <3>6, <3>7, <3>10, <3>11 DEF DeleterShape
  <2> QED BY <2>5, <2>6
<1>6. CASE DeletionFails(d)
  <2>1. /\ pc'[d] = "restoring" /\ file' = file /\ before' = before
        /\ removed' = removed /\ complete' = complete
        /\ pc[d] \in {"deleting", "dropping"}
    BY <1>6 DEF DeletionFails, KInv, TypeOK
  <2>2. Deletable(d) /\ DeletedSoFar(d)
    BY <2>1 DEF DeleterShape
  <2>3. ~(Place["products"] < stage[d])
    BY PlaceIsStage DEF Files
  <2>4. file["products"] = before[d]["products"] /\ removed[d]["products"] = {}
    BY <2>2, <2>3 DEF DeletedSoFar, Files
  <2>5. \A k \in Files :
        /\ file[k] \subseteq before[d][k]
        /\ removed[d][k] \subseteq before[d][k] \ file[k]
        /\ before[d][k] \ Owned(before[d][k], target[d]) \subseteq file[k]
        /\ before[d][k] \subseteq file[k] \union removed[d][k]
    BY <2>2 DEF DeletedSoFar, Owned
  <2>6. Deletable(d)' /\ RestoredSoFar(d)'
    BY <2>1, <2>2, <2>4, <2>5 DEF Deletable, RestoredSoFar, DeletedSoFar
  <2> QED BY <1>1, <2>1, <2>6 DEF DeleterShape
<1>7. CASE ReadForRestore(d)
  <2>1. PICK call \in Restorable(d) : saving' = [saving EXCEPT ![d] = call]
    BY <1>7 DEF ReadForRestore
  <2>2. call.row \in removed[d][call.kind]
    BY DEF Restorable
  <2>3. /\ pc'[d] = "returning" /\ file' = file /\ before' = before
        /\ removed' = removed /\ complete' = complete /\ pc[d] = "restoring"
        /\ saving'[d] = call
    BY <1>7, <2>1 DEF ReadForRestore, KInv, TypeOK
  <2>4. Deletable(d)' /\ RestoredSoFar(d)'
    BY <2>3 DEF DeleterShape, Deletable, RestoredSoFar
  <2> QED BY <1>1, <2>2, <2>3, <2>4 DEF DeleterShape
<1>8. CASE ReturnRow(d)
  <2> DEFINE call == saving[d]
             k == call.kind
  <2>1. /\ pc[d] = "returning" /\ k \in Files \ {"products"}
        /\ copy[d] = file[k] /\ call.method \in {"add", "upsert"}
        /\ call.row \in removed[d][k] /\ call.row.product = target[d]
        /\ Deletable(d) /\ RestoredSoFar(d)
    BY <1>8 DEF ReturnRow, OwnRows, DeleterShape
  <2>2. /\ file' = [file EXCEPT ![k] = After(k, call, file[k])]
        /\ removed' = [removed EXCEPT ![d][k] = @ \ {call.row}]
        /\ before' = before /\ complete' = complete /\ saving' = saving
    BY <1>8, <2>1 DEF ReturnRow
  <2>3. pc'[d] = "restoring"
    BY <1>8 DEF ReturnRow, KInv, TypeOK
  <2>4. After(k, call, file[k]) = file[k] \union {call.row}
    BY <2>1, RowComesBack DEF RestoredSoFar, Deletable
  <2> HIDE DEF call, k
  <2>5. /\ file'[k] = file[k] \union {call.row}
        /\ removed'[d][k] = removed[d][k] \ {call.row}
        /\ \A j \in Files \ {k} : file'[j] = file[j]
                                    /\ removed'[d][j] = removed[d][j]
    BY <2>1, <2>2, <2>4 DEF KInv, TypeOK
  <2>6. \A j \in Files :
        /\ file'[j] \subseteq before[d][j]
        /\ removed'[d][j] \subseteq before[d][j] \ file'[j]
        /\ before[d][j] \ Owned(before[d][j], target[d]) \subseteq file'[j]
        /\ file'[j] \union removed'[d][j] = file[j] \union removed[d][j]
    BY <2>1, <2>5 DEF RestoredSoFar
  <2>7. file'["products"] = file["products"] /\ removed'[d]["products"] = {}
    BY <2>1, <2>5 DEF RestoredSoFar, Files
  <2>8. RestoredSoFar(d)'
    BY <2>1, <2>2, <2>6, <2>7 DEF RestoredSoFar
  <2>9. Deletable(d)'
    BY <2>1, <2>2 DEF Deletable
  <2>10. OwnIds'
    BY <2>7 DEF OwnIds, NInv
  <2>11. Belongs'
    <3> SUFFICES ASSUME NEW j \in Files, NEW x \in file'[j]
                 PROVE  Exists(x.product)' \/ Told(x.product)'
      BY DEF Belongs
    <3>1. \A p : Exists(p) => Exists(p)'
      BY <2>7 DEF Exists
    <3>2. Exists(target[d])
      BY <2>1 DEF Deletable, RestoredSoFar, Exists
    <3>3. x \in file[j] \/ x.product = target[d]
      BY <2>1, <2>5
    <3>4. ~CleansInPart(x.product)
      BY <2>1, NoneCleans
    <3> QED BY <1>0, <3>1, <3>2, <3>3, <3>4, ToldStays DEF NInv, Belongs
  <2> QED BY <2>3, <2>8, <2>9, <2>10, <2>11 DEF DeleterShape
<1>9. CASE RestoreFails(d)
  <2>1. PICK call \in Restorable(d) :
            removed' = [removed EXCEPT ![d][call.kind] = @ \ {call.row}]
    BY <1>9 DEF RestoreFails
  <2>2. call.row \in removed[d][call.kind] /\ call.kind \in Files \ {"products"}
    BY DEF Restorable, RestoreOrder, Files
  <2>3. /\ pc'[d] = "restoring" /\ file' = file /\ before' = before
        /\ complete'[d] = FALSE /\ pc[d] \in {"restoring", "returning"}
    BY <1>9 DEF RestoreFails, KInv, TypeOK
  <2>4. Deletable(d) /\ RestoredSoFar(d)
    BY <2>3 DEF DeleterShape
  <2>5. /\ removed'[d][call.kind] = removed[d][call.kind] \ {call.row}
        /\ \A j \in Files \ {call.kind} : removed'[d][j] = removed[d][j]
    BY <2>1, <2>2 DEF KInv, TypeOK
  <2>6. \A j \in Files : removed'[d][j] \subseteq removed[d][j]
    BY <2>5
  <2>7. call.row \in before[d][call.kind] /\ call.row \notin file[call.kind]
    BY <2>2, <2>4 DEF RestoredSoFar
  <2>8. RestoredSoFar(d)'
    <3>1. file'["products"] = before'[d]["products"] /\ removed'[d]["products"] = {}
      BY <2>2, <2>3, <2>4, <2>5 DEF RestoredSoFar, Files
    <3>2. \A k \in Files :
            /\ file'[k] \subseteq before'[d][k]
            /\ removed'[d][k] \subseteq before'[d][k] \ file'[k]
            /\ before'[d][k] \ Owned(before'[d][k], target[d]) \subseteq file'[k]
      BY <2>3, <2>4, <2>6 DEF RestoredSoFar
    <3>3. \E k \in Files : \E a \in before'[d][k] :
            a \notin file'[k] \union removed'[d][k]
      BY <2>2, <2>3, <2>5, <2>7
    <3>4. ~complete'[d]
      BY <2>3
    <3> QED BY <3>1, <3>2, <3>3, <3>4 DEF RestoredSoFar
  <2>9. Deletable(d)'
    BY <2>3, <2>4 DEF Deletable
  <2> QED BY <1>1, <2>3, <2>8, <2>9 DEF DeleterShape
<1>10. CASE RestoreEnds(d)
  <2>1. pc'[d] = "answered" /\ file' = file /\ pc[d] = "restoring"
    BY <1>10 DEF RestoreEnds, KInv, TypeOK
  <2> QED BY <1>1, <2>1 DEF DeleterShape
<1> QED
  BY <1>2, <1>3, <1>4, <1>5, <1>6, <1>7, <1>8, <1>9, <1>10 DEF Delete

LEMMA SaveKeepsShape ==
    ASSUME KInv, SInv, NInv, serial, NEW s \in Saver, Save(s),
           UNCHANGED importing
    PROVE  NInv'
<1> s \in Request /\ Moves(s) /\ SaverShape(s) /\ OneAtATime
  BY SaveMoves DEF Request, SInv, NInv
<1>0. s \notin Deleter /\ s \notin Importer
  BY RequestAssumption
<1> serial' = serial /\ DOMAIN file = Files
  BY DEF Moves, given, KInv, TypeOK
<1> SUFFICES OwnIds' /\ Belongs' /\ SaverShape(s)'
  BY <1>0, OneSerialStep
<1> USE DEF Goto, Answer
<1>1. ASSUME file' = file, pc[s] \notin {"clearing", "cleaning"}
      PROVE  OwnIds' /\ Belongs'
  BY <1>0, <1>1, NoFileChanges
<1>2. CASE Begin(s, "looking")
  <2>1. pc'[s] = "looking" /\ file' = file /\ pc[s] = "idle"
    BY <1>2 DEF Begin, KInv, TypeOK
  <2> QED BY <1>1, <2>1 DEF SaverShape
<1>3. CASE LookUp(s)
  <2>1. /\ file' = file /\ pc[s] = "looking"
        /\ \/ /\ pc'[s] = "saving"
              /\ saving'[s].kind = "products" \/ Exists(saving'[s].row.product)
           \/ pc'[s] = "answered"
    BY <1>3 DEF LookUp, KInv, TypeOK
  <2>2. \A p : Exists(p) => Exists(p)'
    BY <2>1 DEF Exists
  <2> QED BY <1>1, <2>1, <2>2 DEF SaverShape
<1>4. CASE ReadForSaving(s)
  <2>1. /\ file' = file /\ pc[s] = "saving" /\ pc'[s] = "storing"
        /\ saving' = saving /\ copy'[s] = file[saving[s].kind]
    BY <1>4 DEF ReadForSaving, KInv, TypeOK
  <2>2. \A p : Exists(p) => Exists(p)'
    BY <2>1 DEF Exists
  <2> QED BY <1>1, <2>1, <2>2 DEF SaverShape
<1>5. CASE StoreRow(s)
  <2> DEFINE call == saving[s]
             k == call.kind
  <2>1. /\ pc[s] = "storing" /\ call \in Savable /\ copy[s] = file[k]
        /\ k = "products" \/ Exists(call.row.product)
    BY <1>5 DEF StoreRow, SaverShape, KInv, SaverOK
  <2>2. /\ k \in Files /\ call.method \in Methods(k)
        /\ call.method \in {"add", "upsert", "update"}
        /\ k = "products" => call.row.id = call.row.product
    BY <2>1, SavableAssumption
  <2>3. k = "products" => call.method = "add"
    BY <2>2 DEF Methods
  <2>4. pc'[s] = "answered" /\ file' = [file EXCEPT ![k] = After(k, call, file[k])]
    BY <1>5, <2>1 DEF StoreRow, KInv, TypeOK
  <2>5. After(k, call, file[k]) \subseteq file[k] \union {call.row}
    BY <2>2 DEF After
  <2>6. k = "products" => After(k, call, file[k]) = file[k] \union {call.row}
    BY <2>3 DEF After
  <2> HIDE DEF call, k
  <2>7. /\ \A j \in Files : \A x \in file'[j] :
             x \in file[j] \/ (x = call.row /\ j = k)
        /\ \A x \in file["products"] : x \in file'["products"]
        /\ k = "products" => call.row \in file'["products"]
    BY <2>2, <2>4, <2>5, <2>6 DEF Files
  <2>8. \A p : Exists(p) => Exists(p)'
    BY <2>7 DEF Exists
  <2>9. OwnIds'
    BY <2>2, <2>7 DEF OwnIds, NInv, Files
  <2>10. \E b \in file'["products"] : b.id = call.row.product
    <3>1. CASE k = "products"
      BY <2>2, <2>7, <3>1
    <3>2. CASE k # "products"
      <4>1. Exists(call.row.product)
        BY <2>1, <3>2 DEF call, k
      <4> QED BY <4>1, <2>7 DEF Exists
    <3> QED BY <3>1, <3>2
  <2>11. Belongs'
    <3> SUFFICES ASSUME NEW j \in Files, NEW x \in file'[j]
                 PROVE  Exists(x.product)' \/ Told(x.product)'
      BY DEF Belongs
    <3>1. ~CleansInPart(x.product)
      BY <2>1, NoneCleans
    <3>2. CASE x \in file[j]
      BY <1>0, <2>8, <3>1, <3>2, ToldStays DEF NInv, Belongs
    <3>3. CASE x = call.row
      BY <2>10, <3>3 DEF Exists
    <3> QED BY <2>7, <3>2, <3>3
  <2> QED BY <2>4, <2>9, <2>11 DEF SaverShape
<1>6. CASE SavingFails(s)
  <2>1. /\ file' = file /\ pc[s] \in {"saving", "storing"}
        /\ pc'[s] = "answered"
    BY <1>6 DEF SavingFails, KInv, TypeOK
  <2> QED BY <1>1, <2>1 DEF SaverShape
<1> QED BY <1>2, <1>3, <1>4, <1>5, <1>6 DEF Save

(* The calls of an import: the product, then one for each plugin. *)
LEMMA ImportCallsAre ==
    ASSUME NEW p \in Packages
    PROVE  /\ ImportCalls(p) # <<>>
           /\ Head(ImportCalls(p)) = Call("products", "add", ProductRow(p))
           /\ DOMAIN Tail(ImportCalls(p)) = DOMAIN Ready(p)
           /\ \A n \in DOMAIN Ready(p) : Tail(ImportCalls(p))[n] =
                Call("configurations", "upsert", ConfigurationRow(p, Ready(p)[n].id))
<1> DEFINE first == Call("products", "add", ProductRow(p))
           rest == [n \in DOMAIN Ready(p) |->
                      Call("configurations", "upsert",
                           ConfigurationRow(p, Ready(p)[n].id))]
<1>1. DOMAIN Ready(p) = 1..Len(Ready(p)) /\ Len(Ready(p)) \in Nat
  BY PackageIsTyped
<1>2. \A n \in DOMAIN Ready(p) : rest[n] \in Puttings
  BY PackageIsTyped DEF Puttings
<1>3. DOMAIN rest = 1..Len(Ready(p)) /\ rest = [n \in 1..Len(Ready(p)) |-> rest[n]]
  BY <1>1
<1>4. rest \in Seq(Puttings) /\ first \in Puttings
  <2>1. first \in Puttings
    BY DEF Puttings
  <2> HIDE DEF rest
  <2> QED BY <1>1, <1>2, <1>3, <2>1
<1>5. \A n \in DOMAIN Ready(p) : rest[n] =
        Call("configurations", "upsert", ConfigurationRow(p, Ready(p)[n].id))
  OBVIOUS
<1>6. ImportCalls(p) = <<first>> \o rest
  BY DEF ImportCalls
<1> HIDE DEF first, rest
<1>7. /\ ImportCalls(p) # <<>> /\ Head(ImportCalls(p)) = first
      /\ Tail(ImportCalls(p)) = rest
  BY <1>4, <1>6
<1> QED BY <1>1, <1>3, <1>5, <1>7 DEF first

(* The calls of its cleanup: one for each plugin, then the product. *)
LEMMA CleanupCallsAre ==
    ASSUME NEW p \in Packages, NEW done \in Seq(PluginIds), NEW x \in PluginIds
    PROVE  /\ CleanupCalls(p, done, x) \in Seq(Cleanings)
           /\ Len(CleanupCalls(p, done, x)) = Len(done) + 2
           /\ CleanupCalls(p, done, x)[Len(done) + 2]
                = Call("products", "remove", ProductRow(p))
           /\ \A n \in 1..(Len(done) + 1) : CleanupCalls(p, done, x)[n] =
                Call("configurations", "delete",
                     ConfigurationRow(p, Append(done, x)[n]))
<1> DEFINE ids == Append(done, x)
           last == Call("products", "remove", ProductRow(p))
           first == [n \in 1..(Len(done) + 1) |->
                        Call("configurations", "delete",
                             ConfigurationRow(p, ids[n]))]
<1>1. \A n \in 1..(Len(done) + 1) : first[n] \in Cleanings
  BY DEF Cleanings
<1>2. last \in Cleanings /\ Len(done) + 1 \in Nat
  BY DEF Cleanings
<1>3. DOMAIN first = 1..(Len(done) + 1) /\ first = [n \in 1..(Len(done) + 1) |-> first[n]]
  OBVIOUS
<1>4. \A n \in 1..(Len(done) + 1) : first[n] =
        Call("configurations", "delete", ConfigurationRow(p, ids[n]))
  OBVIOUS
<1>5. CleanupCalls(p, done, x) = first \o <<last>>
  BY DEF CleanupCalls
<1> HIDE DEF first, last, ids
<1>6. first \in Seq(Cleanings) /\ Len(first) = Len(done) + 1
  BY <1>1, <1>2, <1>3
<1>7. /\ CleanupCalls(p, done, x) \in Seq(Cleanings)
      /\ Len(CleanupCalls(p, done, x)) = Len(done) + 2
      /\ CleanupCalls(p, done, x)[Len(done) + 2] = last
      /\ \A n \in 1..(Len(done) + 1) : CleanupCalls(p, done, x)[n] = first[n]
  BY <1>2, <1>5, <1>6
<1> QED BY <1>4, <1>7 DEF last, ids

(* What each call makes of its file. *)
LEMMA UpsertConfigures ==
    ASSUME NEW rows, NEW p, NEW done, NEW x
    PROVE  After("configurations",
                 Call("configurations", "upsert", ConfigurationRow(p, x)),
                 Configured(rows, p, done))
             = Configured(rows, p, done \union {x})
BY DEF After, Call, Found, Configured, ConfigurationRow

LEMMA DeleteClears ==
    ASSUME NEW rows, NEW p, NEW x
    PROVE  After("configurations",
                 Call("configurations", "delete", ConfigurationRow(p, x)), rows)
             = {a \in rows : ~(a.product = p.id /\ a.id = x)}
BY DEF After, Call, Found, Filtered, Writes, ConfigurationRow

LEMMA RemoveClears ==
    ASSUME NEW rows, NEW p
    PROVE  After("products", Call("products", "remove", ProductRow(p)), rows)
             = {a \in rows : a.id # p.id}
BY DEF After, Call, Found, Filtered, Writes, ProductRow

(* A list of calls without its first. *)
LEMMA TailIs ==
    ASSUME NEW S, NEW s \in Seq(S), s # <<>>
    PROVE  /\ Tail(s) \in Seq(S) /\ Len(s) \in Nat \ {0}
           /\ Len(Tail(s)) = Len(s) - 1 /\ DOMAIN Tail(s) = 1..(Len(s) - 1)
           /\ DOMAIN s = 1..Len(s) /\ 1 \in DOMAIN s /\ Head(s) = s[1]
           /\ \A n \in 1..(Len(s) - 1) : Tail(s)[n] = s[n + 1]
           /\ Len(s) = 1 <=> Tail(s) = <<>>
<1>1. Len(s) \in Nat \ {0} /\ DOMAIN s = 1..Len(s)
  OBVIOUS
<1>2. /\ Tail(s) \in Seq(S) /\ Len(Tail(s)) = Len(s) - 1
      /\ \A n \in 1..(Len(s) - 1) : Tail(s)[n] = s[n + 1]
  OBVIOUS
<1>3. DOMAIN Tail(s) = 1..(Len(s) - 1)
  BY <1>1, <1>2
<1>4. Len(s) = 1 <=> Tail(s) = <<>>
  <2>1. \A t \in Seq(S) : Len(t) = 0 <=> t = <<>>
    OBVIOUS
  <2>2. Len(Tail(s)) = 0 <=> Len(s) = 1
    BY <1>1, <1>2
  <2> QED BY <1>2, <2>1, <2>2
<1> QED BY <1>1, <1>2, <1>3, <1>4

LEMMA AppendedRange ==
    ASSUME NEW S, NEW s \in Seq(S), NEW x
    PROVE  Range(Append(s, x)) = Range(s) \union {x}
BY DEF Range

(* What has been told of the packages before is never taken back. *)
LEMMA ImportTellsOn ==
    ASSUME KInv, NEW i \in Importer, ImporterShape(i), Import(i)
    PROVE  TellsOn(i)
<1> USE DEF TellsOn, NextPackage, Goto, importing, KInv, TypeOK
<1>1. CASE BeginImport(i)
  BY <1>1 DEF BeginImport, Begin, ImporterShape
<1>2. CASE ReviewImport(i)
  BY <1>2 DEF ReviewImport, ImporterShape
<1>3. CASE StartPackage(i)
  <2>1. CASE CanImport(i, Package(i))
    BY <1>3, <2>1 DEF StartPackage
  <2>2. CASE ~CanImport(i, Package(i))
    BY <1>3, <2>2 DEF StartPackage
  <2> QED BY <2>1, <2>2
<1>4. CASE ReadForImport(i)
  BY <1>4 DEF ReadForImport
<1>5. CASE WriteForImport(i)
  BY <1>5 DEF WriteForImport
<1>6. CASE ImportFails(i)
  <2>1. CASE Head(todo[i]).kind = "products"
    BY <1>6, <2>1 DEF ImportFails
  <2>2. CASE Head(todo[i]).kind # "products"
    BY <1>6, <2>2 DEF ImportFails
  <2> QED BY <2>1, <2>2
<1>7. CASE PackageCreated(i)
  BY <1>7 DEF PackageCreated
<1>8. CASE ReadForCleanup(i)
  BY <1>8 DEF ReadForCleanup
<1>9. CASE WriteForCleanup(i)
  BY <1>9 DEF WriteForCleanup
<1>10. CASE CleanupFails(i)
  BY <1>10 DEF CleanupFails
<1>11. CASE PackageFailed(i)
  BY <1>11 DEF PackageFailed
<1>12. CASE AllImported(i)
  BY <1>12 DEF AllImported
<1> QED
  BY <1>1, <1>2, <1>3, <1>4, <1>5, <1>6, <1>7, <1>8, <1>9, <1>10, <1>11, <1>12
     DEF Import

(* A package has been dealt with. *)
LEMMA NextPackageShape ==
    ASSUME KInv, NEW i \in Importer, bundle[i] \in Bundle,
           Len(report[i]) < Len(bundle[i]), NEW status,
           NextPackage(i, status), bundle' = bundle
    PROVE  pc'[i] = "importing" /\ Len(report'[i]) = Len(report[i]) + 1
           /\ ImporterShape(i)'
<1>1. Len(report[i]) \in Nat /\ Len(bundle[i]) \in Nat /\ i \in Request
  BY BundleAssumption DEF KInv, TypeOK, Request
<1>2. /\ pc'[i] = "importing"
      /\ report'[i] = Append(report[i], ImportResult(i, status))
  BY <1>1 DEF NextPackage, Goto, KInv, TypeOK
<1>3. Len(report'[i]) = Len(report[i]) + 1
  BY <1>2 DEF KInv, TypeOK
<1> QED BY <1>1, <1>2, <1>3 DEF ImporterShape

(* The steps of an import that add to the files. *)
LEMMA WriteForImportShape ==
    ASSUME KInv, SInv, NInv, serial, NEW i \in Importer, WriteForImport(i)
    PROVE  OwnIds' /\ Belongs' /\ ImporterShape(i)'
<1> i \in Request /\ Moves(i) /\ ImporterShape(i) /\ OneAtATime /\ TellsOn(i)
  BY ImportMoves, ImportTellsOn DEF Request, SInv, NInv, Import
<1> PICK p, b : p = Package(i) /\ b = before[i]
  OBVIOUS
<1> DEFINE call == Head(todo[i])
<1>1. /\ pc[i] = "writing" /\ complete[i] /\ copy[i] = file[call.kind]
      /\ NotAdded(i) \/ (OldAreTold(i) /\ AddedSoFar(i))
      /\ Len(report[i]) < Len(bundle[i]) /\ DOMAIN b = Files
  BY DEF WriteForImport, ImporterShape
<1>2. /\ p \in Packages /\ todo[i] \in Seq(Puttings) /\ todo[i] # <<>>
      /\ Ready2Write(i, call) /\ DOMAIN file = Files
      /\ configured[i] \in Seq(PluginIds)
  BY <1>1 DEF KInv, TypeOK, ImporterOK
<1>3. /\ pc'[i] = "putting" /\ todo'[i] = Tail(todo[i])
      /\ file' = [file EXCEPT ![call.kind] = After(call.kind, call, file[call.kind])]
      /\ before' = before /\ complete' = complete /\ bundle' = bundle
      /\ report' = report
      /\ configured'[i] = IF call.kind = "products" THEN configured[i]
                          ELSE Append(configured[i], call.row.id)
  BY <1>1 DEF WriteForImport, Goto, KInv, TypeOK
<1>4. Package(i)' = p
  BY <1>3 DEF Package
<1>5. \A x : ~CleansInPart(x)
  BY <1>1, NoneCleans
<1>6. CASE NotAdded(i)
  <2>1. /\ file = b /\ configured[i] = <<>>
        /\ call = Call("products", "add", ProductRow(p))
        /\ DOMAIN todo'[i] = DOMAIN Ready(p)
        /\ \A n \in DOMAIN Ready(p) : todo'[i][n] =
             Call("configurations", "upsert", ConfigurationRow(p, Ready(p)[n].id))
    BY <1>2, <1>3, <1>6, ImportCallsAre DEF NotAdded
  <2>2. /\ call.kind = "products" /\ call.method = "add"
        /\ call.row = ProductRow(p)
        /\ ProductRow(p).id = p.id /\ ProductRow(p).product = p.id
        /\ ProductRow(p).body = p.name
    BY <2>1 DEF Call, ProductRow
  <2>3. \A a \in b["products"] : a.id # p.id /\ a.body # p.name
    BY <1>1, <1>2, <2>1, <2>2 DEF Ready2Write, Raises, Clash
  <2>4. file' = [file EXCEPT !["products"] = @ \union {ProductRow(p)}]
    BY <1>3, <2>2 DEF After
  <2> HIDE DEF call
  <2>5. /\ file'["products"] = file["products"] \union {ProductRow(p)}
        /\ \A k \in Files \ {"products"} : file'[k] = file[k]
    BY <1>2, <2>4 DEF Files
  <2>6. OwnIds'
    BY <2>2, <2>5 DEF OwnIds, NInv
  <2>7. Belongs'
    <3> SUFFICES ASSUME NEW k \in Files, NEW a \in file'[k]
                 PROVE  Exists(a.product)' \/ Told(a.product)'
      BY DEF Belongs
    <3>1. CASE a \in file[k]
      <4>1. Exists(a.product) => Exists(a.product)'
        BY <2>5 DEF Exists
      <4> QED BY <3>1, <4>1, <1>5, ToldStays DEF NInv, Belongs
    <3>2. CASE a = ProductRow(p)
      BY <2>2, <2>5, <3>2 DEF Exists
    <3> QED BY <2>5, <3>1, <3>2
  <2>8. OldAreTold(i)'
    <3>1. ASSUME NEW k \in Files, NEW a \in file[k], a.product = p.id
          PROVE  Told(p.id)
      <4>1. ~Exists(p.id)
        BY <2>1, <2>3 DEF Exists
      <4> QED BY <3>1, <4>1, <1>5 DEF NInv, Belongs
    <3>2. Told(p.id) => Told(p.id)'
      BY <1>3, <1>4, ToldStays
    <3>3. Told(p.id)' \/ \A k \in Files : \A a \in b[k] : a.product # p.id
      BY <2>1, <3>1, <3>2
    <3> QED BY <1>3, <1>4, <3>3 DEF OldAreTold
  <2>9. AddedSoFar(i)'
    <3>1. Range(configured'[i]) = {}
      BY <1>3, <2>1, <2>2 DEF Range
    <3>2. Configured(b["configurations"], p, {}) = b["configurations"]
      BY DEF Configured
    <3>3. \A n \in DOMAIN todo'[i] : \E x \in ReadyIds(p) :
             todo'[i][n] = Call("configurations", "upsert", ConfigurationRow(p, x))
      BY <2>1 DEF ReadyIds
    <3>4. ReadyIds(p) = {todo'[i][n].row.id : n \in DOMAIN todo'[i]}
      <4>1. ASSUME NEW n \in DOMAIN Ready(p)
            PROVE  todo'[i][n].row.id = Ready(p)[n].id
        <5>1. todo'[i][n] = Call("configurations", "upsert",
                                 ConfigurationRow(p, Ready(p)[n].id))
          BY <2>1
        <5> QED BY <5>1 DEF Call, ConfigurationRow
      <4> QED BY <2>1, <4>1 DEF ReadyIds
    <3>5. NewTo(b, p)
      BY <2>3 DEF NewTo
    <3>6. file'["configurations"]
            = Configured(before'[i]["configurations"], p, Range(configured'[i]))
      BY <1>3, <2>1, <2>5, <3>1, <3>2 DEF Files
    <3>7. ReadyIds(p) = Range(configured'[i])
                          \union {todo'[i][n].row.id : n \in DOMAIN todo'[i]}
      BY <3>1, <3>4
    <3>8. /\ file'["products"] = before'[i]["products"] \union {ProductRow(p)}
          /\ \A k \in {"snapshots", "profiles"} : file'[k] = before'[i][k]
      BY <1>3, <2>1, <2>5 DEF Files
    <3>9. NewTo(before'[i], p) /\ \A a \in before'[i]["products"] : a.body # p.name
      BY <1>3, <2>3, <3>5
    <3> QED BY <1>4, <3>3, <3>6, <3>7, <3>8, <3>9 DEF AddedSoFar
  <2> QED BY <1>1, <1>3, <2>6, <2>7, <2>8, <2>9 DEF ImporterShape
<1>7. CASE OldAreTold(i) /\ AddedSoFar(i)
  <2>1. PICK x \in ReadyIds(p) :
            call = Call("configurations", "upsert", ConfigurationRow(p, x))
    BY <1>2, <1>7 DEF AddedSoFar
  <2>2. /\ call.kind = "configurations" /\ call.row.id = x
        /\ \A r : ConfigurationRow(p, r).product = p.id
    BY <2>1 DEF Call, ConfigurationRow
  <2> DEFINE done == Range(configured[i])
  <2>3. After("configurations", call, file["configurations"])
          = Configured(b["configurations"], p, done \union {x})
    BY <1>7, <2>1, UpsertConfigures DEF AddedSoFar
  <2>4. Range(configured'[i]) = done \union {x}
    BY <1>2, <1>3, <2>2, AppendedRange
  <2> HIDE DEF call
  <2>5. /\ file'["configurations"]
              = Configured(b["configurations"], p, done \union {x})
        /\ \A k \in Files \ {"configurations"} : file'[k] = file[k]
    BY <1>2, <1>3, <2>2, <2>3 DEF Files
  <2>6. file'["products"] = file["products"]
    BY <2>5 DEF Files
  <2>7. OwnIds'
    BY <2>6 DEF OwnIds, NInv
  <2>8. \A a \in file'["configurations"] :
            a \in file["configurations"] \/ a.product = p.id
    BY <1>7, <2>2, <2>5 DEF AddedSoFar, Configured
  <2>9. Exists(p.id)
    <3>1. ProductRow(p) \in file["products"]
      BY <1>7 DEF AddedSoFar
    <3>2. ProductRow(p).id = p.id
      BY DEF ProductRow
    <3> QED BY <3>1, <3>2 DEF Exists
  <2>10. Belongs'
    <3> SUFFICES ASSUME NEW k \in Files, NEW a \in file'[k]
                 PROVE  Exists(a.product)' \/ Told(a.product)'
      BY DEF Belongs
    <3>1. a \in file[k] \/ a.product = p.id
      BY <2>5, <2>8
    <3>2. \A q : Exists(q) => Exists(q)'
      BY <2>6 DEF Exists
    <3> QED BY <2>9, <3>1, <3>2, <1>5, ToldStays DEF NInv, Belongs
  <2>11. OldAreTold(i)'
    <3>1. Told(p.id) => Told(p.id)'
      BY ToldStays
    <3> QED BY <1>3, <1>4, <1>7, <3>1 DEF OldAreTold
  <2>12. AddedSoFar(i)'
    <3>1. \A n \in DOMAIN todo'[i] : \E y \in ReadyIds(p) :
             todo'[i][n] = Call("configurations", "upsert", ConfigurationRow(p, y))
      <4>1. \A n \in DOMAIN todo'[i] : n + 1 \in DOMAIN todo[i]
                                        /\ todo'[i][n] = todo[i][n + 1]
        BY <1>2, <1>3
      <4> QED BY <1>7, <4>1 DEF AddedSoFar
    <3>2. {todo[i][n].row.id : n \in DOMAIN todo[i]}
            = {x} \union {todo'[i][n].row.id : n \in DOMAIN todo'[i]}
      <4>1. \A n \in DOMAIN todo'[i] : n + 1 \in DOMAIN todo[i]
                                        /\ todo'[i][n] = todo[i][n + 1]
        BY <1>2, <1>3
      <4>2. \A n \in DOMAIN todo[i] : n # 1 => /\ n - 1 \in DOMAIN todo'[i]
                                                  /\ todo'[i][n - 1] = todo[i][n]
        BY <1>2, <1>3
      <4>3. 1 \in DOMAIN todo[i] /\ todo[i][1].row.id = x
        BY <1>2, <2>2 DEF call
      <4> QED BY <4>1, <4>2, <4>3
    <3>3. ReadyIds(p) = (done \union {x})
                          \union {todo'[i][n].row.id : n \in DOMAIN todo'[i]}
      BY <1>7, <3>2 DEF AddedSoFar
    <3>4. \A k \in {"snapshots", "profiles"} : file'[k] = file[k]
      BY <2>5 DEF Files
    <3> HIDE DEF done
    <3> QED BY <1>3, <1>4, <1>7, <2>4, <2>5, <2>6, <3>1, <3>3, <3>4 DEF AddedSoFar
  <2> QED BY <1>1, <1>3, <2>7, <2>10, <2>11, <2>12 DEF ImporterShape
<1> QED BY <1>1, <1>6, <1>7

(* The import of a package fails. *)
LEMMA ImportFailsShape ==
    ASSUME KInv, SInv, NInv, serial, NEW i \in Importer, ImportFails(i)
    PROVE  ImporterShape(i)' /\ pc[i] \notin {"clearing", "cleaning"}
<1> i \in Request /\ Moves(i) /\ ImporterShape(i) /\ TellsOn(i)
  BY ImportMoves, ImportTellsOn DEF Request, SInv, NInv, Import
<1> PICK p, b : p = Package(i) /\ b = before[i]
  OBVIOUS
<1> DEFINE call == Head(todo[i])
<1>1. /\ pc[i] \in {"putting", "writing"} /\ complete[i] /\ todo[i] # <<>>
      /\ NotAdded(i) \/ (OldAreTold(i) /\ AddedSoFar(i))
      /\ Len(report[i]) < Len(bundle[i]) /\ DOMAIN b = Files
  BY DEF ImportFails, ImporterShape
<1>2. /\ p \in Packages /\ todo[i] \in Seq(Puttings) /\ bundle[i] \in Bundle
      /\ configured[i] \in Seq(PluginIds) /\ call \in Puttings
  <2>1. ImporterOK(i) /\ configured[i] \in Seq(PluginIds)
    BY DEF KInv, TypeOK
  <2>2. /\ Package(i) \in Packages /\ todo[i] \in Seq(Puttings)
        /\ bundle[i] \in Bundle
    BY <1>1, <2>1 DEF ImporterOK
  <2>3. Head(todo[i]) \in Puttings
    BY <1>1, <2>2
  <2> QED BY <2>1, <2>2, <2>3
<1>3. CASE NotAdded(i)
  <2>1. call.kind = "products"
    BY <1>2, <1>3, ImportCallsAre DEF NotAdded, Call
  <2>2. NextPackage(i, "FAILED") /\ bundle' = bundle
    BY <2>1 DEF ImportFails
  <2> QED BY <1>1, <1>2, <2>2, NextPackageShape
<1>4. CASE OldAreTold(i) /\ AddedSoFar(i)
  <2>1. PICK x \in ReadyIds(p) :
            call = Call("configurations", "upsert", ConfigurationRow(p, x))
    BY <1>1, <1>2, <1>4 DEF AddedSoFar
  <2>2. call.kind = "configurations" /\ call.row.id = x
    BY <2>1 DEF Call, ConfigurationRow
  <2>3. x \in PluginIds
    BY <1>2, <2>2, CallsAreCalls
  <2> DEFINE calls == CleanupCalls(p, configured[i], x)
             last == Len(configured[i]) + 2
  <2>4. /\ todo'[i] = calls /\ pc'[i] = "clearing" /\ report' = report
        /\ bundle' = bundle /\ file' = file /\ before' = before
        /\ complete' = complete
    BY <2>2 DEF ImportFails, Goto, KInv, TypeOK
  <2>5. Package(i)' = p
    BY <2>4 DEF Package
  <2>6. /\ calls \in Seq(Cleanings) /\ Len(calls) = last
        /\ calls[last] = Call("products", "remove", ProductRow(p))
        /\ \A n \in 1..(last - 1) : calls[n] =
             Call("configurations", "delete",
                  ConfigurationRow(p, Append(configured[i], x)[n]))
        /\ Len(configured[i]) \in Nat
    BY <1>2, <2>3, CleanupCallsAre
  <2> HIDE DEF call, calls
  <2>7. /\ calls # <<>> /\ DOMAIN calls = 1..last
    BY <2>6
  <2>8. OldAreTold(i)'
    <3>1. Told(p.id) => Told(p.id)'
      BY ToldStays
    <3> QED BY <1>4, <2>4, <2>5, <3>1 DEF OldAreTold
  <2>9. ClearedSoFar(i)'
    <3>1. /\ NewTo(b, p)
          /\ file["products"] = b["products"] \union {ProductRow(p)}
          /\ file["configurations"] =
                Configured(b["configurations"], p, Range(configured[i]))
          /\ \A k \in {"snapshots", "profiles"} : file[k] = b[k]
      BY <1>4 DEF AddedSoFar
    <3>2. {a \in file["products"] : a.id # p.id} = b["products"]
      BY <3>1 DEF NewTo, ProductRow
    <3>3. {a \in file["configurations"] : a.product # p.id}
            = {a \in b["configurations"] : a.product # p.id}
      BY <3>1 DEF Configured, ConfigurationRow
    <3>4. ASSUME NEW n \in DOMAIN calls
          PROVE  IF n = Len(calls)
                 THEN calls[n] = Call("products", "remove", ProductRow(p))
                 ELSE calls[n] = Call("configurations", "delete",
                                      ConfigurationRow(p, calls[n].row.id))
      <4>1. CASE n = last
        BY <2>6, <4>1
      <4>2. CASE n # last
        <5>1. n \in 1..(last - 1)
          BY <2>6, <2>7, <4>2
        <5>2. PICK y : calls[n] = Call("configurations", "delete",
                                       ConfigurationRow(p, y))
          BY <2>6, <5>1
        <5>3. calls[n].row.id = y
          BY <5>2 DEF Call, ConfigurationRow
        <5> QED BY <2>6, <4>2, <5>2, <5>3
      <4> QED BY <4>1, <4>2
    <3>5. ASSUME NEW a \in file["configurations"] \ b["configurations"]
          PROVE  \E n \in DOMAIN calls : calls[n] =
                    Call("configurations", "delete", ConfigurationRow(p, a.id))
      <4>1. PICK y \in Range(configured[i]) : a = ConfigurationRow(p, y)
        BY <3>1 DEF Configured
      <4>2. PICK n \in 1..Len(configured[i]) : configured[i][n] = y
        BY <1>2 DEF Range
      <4>3. a.id = y
        BY <4>1 DEF ConfigurationRow
      <4>4. Append(configured[i], x)[n] = y /\ n \in 1..(last - 1)
        BY <1>2, <4>2
      <4> QED BY <2>6, <2>7, <4>3, <4>4
    <3> QED BY <2>4, <2>5, <2>7, <3>1, <3>2, <3>3, <3>4, <3>5 DEF ClearedSoFar
  <2> QED BY <1>1, <2>4, <2>8, <2>9 DEF ImporterShape
<1> QED BY <1>1, <1>3, <1>4

(* A cleanup that has lost its product has nothing of it, or is incomplete. *)
LEMMA ClearedBelongs ==
    ASSUME KInv, NEW i \in Importer, OwnIds, OldAreTold(i), ClearedSoFar(i),
           todo[i] = <<>>, complete[i], NEW k \in Files, NEW a \in file[k],
           a.product = Package(i).id
    PROVE  Told(Package(i).id)
<1> PICK p, b : p = Package(i) /\ b = before[i]
  OBVIOUS
<1>1. CASE k = "products"
  <2>1. a.id = p.id /\ a \in b["products"]
    BY <1>1 DEF OwnIds, ClearedSoFar
  <2> QED BY <2>1 DEF ClearedSoFar, NewTo
<1>2. CASE k = "configurations"
  <2>1. a \in b[k]
    BY <1>2 DEF ClearedSoFar
  <2> QED BY <2>1 DEF OldAreTold
<1>3. CASE k \in {"snapshots", "profiles"}
  BY <1>3 DEF ClearedSoFar, OldAreTold
<1> QED BY <1>1, <1>2, <1>3 DEF Files

(* One of its calls is done. *)
LEMMA WriteForCleanupShape ==
    ASSUME KInv, SInv, NInv, serial, NEW i \in Importer, WriteForCleanup(i)
    PROVE  OwnIds' /\ Belongs' /\ ImporterShape(i)'
<1> i \in Request /\ Moves(i) /\ ImporterShape(i) /\ OneAtATime /\ TellsOn(i)
  BY ImportMoves, ImportTellsOn DEF Request, SInv, NInv, Import
<1> PICK p, b : p = Package(i) /\ b = before[i]
  OBVIOUS
<1> DEFINE call == Head(todo[i])
<1>1. /\ pc[i] = "cleaning" /\ copy[i] = file[call.kind]
      /\ OldAreTold(i) /\ ClearedSoFar(i)
      /\ Len(report[i]) < Len(bundle[i]) /\ DOMAIN b = Files
  BY DEF WriteForCleanup, ImporterShape
<1>2. /\ todo[i] \in Seq(Cleanings) /\ todo[i] # <<>> /\ DOMAIN file = Files
  BY <1>1 DEF KInv, TypeOK, ImporterOK
<1>3. /\ pc'[i] = "clearing" /\ todo'[i] = Tail(todo[i])
      /\ file' = [file EXCEPT ![call.kind] = After(call.kind, call, file[call.kind])]
      /\ before' = before /\ complete' = complete /\ bundle' = bundle
      /\ report' = report
  BY <1>1 DEF WriteForCleanup, Goto, KInv, TypeOK
<1>4. Package(i)' = p
  BY <1>3 DEF Package
<1>5. \A n \in DOMAIN todo'[i] : n + 1 \in DOMAIN todo[i]
          /\ todo'[i][n] = todo[i][n + 1]
          /\ (n = Len(todo'[i]) <=> n + 1 = Len(todo[i]))
  BY <1>2, <1>3, TailIs
<1>6. \A n \in DOMAIN todo[i] : n # 1 =>
          /\ n - 1 \in DOMAIN todo'[i] /\ todo'[i][n - 1] = todo[i][n]
  <2>1. \A n \in 1..(Len(todo[i]) - 1) : todo'[i][n] = todo[i][n + 1]
    BY <1>2, <1>3, TailIs
  <2>2. /\ DOMAIN todo'[i] = 1..(Len(todo[i]) - 1) /\ Len(todo[i]) \in Nat
        /\ DOMAIN todo[i] = 1..Len(todo[i])
    BY <1>2, <1>3, TailIs
  <2> QED BY <2>1, <2>2
<1>7. \A n \in DOMAIN todo'[i] :
         IF n = Len(todo'[i])
         THEN todo'[i][n] = Call("products", "remove", ProductRow(p))
         ELSE todo'[i][n] = Call("configurations", "delete",
                                 ConfigurationRow(p, todo'[i][n].row.id))
  BY <1>1, <1>5 DEF ClearedSoFar
<1>8. /\ NewTo(b, p)
      /\ {a \in file["products"] : a.id # p.id} = b["products"]
      /\ {a \in file["configurations"] : a.product # p.id}
            = {a \in b["configurations"] : a.product # p.id}
      /\ \A k \in {"snapshots", "profiles"} : file[k] = b[k]
      /\ file["products"] = b["products"] \union {ProductRow(p)}
  BY <1>1, <1>2 DEF ClearedSoFar
<1>9. OldAreTold(i)'
  <2>1. Told(p.id) => Told(p.id)'
    BY ToldStays
  <2> QED BY <1>1, <1>3, <1>4, <2>1 DEF OldAreTold
<1>10. ASSUME NEW q, q # p.id
       PROVE  /\ Told(q) => Told(q)'
              /\ CleansInPart(q) => FALSE
  <2>1. ASSUME NEW j \in Importer, pc[j] \in {"clearing", "cleaning"}
        PROVE  j = i
    <3>1. j \in Request /\ pc[j] \in Active
      BY <2>1 DEF Request, Active
    <3> QED BY <3>1, Alone
  <2> QED BY <1>10, <2>1, ToldStays DEF CleansInPart
<1>11. CASE Len(todo[i]) = 1
  <2>1. call = Call("products", "remove", ProductRow(p)) /\ todo'[i] = <<>>
    <3>1. 1 \in DOMAIN todo[i] /\ call = todo[i][1] /\ todo'[i] = <<>>
      BY <1>2, <1>3, <1>11, TailIs
    <3>2. todo[i][1] = Call("products", "remove", ProductRow(p))
      BY <1>1, <1>11, <3>1 DEF ClearedSoFar
    <3> QED BY <3>1, <3>2
  <2>2. call.kind = "products"
    BY <2>1 DEF Call
  <2>3. /\ file'["products"] = b["products"]
        /\ \A k \in Files \ {"products"} : file'[k] = file[k]
    <3>1. After("products", call, file["products"]) = b["products"]
      <4>1. After("products", Call("products", "remove", ProductRow(p)),
                  file["products"]) = {a \in file["products"] : a.id # p.id}
        BY RemoveClears
      <4> HIDE DEF call
      <4> QED BY <1>8, <2>1, <4>1
    <3> HIDE DEF call
    <3> QED BY <1>2, <1>3, <2>2, <3>1 DEF Files
  <2>4. complete[i] => file["configurations"] \subseteq b["configurations"]
    <3> SUFFICES ASSUME complete[i], NEW a \in file["configurations"] \ b["configurations"]
                 PROVE  FALSE
      OBVIOUS
    <3>1. PICK n \in DOMAIN todo[i] : todo[i][n] =
              Call("configurations", "delete", ConfigurationRow(p, a.id))
      BY <1>1 DEF ClearedSoFar
    <3>2. n = 1 /\ todo[i][n] = call
      BY <1>2, <1>11, <3>1
    <3> QED BY <2>2, <3>1, <3>2 DEF Call
  <2> HIDE DEF call
  <2>5. ClearedSoFar(i)'
    <3>1. {a \in file'["products"] : a.id # p.id} = b["products"]
      BY <1>8, <2>3 DEF NewTo
    <3>2. file'["configurations"] = file["configurations"]
            /\ \A k \in {"snapshots", "profiles"} : file'[k] = b[k]
      BY <1>8, <2>3 DEF Files
    <3>3. before'[i] = b /\ complete'[i] = complete[i] /\ todo'[i] = <<>>
      BY <1>3, <2>1
    <3>4. /\ NewTo(before'[i], p)
          /\ {a \in file'["configurations"] : a.product # p.id}
                = {a \in before'[i]["configurations"] : a.product # p.id}
      BY <1>8, <3>2, <3>3
    <3>5. complete'[i] => file'["configurations"] \subseteq before'[i]["configurations"]
      BY <2>4, <3>2, <3>3
    <3>6. {a \in file'["products"] : a.id # p.id} = before'[i]["products"]
      BY <3>1, <3>3
    <3>7. \A k \in {"snapshots", "profiles"} : file'[k] = before'[i][k]
      BY <3>2, <3>3
    <3>8. file'["products"] = before'[i]["products"]
      BY <2>3, <3>3
    <3>9. DOMAIN todo'[i] = {}
      BY <3>3
    <3> QED BY <1>4, <3>3, <3>4, <3>5, <3>6, <3>7, <3>8, <3>9 DEF ClearedSoFar
  <2>6. OwnIds'
    BY <1>8, <2>3 DEF OwnIds, NInv
  <2>7. Belongs'
    <3> SUFFICES ASSUME NEW k \in Files, NEW a \in file'[k]
                 PROVE  Exists(a.product)' \/ Told(a.product)'
                        \/ CleansInPart(a.product)'
      BY DEF Belongs
    <3>1. CASE a.product # p.id
      <4>1. a \in file[k]
        BY <1>8, <2>3
      <4>2. Exists(a.product) => Exists(a.product)'
        BY <1>8, <2>3, <3>1 DEF Exists
      <4> QED BY <1>10, <3>1, <4>1, <4>2 DEF NInv, Belongs
    <3>2. CASE a.product = p.id /\ ~complete[i]
      BY <1>3, <1>4, <3>2 DEF CleansInPart
    <3>3. CASE a.product = p.id /\ complete[i]
      <4>1. k # "products"
        BY <1>8, <2>3, <3>3 DEF OwnIds, NInv, NewTo
      <4>2. a \in b[k]
        BY <1>8, <2>3, <2>4, <3>3, <4>1 DEF Files
      <4>3. Told(p.id)
        BY <1>1, <3>3, <4>2 DEF OldAreTold
      <4> QED BY <3>3, <4>3, ToldStays
    <3> QED BY <3>1, <3>2, <3>3
  <2> QED BY <1>1, <1>3, <1>9, <2>5, <2>6, <2>7 DEF ImporterShape
<1>12. CASE Len(todo[i]) # 1
  <2>1. 1 \in DOMAIN todo[i] /\ call = todo[i][1] /\ 1 # Len(todo[i])
        /\ todo'[i] # <<>>
    BY <1>2, <1>3, <1>12, TailIs
  <2>2. PICK x : call = Call("configurations", "delete", ConfigurationRow(p, x))
    BY <1>1, <2>1 DEF ClearedSoFar
  <2>3. call.kind = "configurations"
    BY <2>2 DEF Call
  <2>4. /\ file'["configurations"] =
             {a \in file["configurations"] : ~(a.product = p.id /\ a.id = x)}
        /\ \A k \in Files \ {"configurations"} : file'[k] = file[k]
    <3>1. After("configurations", call, file["configurations"])
            = {a \in file["configurations"] : ~(a.product = p.id /\ a.id = x)}
      BY <2>2, DeleteClears
    <3> HIDE DEF call
    <3> QED BY <1>2, <1>3, <2>3, <3>1 DEF Files
  <2> HIDE DEF call
  <2>5. file'["products"] = file["products"]
          /\ \A k \in {"snapshots", "profiles"} : file'[k] = b[k]
    BY <1>8, <2>4 DEF Files
  <2>6. complete[i] =>
          \A a \in file'["configurations"] \ b["configurations"] :
             \E n \in DOMAIN todo'[i] : todo'[i][n] =
                 Call("configurations", "delete", ConfigurationRow(p, a.id))
    <3> SUFFICES ASSUME complete[i],
                        NEW a \in file'["configurations"] \ b["configurations"]
                 PROVE  \E n \in DOMAIN todo'[i] : todo'[i][n] =
                          Call("configurations", "delete", ConfigurationRow(p, a.id))
      OBVIOUS
    <3>1. a \in file["configurations"]
      BY <2>4
    <3>2. PICK n \in DOMAIN todo[i] : todo[i][n] =
              Call("configurations", "delete", ConfigurationRow(p, a.id))
      BY <1>1, <3>1 DEF ClearedSoFar
    <3>3. a.product = p.id
      BY <1>8, <3>1
    <3>4. a.id # x
      BY <2>4, <3>3
    <3>5. n # 1
      <4>1. \A y : Call("configurations", "delete", ConfigurationRow(p, y)).row.id = y
        BY DEF Call, ConfigurationRow
      <4>2. todo[i][n].row.id = a.id /\ todo[i][1].row.id = x
        BY <2>1, <2>2, <3>2, <4>1
      <4> QED BY <3>4, <4>2
    <3> QED BY <1>6, <3>2, <3>5
  <2>7. {a \in file'["configurations"] : a.product # p.id}
            = {a \in b["configurations"] : a.product # p.id}
    BY <1>8, <2>4
  <2>8. ClearedSoFar(i)'
    BY <1>3, <1>4, <1>7, <1>8, <2>1, <2>5, <2>6, <2>7 DEF ClearedSoFar
  <2>9. OwnIds'
    BY <2>5 DEF OwnIds, NInv
  <2>10. Belongs'
    <3> SUFFICES ASSUME NEW k \in Files, NEW a \in file'[k]
                 PROVE  Exists(a.product)' \/ Told(a.product)'
      BY DEF Belongs
    <3>1. a \in file[k] /\ (Exists(a.product) => Exists(a.product)')
      BY <2>4, <2>5 DEF Exists
    <3>2. CASE a.product # p.id
      BY <1>10, <3>1, <3>2 DEF NInv, Belongs
    <3>3. CASE a.product = p.id
      <4>1. ProductRow(p) \in file'["products"] /\ ProductRow(p).id = p.id
        BY <1>8, <2>5 DEF ProductRow
      <4> QED BY <3>3, <4>1 DEF Exists
    <3> QED BY <3>2, <3>3
  <2> QED BY <1>1, <1>3, <1>9, <2>8, <2>9, <2>10 DEF ImporterShape
<1> QED BY <1>11, <1>12
(* A call of a cleanup cannot be done, and it goes on. *)
LEMMA CleanupFailsShape ==
    ASSUME KInv, SInv, NInv, serial, NEW i \in Importer, CleanupFails(i)
    PROVE  OwnIds' /\ Belongs' /\ ImporterShape(i)'
<1> i \in Request /\ Moves(i) /\ ImporterShape(i) /\ OneAtATime /\ TellsOn(i)
  BY ImportMoves, ImportTellsOn DEF Request, SInv, NInv, Import
<1> PICK p, b : p = Package(i) /\ b = before[i]
  OBVIOUS
<1>1. /\ pc[i] \in {"clearing", "cleaning"} /\ todo[i] # <<>>
      /\ OldAreTold(i) /\ ClearedSoFar(i)
      /\ Len(report[i]) < Len(bundle[i]) /\ DOMAIN b = Files
  BY DEF CleanupFails, ImporterShape
<1>2. todo[i] \in Seq(Cleanings)
  BY <1>1 DEF KInv, ImporterOK
<1>3. /\ pc'[i] = "clearing" /\ todo'[i] = Tail(todo[i]) /\ file' = file
      /\ before' = before /\ bundle' = bundle /\ report' = report
      /\ ~complete'[i]
  BY DEF CleanupFails, Goto, KInv, TypeOK
<1>4. Package(i)' = p
  BY <1>3 DEF Package
<1>5. OldAreTold(i)'
  <2>1. Told(p.id) => Told(p.id)'
    BY ToldStays
  <2> QED BY <1>1, <1>3, <1>4, <2>1 DEF OldAreTold
<1>6. ClearedSoFar(i)'
  <2>1. \A n \in DOMAIN todo'[i] : n + 1 \in DOMAIN todo[i]
            /\ todo'[i][n] = todo[i][n + 1]
            /\ (n = Len(todo'[i]) <=> n + 1 = Len(todo[i]))
    BY <1>1, <1>2, <1>3, TailIs
  <2>2. \A n \in DOMAIN todo'[i] :
           IF n = Len(todo'[i])
           THEN todo'[i][n] = Call("products", "remove", ProductRow(p))
           ELSE todo'[i][n] = Call("configurations", "delete",
                                   ConfigurationRow(p, todo'[i][n].row.id))
    BY <1>1, <2>1 DEF ClearedSoFar
  <2>3. /\ NewTo(b, p)
        /\ {a \in file["products"] : a.id # p.id} = b["products"]
        /\ {a \in file["configurations"] : a.product # p.id}
                = {a \in b["configurations"] : a.product # p.id}
        /\ \A k \in {"snapshots", "profiles"} : file[k] = b[k]
        /\ file["products"] = b["products"] \union {ProductRow(p)}
    BY <1>1 DEF ClearedSoFar
  <2> QED BY <1>3, <1>4, <2>2, <2>3 DEF ClearedSoFar
<1>7. Belongs'
  <2> SUFFICES ASSUME NEW k \in Files, NEW a \in file[k]
               PROVE  Exists(a.product)' \/ Told(a.product)'
                        \/ CleansInPart(a.product)'
    BY <1>3 DEF Belongs
  <2>1. CASE a.product = p.id
    BY <1>3, <1>4, <2>1 DEF CleansInPart
  <2>2. CASE a.product # p.id
    <3>1. ASSUME NEW j \in Importer, pc[j] \in {"clearing", "cleaning"}
          PROVE  j = i
      <4>1. j \in Request /\ pc[j] \in Active
        BY <3>1 DEF Request, Active
      <4> QED BY <4>1, Alone
    <3>2. ~CleansInPart(a.product)
      BY <2>2, <3>1 DEF CleansInPart
    <3>3. Exists(a.product) => Exists(a.product)'
      BY <1>3 DEF Exists
    <3> QED BY <3>2, <3>3, ToldStays DEF NInv, Belongs
  <2> QED BY <2>1, <2>2
<1>8. OwnIds'
  BY <1>3 DEF OwnIds, NInv
<1> QED BY <1>1, <1>3, <1>5, <1>6, <1>7, <1>8 DEF ImporterShape

(* A package whose import has failed is told of, with what is left of it. *)
LEMMA PackageFailedShape ==
    ASSUME KInv, SInv, NInv, serial, NEW i \in Importer, PackageFailed(i)
    PROVE  OwnIds' /\ Belongs' /\ ImporterShape(i)'
<1> i \in Request /\ Moves(i) /\ ImporterShape(i) /\ OneAtATime /\ TellsOn(i)
  BY ImportMoves, ImportTellsOn DEF Request, SInv, NInv, Import
<1> PICK p, n : p = Package(i) /\ n = Len(report[i]) + 1
  OBVIOUS
<1>1. /\ pc[i] = "clearing" /\ todo[i] = <<>>
      /\ OldAreTold(i) /\ ClearedSoFar(i) /\ Len(report[i]) < Len(bundle[i])
      /\ NextPackage(i, "FAILED") /\ bundle' = bundle /\ file' = file
  BY DEF PackageFailed, ImporterShape
<1>2. bundle[i] \in Bundle /\ report[i] \in Seq(Reports) /\ DOMAIN report = Importer
  BY <1>1 DEF KInv, TypeOK, ImporterOK
<1>3. report'[i] = Append(report[i], ImportResult(i, "FAILED"))
  BY <1>1, <1>2 DEF NextPackage
<1>4. n \in DOMAIN report'[i] /\ report'[i][n] = ImportResult(i, "FAILED")
  BY <1>2, <1>3
<1>5. ~complete[i] => LeftBehind(p.id)'
  <2> SUFFICES ASSUME ~complete[i]
               PROVE  LeftBehind(p.id)'
    OBVIOUS
  <2>1. bundle'[i][n].id = p.id
    BY <1>1 DEF Package
  <2>2. ImportResult(i, "FAILED").complete = ("FAILED" # "FAILED" \/ complete[i])
    BY DEF ImportResult
  <2>3. ~report'[i][n].complete
    BY <1>4, <2>2
  <2> QED BY <1>4, <2>1, <2>3 DEF LeftBehind
<1>6. Belongs'
  <2> SUFFICES ASSUME NEW k \in Files, NEW a \in file[k]
               PROVE  Exists(a.product)' \/ Told(a.product)'
    BY <1>1 DEF Belongs
  <2>1. Exists(a.product) => Exists(a.product)'
    BY <1>1 DEF Exists
  <2>2. CASE a.product = p.id /\ ~complete[i]
    BY <1>5, <2>2 DEF Told
  <2>3. CASE a.product = p.id /\ complete[i]
    <3>1. Told(p.id)
      BY <1>1, <2>3, ClearedBelongs DEF NInv
    <3> QED BY <2>3, <3>1, ToldStays
  <2>4. CASE a.product # p.id
    <3>1. ASSUME NEW j \in Importer, pc[j] \in {"clearing", "cleaning"}
          PROVE  j = i
      <4>1. j \in Request /\ pc[j] \in Active
        BY <3>1 DEF Request, Active
      <4> QED BY <4>1, Alone
    <3>2. ~CleansInPart(a.product)
      BY <2>4, <3>1 DEF CleansInPart
    <3> QED BY <2>1, <3>2, ToldStays DEF NInv, Belongs
  <2> QED BY <2>2, <2>3, <2>4
<1>7. OwnIds'
  BY <1>1 DEF OwnIds, NInv
<1>8. ImporterShape(i)'
  BY <1>1, <1>2, NextPackageShape
<1> QED BY <1>6, <1>7, <1>8

(* Importing, one step at a time. *)
LEMMA ImportKeepsShape ==
    ASSUME KInv, SInv, NInv, serial, NEW i \in Importer, Import(i)
    PROVE  NInv'
<1> i \in Request /\ Moves(i) /\ ImporterShape(i) /\ OneAtATime /\ TellsOn(i)
  BY ImportMoves, ImportTellsOn DEF Request, SInv, NInv
<1>0. i \notin Saver /\ i \notin Deleter
  BY RequestAssumption
<1> SUFFICES OwnIds' /\ Belongs' /\ ImporterShape(i)'
  BY <1>0, OneSerialStep
<1> USE DEF Goto, Answer
<1>1. ASSUME file' = file, pc[i] \notin {"clearing", "cleaning"}
      PROVE  OwnIds' /\ Belongs'
  BY <1>1, NoFileChanges
<1>2. CASE BeginImport(i)
  <2>1. /\ pc'[i] = "reviewing" /\ file' = file /\ before'[i] = file
        /\ pc[i] = "idle" /\ report' = report
    BY <1>2 DEF BeginImport, Begin, KInv, TypeOK
  <2> QED BY <1>1, <2>1 DEF ImporterShape
<1>3. CASE ReviewImport(i)
  <2>1. /\ pc[i] = "reviewing" /\ file' = file /\ bundle' = bundle
        /\ bundle[i] \in Bundle /\ report[i] = <<>>
    BY <1>3 DEF ReviewImport, KInv, ImporterOK, ImporterShape
  <2>2. Len(bundle[i]) \in Nat /\ DOMAIN bundle[i] = 1..Len(bundle[i])
    BY <2>1, BundleAssumption
  <2>3. CASE pc'[i] = "importing" /\ report' = report
    BY <1>1, <2>1, <2>2, <2>3 DEF ImporterShape
  <2>4. CASE pc'[i] = "answered" /\ \E x : report'[i] = [n \in DOMAIN bundle[i] |-> x]
    <3>1. Len(report'[i]) = Len(bundle'[i])
      BY <2>1, <2>2, <2>4
    <3> QED BY <1>1, <2>1, <2>4, <3>1 DEF ImporterShape
  <2>5. \/ pc' = [pc EXCEPT ![i] = "importing"] /\ report' = report
        \/ /\ pc' = [pc EXCEPT ![i] = "answered"]
           /\ report' = [report EXCEPT ![i] = [n \in DOMAIN bundle[i] |->
                [status |-> "FAILED", complete |-> TRUE, plugins |-> <<>>]]]
    BY <1>3 DEF ReviewImport
  <2>6. DOMAIN pc = Request /\ DOMAIN report = Importer
    BY DEF KInv, TypeOK
  <2>7. CASE pc' = [pc EXCEPT ![i] = "importing"] /\ report' = report
    BY <2>3, <2>6, <2>7
  <2>8. ASSUME NEW x, pc' = [pc EXCEPT ![i] = "answered"],
               report' = [report EXCEPT ![i] = [n \in DOMAIN bundle[i] |-> x]]
        PROVE  OwnIds' /\ Belongs' /\ ImporterShape(i)'
    <3>1. pc'[i] = "answered" /\ report'[i] = [n \in DOMAIN bundle[i] |-> x]
      BY <2>6, <2>8
    <3> QED BY <3>1, <2>4
  <2> QED BY <2>5, <2>7, <2>8
<1>4. CASE StartPackage(i)
  <2>1. /\ pc[i] = "importing" /\ file' = file /\ bundle' = bundle
        /\ Len(report[i]) < Len(bundle[i]) /\ bundle[i] \in Bundle
    BY <1>4 DEF StartPackage, KInv, ImporterOK
  <2>2. CASE CanImport(i, Package(i))
    <3>1. /\ pc'[i] = "putting" /\ todo'[i] = ImportCalls(Package(i))
          /\ configured'[i] = <<>> /\ complete'[i] = TRUE
          /\ before'[i] = file /\ report' = report
      BY <1>4, <2>2 DEF StartPackage, KInv, TypeOK
    <3>2. Package(i)' = Package(i) /\ DOMAIN file = Files /\ Lists(file)
      BY <2>1, <3>1 DEF Package, KInv, TypeOK
    <3>3. NotAdded(i)'
      BY <2>1, <3>1, <3>2 DEF NotAdded
    <3> QED BY <1>1, <2>1, <3>1, <3>2, <3>3 DEF ImporterShape
  <2>3. CASE ~CanImport(i, Package(i))
    <3>1. NextPackage(i, "BLOCKED")
      BY <1>4, <2>3 DEF StartPackage
    <3> QED BY <1>1, <2>1, <3>1, NextPackageShape
  <2> QED BY <2>2, <2>3
<1>5. CASE ReadForImport(i)
  <2>1. /\ pc[i] = "putting" /\ pc'[i] = "writing" /\ file' = file
        /\ todo' = todo /\ copy'[i] = file[Head(todo[i]).kind]
        /\ before' = before /\ complete' = complete /\ bundle' = bundle
        /\ report' = report /\ configured' = configured
    BY <1>5 DEF ReadForImport, importing, KInv, TypeOK
  <2>2. Package(i)' = Package(i)
    BY <2>1 DEF Package
  <2>3. NotAdded(i) => NotAdded(i)'
    BY <2>1, <2>2 DEF NotAdded
  <2>4. AddedSoFar(i) => AddedSoFar(i)'
    BY <2>1, <2>2 DEF AddedSoFar
  <2>5. OldAreTold(i) => OldAreTold(i)'
    <3>1. Told(Package(i).id) => Told(Package(i).id)'
      <4> PICK t : t = Package(i).id
        OBVIOUS
      <4> QED BY <2>2, ToldStays
    <3> QED BY <2>1, <2>2, <3>1 DEF OldAreTold
  <2> QED BY <1>1, <2>1, <2>3, <2>4, <2>5 DEF ImporterShape
<1>6. CASE WriteForImport(i)
  BY <1>6, WriteForImportShape
<1>7. CASE ImportFails(i)
  <2>1. file' = file
    BY <1>7 DEF ImportFails
  <2> QED BY <1>1, <1>7, <2>1, ImportFailsShape
<1>8. CASE PackageCreated(i)
  <2>1. /\ pc[i] = "putting" /\ file' = file /\ bundle' = bundle
        /\ Len(report[i]) < Len(bundle[i]) /\ bundle[i] \in Bundle
        /\ NextPackage(i, "CREATED")
    BY <1>8 DEF PackageCreated, KInv, ImporterOK, ImporterShape
  <2> QED BY <1>1, <2>1, NextPackageShape
<1>9. CASE ReadForCleanup(i)
  <2>1. /\ pc[i] = "clearing" /\ pc'[i] = "cleaning" /\ file' = file
        /\ todo' = todo /\ copy'[i] = file[Head(todo[i]).kind]
        /\ before' = before /\ complete' = complete /\ bundle' = bundle
        /\ report' = report /\ configured' = configured
    BY <1>9 DEF ReadForCleanup, importing, KInv, TypeOK
  <2>2. Package(i)' = Package(i)
    BY <2>1 DEF Package
  <2>3. ClearedSoFar(i) => ClearedSoFar(i)'
    BY <2>1, <2>2 DEF ClearedSoFar
  <2>4. OldAreTold(i) => OldAreTold(i)'
    <3>1. Told(Package(i).id) => Told(Package(i).id)'
      <4> PICK t : t = Package(i).id
        OBVIOUS
      <4> QED BY <2>2, ToldStays
    <3> QED BY <2>1, <2>2, <3>1 DEF OldAreTold
  <2>5. OwnIds'
    BY <2>1 DEF OwnIds, NInv
  <2>6. Belongs'
    <3> SUFFICES ASSUME NEW k \in Files, NEW a \in file[k]
                 PROVE  Exists(a.product)' \/ Told(a.product)'
                          \/ CleansInPart(a.product)'
      BY <2>1 DEF Belongs
    <3>1. Exists(a.product) => Exists(a.product)'
      BY <2>1 DEF Exists
    <3>2. CleansInPart(a.product) => CleansInPart(a.product)'
      <4> SUFFICES ASSUME NEW j \in Importer, pc[j] \in {"clearing", "cleaning"},
                          ~complete[j], Package(j).id = a.product
                   PROVE  CleansInPart(a.product)'
        BY DEF CleansInPart
      <4>1. pc'[j] \in {"clearing", "cleaning"}
        <5>1. j = i \/ pc'[j] = pc[j]
          BY DEF Moves, Same, Request
        <5> QED BY <2>1, <5>1
      <4>2. ~complete'[j] /\ Package(j)' = Package(j)
        BY <2>1 DEF Package
      <4> QED BY <4>1, <4>2 DEF CleansInPart
    <3> QED BY <3>1, <3>2, ToldStays DEF NInv, Belongs
  <2> QED BY <2>1, <2>3, <2>4, <2>5, <2>6 DEF ImporterShape
<1>10. CASE WriteForCleanup(i)
  BY <1>10, WriteForCleanupShape
<1>11. CASE CleanupFails(i)
  BY <1>11, CleanupFailsShape
<1>12. CASE PackageFailed(i)
  BY <1>12, PackageFailedShape
<1>13. CASE AllImported(i)
  <2>1. /\ pc[i] = "importing" /\ pc'[i] = "answered" /\ file' = file
        /\ bundle' = bundle /\ report' = report
        /\ Len(report[i]) = Len(bundle[i])
    BY <1>13 DEF AllImported, importing, KInv, TypeOK
  <2> QED BY <1>1, <2>1 DEF ImporterShape
<1> QED
  BY <1>2, <1>3, <1>4, <1>5, <1>6, <1>7, <1>8, <1>9, <1>10, <1>11, <1>12, <1>13
     DEF Import

(* The process dies, and what an import had to tell is told no more. *)
LEMMA CrashKeepsShape ==
    ASSUME KInv, SInv, NInv, serial, Crash, UNCHANGED importing
    PROVE  NInv'
<1>1. /\ file' = file /\ complete' = complete /\ report' = report
      /\ bundle' = bundle /\ removed' = removed /\ stage' = stage
      /\ \A r \in Request : pc'[r] = IF pc[r] \in Active THEN "dead" ELSE pc[r]
  BY DEF Crash, importing
<1>2. \A i \in Importer : Package(i)' = Package(i)
  BY <1>1 DEF Package
<1>3. \A p : Told(p) => Told(p)'
  <2>1. \A p : LeftBehind(p) => LeftBehind(p)'
    BY <1>1 DEF LeftBehind
  <2>2. \A p : Untold(p) => Untold(p)'
    BY <1>1, <1>2 DEF Untold, Request, Active
  <2> QED BY <2>1, <2>2 DEF Told
<1>4. ASSUME NEW p, CleansInPart(p)
      PROVE  Untold(p)'
  <2>1. PICK i \in Importer :
            pc[i] \in {"clearing", "cleaning"} /\ ~complete[i] /\ Package(i).id = p
    BY <1>4 DEF CleansInPart
  <2>2. pc'[i] = "dead"
    BY <1>1, <2>1 DEF Request, Active
  <2>3. Len(report[i]) < Len(bundle[i])
    BY <2>1 DEF NInv, ImporterShape
  <2> QED BY <1>1, <1>2, <2>1, <2>2, <2>3 DEF Untold
<1>5. Belongs'
  <2>1. \A p : Exists(p) => Exists(p)'
    BY <1>1 DEF Exists
  <2> QED BY <1>1, <1>3, <1>4, <2>1 DEF NInv, Belongs, Told
<1>6. OwnIds'
  BY <1>1 DEF OwnIds, NInv
<1>7. ASSUME NEW d \in Deleter
      PROVE  DeleterShape(d)'
  <2>1. /\ pc'[d] = "dead" \/ (pc'[d] = pc[d] /\ pc[d] \notin Active)
        /\ DeleterShape(d)
    BY <1>1 DEF NInv, Request
  <2> QED BY <1>1, <2>1 DEF DeleterShape, NotDeleted, Active
<1>8. ASSUME NEW s \in Saver
      PROVE  SaverShape(s)'
  <2>1. pc'[s] = "dead" \/ (pc'[s] = pc[s] /\ pc[s] \notin Active)
    BY <1>1 DEF Request
  <2> QED BY <2>1 DEF SaverShape, Active
<1>9. ASSUME NEW i \in Importer
      PROVE  ImporterShape(i)'
  <2>1. /\ pc'[i] = "dead" \/ (pc'[i] = pc[i] /\ pc[i] \notin Active)
        /\ ImporterShape(i)
    BY <1>1 DEF NInv, Request
  <2> QED BY <1>1, <2>1 DEF ImporterShape, Active
<1> QED BY <1>5, <1>6, <1>7, <1>8, <1>9 DEF NInv
LEMMA ShapesStay == IInv /\ NInv /\ [Next]_<<vars, importing>> => NInv'
<1> SUFFICES ASSUME KInv, SInv, NInv, [Next]_<<vars, importing>>
             PROVE  NInv'
  BY DEF IInv
<1>1. serial' = serial
  <2>1. ASSUME NEW q \in Request, Moves(q)
        PROVE  serial' = serial
    BY <2>1 DEF Moves, given
  <2>2. ASSUME NEW d \in Deleter, Delete(d), UNCHANGED importing
        PROVE  serial' = serial
    BY <2>1, <2>2, DeleteMoves DEF Request
  <2>3. ASSUME NEW s \in Saver, Save(s), UNCHANGED importing
        PROVE  serial' = serial
    BY <2>1, <2>3, SaveMoves DEF Request
  <2>4. ASSUME NEW i \in Importer, Import(i)
        PROVE  serial' = serial
    BY <2>1, <2>4, ImportMoves DEF Request
  <2>5. CASE Crash \/ UNCHANGED <<vars, importing>>
    BY <2>5 DEF Crash, vars, given
  <2> QED BY <2>2, <2>3, <2>4, <2>5 DEF Next
<1>2. CASE ~serial
  BY <1>1, <1>2 DEF NInv
<1>3. CASE serial /\ Next
  BY <1>3, DeleteKeepsShape, SaveKeepsShape, ImportKeepsShape, CrashKeepsShape
     DEF Next
<1>4. CASE UNCHANGED <<vars, importing>>
  <2> USE <1>4 DEF vars, given, importing
  <2>1. \A i \in Importer : Package(i)' = Package(i)
    BY DEF Package
  <2>2. \A p : /\ Told(p) => Told(p)'
               /\ CleansInPart(p) => CleansInPart(p)'
               /\ Exists(p) => Exists(p)'
    BY <2>1 DEF Told, LeftBehind, Untold, CleansInPart, Exists
  <2>3. OwnIds => OwnIds'
    BY DEF OwnIds
  <2>4. Belongs => Belongs'
    BY <2>2 DEF Belongs
  <2>5. ASSUME NEW d \in Deleter, DeleterShape(d)
        PROVE  DeleterShape(d)'
    <3>1. NotDeleted(d) => NotDeleted(d)'
      BY DEF NotDeleted
    <3>2. Deletable(d) => Deletable(d)'
      BY DEF Deletable
    <3>3. DeletedSoFar(d) => DeletedSoFar(d)'
      BY DEF DeletedSoFar
    <3>4. RestoredSoFar(d) => RestoredSoFar(d)'
      BY DEF RestoredSoFar
    <3> QED BY <2>5, <3>1, <3>2, <3>3, <3>4 DEF DeleterShape
  <2>6. ASSUME NEW s \in Saver, SaverShape(s)
        PROVE  SaverShape(s)'
    BY <2>6 DEF SaverShape, Exists
  <2>7. ASSUME NEW i \in Importer, ImporterShape(i)
        PROVE  ImporterShape(i)'
    <3>1. NotAdded(i) => NotAdded(i)'
      BY <2>1 DEF NotAdded
    <3>2. AddedSoFar(i) => AddedSoFar(i)'
      BY <2>1 DEF AddedSoFar
    <3>3. ClearedSoFar(i) => ClearedSoFar(i)'
      BY <2>1 DEF ClearedSoFar
    <3>4. OldAreTold(i) => OldAreTold(i)'
      <4> PICK t : t = Package(i).id
        OBVIOUS
      <4> QED BY <2>1, <2>2 DEF OldAreTold
    <3> QED BY <2>7, <3>1, <3>2, <3>3, <3>4 DEF ImporterShape
  <2> QED BY <2>3, <2>4, <2>5, <2>6, <2>7 DEF NInv
<1> QED BY <1>2, <1>3, <1>4

LEMMA AlwaysShapely == Spec => [](IInv /\ NInv)
BY StartsRight, StaysInductive, StartsShapely, ShapesStay, PTL DEF Spec

---------------------------------------------------------------------------
(* Requests that come one at a time leave nothing behind for a product that  *)
(* is gone, whatever fails and dies, but what an import has told that it     *)
(* could not clean up, or had no time to tell (NoOrphans): a row is put in   *)
(* only for a product that is there, a deletion takes the product out last   *)
(* and a rollback puts its rows back to it, and an import takes its product  *)
(* out after its configurations (ProductDeletionService.delete,              *)
(* _restore_removed, _product_or_404, _persist_import_product).              *)
THEOREM NoOrphansHolds == Spec => []NoOrphans
<1>1. IInv /\ NInv => NoOrphans
  <2> SUFFICES ASSUME KInv, NInv, serial, \A r \in Request : pc[r] \notin Active,
                      NEW k \in DOMAIN file, NEW a \in file[k]
               PROVE  Exists(a.product) \/ Told(a.product)
    BY DEF NoOrphans, IInv, Exists, Told
  <2>1. k \in Files
    BY DEF KInv, TypeOK
  <2>2. ~CleansInPart(a.product)
    BY DEF CleansInPart, Request, Active
  <2> QED BY <2>1, <2>2 DEF NInv, Belongs
<1> QED BY <1>1, AlwaysShapely, PTL

---------------------------------------------------------------------------
(* Two sets of files with the same lists are the same. *)
LEMMA SameLists ==
    ASSUME NEW f, NEW g, Lists(f), Lists(g), \A k \in Files : f[k] = g[k]
    PROVE  f = g
BY DEF Lists

(* The answers of a deletion. *)
LEMMA AnswersTruly ==
    ASSUME KInv, SInv, NInv, serial, NEW d \in Deleter, Delete(d),
           reply'[d] # reply[d]
    PROVE  Truthful(d)
<1> d \in Request /\ OwnRows(d) /\ DeleterShape(d) /\ DOMAIN reply = Request
  BY DEF Request, SInv, NInv, KInv, TypeOK
<1> USE DEF Goto, Answer
<1>1. CASE Preflight(d)
  <2>1. pc[d] = "checking" /\ file' = file
    BY <1>1 DEF Preflight
  <2>2. reply'[d] \in {"not_found", "nothing_deleted"}
    BY <1>1 DEF Preflight
  <2>3. file' = before[d]
    BY <2>1 DEF DeleterShape
  <2> QED BY <2>2, <2>3 DEF Truthful
<1>2. CASE DropRows(d)
  <2> DEFINE k == KindAt(d)
             t == target[d]
             b == before[d]
  <2>1. k = "products" /\ reply'[d] = "deleted"
    BY <1>2 DEF DropRows
  <2>2. /\ copy[d] = file[k] /\ Deletable(d) /\ DeletedSoFar(d)
        /\ stage[d] \in 1..4 /\ DOMAIN file = Files
    BY <1>2 DEF DropRows, OwnRows, DeleterShape, KInv, TypeOK
  <2>3. file' = [file EXCEPT !["products"] =
                    After("products", Deletion(d), file["products"])]
    BY <1>2, <2>1, <2>2 DEF DropRows
  <2>4. file'["products"] = {a \in b["products"] : a.id # t}
    <3>1. file["products"] = b["products"]
      BY <2>1, <2>2, PlaceIsStage DEF DeletedSoFar
    <3>2. After("products", Deletion(d), file["products"])
            = {a \in file["products"] : a.id # t}
      <4>1. Deletion(d).method = "remove" /\ Deletion(d).row.id = t
        BY <2>1 DEF Deletion
      <4> HIDE DEF k, t
      <4> QED BY <4>1 DEF After, Filtered, Found, Writes
    <3> QED BY <2>2, <2>3, <3>1, <3>2 DEF Files
  <2>5. \A j \in Files \ {"products"} :
            file'[j] = {a \in b[j] : a.product # t}
    <3> SUFFICES ASSUME NEW j \in Files \ {"products"}
                 PROVE  file'[j] = {a \in b[j] : a.product # t}
      OBVIOUS
    <3>1. Place[j] < stage[d]
      BY <2>1, <2>2, PlaceIsStage
    <3>2. file[j] = b[j] \ Owned(b[j], t)
      BY <2>2, <3>1 DEF DeletedSoFar
    <3>3. file'[j] = file[j]
      BY <2>2, <2>3
    <3> QED BY <3>2, <3>3 DEF Owned
  <2>6. \A j \in Files : file'[j] = Without(b, t)[j]
    BY <2>2, <2>4, <2>5 DEF Without, Deletable
  <2>7. Lists(file')
    BY <2>2, <2>3, ListsStay
  <2>8. Lists(Without(b, t))
    BY <2>2 DEF Without, Deletable, Lists
  <2> HIDE DEF k, t, b
  <2>9. file' = Without(b, t)
    BY <2>6, <2>7, <2>8, SameLists
  <2> QED BY <2>1, <2>9 DEF Truthful, t, b
<1>3. CASE RestoreEnds(d)
  <2> DEFINE t == target[d]
             b == before[d]
  <2>1. /\ pc[d] = "restoring" /\ Restorable(d) = {} /\ file' = file
        /\ Deletable(d) /\ RestoredSoFar(d) /\ DOMAIN file = Files /\ Lists(file)
    BY <1>3 DEF RestoreEnds, DeleterShape, KInv, TypeOK
  <2>2. \A j \in Files : removed[d][j] = {}
    <3>1. ASSUME NEW i \in DOMAIN RestoreOrder,
                 \A j \in 1..(i - 1) : removed[d][RestoreOrder[j]] = {},
                 NEW a \in removed[d][RestoreOrder[i]]
          PROVE  FALSE
      <4>1. PICK call : call =
                [kind   |-> RestoreOrder[i],
                 method |-> IF RestoreOrder[i] = "configurations" THEN "upsert"
                                                                  ELSE "add",
                 row    |-> a]
        OBVIOUS
      <4>2. call \in Restorable(d)
        BY <3>1, <4>1 DEF Restorable
      <4> QED BY <2>1, <4>2
    <3>2. removed[d]["profiles"] = {}
      BY <3>1 DEF RestoreOrder
    <3>3. removed[d]["snapshots"] = {}
      BY <3>1, <3>2 DEF RestoreOrder
    <3>4. removed[d]["configurations"] = {}
      BY <3>1, <3>2, <3>3 DEF RestoreOrder
    <3> QED BY <2>1, <3>2, <3>3, <3>4 DEF RestoredSoFar, Files
  <2>3. CASE complete[d]
    <3>1. \A j \in Files : file[j] = b[j]
      BY <2>1, <2>2, <2>3 DEF RestoredSoFar
    <3>2. file' = b
      BY <2>1, <3>1, SameLists DEF Deletable
    <3>3. reply'[d] = "rolled_back"
      BY <1>3, <2>3 DEF RestoreEnds
    <3> QED BY <3>2, <3>3 DEF Truthful
  <2>4. CASE ~complete[d]
    <3>1. file # b
      BY <2>1, <2>2, <2>4 DEF RestoredSoFar
    <3>2. \A j \in Files : Without(file, t)[j] = Without(b, t)[j]
      <4> SUFFICES ASSUME NEW j \in Files
                   PROVE  Without(file, t)[j] = Without(b, t)[j]
        OBVIOUS
      <4>1. CASE j = "products"
        BY <2>1, <4>1 DEF Without, Deletable, RestoredSoFar
      <4>2. CASE j # "products"
        <5>1. {a \in file[j] : a.product # t} = {a \in b[j] : a.product # t}
          BY <2>1 DEF RestoredSoFar, Owned
        <5> QED BY <2>1, <4>2, <5>1 DEF Without, Deletable
      <4> QED BY <4>1, <4>2
    <3>3. Without(file, t) = Without(b, t)
      <4>1. Lists(Without(file, t)) /\ Lists(Without(b, t))
        BY <2>1 DEF Without, Deletable, Lists
      <4> QED BY <3>2, <4>1, SameLists
    <3>4. reply'[d] = "partly"
      BY <1>3, <2>4 DEF RestoreEnds
    <3>5. file'["products"] = before[d]["products"]
      BY <2>1 DEF RestoredSoFar
    <3> QED BY <2>1, <3>1, <3>3, <3>4, <3>5 DEF Truthful
  <2> QED BY <2>3, <2>4
<1> QED
  BY <1>1, <1>2, <1>3
     DEF Delete, Begin, ReadForDeletion, DeletionFails, ReadForRestore,
         ReturnRow, RestoreFails

(* The answer of a deletion that is alone is true of the files at that       *)
(* moment (AnswersAreTrue): what it has taken out is all that it lacks, and  *)
(* what its rollback could not put back is what makes it say "partly"        *)
(* (ProductDeletionService.delete, ProductDeletionResult).                   *)
THEOREM AnswersAreTrueHolds == Spec => AnswersAreTrue
<1> DEFINE Answers == serial =>
                        \A d \in Deleter : reply'[d] # reply[d] => Truthful(d)
<1>1. IInv /\ NInv /\ [Next]_<<vars, importing>> => [Answers]_vars
  <2> SUFFICES ASSUME KInv, SInv, NInv, Next, serial, NEW d \in Deleter,
                      reply'[d] # reply[d]
               PROVE  Truthful(d)
    BY DEF IInv, vars
  <2> d \in Request
    BY DEF Request
  <2>1. ASSUME NEW q \in Request, Moves(q)
        PROVE  q = d
    BY <2>1 DEF Moves, Same
  <2>2. ASSUME NEW e \in Deleter, Delete(e), UNCHANGED importing
        PROVE  Truthful(d)
    BY <2>1, <2>2, DeleteMoves, AnswersTruly DEF Request
  <2>3. ASSUME NEW s \in Saver, Save(s), UNCHANGED importing
        PROVE  FALSE
    BY <2>1, <2>3, SaveMoves, RequestAssumption DEF Request
  <2>4. ASSUME NEW i \in Importer, Import(i)
        PROVE  FALSE
    BY <2>1, <2>4, ImportMoves, RequestAssumption DEF Request
  <2>5. CASE Crash
    BY <2>5 DEF Crash
  <2> QED BY <2>2, <2>3, <2>4, <2>5 DEF Next
<1> QED BY <1>1, AlwaysShapely, PTL DEF Spec, AnswersAreTrue
---------------------------------------------------------------------------
LEMMA UntouchedIsTrue ==
    ASSUME NEW i, NEW n, file' = before'[i], report'[i][n].status # "CREATED"
    PROVE  TellsTrue(i, n)
BY DEF TellsTrue

(* All of a package is there. *)
LEMMA AddedIsWith ==
    ASSUME KInv, NEW i \in Importer, AddedSoFar(i), todo[i] = <<>>,
           DOMAIN before[i] = Files, Lists(before[i])
    PROVE  file = With(before[i], Package(i))
<1> PICK p, b : p = Package(i) /\ b = before[i]
  OBVIOUS
<1> DEFINE new == {ConfigurationRow(p, Ready(p)[n].id) : n \in DOMAIN Ready(p)}
<1>1. Range(configured[i]) = ReadyIds(p)
  <2>1. DOMAIN todo[i] = {}
    OBVIOUS
  <2>2. ReadyIds(p) = Range(configured[i])
                        \union {todo[i][n].row.id : n \in DOMAIN todo[i]}
    BY DEF AddedSoFar
  <2> QED BY <2>1, <2>2
<1>2. new = {ConfigurationRow(p, x) : x \in ReadyIds(p)}
  BY DEF ReadyIds
<1>3. {a \in b["configurations"] : \A c \in new : ~Clash("configurations", a, c)}
        = {a \in b["configurations"] : ~(a.product = p.id /\ a.id \in ReadyIds(p))}
  <2>1. \A x : /\ ConfigurationRow(p, x).product = p.id
               /\ ConfigurationRow(p, x).id = x
    BY DEF ConfigurationRow
  <2>2. ASSUME NEW a
        PROVE  (\E c \in new : Clash("configurations", a, c))
                 <=> (a.product = p.id /\ a.id \in ReadyIds(p))
    BY <1>2, <2>1 DEF Clash
  <2> QED BY <2>2
<1>4. file["configurations"] =
        {a \in b["configurations"] : \A c \in new : ~Clash("configurations", a, c)}
            \union new
  <2>1. file["configurations"] = Configured(b["configurations"], p, ReadyIds(p))
    BY <1>1 DEF AddedSoFar
  <2> HIDE DEF new
  <2> QED BY <1>2, <1>3, <2>1 DEF Configured
<1>5. /\ file["products"] = b["products"] \union {ProductRow(p)}
      /\ \A k \in {"snapshots", "profiles"} : file[k] = b[k]
  BY DEF AddedSoFar
<1> DEFINE full == [b EXCEPT
              !["products"] = @ \union {ProductRow(p)},
              !["configurations"] =
                  {a \in @ : \A c \in new : ~Clash("configurations", a, c)}
                      \union new]
<1>6. full = With(b, p)
  BY DEF With
<1> HIDE DEF new
<1>7. Lists(full) /\ \A k \in Files : full[k] = file[k]
  <2>1. Lists(full)
    BY DEF Lists
  <2>2. \A k \in Files : full[k] = file[k]
    BY <1>4, <1>5 DEF Files
  <2> QED BY <2>1, <2>2
<1> HIDE DEF full
<1>8. Lists(file)
  BY DEF KInv, TypeOK
<1> QED BY <1>6, <1>7, <1>8, SameLists

(* Only rows of the package have changed, and none stays that is not told. *)
LEMMA ClearedIsTrue ==
    ASSUME KInv, NEW i \in Importer, ClearedSoFar(i), todo[i] = <<>>,
           DOMAIN before[i] = Files
    PROVE  /\ NewTo(before[i], Package(i))
           /\ Without(file, Package(i).id) = Without(before[i], Package(i).id)
           /\ complete[i] => \A k \in Files : file[k] \subseteq before[i][k]
<1> PICK p, b : p = Package(i) /\ b = before[i]
  OBVIOUS
<1>1. /\ NewTo(b, p)
      /\ {a \in file["products"] : a.id # p.id} = b["products"]
      /\ {a \in file["configurations"] : a.product # p.id}
            = {a \in b["configurations"] : a.product # p.id}
      /\ \A k \in {"snapshots", "profiles"} : file[k] = b[k]
      /\ complete[i] => file["products"] = b["products"]
  BY DEF ClearedSoFar
<1>2. complete[i] => file["configurations"] \subseteq b["configurations"]
  <2>1. DOMAIN todo[i] = {}
    OBVIOUS
  <2> QED BY <2>1 DEF ClearedSoFar
<1>3. DOMAIN file = Files
  BY DEF KInv, TypeOK
<1>4. \A k \in Files : Without(file, p.id)[k] = Without(b, p.id)[k]
  <2> SUFFICES ASSUME NEW k \in Files
               PROVE  Without(file, p.id)[k] = Without(b, p.id)[k]
    OBVIOUS
  <2>1. CASE k = "products"
    BY <1>1, <1>3, <2>1 DEF Without, NewTo
  <2>2. CASE k # "products"
    <3>1. {a \in file[k] : a.product # p.id} = {a \in b[k] : a.product # p.id}
      BY <1>1, <2>2 DEF Files
    <3> QED BY <1>3, <2>2, <3>1 DEF Without
  <2> QED BY <2>1, <2>2
<1>5. Lists(Without(file, p.id)) /\ Lists(Without(b, p.id))
  BY <1>3 DEF Without, Lists
<1>6. Without(file, p.id) = Without(b, p.id)
  BY <1>4, <1>5, SameLists
<1>7. complete[i] => \A k \in Files : file[k] \subseteq b[k]
  BY <1>1, <1>2 DEF Files
<1> QED BY <1>1, <1>6, <1>7

(* What one step of an import tells. *)
LEMMA ImportTellsTrue ==
    ASSUME KInv, SInv, NInv, serial, NEW i \in Importer, Import(i),
           NEW n \in DOMAIN report'[i] \ DOMAIN report[i]
    PROVE  TellsTrue(i, n)
<1> i \in Request /\ ImporterShape(i) /\ DOMAIN report = Importer
  BY DEF Request, NInv, KInv, TypeOK
<1>1. CASE ReviewImport(i)
  <2>1. pc[i] = "reviewing" /\ file' = file /\ before' = before /\ file = before[i]
    BY <1>1 DEF ReviewImport, ImporterShape
  <2>2. report' = [report EXCEPT ![i] =
                [m \in DOMAIN bundle[i] |->
                    [status |-> "FAILED", complete |-> TRUE, plugins |-> <<>>]]]
    BY <1>1 DEF ReviewImport
  <2>3. report'[i][n].status = "FAILED"
    BY <2>2
  <2> QED BY <2>1, <2>3, UntouchedIsTrue
<1>2. ASSUME NEW status, NextPackage(i, status), Len(report[i]) < Len(bundle[i])
      PROVE  /\ bundle[i][n] = Package(i)
             /\ report'[i][n].status = status
             /\ report'[i][n].complete = (status # "FAILED" \/ complete[i])
  <2>1. report[i] \in Seq(Reports)
    BY DEF KInv, TypeOK
  <2>2. report'[i] = Append(report[i], ImportResult(i, status))
    BY <1>2 DEF NextPackage
  <2>3. n = Len(report[i]) + 1 /\ report'[i][n] = ImportResult(i, status)
    BY <2>1, <2>2
  <2>4. /\ ImportResult(i, status).status = status
        /\ ImportResult(i, status).complete = (status # "FAILED" \/ complete[i])
    BY DEF ImportResult
  <2> QED BY <2>3, <2>4 DEF Package
<1>3. CASE StartPackage(i)
  <2>1. ~CanImport(i, Package(i))
    BY <1>3 DEF StartPackage
  <2>2. /\ NextPackage(i, "BLOCKED") /\ file' = file /\ before'[i] = file
        /\ Len(report[i]) < Len(bundle[i])
    BY <1>3, <2>1 DEF StartPackage, KInv, TypeOK
  <2>3. report'[i][n].status = "BLOCKED"
    BY <1>2, <2>2
  <2> QED BY <2>2, <2>3, UntouchedIsTrue
<1>4. CASE ImportFails(i)
  <2>1. /\ Head(todo[i]).kind = "products" /\ todo[i] # <<>>
        /\ pc[i] \in {"putting", "writing"}
        /\ file' = file /\ before' = before
    BY <1>4 DEF ImportFails
  <2>2. NextPackage(i, "FAILED") /\ Len(report[i]) < Len(bundle[i])
    BY <1>4, <2>1 DEF ImportFails, ImporterShape
  <2>3. todo[i] \in Seq(Puttings)
    BY <2>1 DEF KInv, ImporterOK
  <2>4. ASSUME AddedSoFar(i)
        PROVE  FALSE
    <3>1. PICK x : Head(todo[i]) =
              Call("configurations", "upsert", ConfigurationRow(Package(i), x))
      BY <2>1, <2>3, <2>4, TailIs DEF AddedSoFar
    <3> QED BY <2>1, <3>1 DEF Call
  <2>5. file = before[i]
    BY <2>1, <2>4 DEF ImporterShape, NotAdded
  <2>6. report'[i][n].status = "FAILED"
    BY <1>2, <2>2
  <2> QED BY <2>1, <2>5, <2>6, UntouchedIsTrue
<1>5. CASE PackageCreated(i)
  <2>1. /\ pc[i] = "putting" /\ todo[i] = <<>> /\ NextPackage(i, "CREATED")
        /\ file' = file /\ before' = before
    BY <1>5 DEF PackageCreated
  <2>2. Package(i) \in Packages
    BY <2>1 DEF KInv, ImporterOK
  <2>3. AddedSoFar(i) /\ DOMAIN before[i] = Files /\ Lists(before[i])
    <3>1. ~NotAdded(i)
      BY <2>1, <2>2, ImportCallsAre DEF NotAdded
    <3> QED BY <2>1, <3>1 DEF ImporterShape
  <2>4. file = With(before[i], Package(i))
    BY <2>1, <2>3, AddedIsWith
  <2>5. bundle[i][n] = Package(i) /\ report'[i][n].status = "CREATED"
    BY <1>2, <2>1 DEF ImporterShape
  <2>6. /\ \A a \in before[i]["products"] : a.id # Package(i).id
        /\ \A a \in before[i]["products"] : a.body # Package(i).name
    BY <2>3 DEF AddedSoFar, NewTo
  <2> QED BY <2>1, <2>4, <2>5, <2>6 DEF TellsTrue
<1>6. CASE PackageFailed(i)
  <2>1. /\ pc[i] = "clearing" /\ todo[i] = <<>> /\ NextPackage(i, "FAILED")
        /\ file' = file /\ before' = before
    BY <1>6 DEF PackageFailed
  <2>2. /\ ClearedSoFar(i) /\ DOMAIN before[i] = Files
        /\ Len(report[i]) < Len(bundle[i])
    BY <2>1 DEF ImporterShape
  <2>3. /\ NewTo(before[i], Package(i))
        /\ Without(file, Package(i).id) = Without(before[i], Package(i).id)
        /\ complete[i] => \A k \in Files : file[k] \subseteq before[i][k]
    BY <2>1, <2>2, ClearedIsTrue
  <2>4. /\ bundle[i][n] = Package(i) /\ report'[i][n].status = "FAILED"
        /\ report'[i][n].complete = complete[i]
    <3>1. complete[i] \in BOOLEAN
      BY DEF KInv, TypeOK
    <3> QED BY <1>2, <2>1, <2>2, <3>1
  <2> QED BY <2>1, <2>3, <2>4 DEF TellsTrue, NewTo
<1> QED
  BY <1>1, <1>3, <1>4, <1>5, <1>6
     DEF Import, BeginImport, Begin, ReadForImport, WriteForImport,
         ReadForCleanup, WriteForCleanup, CleanupFails, AllImported, importing

(* What an import that is alone says of each package is true of the files at *)
(* that moment, when the upload is imported a second time, too               *)
(* (ImportsAreTrue): a package is told as created only after its last        *)
(* configuration, and a failed one only after its cleanup                    *)
(* (_persist_import_product).                                                *)
THEOREM ImportsAreTrueHolds == Spec => ImportsAreTrue
<1> DEFINE Tells == serial => \A i \in Importer :
                      \A n \in DOMAIN report'[i] \ DOMAIN report[i] : TellsTrue(i, n)
<1>1. IInv /\ NInv /\ [Next]_<<vars, importing>> => [Tells]_<<vars, importing>>
  <2> SUFFICES ASSUME KInv, SInv, NInv, Next, serial, NEW i \in Importer,
                      NEW n \in DOMAIN report'[i] \ DOMAIN report[i]
               PROVE  TellsTrue(i, n)
    BY DEF IInv
  <2> i \in Request
    BY DEF Request
  <2>1. ASSUME NEW q \in Request, Moves(q)
        PROVE  q = i
    BY <2>1 DEF Moves, Same
  <2>2. ASSUME NEW d \in Deleter, Delete(d), UNCHANGED importing
        PROVE  FALSE
    BY <2>1, <2>2, DeleteMoves, RequestAssumption DEF Request
  <2>3. ASSUME NEW s \in Saver, Save(s), UNCHANGED importing
        PROVE  FALSE
    BY <2>1, <2>3, SaveMoves, RequestAssumption DEF Request
  <2>4. ASSUME NEW j \in Importer, Import(j)
        PROVE  TellsTrue(i, n)
    BY <2>1, <2>4, ImportMoves, ImportTellsTrue DEF Request
  <2>5. CASE UNCHANGED importing
    BY <2>5 DEF importing
  <2> QED BY <2>2, <2>3, <2>4, <2>5 DEF Next
<1> QED BY <1>1, AlwaysShapely, PTL DEF Spec, ImportsAreTrue

===========================================================================

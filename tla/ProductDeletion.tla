-------------------------- MODULE ProductDeletion --------------------------
(***************************************************************************)
(* Deleting a product, next to the requests that save something for one.   *)
(*                                                                         *)
(* ProductDeletionService.delete empties three files of the product's rows *)
(* and then drops the product from the fourth; when a step raises, it puts *)
(* back what it took out, row by row.  A saving request looks the product  *)
(* up and then stores a row for it.  No file is locked and no transaction  *)
(* spans two of them: each method of a repository is a reading step and a  *)
(* replacing step (module JsonStore shows what lies between), a failure    *)
(* may hit either, and the process may die between any two.                *)
(***************************************************************************)
EXTENDS Repositories, Naturals, Sequences

CONSTANTS
    Deleter,    \* requests that delete a product
    Saver,      \* requests that save a row for a product
    Importer,   \* requests that import products (module ProductImport)
    Product,    \* the ids of the products (uuid4: none is ever used again)
    Setting,    \* [serial, requests, files]: whether the requests come one at a
                \* time, which may come, and what the files hold at first
    Savable,    \* what may be saved: [kind, method, row]
    MaxFaults   \* bound: failing file operations and deaths in a behaviour

ASSUME RequestAssumption ==
    /\ Deleter \cap (Saver \union Importer) = {}
    /\ Saver \cap Importer = {}
ASSUME MaxFaultsAssumption == MaxFaults \in Nat

(* The files that hold something of a product. *)
Files == {"configurations", "snapshots", "profiles", "products"}

(* The keys are unique at first, and every row belongs to a product. *)
ASSUME SettingAssumption ==
    \A s \in Setting :
        /\ s.files = [k \in Files |-> s.files[k]]
        /\ \A k \in Files : Unique(k, s.files[k])
        /\ \A a \in s.files["products"] : a.id = a.product
        /\ \A k \in Files : \A a \in s.files[k] :
            \E b \in s.files["products"] : b.id = a.product

(* The routes that save call no method that takes a row out. *)
ASSUME SavableAssumption ==
    \A call \in Savable :
        /\ call.kind \in Files
        /\ call.method \in Methods(call.kind) \intersect {"add", "upsert", "update"}
        /\ call.kind = "products" => call.row.id = call.row.product

VARIABLES
    serial,     \* whether the requests come one at a time
    file,       \* the list in each file
    pc,         \* where each request is
    target,     \* the product a deleter deletes
    stage,      \* the deleting loop: how far it has come
    removed,    \* what a deleter has taken out and not put back: by file
    copy,       \* the list the running method has read
    saving,     \* the call that saves a row, or puts one back
    complete,   \* whether the rollback, or an import's, did all so far
    reply,      \* what the request has answered
    before,     \* ghost: the files when the request, or one import, began
    faults      \* failures so far

given == <<serial, target>>
vars == <<file, pc, given, stage, removed, copy, saving, complete, reply,
          before, faults>>

Request == Deleter \union Saver \union Importer

(* Seeded fault: the product goes first. *)
ProductFirst == <<"products", "configurations", "snapshots", "profiles">>

(* The files, in the order the deletion goes through them. *)
DeletionOrder == <<"configurations", "snapshots", "profiles", "products">>

(* The rollback goes through them in this order. *)
RestoreOrder == <<"profiles", "snapshots", "configurations">>

Nothing == [k \in Files |-> {}]

Active == {"checking", "deleting", "dropping", "restoring", "returning",
           "looking", "saving", "storing",
           "reviewing", "importing", "putting", "writing", "clearing", "cleaning"}

Fault == faults < MaxFaults /\ faults' = faults + 1

NoFault == UNCHANGED faults

Goto(r, label) == pc' = [pc EXCEPT ![r] = label]

Answer(r, message) ==
    /\ reply' = [reply EXCEPT ![r] = message]
    /\ Goto(r, "answered")

DeletionInit ==
    /\ \E s \in Setting :
        /\ serial = s.serial
        /\ file = s.files
        /\ pc = [r \in Request |-> IF r \in s.requests THEN "idle" ELSE "absent"]
    /\ target \in [Deleter -> Product]
    /\ stage = [d \in Deleter |-> 1]
    /\ removed = [d \in Deleter |-> Nothing]
    /\ copy = [r \in Request |-> {}]
    /\ saving = [r \in Request |-> <<>>]
    /\ complete = [r \in Request |-> TRUE]
    /\ reply = [r \in Request |-> "none"]
    /\ before = [r \in Request |-> Nothing]
    /\ faults = 0

Exists(p) == \E a \in file["products"] : a.id = p

Begin(r, label) ==
    /\ pc[r] = "idle"
    /\ serial => \A q \in Request : pc[q] \notin Active
    /\ before' = [before EXCEPT ![r] = file]
    /\ Goto(r, label)
    /\ UNCHANGED <<file, given, stage, removed, copy, saving, complete, reply,
                   faults>>

---------------------------------------------------------------------------
(* Deleting. *)

(* The product is looked up, and the three other files read once. *)
Preflight(d) ==
    /\ pc[d] = "checking"
    /\ \/ NoFault /\ Exists(target[d]) /\ Goto(d, "deleting") /\ UNCHANGED reply
       \/ NoFault /\ ~Exists(target[d]) /\ Answer(d, "not_found")
       \/ Fault /\ Answer(d, "nothing_deleted")
    /\ UNCHANGED <<file, given, stage, removed, copy, saving, complete, before>>

KindAt(d) == DeletionOrder[stage[d]]

(* delete_for_product of the first three files, remove of the products. *)
Deletion(d) ==
    [method |-> IF KindAt(d) = "products" THEN "remove" ELSE "delete_for_product",
     row    |-> [id |-> target[d], product |-> target[d]]]

ReadForDeletion(d) ==
    /\ pc[d] = "deleting"
    /\ Writes(KindAt(d), Deletion(d), file[KindAt(d)])
    /\ copy' = [copy EXCEPT ![d] = file[KindAt(d)]]
    /\ Goto(d, "dropping")
    /\ UNCHANGED <<file, given, stage, removed, saving, complete, reply,
                   before, faults>>

(* The file is replaced; the removed rows are returned with the call.       *)
DropRows(d) ==
    /\ pc[d] = "dropping"
    /\ file' = [file EXCEPT ![KindAt(d)] =
                  After(KindAt(d), Deletion(d), copy[d])]
    /\ IF KindAt(d) = "products"
       THEN /\ Answer(d, "deleted")
            /\ UNCHANGED <<stage, removed>>
       ELSE /\ removed' = [removed EXCEPT ![d][KindAt(d)] =
                             Owned(copy[d], target[d])]
            /\ stage' = [stage EXCEPT ![d] = @ + 1]
            /\ Goto(d, "deleting")
            /\ UNCHANGED reply
    /\ copy' = [copy EXCEPT ![d] = {}]
    /\ UNCHANGED <<given, saving, complete, before, faults>>

(* A step raises, or remove() finds no product any more: roll back. *)
DeletionFails(d) ==
    /\ pc[d] \in {"deleting", "dropping"}
    /\ \/ Fault
       \/ /\ NoFault
          /\ pc[d] = "deleting"
          /\ ~Writes(KindAt(d), Deletion(d), file[KindAt(d)])
    /\ copy' = [copy EXCEPT ![d] = {}]
    /\ Goto(d, "restoring")
    /\ UNCHANGED <<file, given, stage, removed, saving, complete, reply, before>>

---------------------------------------------------------------------------
(* Rolling a deletion back. *)

(* The rows that may come next, each as the call that puts it back. *)
Restorable(d) ==
    UNION {{[kind   |-> RestoreOrder[i],
             method |-> IF RestoreOrder[i] = "configurations" THEN "upsert"
                                                              ELSE "add",
             row    |-> a] : a \in removed[d][RestoreOrder[i]]} :
           i \in {i \in DOMAIN RestoreOrder :
                    \A j \in 1..(i - 1) : removed[d][RestoreOrder[j]] = {}}}

ReadForRestore(d) ==
    /\ pc[d] = "restoring"
    /\ \E call \in Restorable(d) :
        /\ ~Raises(call.kind, call, file[call.kind])
        /\ copy' = [copy EXCEPT ![d] = file[call.kind]]
        /\ saving' = [saving EXCEPT ![d] = call]
    /\ Goto(d, "returning")
    /\ UNCHANGED <<file, given, stage, removed, complete, reply, before, faults>>

ReturnRow(d) ==
    LET call == saving[d]
    IN  /\ pc[d] = "returning"
        /\ file' = [file EXCEPT ![call.kind] = After(call.kind, call, copy[d])]
        /\ removed' = [removed EXCEPT ![d][call.kind] = @ \ {call.row}]
        /\ copy' = [copy EXCEPT ![d] = {}]
        /\ Goto(d, "restoring")
        /\ UNCHANGED <<given, stage, saving, complete, reply, before, faults>>

(* Seeded fault: a skipped row is forgotten. *)
RestoreFailsUnnoticed(d) ==
    /\ pc[d] \in {"restoring", "returning"}
    /\ Fault
    /\ \E call \in Restorable(d) :
        removed' = [removed EXCEPT ![d][call.kind] = @ \ {call.row}]
    /\ copy' = [copy EXCEPT ![d] = {}]
    /\ Goto(d, "restoring")
    /\ UNCHANGED <<file, given, stage, saving, complete, reply, before>>

(* A row that cannot be put back is skipped. *)
RestoreFails(d) ==
    /\ \E call \in Restorable(d) :
        /\ \/ pc[d] = "restoring" /\ Fault
           \/ pc[d] = "returning" /\ Fault /\ call = saving[d]
           \/ /\ pc[d] = "restoring"
              /\ NoFault
              /\ Raises(call.kind, call, file[call.kind])
        /\ removed' = [removed EXCEPT ![d][call.kind] = @ \ {call.row}]
    /\ complete' = [complete EXCEPT ![d] = FALSE]
    /\ copy' = [copy EXCEPT ![d] = {}]
    /\ Goto(d, "restoring")
    /\ UNCHANGED <<file, given, stage, saving, reply, before>>

RestoreEnds(d) ==
    /\ pc[d] = "restoring"
    /\ Restorable(d) = {}
    /\ Answer(d, IF complete[d] THEN "rolled_back" ELSE "partly")
    /\ UNCHANGED <<file, given, stage, removed, copy, saving, complete, before,
                   faults>>

---------------------------------------------------------------------------
(* Saving. *)

(* The product is looked up (_product_or_404), unless it is a new one, and   *)
(* the row is made from the form: a new product, snapshot or profile has an  *)
(* id that is not taken at this time.                                        *)
LookUp(s) ==
    /\ pc[s] = "looking"
    /\ \/ /\ NoFault
          /\ \E call \in Savable :
                /\ call.kind = "products" \/ Exists(call.row.product)
                /\ ~Raises(call.kind, call, file[call.kind])
                /\ saving' = [saving EXCEPT ![s] = call]
          /\ Goto(s, "saving")
          /\ UNCHANGED reply
       \/ /\ NoFault
          /\ \E call \in Savable :
                call.kind # "products" /\ ~Exists(call.row.product)
          /\ Answer(s, "not_found")
          /\ UNCHANGED saving
       \/ Fault /\ Answer(s, "refused") /\ UNCHANGED saving
    /\ UNCHANGED <<file, given, stage, removed, copy, complete, before>>

ReadForSaving(s) ==
    LET call == saving[s]
    IN  /\ pc[s] = "saving"
        /\ ~Raises(call.kind, call, file[call.kind])
        /\ copy' = [copy EXCEPT ![s] = file[call.kind]]
        /\ Goto(s, "storing")
        /\ UNCHANGED <<file, given, stage, removed, saving, complete, reply,
                       before, faults>>

StoreRow(s) ==
    LET call == saving[s]
    IN  /\ pc[s] = "storing"
        /\ file' = [file EXCEPT ![call.kind] = After(call.kind, call, copy[s])]
        /\ copy' = [copy EXCEPT ![s] = {}]
        /\ Answer(s, "saved")
        /\ UNCHANGED <<given, stage, removed, saving, complete, before, faults>>

SavingFails(s) ==
    LET call == saving[s]
    IN  /\ \/ pc[s] \in {"saving", "storing"} /\ Fault
           \/ /\ pc[s] = "saving"
              /\ NoFault
              /\ Raises(call.kind, call, file[call.kind])
        /\ copy' = [copy EXCEPT ![s] = {}]
        /\ Answer(s, "refused")
        /\ UNCHANGED <<file, given, stage, removed, saving, complete, before>>

---------------------------------------------------------------------------
(* The process dies, and with it what it had taken out and not put back. *)
Crash ==
    /\ Fault
    /\ pc' = [r \in Request |-> IF pc[r] \in Active THEN "dead" ELSE pc[r]]
    /\ UNCHANGED <<file, given, stage, removed, copy, saving, complete, reply,
                   before>>

Delete(d) ==
    \/ Begin(d, "checking")
    \/ Preflight(d)
    \/ ReadForDeletion(d) \/ DropRows(d) \/ DeletionFails(d)
    \/ ReadForRestore(d) \/ ReturnRow(d) \/ RestoreFails(d) \/ RestoreEnds(d)

Save(s) ==
    \/ Begin(s, "looking")
    \/ LookUp(s)
    \/ ReadForSaving(s) \/ StoreRow(s) \/ SavingFails(s)

---------------------------------------------------------------------------
Without(files, p) ==
    [k \in DOMAIN files |->
        IF k = "products" THEN {a \in files[k] : a.id # p}
                          ELSE {a \in files[k] : a.product # p}]

(* The answer of a deletion is true of the files at that moment: "deleted"   *)
(* and nothing else has happened, "rolled back" and everything is as it was, *)
(* "partly" and the product is there without some of its rows; the answers   *)
(* that say that nothing was done are given when nothing was.                *)
Truthful(d) ==
    CASE reply'[d] = "deleted" ->
            file' = Without(before[d], target[d])
      [] reply'[d] \in {"rolled_back", "nothing_deleted", "not_found"} ->
            file' = before[d]
      [] reply'[d] = "partly" ->
            /\ file' # before[d]
            /\ file'["products"] = before[d]["products"]
            /\ Without(file', target[d]) = Without(before[d], target[d])
      [] OTHER -> TRUE

AnswersAreTrue ==
    [][serial => \A d \in Deleter : reply'[d] # reply[d] => Truthful(d)]_vars

(* No row of another product is ever touched by a deletion, or by its        *)
(* rollback, not even when it dies half way.                                 *)
OthersUntouched ==
    [][serial => \A d \in Deleter : pc[d] \in {"dropping", "returning"} =>
        Without(file', target[d]) = Without(file, target[d])]_vars

(* However requests interleave, fail and die, no file ever gets two rows of  *)
(* one key, by a rollback either.                                            *)
KeysStayUnique == \A k \in DOMAIN file : Unique(k, file[k])

(* A product that is reported as deleted has left nothing behind.            *)
DeletionIsComplete ==
    (\A r \in Request : pc[r] \notin Active) =>
        \A d \in Deleter : reply[d] = "deleted" =>
            file = Without(file, target[d])

===========================================================================

--------------------------- MODULE ProductImport ---------------------------
(***************************************************************************)
(* Importing a Product Setup package or bundle, after its confirmation.    *)
(*                                                                         *)
(* The products are reviewed once more against the list of products as it  *)
(* is then.  Each that may be imported is added, and its configurations    *)
(* are saved one by one; if one cannot be, those of this product and the   *)
(* product are taken out again, and the next product has its turn.  The    *)
(* files, the steps of a repository's method, failures and deaths are      *)
(* those of module ProductDeletion.                                        *)
(***************************************************************************)
EXTENDS ProductDeletion, SequencesExt

CONSTANT Bundle     \* what may be confirmed: sequences of packages
                    \* [id, name, plugins], plugins being a sequence of
                    \* [id, status] as the plugins prepare their sections

VARIABLES
    bundle,     \* the packages of the confirmed intent
    names,      \* the names of the products when they were reviewed
    todo,       \* the calls left for the package at hand
    configured, \* the plugins configured for it
    report      \* what has become of each package so far

importing == <<bundle, names, todo, configured, report>>

ImportInit ==
    /\ bundle = [i \in Importer |-> <<>>]
    /\ names = [i \in Importer |-> {}]
    /\ todo = [i \in Importer |-> <<>>]
    /\ configured = [i \in Importer |-> <<>>]
    /\ report = [i \in Importer |-> <<>>]

Package(i) == bundle[i][Len(report[i]) + 1]

Ready(package) == SelectSeq(package.plugins, LAMBDA q : q.status = "ready")

(* A package lists its plugins, and what is ready of them is such a list.     *)
(* Its id is made when the file is uploaded (uuid4), and one upload may be    *)
(* confirmed again, with other names.                                         *)
ASSUME BundleAssumption ==
    \A b \in Bundle :
        /\ b \in Seq(Range(b))
        /\ \A package \in Range(b) :
            /\ package.plugins \in Seq(Range(package.plugins))
            /\ Ready(package) \in Seq(Range(package.plugins))

(* _review_import_entry: the name is new, and no other package has it; a     *)
(* plugin that is missing does not block the import, but one whose section   *)
(* is not accepted does.                                                     *)
CanImport(i, package) ==
    /\ package.name \notin names[i]
    /\ Cardinality({n \in DOMAIN bundle[i] : bundle[i][n].name = package.name}) = 1
    /\ \A n \in DOMAIN package.plugins : package.plugins[n].status # "invalid"

ProductRow(package) ==
    [id |-> package.id, product |-> package.id, body |-> package.name]

ConfigurationRow(package, plugin) ==
    [id |-> plugin, product |-> package.id, body |-> "imported"]

Call(kind, method, row) == [kind |-> kind, method |-> method, row |-> row]

(* The product, and then what its plugins have made ready. *)
ImportCalls(package) ==
    <<Call("products", "add", ProductRow(package))>>
    \o [n \in DOMAIN Ready(package) |->
            Call("configurations", "upsert",
                 ConfigurationRow(package, Ready(package)[n].id))]

(* What the cleanup takes out: the configurations saved, the one that could  *)
(* not be, and the product.                                                  *)
CleanupCalls(package, done, failed) ==
    [n \in 1..(Len(done) + 1) |->
        Call("configurations", "delete",
             ConfigurationRow(package, Append(done, failed)[n]))]
    \o <<Call("products", "remove", ProductRow(package))>>

---------------------------------------------------------------------------
(* The result of the package at hand, with one for each of its plugins. *)

PluginResult(plugin, status, done) ==
    CASE plugin.status \in {"unsupported", "omitted"} -> plugin.status
      [] plugin.status \notin {"unsupported", "omitted"} /\ status = "CREATED" ->
            "configured"
      [] plugin.status \notin {"unsupported", "omitted"} /\ status = "FAILED"
            /\ plugin.id \in Range(done) -> "rollback_attempted"
      [] OTHER -> "not_configured"

ImportResult(i, status) ==
    [status   |-> status,
     complete |-> status # "FAILED" \/ complete[i],
     plugins  |-> [n \in DOMAIN Package(i).plugins |->
                    PluginResult(Package(i).plugins[n], status, configured[i])]]

NextPackage(i, status) ==
    /\ report' = [report EXCEPT ![i] = Append(@, ImportResult(i, status))]
    /\ todo' = [todo EXCEPT ![i] = <<>>]
    /\ Goto(i, "importing")

---------------------------------------------------------------------------
BeginImport(i) ==
    /\ Begin(i, "reviewing")
    /\ \E b \in Bundle : bundle' = [bundle EXCEPT ![i] = b]
    /\ UNCHANGED <<names, todo, configured, report>>

(* The list of products is read; if it cannot be, every import fails. *)
ReviewImport(i) ==
    /\ pc[i] = "reviewing"
    /\ \/ /\ NoFault
          /\ names' = [names EXCEPT ![i] = {a.body : a \in file["products"]}]
          /\ Goto(i, "importing")
          /\ UNCHANGED <<report, reply>>
       \/ /\ Fault
          /\ report' = [report EXCEPT ![i] =
                [n \in DOMAIN bundle[i] |->
                    [status |-> "FAILED", complete |-> TRUE, plugins |-> <<>>]]]
          /\ Answer(i, "imported")
          /\ UNCHANGED names
    /\ UNCHANGED <<file, given, stage, removed, copy, saving, complete, before,
                   bundle, todo, configured>>

(* The next package, if it may be imported; else nothing is done for it. *)
StartPackage(i) ==
    /\ pc[i] = "importing"
    /\ Len(report[i]) < Len(bundle[i])
    /\ before' = [before EXCEPT ![i] = file]
    /\ configured' = [configured EXCEPT ![i] = <<>>]
    /\ complete' = [complete EXCEPT ![i] = TRUE]
    /\ IF CanImport(i, Package(i))
       THEN /\ todo' = [todo EXCEPT ![i] = ImportCalls(Package(i))]
            /\ Goto(i, "putting")
            /\ UNCHANGED report
       ELSE NextPackage(i, "BLOCKED")
    /\ UNCHANGED <<file, given, stage, removed, copy, saving, reply, faults,
                   bundle, names>>

(* add() of the product or upsert() of a configuration reads the list, ...   *)
ReadForImport(i) ==
    /\ pc[i] = "putting"
    /\ todo[i] # <<>>
    /\ LET call == Head(todo[i]) IN
        /\ ~Raises(call.kind, call, file[call.kind])
        /\ copy' = [copy EXCEPT ![i] = file[call.kind]]
    /\ Goto(i, "writing")
    /\ UNCHANGED <<file, given, stage, removed, saving, complete, reply, before,
                   faults, importing>>

(* ... and replaces it. *)
WriteForImport(i) ==
    LET call == Head(todo[i])
    IN  /\ pc[i] = "writing"
        /\ file' = [file EXCEPT ![call.kind] = After(call.kind, call, copy[i])]
        /\ copy' = [copy EXCEPT ![i] = {}]
        /\ configured' = [configured EXCEPT ![i] =
                            IF call.kind = "products" THEN @
                                                      ELSE Append(@, call.row.id)]
        /\ todo' = [todo EXCEPT ![i] = Tail(@)]
        /\ Goto(i, "putting")
        /\ UNCHANGED <<given, stage, removed, saving, complete, reply, before,
                       faults, bundle, names, report>>

(* Seeded fault: a product that could not be added is taken out, too. *)
ImportFailsAndClears(i) ==
    LET call == Head(todo[i])
    IN  /\ \/ pc[i] \in {"putting", "writing"} /\ todo[i] # <<>> /\ Fault
           \/ /\ pc[i] = "putting" /\ todo[i] # <<>>
              /\ NoFault
              /\ Raises(call.kind, call, file[call.kind])
        /\ copy' = [copy EXCEPT ![i] = {}]
        /\ todo' = [todo EXCEPT ![i] =
                      CleanupCalls(Package(i), configured[i], call.row.id)]
        /\ Goto(i, "clearing")
        /\ UNCHANGED <<file, given, stage, removed, saving, complete, reply,
                       before, bundle, names, configured, report>>

(* A product that cannot be added has failed; a configuration that cannot be *)
(* saved has what was done for the product cleaned up.                       *)
ImportFails(i) ==
    LET call == Head(todo[i])
    IN  /\ \/ pc[i] \in {"putting", "writing"} /\ todo[i] # <<>> /\ Fault
           \/ /\ pc[i] = "putting" /\ todo[i] # <<>>
              /\ NoFault
              /\ Raises(call.kind, call, file[call.kind])
        /\ copy' = [copy EXCEPT ![i] = {}]
        /\ IF call.kind = "products"
           THEN NextPackage(i, "FAILED")
           ELSE /\ todo' = [todo EXCEPT ![i] =
                              CleanupCalls(Package(i), configured[i], call.row.id)]
                /\ Goto(i, "clearing")
                /\ UNCHANGED report
        /\ UNCHANGED <<file, given, stage, removed, saving, complete, reply,
                       before, bundle, names, configured>>

PackageCreated(i) ==
    /\ pc[i] = "putting"
    /\ todo[i] = <<>>
    /\ NextPackage(i, "CREATED")
    /\ UNCHANGED <<file, given, stage, removed, copy, saving, complete, reply,
                   before, faults, bundle, names, configured>>

ReadForCleanup(i) ==
    /\ pc[i] = "clearing"
    /\ todo[i] # <<>>
    /\ LET call == Head(todo[i]) IN
        /\ Writes(call.kind, call, file[call.kind])
        /\ copy' = [copy EXCEPT ![i] = file[call.kind]]
    /\ Goto(i, "cleaning")
    /\ UNCHANGED <<file, given, stage, removed, saving, complete, reply, before,
                   faults, importing>>

WriteForCleanup(i) ==
    LET call == Head(todo[i])
    IN  /\ pc[i] = "cleaning"
        /\ file' = [file EXCEPT ![call.kind] = After(call.kind, call, copy[i])]
        /\ copy' = [copy EXCEPT ![i] = {}]
        /\ todo' = [todo EXCEPT ![i] = Tail(@)]
        /\ Goto(i, "clearing")
        /\ UNCHANGED <<given, stage, removed, saving, complete, reply, before,
                       faults, bundle, names, configured, report>>

(* A call that raises, and a product that is gone, leave the cleanup          *)
(* incomplete, and it goes on.                                                *)
CleanupFails(i) ==
    LET call == Head(todo[i])
    IN  /\ \/ pc[i] \in {"clearing", "cleaning"} /\ todo[i] # <<>> /\ Fault
           \/ /\ pc[i] = "clearing" /\ todo[i] # <<>>
              /\ NoFault
              /\ ~Writes(call.kind, call, file[call.kind])
        /\ complete' = [complete EXCEPT ![i] = FALSE]
        /\ copy' = [copy EXCEPT ![i] = {}]
        /\ todo' = [todo EXCEPT ![i] = Tail(@)]
        /\ Goto(i, "clearing")
        /\ UNCHANGED <<file, given, stage, removed, saving, reply, before,
                       bundle, names, configured, report>>

PackageFailed(i) ==
    /\ pc[i] = "clearing"
    /\ todo[i] = <<>>
    /\ NextPackage(i, "FAILED")
    /\ UNCHANGED <<file, given, stage, removed, copy, saving, complete, reply,
                   before, faults, bundle, names, configured>>

AllImported(i) ==
    /\ pc[i] = "importing"
    /\ Len(report[i]) = Len(bundle[i])
    /\ Answer(i, "imported")
    /\ UNCHANGED <<file, given, stage, removed, copy, saving, complete, before,
                   faults, importing>>

Import(i) ==
    \/ BeginImport(i)
    \/ ReviewImport(i)
    \/ StartPackage(i)
    \/ ReadForImport(i) \/ WriteForImport(i) \/ ImportFails(i) \/ PackageCreated(i)
    \/ ReadForCleanup(i) \/ WriteForCleanup(i) \/ CleanupFails(i) \/ PackageFailed(i)
    \/ AllImported(i)

===========================================================================

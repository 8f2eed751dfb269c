-------------------------- MODULE ProductRequests --------------------------
(***************************************************************************)
(* The requests that change the files of the products: deleting, saving    *)
(* and importing, next to each other.                                      *)
(***************************************************************************)
EXTENDS ProductImport

Init == DeletionInit /\ ImportInit

Next ==
    \/ \E d \in Deleter : Delete(d) /\ UNCHANGED importing
    \/ \E s \in Saver : Save(s) /\ UNCHANGED importing
    \/ \E i \in Importer : Import(i)
    \/ Crash /\ UNCHANGED importing

Spec == Init /\ [][Next]_<<vars, importing>>

---------------------------------------------------------------------------
(* An import has told that its cleanup of this product was incomplete. *)
LeftBehind(p) ==
    \E i \in Importer : \E n \in DOMAIN report[i] :
        bundle[i][n].id = p /\ ~report[i][n].complete

(* An import has died before it could tell that. *)
Untold(p) ==
    \E i \in Importer :
        /\ pc[i] = "dead" /\ ~complete[i]
        /\ Len(report[i]) < Len(bundle[i]) /\ Package(i).id = p

(* Nothing is kept for a product that is gone: once no request is under way, *)
(* whatever failed or died before, every configuration, snapshot and profile *)
(* belongs to a product, or is what an import could not clean up, and has    *)
(* told so or died first (ProductDeletionService.delete,                     *)
(* _persist_import_product).                                                 *)
NoOrphans ==
    serial /\ (\A r \in Request : pc[r] \notin Active) =>
        \A k \in DOMAIN file : \A a \in file[k] :
            \/ \E b \in file["products"] : b.id = a.product
            \/ LeftBehind(a.product) \/ Untold(a.product)

(* The files with the product of a package and the configurations that its   *)
(* plugins have made ready.                                                  *)
With(files, package) ==
    LET new == {ConfigurationRow(package, Ready(package)[n].id) :
                    n \in DOMAIN Ready(package)}
    IN  [files EXCEPT
            !["products"] = @ \union {ProductRow(package)},
            !["configurations"] =
                {a \in @ : \A b \in new : ~Clash("configurations", a, b)}
                    \union new]

(* What an import says of a package is true of the files at that moment:     *)
(* "created", and all of it is there, nothing else has changed, and there    *)
(* was no such product or name before.  Anything else it says leaves a       *)
(* product that was there (of an earlier import of the same upload) as it    *)
(* was, and otherwise touches no row but those of the package, of which      *)
(* nothing stays unless it is told (_persist_import_product).                *)
TellsTrue(i, n) ==
    LET package == bundle[i][n]
        told == report'[i][n]
        old == before'[i]
        new == \A a \in old["products"] : a.id # package.id
    IN  IF told.status = "CREATED"
        THEN /\ file' = With(old, package)
             /\ new /\ \A a \in old["products"] : a.body # package.name
        ELSE IF told.status = "BLOCKED" \/ ~new THEN file' = old
        ELSE /\ Without(file', package.id) = Without(old, package.id)
             /\ told.complete => \A k \in Files : file'[k] \subseteq old[k]

(* So it is of every package, as soon as the import has told of it, while no *)
(* other request is under way (_persist_import_product).                     *)
ImportsAreTrue ==
    [][serial => \A i \in Importer :
        \A n \in DOMAIN report'[i] \ DOMAIN report[i] : TellsTrue(i, n)
      ]_<<vars, importing>>

===========================================================================

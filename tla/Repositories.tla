--------------------------- MODULE Repositories ---------------------------
(***************************************************************************)
(* The five JSON repositories of QA Deck, as what each method makes of the *)
(* list it has read.                                                       *)
(*                                                                         *)
(* Every method reads the whole list, computes another one and writes the  *)
(* whole list back.  Here are the computations; the reading and writing    *)
(* are in the modules that use them.  A row keeps what the methods         *)
(* compare: its id (the plugin identifier of a configuration), the product *)
(* it belongs to (its own id, for a product), and a body (the casefolded   *)
(* name, for a product).                                                   *)
(***************************************************************************)

Kinds == {"products", "configurations", "snapshots", "profiles", "logs"}

(* The methods each repository has. *)
Methods(kind) ==
    CASE kind = "products"       -> {"add", "remove"}
      [] kind = "configurations" -> {"upsert", "delete", "delete_for_product"}
      [] kind = "snapshots"      -> {"add", "remove", "delete_for_product"}
      [] kind = "profiles"       -> {"add", "update", "remove",
                                     "delete_for_product"}
      [] kind = "logs"           -> {"append"}

(* The rows a repository may hold: the id of a product is its own. *)
RowsOf(kind, rows) == {a \in rows : kind = "products" => a.id = a.product}

(* Two rows that add() does not let into one list. *)
Clash(kind, a, b) ==
    \/ kind \in {"products", "snapshots"} /\ a.id = b.id
    \/ kind = "products" /\ a.body = b.body
    \/ kind \in {"configurations", "profiles"}
         /\ a.product = b.product /\ a.id = b.id
    \/ kind = "logs" /\ a = b

(* No two rows of a list clash. *)
Unique(kind, rows) == \A a, b \in rows : Clash(kind, a, b) => a = b

(* The rows that a method addressed to row b finds. *)
Found(kind, rows, b) ==
    {a \in rows : a.id = b.id /\ (kind # "products" => a.product = b.product)}

(* The rows it takes out: snapshots.remove filters by the id alone. *)
Filtered(kind, rows, b) ==
    IF kind = "snapshots" THEN {a \in rows : a.id = b.id} ELSE Found(kind, rows, b)

Owned(rows, p) == {a \in rows : a.product = p}

(* Seeded fault: add() compares the ids alone. *)
RaisesOnIdAlone(kind, op, rows) ==
    \/ op.method = "add" /\ \E a \in rows : a.id = op.row.id
    \/ op.method = "update" /\ Found(kind, rows, op.row) = {}

(* The method raises, and nothing is written. *)
Raises(kind, op, rows) ==
    \/ op.method = "add" /\ \E a \in rows : Clash(kind, a, op.row)
    \/ op.method = "update" /\ Found(kind, rows, op.row) = {}

(* remove() of a row that is not there returns None without writing. *)
Writes(kind, op, rows) == op.method = "remove" => Found(kind, rows, op.row) # {}

(* Seeded fault: upsert() appends without taking the old row out. *)
AfterAppending(kind, op, rows) ==
    IF op.method \in {"remove", "delete"} THEN rows \ Filtered(kind, rows, op.row)
    ELSE IF op.method = "delete_for_product" THEN rows \ Owned(rows, op.row.product)
    ELSE rows \union {op.row}

(* Seeded fault: delete_for_product() empties the whole list. *)
AfterClearing(kind, op, rows) ==
    IF op.method \in {"add", "append", "upsert", "update"}
    THEN (rows \ Found(kind, rows, op.row)) \union {op.row}
    ELSE IF op.method = "delete_for_product" THEN {}
    ELSE rows \ Filtered(kind, rows, op.row)

(* The list it leaves, written or not. *)
After(kind, op, rows) ==
    CASE op.method \in {"add", "append"} ->
            rows \union {op.row}
      [] op.method \in {"upsert", "update"} ->
            (rows \ Found(kind, rows, op.row)) \union {op.row}
      [] op.method \in {"remove", "delete"} ->
            IF Writes(kind, op, rows) THEN rows \ Filtered(kind, rows, op.row)
                                      ELSE rows
      [] op.method = "delete_for_product" ->
            rows \ Owned(rows, op.row.product)

===========================================================================

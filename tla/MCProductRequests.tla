------------------------ MODULE MCProductRequests ------------------------
(* Small instances of ProductRequests for TLC. *)
EXTENDS ProductRequests

CONSTANTS d1, d2, s1, i1, i2, p1, p2, p3, p4

Row(id, product, body) == [id |-> id, product |-> product, body |-> body]

(* Two products, the first with rows in every file. *)
FullFiles ==
    [products       |-> {Row(p1, p1, "a"), Row(p2, p2, "b")},
     configurations |-> {Row("license", p1, "a"), Row("license", p2, "a")},
     snapshots      |-> {Row("old", p1, "a")},
     profiles       |-> {Row("qa", p1, "a"), Row("dev", p1, "a"),
                         Row("qa", p2, "a")}]

(* The same with fewer rows. *)
SmallFiles ==
    [products       |-> {Row(p1, p1, "a")},
     configurations |-> {Row("license", p1, "a")},
     snapshots      |-> {},
     profiles       |-> {Row("qa", p1, "a")}]

(* The first product has one configuration, and no other row. *)
OneConfiguration ==
    [products       |-> {Row(p1, p1, "a")},
     configurations |-> {Row("license", p1, "a")},
     snapshots      |-> {},
     profiles       |-> {}]

Coming(one, requests, files) ==
    [serial |-> one, requests |-> requests, files |-> files]

(* One at a time with many rows, and at the same time with fewer. *)
Settings ==
    {Coming(TRUE, {d1, d2, s1}, FullFiles),
     Coming(FALSE, {d1, s1}, SmallFiles),
     Coming(FALSE, {d1, d2}, SmallFiles),
     Coming(TRUE, {i1, i2}, SmallFiles),
     Coming(TRUE, {d1, i1}, SmallFiles),
     Coming(FALSE, {d1, i1}, SmallFiles)}

(* At the same time, with one row. *)
AtOnce == {Coming(FALSE, {d1, d2, s1}, OneConfiguration)}

(* A changed configuration. *)
OneSavable ==
    {[kind |-> "configurations", method |-> "upsert",
      row |-> Row("license", p1, "b")]}

(* A changed and a new configuration, a snapshot, two profiles, a product. *)
SomeSavable ==
    {[kind |-> "configurations", method |-> "upsert",
      row |-> Row("license", p1, "b")],
     [kind |-> "configurations", method |-> "upsert",
      row |-> Row("registry", p2, "a")],
     [kind |-> "snapshots", method |-> "add", row |-> Row("new", p1, "a")],
     [kind |-> "profiles", method |-> "add", row |-> Row("qa", p1, "b")],
     [kind |-> "profiles", method |-> "add", row |-> Row("new", p1, "b")],
     [kind |-> "products", method |-> "add", row |-> Row(p4, p4, "c")]}

Plugin(id, status) == [id |-> id, status |-> status]

Setup(id, name, plugins) == [id |-> id, name |-> name, plugins |-> plugins]

TwoReady == <<Plugin("license", "ready"), Plugin("registry", "ready")>>

(* Two new products, the second with a plugin that is missing here; the same *)
(* upload again, with another name for the first; a name that may be taken.  *)
Bundles ==
    {<<Setup(p3, "c", TwoReady),
       Setup(p4, "d", <<Plugin("other", "unsupported"), Plugin("logs", "ready")>>)>>,
     <<Setup(p3, "e", TwoReady)>>,
     <<Setup(p3, "a", TwoReady), Setup(p4, "f", <<Plugin("logs", "invalid")>>)>>}

===========================================================================

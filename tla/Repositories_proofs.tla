------------------------ MODULE Repositories_proofs ------------------------
(***************************************************************************)
(* What the methods of the repositories keep, whatever list they have read *)
(* and in whatever order their callers run.                                *)
(***************************************************************************)
EXTENDS Repositories, TLAPS

(* The keys of a list stay unique through every method that does not raise. *)
LEMMA MethodKeepsKeys ==
    ASSUME NEW k \in Kinds, NEW o, o.method \in Methods(k), NEW rows,
           Unique(k, rows), ~Raises(k, o, rows)
    PROVE  Unique(k, After(k, o, rows))
<1> DEFINE new == After(k, o, rows)
<1>1. CASE o.method \in {"add", "append"}
  <2>1. new = rows \union {o.row}
    BY <1>1 DEF After
  <2>2. CASE k = "logs"
    BY <2>2 DEF Unique, Clash
  <2>3. CASE k # "logs"
    <3>1. o.method = "add"
      BY <1>1, <2>3 DEF Methods, Kinds
    <3>2. \A a \in rows : ~Clash(k, a, o.row) /\ ~Clash(k, o.row, a)
      BY <3>1, <2>3 DEF Raises, Clash
    <3> QED BY <2>1, <3>2 DEF Unique
  <2> QED BY <2>2, <2>3
<1>2. CASE o.method \in {"upsert", "update"}
  <2>1. new = (rows \ Found(k, rows, o.row)) \union {o.row}
    BY <1>2 DEF After
  <2>2. k \in {"configurations", "profiles"}
    BY <1>2 DEF Methods, Kinds
  <2>3. \A a \in rows \ Found(k, rows, o.row) :
          ~Clash(k, a, o.row) /\ ~Clash(k, o.row, a)
    BY <2>2 DEF Found, Clash
  <2> QED BY <2>1, <2>3 DEF Unique
<1>3. CASE o.method \in {"remove", "delete", "delete_for_product"}
  <2>1. new \subseteq rows
    BY <1>3 DEF After
  <2> QED BY <2>1 DEF Unique
<1> QED BY <1>1, <1>2, <1>3 DEF Methods, Kinds

(* A method that takes out the rows of a product takes out no others. *)
LEMMA DeletionKeepsOthers ==
    ASSUME NEW k \in Kinds \ {"products", "logs"}, NEW o, NEW rows,
           o.method = "delete_for_product"
    PROVE  {a \in After(k, o, rows) : a.product # o.row.product}
               = {a \in rows : a.product # o.row.product}
BY DEF After, Owned

(* A row that is put back replaces none of another product. *)
LEMMA SavingKeepsOthers ==
    ASSUME NEW k \in Kinds \ {"products", "logs"}, NEW o, NEW rows,
           o.method \in {"add", "upsert"}
    PROVE  {a \in After(k, o, rows) : a.product # o.row.product}
               = {a \in rows : a.product # o.row.product}
BY DEF After, Found

===========================================================================

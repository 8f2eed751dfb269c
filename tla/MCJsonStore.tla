---------------------------- MODULE MCJsonStore ----------------------------
(* Small instances of JsonStore for TLC. *)
EXTENDS JsonStore, TLC

CONSTANTS t1, t2, t3, p1, p2

(* Two products of different names, one of them renamed; for the other      *)
(* repositories, two rows of one key and one row of another product, whose  *)
(* id is taken in the third pair.                                           *)
Rows ==
    {[id |-> p1, product |-> p1, body |-> "a"],
     [id |-> p1, product |-> p1, body |-> "b"],
     [id |-> p2, product |-> p2, body |-> "a"],
     [id |-> p1, product |-> p2, body |-> "a"]}

Symmetry == Permutations(Thread)

===========================================================================

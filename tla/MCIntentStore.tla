--------------------------- MODULE MCIntentStore ---------------------------
(* A small instance of IntentStore for TLC. *)
EXTENDS IntentStore, TLC

CONSTANTS r1, r2, r3, s1, s2

Symmetry == Permutations(Request) \union Permutations(Subject)

===========================================================================

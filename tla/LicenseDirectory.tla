------------------------- MODULE LicenseDirectory -------------------------
(***************************************************************************)
(* What License Manager promises about a product's license directory.      *)
(*                                                                         *)
(* Every configured file has two names, the original one and the one with  *)
(* the ".hidden" suffix.  Whatever requests run, fail or die, a file is    *)
(* never overwritten, and a name is only dropped while the other name of   *)
(* the same file still holds the same content.                             *)
(***************************************************************************)
CONSTANTS
    File,       \* the license files
    Content,    \* what a name can hold: one identity per (bytes, size, mtime)
    Absent      \* the value of a name that does not exist

VARIABLE dir    \* dir[f][s]: what side s of file f holds

Side == {"orig", "hidden"}

Other(s) == IF s = "orig" THEN "hidden" ELSE "orig"

Slot == Content \union {Absent}

TypeOK == dir \in [File -> [Side -> Slot]]

Init == TypeOK

(* A free name gets a content from outside: the product writes a license. *)
Appear(f, s, c) ==
    /\ dir[f][s] = Absent
    /\ dir' = [dir EXCEPT ![f][s] = c]

(* A free name becomes a second name of the content next to it. *)
Duplicate(f, s, c) ==
    /\ dir[f][s] = Absent
    /\ dir[f][Other(s)] = c
    /\ dir' = [dir EXCEPT ![f][s] = c]

(* A name is dropped; its content keeps the other name. *)
Drop(f, s) ==
    /\ dir[f][s] = dir[f][Other(s)]
    /\ dir' = [dir EXCEPT ![f][s] = Absent]

Next ==
    \E f \in File, s \in Side :
        \/ \E c \in Content : Appear(f, s, c) \/ Duplicate(f, s, c)
        \/ Drop(f, s)

Spec == Init /\ [][Next]_dir

(* What follows: a content that a file has under one of its names, it keeps. *)
Kept(f) == {dir[f][s] : s \in Side} \ {Absent}

NothingIsLost == [][\A f \in File : Kept(f) \subseteq Kept(f)']_dir

===========================================================================

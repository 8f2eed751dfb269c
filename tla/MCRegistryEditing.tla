------------------------- MODULE MCRegistryEditing -------------------------
(* A small instance of RegistryEditing for TLC. *)
EXTENDS RegistryEditing, TLC

CONSTANTS r1, r2, u1, u2, v1, b1

Desired1 == (v1 :> "a") @@ (b1 :> "hidden")
Desired2 == (v1 :> "b") @@ (b1 :> "visible")

Config(enabled, targets, presets) ==
    [enabled |-> enabled, targets |-> targets, presets |-> presets]

AllEnabled == (v1 :> TRUE) @@ (b1 :> TRUE)

Preset1 == Config(TRUE, AllEnabled, "p1" :> Desired1)

(* A preset; the same with other data; with a disabled target; deleted; and  *)
(* one of a disabled plugin.                                                 *)
Configurations ==
    {Preset1,
     Config(TRUE, AllEnabled, "p1" :> Desired2),
     Config(TRUE, (v1 :> FALSE) @@ (b1 :> TRUE), "p1" :> Desired1),
     Config(TRUE, v1 :> TRUE, Empty),
     Config(FALSE, AllEnabled, "p1" :> Desired1)}

Edited(kind, action, was, id, item) ==
    [kind |-> kind, action |-> action, original |-> was, id |-> id, item |-> item]

(* A target is added, disabled, exchanged or deleted; a preset is added,     *)
(* changed or deleted.                                                       *)
Forms ==
    {Edited("targets", "save", "none", b1, TRUE),
     Edited("targets", "save", v1, v1, FALSE),
     Edited("targets", "save", v1, b1, TRUE),
     Edited("targets", "delete", b1, b1, FALSE),
     Edited("presets", "save", "none", "p1", Desired1),
     Edited("presets", "save", "p1", "p1", v1 :> "b"),
     Edited("presets", "delete", "p1", "p1", Empty)}

Left(previews, faults, changes, edited) ==
    [previews |-> previews, faults |-> faults, changes |-> changes,
     edits |-> edited]

Begin(c, value, branch, budgets) ==
    {[registry |-> (v1 :> value) @@ (b1 :> branch), configuration |-> c,
      budget |-> left] : left \in budgets}

(* Two confirmations with a failure, a change or an edit; one that meets     *)
(* more; edits without a confirmation.                                       *)
Beginnings ==
    Begin(Preset1, "b", "visible",
          {Left(2, 1, 0, 0), Left(2, 0, 1, 0), Left(2, 0, 0, 1),
           Left(1, 2, 1, 0), Left(1, 1, 0, 1), Left(0, 1, 0, 3)})
    \union Begin(Preset1, "b", "conflict", {Left(2, 0, 1, 0), Left(1, 1, 1, 0)})
    \union UNION {Begin(Preset1, value, "visible", {Left(2, 0, 1, 0), Left(1, 1, 0, 1)}) :
                  value \in {"missing", "strange"}}
    \union UNION {Begin(c, "b", "visible", {Left(2, 1, 0, 0), Left(1, 0, 1, 1)}) :
                  c \in Configurations \ {Preset1}}

===========================================================================

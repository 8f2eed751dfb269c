----------------------- MODULE MCEnvironmentChanges -----------------------
(* Small instances of EnvironmentChanges for TLC. *)
EXTENDS EnvironmentChanges

CONSTANTS a1, s1, f1, f2, v1, b1, l1, here, there

Config(place, listed, preset) ==
    [enabled |-> TRUE, place |-> place, listed |-> listed, preset |-> preset]

Licenses == Config(here, {f1}, None)
Logs == Config(here, {l1}, None)

(* The preset wants the other data and the branch hidden; another one does   *)
(* not name the branch.                                                      *)
Preset == (v1 :> "hidden") @@ (b1 :> "hidden")
Registry == Config(here, {v1, b1}, Preset)

Configured == [license |-> Licenses, logs |-> Logs, registry |-> Registry]

Wanted == [licenses |-> f1 :> "hidden", preset |-> TRUE]

(* Files of one state, one value and one branch. *)
Look(file, value, branch) ==
    [place \in {here, there} |->
        [x \in Resource |->
            [status |-> CASE x \in File -> file [] x = v1 -> value
                          [] x = b1 -> branch [] x = l1 -> "active",
             mark   |-> 1]]]

(* Everything was hidden when it was captured. *)
Saved(things) ==
    [x \in things |->
        [place |-> IF x = f1 THEN None ELSE here,
         look  |-> [status |-> "hidden", mark |-> 1]]]

Purse(faults, changes, edits) ==
    [faults |-> faults, changes |-> changes, edits |-> edits, failed |-> FALSE]

BeginAs(lk, conf, prof, snap, purse) ==
    [look |-> lk, config |-> conf, profile |-> prof, snapshot |-> snap,
     budget |-> purse]

Begin(lk, prof, snap, purse) == BeginAs(lk, Configured, prof, snap, purse)

Present == Look("active", "active", "active")
Gap == Look("active", "missing", "hidden")
Odd == Look("active", "strange", "active")
All == Saved({f1, v1, b1, l1})

(* The profile or the snapshot alone, with two things that come in between;  *)
(* and both at the same time, in each other's way.                           *)
Alone == {Purse(1, 1, 0), Purse(1, 0, 1), Purse(0, 1, 1), Purse(2, 0, 0)}

(* Two files and nothing of the Registry. *)
TwoFiles ==
    BeginAs(Present,
            [Configured EXCEPT !.license.listed = {f1, f2}, !.registry = None],
            [licenses |-> [x \in {f1, f2} |-> "hidden"], preset |-> FALSE],
            None, Purse(1, 1, 0))

(* A preset that names no target. *)
EmptyPreset ==
    BeginAs(Present, [Configured EXCEPT !.registry.preset = Nothing], Wanted, None,
            Purse(1, 0, 0))

(* A preset with a target that is disabled, and may come to be enabled. *)
Disabled ==
    BeginAs(Present, [Configured EXCEPT !.registry.listed = {v1}], Wanted, None,
            Purse(0, 1, 1))

(* A value of a kind that the reader does not know. *)
Strange ==
    {Begin(Odd, Wanted, None, Purse(0, 1, 0)),
     Begin(Odd, None, Saved({f1, v1}), Purse(0, 1, 0))}

Beginnings ==
    {TwoFiles, EmptyPreset, Disabled} \union Strange \union
    {Begin(Present, Wanted, None, purse) : purse \in Alone}
    \union {Begin(Present, None, All, purse) : purse \in Alone}
    \union {Begin(Gap, Wanted, None, Purse(0, 1, 0)),
            Begin(Gap, None, Saved({f1, v1}), Purse(0, 1, 0)),
            Begin(Present, Wanted, All, Purse(0, 0, 0))}

(* Whatever may be saved: the file or a target elsewhere, not listed, or the *)
(* plugin disabled; a preset for the value alone, or none; all targets       *)
(* enabled, or the value alone.                                              *)
Editable ==
    [license  |-> {[Licenses EXCEPT !.place = there], [Licenses EXCEPT !.listed = {}],
                   [Licenses EXCEPT !.enabled = FALSE]},
     logs     |-> {[Logs EXCEPT !.enabled = FALSE]},
     registry |-> {Registry, [Registry EXCEPT !.listed = {v1}],
                   [Registry EXCEPT !.place = there],
                   [Registry EXCEPT !.preset = v1 :> "hidden"],
                   [Registry EXCEPT !.preset = None],
                   [Registry EXCEPT !.enabled = FALSE]}]

OtherProfiles == {[licenses |-> f1 :> "active", preset |-> FALSE]}

(* A value that is not there, a branch and a file that are. *)
ValueMissing ==
    {Begin(Look("active", "missing", "active"), Wanted, None, Purse(0, 0, 0))}

===========================================================================

-------------------------- MODULE RegistryEditing --------------------------
(***************************************************************************)
(* Editing the configuration of the Windows Registry plugin, next to the   *)
(* requests that apply a preset of it.                                     *)
(*                                                                         *)
(* A target or a preset is edited by a form of its own.  The request reads *)
(* the whole configuration, changes one item, and saves the whole again if *)
(* it is valid; for a preset it reads the configuration a second time, for *)
(* the targets that the form may name.  What another request has saved in  *)
(* between is overwritten.                                                 *)
(***************************************************************************)
EXTENDS RegistryExecution, FiniteSets

CONSTANTS
    Editor,         \* requests that edit
    Form,           \* what they submit: [kind, action, original, id, item];
                    \* "original" is the id of the item edited, "none" of a
                    \* new one; the item of a target is whether it is enabled,
                    \* of a preset what it wants of each target filled in
    MaxTargets,     \* MAX_TARGETS
    MaxPresets      \* MAX_PRESETS

ASSUME FormAssumption ==
    \A f \in Form :
        /\ f.kind \in {"targets", "presets"} /\ f.action \in {"save", "delete"}
        /\ f.original \in Target \union Preset \union {"none"}
        /\ f.kind = "targets" => f.id \in Target /\ f.item \in BOOLEAN
        /\ f.kind = "presets" => f.id \in Preset /\ IsDesired(f.item)
ASSUME LimitsAssumption ==
    /\ MaxTargets \in Nat /\ MaxPresets \in Nat
    /\ IsFiniteSet(Preset) /\ MaxPresets < Cardinality(Preset)

VARIABLES
    editing,        \* where each editing request is
    form,           \* the form it has got
    settings,       \* the configuration it has read, and then changed
    answer          \* what it has answered

edits == <<editing, form, settings, answer>>

execution == <<registry, pc, todo, at, original, plans, outcomes, ghosts>>

Init ==
    /\ ExecutionInit
    /\ editing = [u \in Editor |-> "idle"]
    /\ form = [u \in Editor |-> "none"]
    /\ settings = [u \in Editor |-> configuration]
    /\ answer = [u \in Editor |-> "none"]

---------------------------------------------------------------------------
(* _validate_collections: ids are unique where items are a function of them. *)
Valid(c) ==
    /\ Cardinality(DOMAIN c.targets) <= MaxTargets
    /\ Cardinality(DOMAIN c.presets) <= MaxPresets
    /\ \A p \in DOMAIN c.presets : DOMAIN c.presets[p] \subseteq DOMAIN c.targets

(* Whatever is saved as a whole is validated, too. *)
ASSUME ValidAssumption ==
    /\ \A c \in Configuration : Valid(c)
    /\ \A b \in Setting : Valid(b.configuration)

Items(u) == settings[u][form[u].kind]

Without(items, id) == [i \in DOMAIN items \ {id} |-> items[i]]

Put(u, items) == settings' = [settings EXCEPT ![u][form[u].kind] = items]

At(u, stage) ==
    /\ editing' = [editing EXCEPT ![u] = stage]
    /\ UNCHANGED answer

Answer(u, reply) ==
    /\ editing' = [editing EXCEPT ![u] = "answered"]
    /\ answer' = [answer EXCEPT ![u] = reply]

(* The item takes the place of the original, or comes to the others, unless  *)
(* the original is gone; an id that another item has would not be valid.     *)
Replace(u, id, item) ==
    IF /\ form[u].original \in DOMAIN Items(u) \union {"none"}
       /\ id \notin DOMAIN Items(u) \ {form[u].original}
    THEN /\ Put(u, With(Without(Items(u), form[u].original), id, item))
         /\ At(u, "saving")
    ELSE Answer(u, "rejected") /\ UNCHANGED settings

---------------------------------------------------------------------------
(* The configuration is read. *)
ReadSettings(u) ==
    /\ editing[u] = "idle"
    /\ Spend("edits")
    /\ form' \in {[form EXCEPT ![u] = f] : f \in Form}
    /\ settings' = [settings EXCEPT ![u] = configuration]
    /\ At(u, "editing")
    /\ UNCHANGED <<execution, configuration>>

(* Reading it or saving it fails. *)
EditFails(u) ==
    /\ editing[u] \in {"editing", "saving"}
    /\ Fault
    /\ Answer(u, "failed")
    /\ UNCHANGED <<execution, configuration, form, settings>>

DeleteItem(u) ==
    /\ editing[u] = "editing"
    /\ form[u].action = "delete"
    /\ IF form[u].original \in DOMAIN Items(u)
       THEN Put(u, Without(Items(u), form[u].original)) /\ At(u, "saving")
       ELSE Answer(u, "not_found") /\ UNCHANGED settings
    /\ UNCHANGED <<execution, configuration, budget, form>>

SaveTarget(u) ==
    /\ editing[u] = "editing"
    /\ form[u].action = "save" /\ form[u].kind = "targets"
    /\ Replace(u, form[u].id, form[u].item)
    /\ UNCHANGED <<execution, configuration, budget, form>>

(* The id of a preset: its own, or for a new one its name, if that is free. *)
PresetIds(u) ==
    IF form[u].original # "none" THEN {form[u].original}
    ELSE IF form[u].id \notin DOMAIN Items(u) THEN {form[u].id}
    ELSE Preset \ DOMAIN Items(u)

(* The preset is made of what is filled in for the targets that there are    *)
(* now: the configuration is read again for them.                            *)
SavePreset(u) ==
    /\ editing[u] = "editing"
    /\ form[u].action = "save" /\ form[u].kind = "presets"
    /\ LET filled == DOMAIN form[u].item \intersect DOMAIN configuration.targets
       IN IF filled = {}
          THEN Answer(u, "rejected") /\ UNCHANGED settings
          ELSE \E id \in PresetIds(u) :
                 Replace(u, id, [e \in filled |-> form[u].item[e]])
    /\ UNCHANGED <<execution, configuration, budget, form>>

(* Seeded fault: a preset is saved without validation, as its form names     *)
(* none but configured targets.                                              *)
SaveSettingsUnchecked(u) ==
    /\ editing[u] = "saving"
    /\ IF form[u].kind = "presets" \/ Valid(settings[u])
       THEN configuration' = settings[u] /\ Answer(u, "saved")
       ELSE Answer(u, "rejected") /\ UNCHANGED configuration
    /\ UNCHANGED <<execution, budget, form, settings>>

(* All of it is saved, whatever the stored configuration is by then. *)
SaveSettings(u) ==
    /\ editing[u] = "saving"
    /\ IF Valid(settings[u])
       THEN configuration' = settings[u] /\ Answer(u, "saved")
       ELSE Answer(u, "rejected") /\ UNCHANGED configuration
    /\ UNCHANGED <<execution, budget, form, settings>>

EditItem(u) ==
    \/ ReadSettings(u)
    \/ DeleteItem(u)
    \/ SaveTarget(u)
    \/ SavePreset(u)
    \/ SaveSettings(u)
    \/ EditFails(u)

Next ==
    \/ \E r \in Request : (Preview(r) \/ Confirm(r) \/ Serve(r)) /\ UNCHANGED edits
    \/ OtherProgram /\ UNCHANGED edits
    \/ SaveConfiguration /\ UNCHANGED edits
    \/ \E u \in Editor : EditItem(u)

(* A request that has been made is served; nobody has to edit. *)
Spec ==
    /\ Init
    /\ [][Next]_<<vars, edits>>
    /\ \A r \in Request : WF_vars(Serve(r))

---------------------------------------------------------------------------
(* However edits overlap, the stored configuration can be read: it has no    *)
(* more items than it may, and no preset names a target that is not          *)
(* configured, although the form of a preset is filled in from another       *)
(* reading of the configuration than the one that it is saved with           *)
(* (_edit_registry_target, edit_registry_preset).                            *)
StaysUsable == Valid(configuration)

===========================================================================

------------------------- MODULE RegistryExecution -------------------------
(***************************************************************************)
(* Applying a preset of the Windows Registry plugin.                       *)
(*                                                                         *)
(* A preset gives some configured targets a desired state: a value its     *)
(* data, a branch (a key that can be renamed to a hidden name) its         *)
(* visibility.  A preview reads the targets one after the other and shows  *)
(* a plan; its intent keeps what was read and the configuration it was     *)
(* planned from.  The confirmation reads the configuration and the targets *)
(* again and executes the entries whose state is still the one shown, one  *)
(* after the other: write, read back, and put the old state back if that   *)
(* failed.  The Registry has no lock: other programs, and other            *)
(* confirmations, change it between any two native calls, and every native *)
(* call may fail.  How a token finds its intent is in IntentStore; here    *)
(* each request previews once and is confirmed at most once.               *)
(***************************************************************************)
EXTENDS Naturals

CONSTANTS
    Request,        \* one preview and its confirmation
    Value, Branch,  \* targets
    Data,           \* the data of a value, with their type
    Preset,         \* the names of presets
    Applied,        \* the preset that is previewed and applied
    Configuration,  \* configurations that a user may save as a whole
    Setting         \* how it may begin: [registry, configuration, budget]; the
                    \* budget bounds the previews, the native calls and files
                    \* that fail, the changes by other programs and the edits

Target == Value \union Branch
Visibility == {"visible", "hidden"}
BranchState == Visibility \union {"conflict", "missing"}
Unread == {"unavailable", "error"}

(* A strange value is there, of a representation that the reader has no name *)
(* for.                                                                      *)
State(e) == IF e \in Value THEN Data \union {"missing", "strange"} ELSE BranchState

ASSUME TargetAssumption == Value \cap Branch = {} /\ "none" \notin Target
ASSUME DataAssumption == Data \cap (Unread \union {"missing", "strange"}) = {}
ASSUME PresetAssumption == Applied \in Preset /\ "none" \notin Preset

(* What a preset may want of the targets it names. *)
IsDesired(desired) ==
    /\ DOMAIN desired \subseteq Target
    /\ \A e \in DOMAIN desired :
          desired[e] \in IF e \in Value THEN Data ELSE Visibility

(* A draft of a configuration: which targets there are, and which of them    *)
(* are enabled; what each preset wants.                                      *)
IsDraft(c) ==
    /\ DOMAIN c = {"enabled", "targets", "presets"}
    /\ c.enabled \in BOOLEAN
    /\ DOMAIN c.targets \subseteq Target
    /\ \A e \in DOMAIN c.targets : c.targets[e] \in BOOLEAN
    /\ DOMAIN c.presets \subseteq Preset
    /\ \A p \in DOMAIN c.presets : IsDesired(c.presets[p])

(* In a configuration the presets name none but its targets. *)
IsConfiguration(c) ==
    /\ IsDraft(c)
    /\ \A p \in DOMAIN c.presets : DOMAIN c.presets[p] \subseteq DOMAIN c.targets

ASSUME ConfigurationAssumption == \A c \in Configuration : IsConfiguration(c)
ASSUME SettingAssumption ==
    \A b \in Setting :
        /\ DOMAIN b.registry = Target
        /\ \A e \in Target : b.registry[e] \in State(e)
        /\ IsConfiguration(b.configuration)
        /\ b.budget \in [previews : Nat, faults : Nat, changes : Nat, edits : Nat]

VARIABLES
    registry,       \* the state of each target
    configuration,  \* the stored configuration of the plugin
    pc,             \* where each request is
    todo,           \* the targets still to be read, or to be executed
    at,             \* the target it is at
    original,       \* of a branch being read: what its visible name was found to be
    authority,      \* the configuration the preview was planned from
    current,        \* the configuration the confirmation has read
    shown,          \* the plan of the preview: target -> reading
    planned,        \* the plan of the confirmation: target -> reading
    status,         \* the result of each entry
    rollback,       \* its rollback
    log,            \* the entry of the operation log
    budget,         \* how many of each are left
    wrote,          \* ghost: the targets the request has written
    touched         \* ghost: those that others have, since it began to read them

plans == <<authority, current, shown, planned>>
outcomes == <<status, rollback, log>>
ghosts == <<wrote, touched>>
vars == <<registry, configuration, pc, todo, at, original, plans, outcomes,
          budget, ghosts>>

Empty == [e \in {} |-> "none"]

HasPreset(c) == Applied \in DOMAIN c.presets
Desired(c) == c.presets[Applied]
Enabled(c, e) == c.targets[e]

(* What the plan for a preset depends on. *)
Authority(c) ==
    [enabled |-> c.enabled, desired |-> Desired(c),
     targets |-> [e \in DOMAIN Desired(c) |-> c.targets[e]]]

With(f, e, x) == [d \in DOMAIN f \union {e} |-> IF d = e THEN x ELSE f[d]]

Inspecting == {"previewing", "planning", "verifying", "inspecting", "reverifying"}

ExecutionInit ==
    /\ \E b \in Setting :
        /\ registry = b.registry
        /\ configuration = b.configuration
        /\ budget = b.budget
    /\ pc = [r \in Request |-> "idle"]
    /\ todo = [r \in Request |-> {}]
    /\ at = [r \in Request |-> "none"]
    /\ original = [r \in Request |-> "unread"]
    /\ authority = [r \in Request |-> configuration]
    /\ current = [r \in Request |-> configuration]
    /\ shown = [r \in Request |-> Empty]
    /\ planned = [r \in Request |-> Empty]
    /\ status = [r \in Request |-> Empty]
    /\ rollback = [r \in Request |-> Empty]
    /\ log = [r \in Request |-> [status |-> "none", rollback |-> "not_required"]]
    /\ wrote = [r \in Request |-> {}]
    /\ touched = [r \in Request |-> {}]

Goto(r, label) == pc' = [pc EXCEPT ![r] = label]

Spend(what) ==
    /\ budget[what] > 0
    /\ budget' = [budget EXCEPT ![what] = @ - 1]

Fault == Spend("faults")

---------------------------------------------------------------------------
(* The planner. *)

(* The status of an entry, from the reading of its target. *)
PlanStatus(e, reading, desired) ==
    IF reading \in {"error", "strange"} THEN "error"
    ELSE IF reading \in {"missing", "unavailable", "conflict"} THEN "blocked"
    ELSE IF reading = desired THEN "no_change"
    ELSE "ready"

ShownStatus(r, e) == PlanStatus(e, shown[r][e], Desired(authority[r])[e])
PlannedStatus(r, e) == PlanStatus(e, planned[r][e], Desired(current[r])[e])

(* The entries an intent may execute. *)
Eligible(r) == {e \in DOMAIN shown[r] : ShownStatus(r, e) = "ready"}

(* The next targets: values before branches, each in the preset's order,     *)
(* which may be any.                                                         *)
Upcoming(r) ==
    IF at[r] # "none" THEN {at[r]}
    ELSE IF todo[r] \cap Value # {} THEN todo[r] \cap Value
    ELSE todo[r]

---------------------------------------------------------------------------
(* Results of entries. *)

Finish(r, e, s, b) ==
    /\ status' = [status EXCEPT ![r] = With(@, e, s)]
    /\ rollback' = [rollback EXCEPT ![r] = With(@, e, b)]
    /\ todo' = [todo EXCEPT ![r] = @ \ {e}]
    /\ at' = [at EXCEPT ![r] = "none"]
    /\ Goto(r, "deciding")

(* What a reading is for: a plan of the preview, or of the confirmation ... *)
Planned(r, e, reading) ==
    /\ \/ /\ pc[r] = "previewing"
          /\ shown' = [shown EXCEPT ![r] = With(@, e, reading)]
          /\ UNCHANGED planned
       \/ /\ pc[r] = "planning"
          /\ planned' = [planned EXCEPT ![r] = With(@, e, reading)]
          /\ UNCHANGED shown
    /\ todo' = [todo EXCEPT ![r] = @ \ {e}]
    /\ at' = [at EXCEPT ![r] = "none"]
    /\ UNCHANGED <<pc, status, rollback>>

(* Seeded fault: what has been written is reported as done. *)
VerifiedUnread(r, e, reading) ==
    /\ pc[r] = "verifying"
    /\ Finish(r, e, "succeeded", "not_required")
    /\ UNCHANGED <<shown, planned>>

(* ... to verify a write, which is rolled back if it has not had its effect: *)
(* a value at once, a branch after another reading.                          *)
Verified(r, e, reading) ==
    /\ pc[r] = "verifying"
    /\ IF reading = Desired(current[r])[e]
       THEN Finish(r, e, "succeeded", "not_required")
       ELSE /\ Goto(r, IF e \in Value THEN "restoring" ELSE "inspecting")
            /\ UNCHANGED <<todo, at, status, rollback>>
    /\ UNCHANGED <<shown, planned>>

(* ... to see whether a branch is still as it was renamed ...                *)
Inspected(r, e, reading) ==
    /\ pc[r] = "inspecting"
    /\ IF reading = Desired(current[r])[e]
       THEN Goto(r, "renaming_back") /\ UNCHANGED <<todo, at, status, rollback>>
       ELSE Finish(r, e, "failed", "failed")
    /\ UNCHANGED <<shown, planned>>

(* ... or to verify a rollback.                                              *)
Reverified(r, e, reading) ==
    /\ pc[r] = "reverifying"
    /\ Finish(r, e, "failed",
              IF reading = planned[r][e] THEN "succeeded" ELSE "failed")
    /\ UNCHANGED <<shown, planned>>

Conclude(r, e, reading) ==
    \/ Planned(r, e, reading)
    \/ Verified(r, e, reading)
    \/ Inspected(r, e, reading)
    \/ Reverified(r, e, reading)

---------------------------------------------------------------------------
(* The reader. *)

StartReading(r, e) == touched' = [touched EXCEPT ![r] = @ \ {e}]

ReadValue(r) ==
    /\ pc[r] \in Inspecting
    /\ \E e \in Upcoming(r) \cap Value :
        /\ \/ Conclude(r, e, registry[e]) /\ UNCHANGED budget
           \/ Fault /\ \E reading \in Unread : Conclude(r, e, reading)
        /\ StartReading(r, e)
    /\ UNCHANGED <<registry, configuration, original, authority, current, log,
                   wrote>>

(* A branch is read in two calls: is there a key of its visible name, ...    *)
ReadVisible(r) ==
    /\ pc[r] \in Inspecting
    /\ original[r] = "unread"
    /\ \E e \in Upcoming(r) \cap Branch :
        /\ \/ /\ original' = [original EXCEPT ![r] =
                                IF registry[e] \in {"visible", "conflict"}
                                THEN "present" ELSE "absent"]
              /\ at' = [at EXCEPT ![r] = e]
              /\ UNCHANGED <<pc, todo, shown, planned, status, rollback, budget>>
           \/ /\ Fault
              /\ \E reading \in Unread : Conclude(r, e, reading)
              /\ UNCHANGED original
        /\ StartReading(r, e)
    /\ UNCHANGED <<registry, configuration, authority, current, log, wrote>>

(* ... and is there one of its hidden name?                                  *)
ReadHidden(r) ==
    /\ original[r] # "unread"
    /\ LET e == at[r]
           hidden == registry[e] \in {"hidden", "conflict"}
           reading == CASE original[r] = "present" /\ hidden -> "conflict"
                        [] original[r] = "present" /\ ~hidden -> "visible"
                        [] original[r] = "absent" /\ hidden -> "hidden"
                        [] original[r] = "absent" /\ ~hidden -> "missing"
       IN \/ Conclude(r, e, reading) /\ UNCHANGED budget
          \/ Fault /\ \E failure \in Unread : Conclude(r, e, failure)
    /\ original' = [original EXCEPT ![r] = "unread"]
    /\ UNCHANGED <<registry, configuration, authority, current, log, ghosts>>

---------------------------------------------------------------------------
(* The routes. *)

(* A preview starts from the stored configuration. *)
Preview(r) ==
    /\ pc[r] = "idle"
    /\ Spend("previews")
    /\ authority' = [authority EXCEPT ![r] = configuration]
    /\ IF HasPreset(configuration)
       THEN /\ Goto(r, "previewing")
            /\ todo' = [todo EXCEPT ![r] = DOMAIN Desired(configuration)]
       ELSE Goto(r, "nothing") /\ UNCHANGED todo
    /\ UNCHANGED <<registry, configuration, at, original, current, shown,
                   planned, outcomes, ghosts>>

(* The plan is shown, with an intent if there is something to execute. *)
CreateIntent(r) ==
    /\ pc[r] = "previewing"
    /\ todo[r] = {}
    /\ Goto(r, IF Eligible(r) = {} THEN "nothing" ELSE "offered")
    /\ UNCHANGED <<registry, configuration, todo, at, original, plans, outcomes,
                   budget, ghosts>>

(* The confirmation reads the configuration again.  If that fails, or the    *)
(* plugin is disabled in it, the answer is a warning.                        *)
Confirm(r) ==
    /\ pc[r] = "offered"
    /\ current' = [current EXCEPT ![r] = configuration]
    /\ \/ /\ configuration.enabled
          /\ Goto(r, "planning")
          /\ todo' = [todo EXCEPT ![r] =
                        IF HasPreset(configuration) THEN DOMAIN Desired(configuration)
                                                ELSE {}]
          /\ UNCHANGED budget
       \/ /\ IF configuration.enabled THEN Fault ELSE UNCHANGED budget
          /\ Goto(r, "refused")
          /\ UNCHANGED todo
    /\ UNCHANGED <<registry, configuration, at, original, authority, shown,
                   planned, outcomes, ghosts>>

---------------------------------------------------------------------------
(* The executor. *)

(* registry_authority_fingerprint: what the plan depends on is what it was. *)
SameAuthority(r) ==
    HasPreset(current[r]) /\ Authority(current[r]) = Authority(authority[r])

(* The plan is complete.  If it is not made from the configuration that the  *)
(* preview was made from, every entry of the preview is stale.               *)
CheckAuthority(r) ==
    /\ pc[r] = "planning"
    /\ todo[r] = {}
    /\ IF SameAuthority(r)
       THEN /\ Goto(r, "deciding")
            /\ todo' = [todo EXCEPT ![r] = DOMAIN planned[r]]
            /\ UNCHANGED <<status, rollback>>
       ELSE /\ Goto(r, "finished")
            /\ status' = [status EXCEPT ![r] = [e \in DOMAIN shown[r] |-> "stale"]]
            /\ rollback' = [rollback EXCEPT
                              ![r] = [e \in DOMAIN shown[r] |-> "not_required"]]
            /\ UNCHANGED todo
    /\ UNCHANGED <<registry, configuration, at, original, plans, log, budget,
                   ghosts>>

(* Seeded fault: the reading may be another one than was shown. *)
FreshEnough(r, e) ==
    /\ PlannedStatus(r, e) = "ready"
    /\ Enabled(current[r], e)

(* The entry is what was shown: same reading, still to be changed. *)
Fresh(r, e) ==
    /\ planned[r][e] = shown[r][e]
    /\ PlannedStatus(r, e) = "ready"
    /\ Enabled(current[r], e)

Blocked(r, e) == e \in Branch /\ PlannedStatus(r, e) = "blocked"

(* An entry that is not executed gets its result at once.  (What a reader    *)
(* finds available a preset accepts, so that it can be written back.)        *)
SkipEntry(r) ==
    /\ pc[r] = "deciding"
    /\ \E e \in Upcoming(r) :
        \/ Blocked(r, e) /\ Finish(r, e, "blocked", "not_required")
        \/ /\ ~Blocked(r, e)
           /\ e \notin Eligible(r)
           /\ Finish(r, e, IF PlannedStatus(r, e) = "no_change"
                           THEN "no_change" ELSE "skipped", "not_required")
        \/ /\ ~Blocked(r, e)
           /\ e \in Eligible(r)
           /\ ~Fresh(r, e)
           /\ Finish(r, e, "stale", "not_required")
    /\ UNCHANGED <<registry, configuration, original, plans, log, budget, ghosts>>

(* The others are executed. *)
ExecuteEntry(r) ==
    /\ pc[r] = "deciding"
    /\ \E e \in Upcoming(r) :
        /\ e \in Eligible(r)
        /\ Fresh(r, e)
        /\ at' = [at EXCEPT ![r] = e]
        /\ Goto(r, IF e \in Value THEN "writing" ELSE "renaming")
    /\ UNCHANGED <<registry, configuration, todo, original, plans, outcomes,
                   budget, ghosts>>

---------------------------------------------------------------------------
(* The writer. *)

(* Seeded fault: a write that fails is tried again. *)
RaiseAndRetry(r, e) ==
    Goto(r, "deciding") /\ UNCHANGED <<todo, at, status, rollback>>

(* A call that raises: the first write is rolled back, a rename that had no  *)
(* effect has nothing to roll back, and a failed rollback is the end of it.  *)
Raise(r, e) ==
    IF pc[r] \in {"writing", "setting"}
    THEN Goto(r, "restoring") /\ UNCHANGED <<todo, at, status, rollback>>
    ELSE Finish(r, e, "failed",
                IF pc[r] = "renaming" THEN "not_required" ELSE "failed")

Return(r, label) ==
    Goto(r, label) /\ UNCHANGED <<todo, at, status, rollback, budget>>

Change(r, e, state) ==
    /\ registry' = [registry EXCEPT ![e] = state]
    /\ wrote' = [wrote EXCEPT ![r] = @ \union {e}]
    /\ touched' = [q \in Request |->
                    IF q = r THEN touched[q] ELSE touched[q] \union {e}]

(* set_value opens the key and reads the value, so that it must exist, ...   *)
FindValue(r) ==
    /\ pc[r] \in {"writing", "restoring"}
    /\ LET e == at[r] IN
        \/ /\ registry[e] # "missing"
           /\ Return(r, IF pc[r] = "writing" THEN "setting" ELSE "resetting")
        \/ registry[e] = "missing" /\ Raise(r, e) /\ UNCHANGED budget
        \/ Fault /\ Raise(r, e)
    /\ UNCHANGED <<registry, configuration, original, plans, log, ghosts>>

(* ... then writes it: the desired data, or those of the plan.               *)
SetValue(r) ==
    /\ pc[r] \in {"setting", "resetting"}
    /\ LET e == at[r] IN
        \/ /\ pc[r] = "setting"
           /\ Change(r, e, Desired(current[r])[e])
           /\ Return(r, "verifying")
        \/ /\ pc[r] = "resetting"
           /\ Change(r, e, planned[r][e])
           /\ Return(r, "reverifying")
        \/ /\ registry[e] = "missing"
           /\ Raise(r, e)
           /\ UNCHANGED <<registry, ghosts, budget>>
        \/ /\ Fault
           /\ Raise(r, e)
           /\ UNCHANGED <<registry, ghosts>>
    /\ UNCHANGED <<configuration, original, plans, log>>

Opposite(visibility) == IF visibility = "visible" THEN "hidden" ELSE "visible"

(* rename_branch gives a branch the other name, if there is a key of the one *)
(* and none of the other: a rename never overwrites.                         *)
RenameBranch(r) ==
    /\ pc[r] \in {"renaming", "renaming_back"}
    /\ LET e == at[r]
           visibility == IF pc[r] = "renaming"
                         THEN Desired(current[r])[e]
                         ELSE Opposite(Desired(current[r])[e])
       IN \/ /\ registry[e] = Opposite(visibility)
             /\ Change(r, e, visibility)
             /\ Return(r, IF pc[r] = "renaming" THEN "verifying" ELSE "reverifying")
          \/ /\ registry[e] # Opposite(visibility)
             /\ Raise(r, e)
             /\ UNCHANGED <<registry, ghosts, budget>>
          \/ /\ Fault
             /\ Raise(r, e)
             /\ UNCHANGED <<registry, ghosts>>
    /\ UNCHANGED <<configuration, original, plans, log>>

---------------------------------------------------------------------------
(* The answer. *)

Got(r, s) == \E e \in DOMAIN status[r] : status[r][e] = s
RolledBack(r, b) == \E e \in DOMAIN rollback[r] : rollback[r][e] = b

(* Seeded fault: entries that were not executed do not count. *)
LoggedOptimistically(r) ==
    IF Got(r, "failed")
    THEN IF Got(r, "succeeded") THEN "partial" ELSE "failed"
    ELSE IF Got(r, "succeeded") THEN "success"
    ELSE IF Got(r, "stale") \/ Got(r, "blocked") THEN "blocked" ELSE "no_changes"

LoggedStatus(r) ==
    IF Got(r, "failed")
    THEN IF Got(r, "succeeded") THEN "partial" ELSE "failed"
    ELSE IF Got(r, "stale") \/ Got(r, "blocked")
    THEN IF Got(r, "succeeded") THEN "partial" ELSE "blocked"
    ELSE IF Got(r, "succeeded") THEN "success" ELSE "no_changes"

LoggedRollback(r) ==
    IF RolledBack(r, "failed") THEN "partial"
    ELSE IF RolledBack(r, "succeeded") THEN "complete"
    ELSE "not_required"

(* Every entry has its result, or there is a warning: it is logged, and the  *)
(* result is shown whether the log could be written or not.                  *)
Log(r) ==
    /\ \/ pc[r] = "deciding" /\ todo[r] = {} /\ Goto(r, "done")
       \/ pc[r] = "finished" /\ Goto(r, "done")
       \/ pc[r] = "refused" /\ Goto(r, "warned")
    /\ \/ /\ log' = [log EXCEPT ![r] = [status |-> LoggedStatus(r),
                                        rollback |-> LoggedRollback(r)]]
          /\ UNCHANGED budget
       \/ /\ Fault
          /\ log' = [log EXCEPT ![r].status = "lost"]
    /\ UNCHANGED <<registry, configuration, todo, at, original, plans, status,
                   rollback, ghosts>>

---------------------------------------------------------------------------
(* Meanwhile: another program writes, creates, deletes or renames ...        *)
OtherProgram ==
    /\ Spend("changes")
    /\ \E e \in Target : \E state \in State(e) \ {registry[e]} :
        registry' = [registry EXCEPT ![e] = state]
    /\ touched' = [r \in Request |->
                    touched[r] \union {e \in Target : registry'[e] # registry[e]}]
    /\ UNCHANGED <<configuration, pc, todo, at, original, plans, outcomes, wrote>>

(* ... and the user saves another configuration: all of it, as typed.        *)
SaveConfiguration ==
    /\ Spend("edits")
    /\ configuration' \in Configuration \ {configuration}
    /\ UNCHANGED <<registry, pc, todo, at, original, plans, outcomes, ghosts>>

Read(r) == ReadValue(r) \/ ReadVisible(r) \/ ReadHidden(r)
Write(r) == FindValue(r) \/ SetValue(r) \/ RenameBranch(r)

(* What the server does by itself once a request has been made. *)
Serve(r) ==
    \/ Read(r)
    \/ CreateIntent(r)
    \/ CheckAuthority(r)
    \/ SkipEntry(r)
    \/ ExecuteEntry(r)
    \/ Write(r)
    \/ Log(r)

---------------------------------------------------------------------------
(* The step is one of r, and changes e. *)
WritesStep(r, e) ==
    /\ at[r] = e
    /\ pc[r] # pc'[r]
    /\ registry'[e] # registry[e]

(* A confirmation writes an entry only if the page showed it as a change, to *)
(* a target that is enabled, from the very configuration that the page was   *)
(* made from; it writes the state the page promised or puts back the state   *)
(* the page found; and what it replaces first is the state the page found,   *)
(* unless that changed after the confirmation had read it again.             *)
WritesWhatWasShown ==
    [][\A r \in Request : \A e \in Target :
        WritesStep(r, e) =>
            /\ e \in Eligible(r)
            /\ Enabled(authority[r], e)
            /\ registry'[e] \in {Desired(authority[r])[e], shown[r][e]}
            /\ registry[e] = shown[r][e] \/ e \in touched[r] \union wrote[r]]_vars

(* Every entry that was shown has a result, and each result is true of the   *)
(* Registry as the confirmation last read it: whatever nobody else has       *)
(* touched since is in its desired state if it succeeded, in its previous    *)
(* state if it failed and nothing is said about its rollback having failed,  *)
(* and was never written otherwise.                                          *)
ResultsAreTrue ==
    \A r \in Request : pc[r] = "done" =>
        /\ DOMAIN status[r] = DOMAIN shown[r]
        /\ \A e \in DOMAIN status[r] \ touched[r] :
            CASE status[r][e] = "succeeded" -> registry[e] = Desired(authority[r])[e]
              [] status[r][e] = "failed" ->
                    rollback[r][e] # "failed" => registry[e] = shown[r][e]
              [] OTHER -> e \notin wrote[r]

(* The operation log is true as well: after a success every change shown is  *)
(* made; after a failure, a block or no change with no failed rollback every *)
(* target is as the page found it; as far as nobody else has touched it.     *)
LogIsTrue ==
    \A r \in Request : pc[r] = "done" =>
        /\ log[r].status = "success" =>
            \A e \in Eligible(r) \ touched[r] : registry[e] = Desired(authority[r])[e]
        /\ log[r].status \in {"failed", "blocked", "no_changes"}
           /\ log[r].rollback # "partial" =>
            \A e \in wrote[r] \ touched[r] : registry[e] = shown[r][e]

(* Whatever fails, and whatever others do, a confirmation is answered. *)
Answered ==
    \A r \in Request : pc[r] = "planning" ~> pc[r] = "done"

===========================================================================

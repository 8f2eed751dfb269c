-------------------------- MODULE LicenseManager --------------------------
(***************************************************************************)
(* License Manager: hiding and restoring the license files of a product.   *)
(*                                                                         *)
(* A request previews a Change Plan and, later and in another HTTP         *)
(* request, confirms it.  The confirmation inspects the directory again,   *)
(* compares the fingerprints, copies every planned file into a backup,     *)
(* writes the manifest, moves the files one by one (os.link, then unlink)  *)
(* and, if a move fails, moves the earlier ones back in reverse order.     *)
(* The Flask server runs requests in threads, so the steps of several      *)
(* requests, of the product that owns the directory, and a death of the    *)
(* process interleave at every system call.                                *)
(***************************************************************************)
EXTENDS Naturals, FiniteSets

CONSTANTS
    NumFiles,   \* the license files, in the order the configuration lists them
    Request,    \* confirmations, each with the preview it came from
    Action,     \* the actions offered: "hide-licenses", "restore-licenses"
    Config,     \* the configurations that may be saved
    Content,    \* one identity per (bytes, size, mtime) of a file
    Absent,     \* a name that does not exist
    Unread,     \* a name an inspection has not looked at
    Unreadable, \* a name whose state could not be read
    MaxFaults,  \* bound: failing system calls in a behaviour
    MaxCrashes  \* bound: deaths of the process in a behaviour

File == 1..NumFiles

Side == {"orig", "hidden"}

Other(s) == IF s = "orig" THEN "hidden" ELSE "orig"

Slot == Content \union {Absent}

Probe == Slot \union {Unread, Unreadable}

Inspection == [File -> [Side -> Probe]]

NoInspection == [f \in File |-> [s \in Side |-> Unread]]

ASSUME NumFilesAssumption == NumFiles \in Nat
ASSUME ActionAssumption == Action \subseteq {"hide-licenses", "restore-licenses"}
ASSUME ConfigAssumption ==
    /\ Config \subseteq [enabled : BOOLEAN, files : SUBSET File]
    /\ \A c \in Config : c.enabled => c.files # {}
ASSUME SlotAssumption ==
    /\ Absent \notin Content
    /\ Unread \notin Slot
    /\ Unreadable \notin Slot \union {Unread}
ASSUME BoundAssumption == MaxFaults \in Nat /\ MaxCrashes \in Nat

VARIABLES
    dir,        \* the license directory: dir[f][s]
    config,     \* the saved configuration
    faults,     \* failing system calls so far
    crashes,    \* deaths of the process so far
    pc,         \* where each request is
    action,     \* the action it asks for
    scope,      \* the configuration it read
    shown,      \* the inspection behind the Change Plan the user saw
    seen,       \* the inspection of the running request
    plan,       \* the changes of its plan
    todo,       \* the files its current loop has not come to yet
    completed,  \* the files it has moved
    restored,   \* the files its rollback has moved back
    partial,    \* MoveWithoutOverwriteError.destination_created
    copies,     \* its backup: the copy of each file
    manifest,   \* whether the manifest of its backup is written
    outcome,    \* what it reports
    logged,     \* operation_log_saved: whether the Operation Log has it
    effect      \* ghost: files it has given a name they did not have at its start

boundVars == <<faults, crashes>>
backupVars == <<copies, manifest>>
moveVars == <<plan, todo, completed, restored, partial, effect>>
readVars == <<action, scope, shown, seen>>
answerVars == <<outcome, logged>>
vars == <<dir, config, boundVars, pc, readVars, moveVars, backupVars, answerVars>>

PC == {"idle", "previewing", "previewed", "inspecting", "copying", "manifest",
       "linking", "unlinking", "undoing", "undoUnlinking", "logging", "done",
       "dead"}

Outcome ==
    [status   : {"none", "success", "no_changes", "failed", "partial",
                 "blocked", "rejected"},
     rollback : {"not_required", "not_attempted", "complete", "partial"},
     changed  : Nat,
     backup   : BOOLEAN,
     stale    : BOOLEAN]

Report(status, rollback, changed, backup, stale) ==
    [status |-> status, rollback |-> rollback, changed |-> changed,
     backup |-> backup, stale |-> stale]

NoOutcome == Report("none", "not_required", 0, FALSE, FALSE)

---------------------------------------------------------------------------
(* Reading the directory and planning. *)

(* LicenseFileStatus of one file, from the probes of its two names. *)
Status(probes) ==
    CASE Unreadable \in {probes["orig"], probes["hidden"]}           -> "error"
      [] probes["orig"] \in Content /\ probes["hidden"] \in Content  -> "conflict"
      [] probes["orig"] \in Content /\ probes["hidden"] = Absent     -> "active"
      [] probes["orig"] = Absent /\ probes["hidden"] \in Content     -> "hidden"
      [] probes["orig"] = Absent /\ probes["hidden"] = Absent        -> "missing"
      [] OTHER                                                       -> "unread"

SourceSide(a) == IF a = "hide-licenses" THEN "orig" ELSE "hidden"

TargetSide(a) == Other(SourceSide(a))

(* The files an action would change, given an inspection. *)
Changes(a, inspection) ==
    {f \in File : Status(inspection[f])
                    = IF a = "hide-licenses" THEN "active" ELSE "hidden"}

Blocking(inspection) ==
    \E f \in File : Status(inspection[f]) \in {"error", "conflict"}

(* _inspect_file looks at the original name first, then at the hidden one. *)
NextProbe(r, f, s) ==
    /\ f \in scope[r].files
    /\ seen[r][f][s] = Unread
    /\ s = "hidden" => seen[r][f]["orig"] # Unread
    /\ \A g \in scope[r].files : g < f => seen[r][g]["hidden"] # Unread

Inspected(r) == \A f \in scope[r].files : seen[r][f]["hidden"] # Unread

IsFirst(f, S) == f \in S /\ \A g \in S : f <= g

IsLast(f, S) == f \in S /\ \A g \in S : g <= f

Fault == faults < MaxFaults /\ faults' = faults + 1

NoFault == UNCHANGED faults

Goto(r, label) == pc' = [pc EXCEPT ![r] = label]

Finish(r, report) ==
    /\ outcome' = [outcome EXCEPT ![r] = report]
    /\ Goto(r, "logging")

---------------------------------------------------------------------------
TypeOK ==
    /\ dir \in [File -> [Side -> Slot]]
    /\ config \in Config
    /\ faults \in 0..MaxFaults
    /\ crashes \in 0..MaxCrashes
    /\ pc \in [Request -> PC]
    /\ action \in [Request -> {"hide-licenses", "restore-licenses"}]
    /\ scope \in [Request -> [enabled : BOOLEAN, files : SUBSET File]]
    /\ shown \in [Request -> Inspection]
    /\ seen \in [Request -> Inspection]
    /\ plan \in [Request -> SUBSET File]
    /\ todo \in [Request -> SUBSET File]
    /\ completed \in [Request -> SUBSET File]
    /\ restored \in [Request -> SUBSET File]
    /\ partial \in [Request -> BOOLEAN]
    /\ copies \in [Request -> [File -> Slot]]
    /\ manifest \in [Request -> BOOLEAN]
    /\ outcome \in [Request -> Outcome]
    /\ logged \in [Request -> BOOLEAN]
    /\ effect \in [Request -> SUBSET File]

Init ==
    /\ dir \in [File -> [Side -> Slot]]
    \* distinct files differ in (bytes, size, mtime)
    /\ \A f, g \in File, s, t \in Side :
          (dir[f][s] \in Content /\ dir[f][s] = dir[g][t]) => f = g /\ s = t
    /\ config \in Config
    /\ faults = 0
    /\ crashes = 0
    /\ pc = [r \in Request |-> "idle"]
    /\ action \in [Request -> Action]
    /\ scope = [r \in Request |-> [enabled |-> FALSE, files |-> {}]]
    /\ shown = [r \in Request |-> NoInspection]
    /\ seen = [r \in Request |-> NoInspection]
    /\ plan = [r \in Request |-> {}]
    /\ todo = [r \in Request |-> {}]
    /\ completed = [r \in Request |-> {}]
    /\ restored = [r \in Request |-> {}]
    /\ partial = [r \in Request |-> FALSE]
    /\ copies = [r \in Request |-> [f \in File |-> Absent]]
    /\ manifest = [r \in Request |-> FALSE]
    /\ outcome = [r \in Request |-> NoOutcome]
    /\ logged = [r \in Request |-> FALSE]
    /\ effect = [r \in Request |-> {}]

---------------------------------------------------------------------------
(* The two pages: Change Plan, and its confirmation. *)

Preview(r) ==
    /\ pc[r] = "idle"
    /\ scope' = [scope EXCEPT ![r] = config]
    /\ Goto(r, "previewing")
    /\ UNCHANGED <<dir, config, boundVars, action, shown, seen, moveVars,
                   backupVars, answerVars>>

(* _probe: one stat of one name, in either page. *)
ProbeName(r) ==
    /\ pc[r] \in {"previewing", "inspecting"}
    /\ scope[r].enabled
    /\ \E f \in File, s \in Side :
        /\ NextProbe(r, f, s)
        /\ \/ NoFault /\ seen' = [seen EXCEPT ![r][f][s] = dir[f][s]]
           \/ Fault   /\ seen' = [seen EXCEPT ![r][f][s] = Unreadable]
    /\ UNCHANGED <<dir, config, crashes, pc, action, scope, shown, moveVars,
                   backupVars, answerVars>>

(* The page shows the plan and carries its fingerprint.  A disabled manager, *)
(* or a directory that cannot be read, is shown without any file.            *)
PreviewShown(r) ==
    /\ pc[r] = "previewing"
    /\ \/ NoFault /\ (scope[r].enabled => Inspected(r))
       \/ Fault /\ seen[r] = NoInspection
    /\ shown' = [shown EXCEPT ![r] = seen[r]]
    /\ seen' = [seen EXCEPT ![r] = NoInspection]
    /\ Goto(r, "previewed")
    /\ UNCHANGED <<dir, config, crashes, action, scope, moveVars, backupVars,
                   answerVars>>

(* The confirmation reads the configuration again. *)
Confirm(r) ==
    /\ pc[r] = "previewed"
    /\ scope' = [scope EXCEPT ![r] = config]
    /\ IF config.enabled
       THEN Goto(r, "inspecting") /\ UNCHANGED outcome
       ELSE Finish(r, Report("blocked", "not_attempted", 0, FALSE, FALSE))
    /\ UNCHANGED <<dir, config, boundVars, action, shown, seen, moveVars,
                   backupVars, logged>>

(* The directory itself cannot be read: the plan is blocked. *)
InspectDirectoryFails(r) ==
    /\ pc[r] = "inspecting"
    /\ seen[r] = NoInspection
    /\ Fault
    /\ Finish(r, Report("blocked", "not_attempted", 0, FALSE, FALSE))
    /\ UNCHANGED <<dir, config, crashes, readVars, moveVars, backupVars, logged>>

Refusal(r) ==
    CASE Blocking(seen[r]) ->
            Report("blocked", "not_attempted", 0, FALSE, FALSE)
      [] ~Blocking(seen[r]) /\ seen[r] # shown[r] ->
            Report("rejected", "not_attempted", 0, FALSE, TRUE)
      [] ~Blocking(seen[r]) /\ seen[r] = shown[r]
            /\ Changes(action[r], seen[r]) = {} ->
            Report("no_changes", "not_required", 0, FALSE, FALSE)
      [] OTHER ->
            Report("rejected", "not_attempted", 0, FALSE, FALSE)

(* Seeded fault: the fingerprints are not compared. *)
AcceptedStale(r, confirmed) ==
    ~Blocking(seen[r]) /\ Changes(action[r], seen[r]) # {} /\ confirmed

Accepted(r, confirmed) ==
    /\ ~Blocking(seen[r])
    /\ seen[r] = shown[r]
    /\ Changes(action[r], seen[r]) # {}
    /\ confirmed

(* Blocking error, stale fingerprint, nothing to do, not confirmed: in that *)
(* order; otherwise the plan is taken and the backup begins.                *)
Decide(r, confirmed) ==
    /\ pc[r] = "inspecting"
    /\ Inspected(r)
    /\ IF Accepted(r, confirmed)
       THEN /\ plan' = [plan EXCEPT ![r] = Changes(action[r], seen[r])]
            /\ todo' = [todo EXCEPT ![r] = Changes(action[r], seen[r])]
            /\ Goto(r, "copying")
            /\ UNCHANGED outcome
       ELSE /\ Finish(r, Refusal(r))
            /\ UNCHANGED <<plan, todo>>
    /\ UNCHANGED <<dir, config, boundVars, readVars, completed, restored,
                   partial, effect, backupVars, logged>>

---------------------------------------------------------------------------
(* The backup. *)

SourceOf(r, f) == dir[f][SourceSide(action[r])]

TargetOf(r, f) == dir[f][TargetSide(action[r])]

(* Seeded fault: the copying loop ends after its first file. *)
CopyFirstOnly(r) ==
    /\ pc[r] = "copying"
    /\ \E f \in File :
        /\ IsFirst(f, todo[r])
        /\ SourceOf(r, f) # Absent
        /\ copies' = [copies EXCEPT ![r][f] = SourceOf(r, f)]
    /\ Goto(r, "manifest")
    /\ UNCHANGED <<dir, config, boundVars, readVars, moveVars, manifest,
                   answerVars>>

CopyFile(r) ==
    /\ pc[r] = "copying"
    /\ \E f \in File :
        /\ IsFirst(f, todo[r])
        /\ SourceOf(r, f) # Absent
        /\ copies' = [copies EXCEPT ![r][f] = SourceOf(r, f)]
        /\ todo' = [todo EXCEPT ![r] = @ \ {f}]
        /\ Goto(r, IF todo[r] = {f} THEN "manifest" ELSE "copying")
    /\ UNCHANGED <<dir, config, boundVars, readVars, plan, completed, restored,
                   partial, effect, manifest, answerVars>>

(* Seeded fault: the moves begin before the manifest is written. *)
MoveBeforeManifest(r) ==
    /\ pc[r] = "manifest"
    /\ todo' = [todo EXCEPT ![r] = plan[r]]
    /\ Goto(r, "linking")
    /\ UNCHANGED <<dir, config, boundVars, readVars, plan, completed, restored,
                   partial, effect, backupVars, answerVars>>

(* The manifest commits the backup; the moves begin. *)
WriteManifest(r) ==
    /\ pc[r] = "manifest"
    /\ manifest' = [manifest EXCEPT ![r] = TRUE]
    /\ todo' = [todo EXCEPT ![r] = plan[r]]
    /\ Goto(r, "linking")
    /\ UNCHANGED <<dir, config, boundVars, readVars, plan, completed, restored,
                   partial, effect, copies, answerVars>>

(* A copy whose source is gone, or any failing call, gives the backup up;    *)
(* rmtree(ignore_errors=True) may leave copies behind, no whole manifest.     *)
BackupFails(r) ==
    /\ \/ /\ pc[r] = "copying"
          /\ NoFault
          /\ \E f \in File : IsFirst(f, todo[r]) /\ SourceOf(r, f) = Absent
       \/ pc[r] \in {"copying", "manifest"} /\ Fault
    /\ \E kept \in SUBSET plan[r] :
          copies' = [copies EXCEPT ![r] =
                       [f \in File |-> IF f \in kept THEN @[f] ELSE Absent]]
    /\ Finish(r, Report("failed", "not_attempted", 0, FALSE, FALSE))
    /\ UNCHANGED <<dir, config, crashes, readVars, moveVars, manifest, logged>>

---------------------------------------------------------------------------
(* The moves: move_without_overwrite is os.link, then unlink. *)

(* Seeded fault: the rollback runs over the whole plan. *)
RollbackWholePlan(r, destinationCreated) ==
    /\ partial' = [partial EXCEPT ![r] = destinationCreated]
    /\ todo' = [todo EXCEPT ![r] = plan[r]]
    /\ Goto(r, "undoing")

Rollback(r, destinationCreated) ==
    /\ partial' = [partial EXCEPT ![r] = destinationCreated]
    /\ todo' = [todo EXCEPT ![r] = completed[r]]
    /\ Goto(r, "undoing")

(* Seeded fault: os.replace, which overwrites its target, for os.link. *)
LinkOver(r) ==
    /\ pc[r] = "linking"
    /\ \E f \in File :
        /\ IsFirst(f, todo[r])
        /\ SourceOf(r, f) # Absent
        /\ dir' = [dir EXCEPT ![f][TargetSide(action[r])] = SourceOf(r, f)]
        /\ effect' = [effect EXCEPT ![r] = @ \union {f}]
    /\ Goto(r, "unlinking")
    /\ UNCHANGED <<config, boundVars, readVars, plan, todo, completed, restored,
                   partial, backupVars, answerVars>>

Link(r) ==
    /\ pc[r] = "linking"
    /\ \E f \in File :
        /\ IsFirst(f, todo[r])
        /\ SourceOf(r, f) # Absent
        /\ TargetOf(r, f) = Absent
        /\ dir' = [dir EXCEPT ![f][TargetSide(action[r])] = SourceOf(r, f)]
        /\ effect' = [effect EXCEPT ![r] = @ \union {f}]
    /\ Goto(r, "unlinking")
    /\ UNCHANGED <<config, boundVars, readVars, plan, todo, completed, restored,
                   partial, backupVars, answerVars>>

(* Seeded fault: a taken target is waited for, not rolled back. *)
LinkWaits(r) ==
    /\ pc[r] = "linking"
    /\ Fault
    /\ Rollback(r, FALSE)
    /\ UNCHANGED <<dir, config, crashes, readVars, plan, completed, restored,
                   effect, backupVars, answerVars>>

LinkFails(r) ==
    /\ pc[r] = "linking"
    /\ \E f \in File :
        /\ IsFirst(f, todo[r])
        /\ \/ Fault
           \/ NoFault /\ (SourceOf(r, f) = Absent \/ TargetOf(r, f) # Absent)
    /\ Rollback(r, FALSE)
    /\ UNCHANGED <<dir, config, crashes, readVars, plan, completed, restored,
                   effect, backupVars, answerVars>>

Unlink(r) ==
    /\ pc[r] = "unlinking"
    /\ \E f \in File :
        /\ IsFirst(f, todo[r])
        /\ dir' = [dir EXCEPT ![f][SourceSide(action[r])] = Absent]
        /\ todo' = [todo EXCEPT ![r] = @ \ {f}]
        /\ completed' = [completed EXCEPT ![r] = @ \union {f}]
    /\ Goto(r, "linking")
    /\ UNCHANGED <<config, boundVars, readVars, plan, restored, partial, effect,
                   backupVars, answerVars>>

(* Seeded fault: the link that the failing unlink leaves is forgotten. *)
UnlinkFailsUnnoticed(r) ==
    /\ pc[r] = "unlinking"
    /\ Fault
    /\ Rollback(r, FALSE)
    /\ UNCHANGED <<dir, config, crashes, readVars, plan, completed, restored,
                   effect, backupVars, answerVars>>

UnlinkFails(r) ==
    /\ pc[r] = "unlinking"
    /\ Fault
    /\ Rollback(r, TRUE)
    /\ UNCHANGED <<dir, config, crashes, readVars, plan, completed, restored,
                   effect, backupVars, answerVars>>

Succeed(r) ==
    /\ pc[r] = "linking"
    /\ todo[r] = {}
    /\ Finish(r, Report("success", "not_required", Cardinality(completed[r]),
                        TRUE, FALSE))
    /\ UNCHANGED <<dir, config, boundVars, readVars, moveVars, backupVars, logged>>

---------------------------------------------------------------------------
(* The rollback: the completed moves are undone in reverse order, and one    *)
(* that cannot be undone is skipped.                                         *)

Undo(r) ==
    /\ pc[r] = "undoing"
    /\ \E f \in File :
        /\ IsLast(f, todo[r])
        /\ TargetOf(r, f) # Absent
        /\ SourceOf(r, f) = Absent
        /\ dir' = [dir EXCEPT ![f][SourceSide(action[r])] = TargetOf(r, f)]
    /\ Goto(r, "undoUnlinking")
    /\ UNCHANGED <<config, boundVars, readVars, moveVars, backupVars, answerVars>>

UndoUnlink(r) ==
    /\ pc[r] = "undoUnlinking"
    /\ \E f \in File :
        /\ IsLast(f, todo[r])
        /\ dir' = [dir EXCEPT ![f][TargetSide(action[r])] = Absent]
        /\ todo' = [todo EXCEPT ![r] = @ \ {f}]
        /\ restored' = [restored EXCEPT ![r] = @ \union {f}]
        /\ effect' = [effect EXCEPT ![r] = @ \ {f}]
    /\ Goto(r, "undoing")
    /\ UNCHANGED <<config, boundVars, readVars, plan, completed, partial,
                   backupVars, answerVars>>

UndoFails(r) ==
    /\ \E f \in File :
        /\ IsLast(f, todo[r])
        /\ \/ pc[r] \in {"undoing", "undoUnlinking"} /\ Fault
           \/ /\ pc[r] = "undoing"
              /\ NoFault
              /\ TargetOf(r, f) = Absent \/ SourceOf(r, f) # Absent
        /\ todo' = [todo EXCEPT ![r] = @ \ {f}]
    /\ Goto(r, "undoing")
    /\ UNCHANGED <<dir, config, crashes, readVars, plan, completed, restored,
                   partial, effect, backupVars, answerVars>>

(* Seeded fault: a created destination does not count. *)
RollbackReportOptimistic(r) ==
    LET remaining == Cardinality(completed[r]) - Cardinality(restored[r])
    IN  IF remaining = 0 THEN Report("failed", "complete", 0, TRUE, FALSE)
        ELSE Report("partial", "partial", remaining, TRUE, FALSE)

(* rolled_back = len(completed), no destination created: rollback complete.  *)
RollbackReport(r) ==
    LET remaining == Cardinality(completed[r]) - Cardinality(restored[r])
                       + (IF partial[r] THEN 1 ELSE 0)
        complete == Cardinality(restored[r]) = Cardinality(completed[r])
                       /\ ~partial[r]
    IN  IF complete THEN Report("failed", "complete", remaining, TRUE, FALSE)
                    ELSE Report("partial", "partial", remaining, TRUE, FALSE)

RollbackEnds(r) ==
    /\ pc[r] = "undoing"
    /\ todo[r] = {}
    /\ Finish(r, RollbackReport(r))
    /\ UNCHANGED <<dir, config, boundVars, readVars, moveVars, backupVars, logged>>

(* The Operation Log entry; failing to save it only changes the page. *)
AppendLog(r) ==
    /\ pc[r] = "logging"
    /\ \/ NoFault /\ logged' = [logged EXCEPT ![r] = TRUE]
       \/ Fault /\ UNCHANGED logged
    /\ Goto(r, "done")
    /\ UNCHANGED <<dir, config, crashes, readVars, moveVars, backupVars,
                   outcome>>

---------------------------------------------------------------------------
(* Outside the requests. *)

(* The process dies: its requests are gone, the disk stays. *)
Crash ==
    /\ crashes < MaxCrashes
    /\ crashes' = crashes + 1
    /\ pc' = [r \in Request |-> IF pc[r] \in {"idle", "previewed", "done"}
                                THEN pc[r] ELSE "dead"]
    /\ UNCHANGED <<dir, config, faults, readVars, moveVars, backupVars, answerVars>>

SaveConfiguration ==
    /\ \E c \in Config \ {config} : config' = c
    /\ UNCHANGED <<dir, boundVars, pc, readVars, moveVars, backupVars, answerVars>>

(* The product, or its installer, writes a license under a free name. *)
Appear ==
    /\ \E f \in File, s \in Side, c \in Content :
        /\ dir[f][s] = Absent
        /\ \A g \in File, t \in Side : dir[g][t] # c
        /\ dir' = [dir EXCEPT ![f][s] = c]
    /\ UNCHANGED <<config, boundVars, pc, readVars, moveVars, backupVars, answerVars>>

(* What the thread of one HTTP request does once the user has sent it. *)
Work(r) ==
    \/ ProbeName(r)
    \/ PreviewShown(r)
    \/ InspectDirectoryFails(r)
    \/ \E confirmed \in BOOLEAN : Decide(r, confirmed)
    \/ CopyFile(r)
    \/ WriteManifest(r)
    \/ BackupFails(r)
    \/ Link(r)
    \/ LinkFails(r)
    \/ Unlink(r)
    \/ UnlinkFails(r)
    \/ Succeed(r)
    \/ Undo(r)
    \/ UndoUnlink(r)
    \/ UndoFails(r)
    \/ RollbackEnds(r)
    \/ AppendLog(r)

Next ==
    \/ \E r \in Request : Preview(r) \/ Confirm(r) \/ Work(r)
    \/ Crash
    \/ SaveConfiguration
    \/ Appear

Spec == Init /\ [][Next]_vars

(* The server schedules every thread; the user owes no click, the product    *)
(* no file and the administrator no configuration.                           *)
FairSpec == Spec /\ \A r \in Request : WF_vars(Work(r))

---------------------------------------------------------------------------
(* What the requests guarantee, whatever they interleave with. *)

Kept(f) == {dir[f][s] : s \in Side} \ {Absent}

(* The file a request has given both names, between link and unlink. *)
Holds(r, f) ==
    \/ pc[r] = "unlinking" /\ IsFirst(f, todo[r])
    \/ pc[r] = "undoUnlinking" /\ IsLast(f, todo[r])

Directory == INSTANCE LicenseDirectory

(* Seen from the directory, every system call of every request, and every    *)
(* failure and death between them, only adds a second name to a content or   *)
(* drops one of two equal names: no license is overwritten or lost by        *)
(* move_without_overwrite, forwards or in a rollback.                        *)
ImplementsDirectory == Directory!Spec

(* A file is moved only under a complete backup of it: whatever request has  *)
(* given a file its other name has its manifest on disk, and its copy is of  *)
(* the very content that was moved, which the directory still holds.         *)
BackupCoversMoves ==
    \A r \in Request : \A f \in effect[r] :
        /\ manifest[r]
        /\ copies[r][f] \in Kept(f)

(* What is moved is what the user saw in the Change Plan: between the last   *)
(* comparison of the fingerprints and the move nothing is locked, and still  *)
(* no request moves a content that was not on the page it confirms.          *)
MovesWhatWasShown ==
    \A r \in Request : \A f \in effect[r] :
        /\ f \in Changes(action[r], shown[r])
        /\ copies[r][f] = shown[r][f][SourceSide(action[r])]

(* A manifest on disk promises every planned file: a backup that is cut      *)
(* short, cleaned up or abandoned by a death never passes for a whole one.   *)
ManifestIsComplete ==
    \A r \in Request : manifest[r] =>
        \A f \in plan[r] : copies[r][f] # Absent

(* The result page and the Operation Log tell the truth about the directory: *)
(* the changed count is the number of files left with a name they did not    *)
(* have, "rollback complete" and every refusal leave none, "partial" leaves  *)
(* some, and "success" means the whole plan.                                 *)
Honest(r) ==
    pc[r] \in {"logging", "done"} =>
        /\ outcome[r].changed = Cardinality(effect[r])
        /\ outcome[r].status = "success" => effect[r] = plan[r]
        /\ outcome[r].status = "partial" <=> outcome[r].rollback = "partial"
        /\ outcome[r].rollback = "partial" => effect[r] # {}
        /\ outcome[r].status \notin {"success", "partial"} => effect[r] = {}

HonestReport == \A r \in Request : Honest(r)

(* Both names of a file hold one content. *)
Conflict(f) == dir[f]["orig"] = dir[f]["hidden"] /\ dir[f]["orig"] # Absent

(* A request that made it and is at work on it, died on it, or reports it.   *)
AnswersFor(r, f) ==
    /\ f \in effect[r]
    /\ \/ Holds(r, f)
       \/ pc[r] \in {"undoing", "undoUnlinking", "dead"}
       \/ pc[r] \in {"logging", "done"} /\ outcome[r].status = "partial"

(* A conflict that a request makes is never silent: as long as it lasts, a   *)
(* request is still at work on it, has died on it, or reports, or is about   *)
(* to report, a partial rollback.                                            *)
ConflictsAreReported ==
    \A f \in File : Conflict(f) => \E r \in Request : AnswersFor(r, f)

(* What the guarantees rest on: an invariant that every step preserves by    *)
(* itself.  First, between link and unlink a file has one owner, and both of *)
(* its names hold the same content; so no two requests ever move one file at *)
(* the same time, though nothing locks it.                                   *)
OneHolder ==
    /\ \A r \in Request, f \in File : Holds(r, f) =>
            dir[f]["orig"] \in Content /\ dir[f]["orig"] = dir[f]["hidden"]
    /\ \A r, q \in Request, f \in File : Holds(r, f) /\ Holds(q, f) => r = q

(* Whatever was read, shown or copied is still under a name of its file.     *)
NothingReadIsGone ==
    \A r \in Request, f \in File :
        /\ \A s \in Side :
            /\ seen[r][f][s] \in Content => seen[r][f][s] \in Kept(f)
            /\ shown[r][f][s] \in Content => shown[r][f][s] \in Kept(f)
        /\ copies[r][f] \in Content => copies[r][f] \in Kept(f)

Deciding == {"idle", "previewing", "previewed", "inspecting"}

BackingUp == {"copying", "manifest"}

Undoing == {"undoing", "undoUnlinking"}

Moving == {"linking", "unlinking"} \union Undoing

(* A request stays within the plan that was shown, and within its backup.    *)
Within(r) ==
    /\ plan[r] \subseteq Changes(action[r], shown[r])
    /\ todo[r] \union completed[r] \union effect[r] \subseteq plan[r]
    /\ restored[r] \subseteq completed[r]
    /\ pc[r] \in Deciding => plan[r] = {}
    /\ pc[r] \in Deciding \union BackingUp =>
        ~manifest[r] /\ ~partial[r] /\ effect[r] = {} /\ completed[r] = {}
    /\ pc[r] \in BackingUp =>
        \A f \in plan[r] \ todo[r] : copies[r][f] # Absent
    /\ pc[r] = "manifest" => todo[r] = {}
    /\ pc[r] \in Moving => manifest[r]
    /\ manifest[r] => \A f \in plan[r] : copies[r][f] # Absent
    /\ \A f \in effect[r] :
        manifest[r] /\ copies[r][f] = shown[r][f][SourceSide(action[r])]

WithinThePlan == \A r \in Request : Within(r)

(* The books of the two loops agree with what the request did.               *)
Balanced(r) ==
    /\ pc[r] \in {"linking", "unlinking"} =>
        /\ ~partial[r] /\ restored[r] = {}
        /\ plan[r] = completed[r] \union todo[r]
        /\ completed[r] \cap todo[r] = {}
        /\ completed[r] \subseteq effect[r]
    /\ pc[r] = "linking" => effect[r] = completed[r]
    /\ pc[r] = "unlinking" => \E f \in File :
        IsFirst(f, todo[r]) /\ effect[r] = completed[r] \union {f}
    /\ pc[r] \in Undoing =>
        /\ todo[r] \subseteq completed[r] \ restored[r]
        /\ completed[r] \ restored[r] \subseteq effect[r]
        /\ effect[r] \cap restored[r] = {}
        /\ IF partial[r] THEN \E f \in File : effect[r] \ completed[r] = {f}
                         ELSE effect[r] \subseteq completed[r]

BooksBalance == \A r \in Request : Balanced(r)

IInv ==
    /\ TypeOK
    /\ OneHolder
    /\ NothingReadIsGone
    /\ WithinThePlan
    /\ BooksBalance
    /\ HonestReport
    /\ ConflictsAreReported

(* A double submit: the same confirmation sent twice moves a file once.      *)
MovesOnce ==
    \A r, q \in Request : r # q /\ action[r] = "hide-licenses"
                                /\ action[q] = "hide-licenses" =>
        effect[r] \cap effect[q] = {}

(* Every confirmed request answers, or the process dies under it: neither    *)
(* loop waits on another request.                                            *)
Answers ==
    \A r \in Request :
        pc[r] = "inspecting" ~> pc[r] \in {"done", "dead"}

===========================================================================

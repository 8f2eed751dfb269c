---------------------------- MODULE Environment ----------------------------
(***************************************************************************)
(* The machine that Environment Profiles and Snapshots change: license     *)
(* files and Registry targets, the saved configurations that say where     *)
(* they are, and what a request of either kind keeps while it works.       *)
(*                                                                         *)
(* A resource is active, hidden, missing or in conflict.  Of a Registry    *)
(* value the first two names stand for its two data, the last for a value  *)
(* that may not be opened, and it may also be strange: there, but of a     *)
(* representation that the reader has no name for.  The inspection of one  *)
(* plugin is one step here, and so is the change of one resource: what     *)
(* lies between is in modules LicenseManager and RegistryExecution.        *)
(***************************************************************************)
EXTENDS Naturals, Sequences, SequencesExt

CONSTANTS
    File,       \* license files
    Value,      \* Registry values
    Branch,     \* Registry branches
    Source,     \* log sources: captured in snapshots, never restored
    Place,      \* where a resource may be
    Applier,    \* requests that apply the profile
    Restorer,   \* requests that restore the snapshot
    Setting,    \* how it may begin: [look, config, profile, snapshot, budget]
    Savable,    \* the configurations an administrator may save, by plugin
    Edited,     \* the profiles that the profile may be edited into
    None        \* no configuration, no profile, no place

Target == Value \union Branch

Resource == File \union Target \union Source

Request == Applier \union Restorer

Holding == {"active", "hidden"}

Statuses == Holding \union {"missing", "conflict", "strange"}

StatusesOf(x) == IF x \in Value THEN Statuses ELSE Statuses \ {"strange"}

State == [status : Statuses, mark : {1, 2}]

Unread == [status |-> "error", mark |-> 0]

(* The plugins that a product may have a configuration for. *)
PluginOf(x) == CASE x \in File -> "license" [] x \in Source -> "logs"
                 [] OTHER -> "registry"

(* What license files or Registry targets are to become. *)
Wishes(things) == UNION {[some -> Holding] : some \in SUBSET things}

Configurations(p) ==
    {None} \union
    [enabled : BOOLEAN, place : Place,
     listed  : SUBSET {x \in Resource : PluginOf(x) = p},
     preset  : {None} \union Wishes(Target)]

Profiles == {None} \union [licenses : Wishes(File), preset : BOOLEAN]

Captures == [place : Place \union {None}, look : State \union {Unread}]

IsSnapshot(s) ==
    s = None \/ (DOMAIN s \subseteq Resource /\ s \in [DOMAIN s -> Captures])

(* Resources of different kinds have different names, and none has a name   *)
(* that a section without resources goes by.                                *)
NamesAssumption ==
    /\ IsFiniteSet(Resource)
    /\ File \intersect Target = {} /\ File \intersect Source = {}
    /\ Target \intersect Source = {}
    /\ Resource \intersect {"license", "registry", "preset"} = {}
    /\ Applier \intersect Restorer = {}
    /\ None \notin Request \union State

ASSUME NamesAssumption

SettingAssumption ==
    /\ \A s \in Setting :
          /\ s.look \in [Place -> [Resource -> State]]
          /\ \A place \in Place : \A x \in Resource :
                s.look[place][x].status \in StatusesOf(x)
          /\ DOMAIN s.config = {"license", "logs", "registry"}
          /\ \A p \in DOMAIN s.config : s.config[p] \in Configurations(p)
          /\ s.profile \in Profiles /\ IsSnapshot(s.snapshot)
          /\ s.budget \in [faults : Nat, changes : Nat, edits : Nat,
                           failed : {FALSE}]
    /\ \A p \in {"license", "logs", "registry"} :
          Savable[p] \subseteq Configurations(p)
    /\ Edited \subseteq Profiles

ASSUME SettingAssumption

VARIABLES
    look,       \* look[place][x]: what resource x is at that place
    config,     \* the saved configuration of each plugin
    profile,    \* the saved profile
    snapshot,   \* the saved snapshot: what was captured of each resource
    budget,     \* what may still come: faults, changes by others, edits
    pc,         \* where each request is
    stage,      \* the loop over the plugins or sections
    shown,      \* the plan on its page
    fresh,      \* the plan made again after the confirmation
    held,       \* the configuration read for the section or entry at hand
    left,       \* what is left to do of it
    result,     \* the results so far
    logged,     \* the status in its Operation Log entry
    wrote,      \* ghost: the resources it has changed, and not changed back
    disturbed   \* ghost: what others have changed since its preview

world == <<look, config, profile, snapshot>>
work == <<pc, stage, shown, fresh, held, left, result, logged>>
vars == <<world, budget, work, wrote, disturbed>>

Nothing == [x \in {} |-> None]

NoPlan == [profile |-> None, authority |-> Nothing, entries |-> Nothing]

(* What f has, and what it has not as in g. *)
Over(f, g) ==
    [x \in DOMAIN f \union DOMAIN g |-> IF x \in DOMAIN f THEN f[x] ELSE g[x]]

Only(x, v) == [y \in {x} |-> v]

Spend(purse) ==
    /\ budget[purse] > 0
    /\ budget' = [budget EXCEPT ![purse] = @ - 1]

(* A failing call, and that there was one. *)
Fault ==
    /\ budget.faults > 0
    /\ budget' = [budget EXCEPT !.faults = @ - 1, !.failed = TRUE]

NoFault == UNCHANGED budget

Goto(r, label) == pc' = [pc EXCEPT ![r] = label]

EnvironmentInit ==
    /\ \E s \in Setting :
        /\ look = s.look /\ config = s.config
        /\ profile = s.profile /\ snapshot = s.snapshot /\ budget = s.budget
    /\ pc = [r \in Request |-> "idle"]
    /\ stage = [r \in Request |-> 1]
    /\ shown = [r \in Request |-> NoPlan]
    /\ fresh = [r \in Request |-> NoPlan]
    /\ held = [r \in Request |-> None]
    /\ left = [r \in Request |-> <<>>]
    /\ result = [r \in Request |-> Nothing]
    /\ logged = [r \in Request |-> "none"]
    /\ wrote = [r \in Request |-> {}]
    /\ disturbed = [r \in Request |-> {}]

---------------------------------------------------------------------------
(* Reading. *)

Enabled(c) == c # None /\ c.enabled

PlaceOf(c) == IF c = None THEN None ELSE c.place

(* What inspecting by configuration c finds: of what is disabled, nothing. *)
Looked(c) ==
    [x \in IF Enabled(c) THEN c.listed ELSE {} |-> look[c.place][x]]

(* One resource may be unreadable. *)
Inspections(c) ==
    {Looked(c)} \union
    {[Looked(c) EXCEPT ![x] = Unread] : x \in DOMAIN Looked(c)}

InspectedAs(c, insp) == IF insp = Looked(c) THEN NoFault ELSE Fault

(* What a plan is compared by: the place of a license file and its state;   *)
(* of a Registry target its state alone, which is that of one that cannot   *)
(* be read if the inspection has left it out.                               *)
Fingerprint(c, insp, x) ==
    IF x \notin DOMAIN insp
    THEN [place |-> None, look |-> IF x \in Target THEN Unread ELSE None]
    ELSE [place |-> IF x \in File THEN c.place ELSE None, look |-> insp[x]]

(* A target without a reading: its read has failed, its value is strange,   *)
(* or it is disabled and the inspection has left it out.                    *)
Unplannable(insp, x) ==
    /\ x \in Target
    /\ x \in DOMAIN insp => insp[x].status \in {"error", "strange"}

(* What a plan makes of a resource that is to be in a desired state. *)
Planned(insp, x, desired) ==
    CASE Unplannable(insp, x) -> "error"
      [] x \in DOMAIN insp /\ insp[x].status = desired -> "no_change"
      [] x \in DOMAIN insp /\ insp[x].status \in Holding \ {desired} -> "change"
      [] OTHER -> "blocked"

---------------------------------------------------------------------------
(* Writing. *)

Others(r, things) ==
    disturbed' = [q \in Request |->
                    IF q # r /\ pc[q] # "idle"
                    THEN disturbed[q] \union things ELSE disturbed[q]]

(* What a resource is left as when changing it fails, and so does undoing   *)
(* it: a license file under both names, a Registry target in its new state. *)
Stuck(x, desired) == IF x \in File THEN "conflict" ELSE desired

(* A value is set if it is there, of whatever kind; a name is moved if it   *)
(* is there and the other is free.                                          *)
Changeable(place, x, found) ==
    IF x \in Value THEN look[place][x].status \in Holding \union {"strange"}
                   ELSE look[place][x].status = found.status

(* Seeded fault: a change that was undone counts as done. *)
ChangeReportedAsDone(r, place, x, found, desired) ==
    LET can == Changeable(place, x, found)
    IN  \E to \in {"done", "undone", "untouched"} :
            /\ to # "untouched" => can
            /\ IF to = "done" \/ ~can THEN NoFault ELSE Fault
            /\ look' = [look EXCEPT ![place][x].status =
                          IF to = "done" THEN desired ELSE @]
            /\ result' = [result EXCEPT ![r] =
                            Over(Only(x, IF to = "untouched" THEN "failed" ELSE "success"), @)]
            /\ wrote' = [wrote EXCEPT ![r] = IF to = "done" THEN @ \union {x} ELSE @]
            /\ Others(r, IF look' = look THEN {} ELSE {x})

(* Request r changes x from what it found: the change is done, undone after *)
(* a failure, or stuck.  If the first call fails, nothing is.               *)
Change(r, place, x, found, desired) ==
    LET now == look[place][x]
        can == Changeable(place, x, found)
    IN  \E to \in {"done", "undone", "stuck", "untouched"} :
            /\ to # "untouched" => can
            /\ IF to = "done" \/ ~can THEN NoFault ELSE Fault
            /\ look' = [look EXCEPT ![place][x] =
                          CASE to = "done"      -> [now EXCEPT !.status = desired]
                            [] to = "undone"    -> found
                            [] to = "stuck"     ->
                                [now EXCEPT !.status = Stuck(x, desired)]
                            [] to = "untouched" -> now]
            /\ result' = [result EXCEPT ![r] =
                            Over(Only(x, IF to = "done" THEN "success" ELSE "failed"), @)]
            /\ wrote' = [wrote EXCEPT ![r] =
                           IF to \in {"done", "stuck"} THEN @ \union {x} ELSE @]
            /\ Others(r, IF look' = look THEN {} ELSE {x})

---------------------------------------------------------------------------
(* Others. *)

(* The product, its installer or another program changes a resource. *)
OtherProgram ==
    /\ Spend("changes")
    /\ \E place \in DOMAIN look : \E x \in DOMAIN look[place] :
        \E new \in [status : StatusesOf(x),
                    mark   : IF x \in File THEN {1, 2} ELSE {1}] :
            /\ look' = [look EXCEPT ![place][x] = new]
            /\ Others(None, {x})
    /\ UNCHANGED <<config, profile, snapshot, work, wrote>>

(* Another request saves a configuration. *)
SaveConfiguration ==
    /\ Spend("edits")
    /\ \E p \in DOMAIN config : \E c \in Savable[p] :
        /\ config' = [config EXCEPT ![p] = c]
        /\ Others(None, {p})
    /\ UNCHANGED <<look, profile, snapshot, work, wrote>>

(* The profile is edited or deleted. *)
EditProfile ==
    /\ Spend("edits")
    /\ profile # None
    /\ profile' \in Edited \union {None}
    /\ Others(None, {"profile"})
    /\ UNCHANGED <<look, config, snapshot, work, wrote>>

(* The snapshot is deleted; it is never edited. *)
DeleteSnapshot ==
    /\ Spend("edits")
    /\ snapshot # None
    /\ snapshot' = None
    /\ UNCHANGED <<look, config, profile, work, wrote, disturbed>>

===========================================================================

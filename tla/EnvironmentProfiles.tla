------------------------ MODULE EnvironmentProfiles ------------------------
(***************************************************************************)
(* Applying an Environment Profile.  The page shows what the planner finds *)
(* each plugin would do.  After the confirmation the profile is read and   *)
(* every plugin is planned again; then the sections are executed in order, *)
(* each if what it depends on is as shown, and the plugin checks each      *)
(* resource once more.  A section that fails does not stop the others.     *)
(***************************************************************************)
EXTENDS Environment

(* The sections, in the order of the plugin manager. *)
Plugins == <<"license", "registry">>

(* The plugins a profile says something of. *)
Uses(prof, p) ==
    IF p = "license" THEN DOMAIN prof.licenses # {} ELSE prof.preset

(* The section for a plugin that raises, whose one entry is the plugin. *)
ErrorSection(p) ==
    [authority |-> <<None, None>>,
     entries   |-> Only(p, [status |-> "error", desired |-> None,
                            place |-> None, fingerprint |-> None])]

LicenseStatus(prof, c, insp, x) ==
    IF c = None \/ (c # None /\ x \notin c.listed) THEN "blocked"
    ELSE IF x \notin DOMAIN insp THEN "error"
    ELSE Planned(insp, x, prof.licenses[x])

LicenseSection(prof, c, insp) ==
    [authority |-> <<c, prof.licenses>>,
     entries   |-> [x \in DOMAIN prof.licenses |->
                      [status      |-> LicenseStatus(prof, c, insp, x),
                       desired     |-> prof.licenses[x],
                       place       |-> PlaceOf(c),
                       fingerprint |-> Fingerprint(c, insp, x)]]]

(* A section without a preset has one entry, of no resource. *)
NoPreset(reason) ==
    [authority |-> <<None, reason>>,
     entries   |-> Only("preset", [status |-> "blocked", desired |-> None,
                                   place |-> None, fingerprint |-> None])]

RegistrySection(c, insp) ==
    IF ~Enabled(c) THEN NoPreset("unavailable")
    ELSE IF c.preset = None THEN NoPreset("missing")
    ELSE [authority |-> <<c, "planned">>,
          entries   |-> [x \in DOMAIN c.preset |->
                           [status      |-> Planned(insp, x, c.preset[x]),
                            desired     |-> c.preset[x],
                            place       |-> PlaceOf(c),
                            fingerprint |-> Fingerprint(c, insp, x)]]]

Section(p, prof, c, insp) ==
    IF p = "license" THEN LicenseSection(prof, c, insp) ELSE RegistrySection(c, insp)

Add(plan, p, section) ==
    [plan EXCEPT !.authority = Over(Only(p, section.authority), @),
                 !.entries   = Over(Only(p, section.entries), @)]

---------------------------------------------------------------------------
(* Planning: for the page, and again after the confirmation. *)

PreviewProfile(a) ==
    /\ pc[a] = "idle"
    /\ profile # None
    /\ shown' = [shown EXCEPT ![a] = [NoPlan EXCEPT !.profile = profile]]
    /\ Goto(a, "planning")
    /\ UNCHANGED <<world, budget, stage, fresh, held, left, result, logged,
                   wrote, disturbed>>

(* One plugin after the other; one that raises has a section all the same. *)
PlanSection(a) ==
    LET p    == Plugins[stage[a]]
        plan == IF pc[a] = "planning" THEN shown[a] ELSE fresh[a]
        next(new) == IF pc[a] = "planning"
                     THEN shown' = [shown EXCEPT ![a] = new] /\ UNCHANGED fresh
                     ELSE fresh' = [fresh EXCEPT ![a] = new] /\ UNCHANGED shown
    IN  /\ pc[a] \in {"planning", "replanning"}
        /\ stage[a] <= Len(Plugins)
        /\ \/ ~Uses(plan.profile, p) /\ NoFault /\ next(plan)
           \/ /\ Uses(plan.profile, p)
              /\ \E insp \in Inspections(config[p]) :
                    /\ InspectedAs(config[p], insp)
                    /\ next(Add(plan, p, Section(p, plan.profile, config[p], insp)))
           \/ Uses(plan.profile, p) /\ Fault /\ next(Add(plan, p, ErrorSection(p)))
        /\ stage' = [stage EXCEPT ![a] = @ + 1]
        /\ UNCHANGED <<world, pc, held, left, result, logged, wrote, disturbed>>

ShowProfilePlan(a) ==
    /\ pc[a] = "planning"
    /\ stage[a] > Len(Plugins)
    /\ Goto(a, "shown")
    /\ stage' = [stage EXCEPT ![a] = 1]
    /\ UNCHANGED <<world, budget, shown, fresh, held, left, result, logged,
                   wrote, disturbed>>

---------------------------------------------------------------------------
(* Executing. *)

(* The entries of a section end with one status, and nothing is done. *)
Ended(a, p, status) ==
    Over([x \in DOMAIN shown[a].entries[p] |-> status], result[a])

(* The profile is read again: if it is another, every section is stale. *)
ConfirmProfile(a) ==
    /\ pc[a] = "shown"
    /\ IF profile = shown[a].profile
       THEN /\ fresh' = [fresh EXCEPT ![a] = [NoPlan EXCEPT !.profile = profile]]
            /\ Goto(a, "replanning")
            /\ UNCHANGED result
       ELSE /\ result' = [result EXCEPT ![a] =
                  [x \in UNION {DOMAIN shown[a].entries[p] :
                                p \in DOMAIN shown[a].entries} |-> "stale"]]
            /\ Goto(a, "logging")
            /\ UNCHANGED fresh
    /\ UNCHANGED <<world, budget, stage, shown, held, left, logged, wrote,
                   disturbed>>

(* The repository of profiles raises: no result, an error page. *)
ConfirmProfileRaises(a) ==
    /\ pc[a] = "shown"
    /\ Fault
    /\ Goto(a, "answered")
    /\ UNCHANGED <<world, stage, shown, fresh, held, left, result, logged, wrote,
                   disturbed>>

Replanned(a) ==
    /\ pc[a] = "replanning"
    /\ stage[a] > Len(Plugins)
    /\ Goto(a, "sections")
    /\ stage' = [stage EXCEPT ![a] = 1]
    /\ UNCHANGED <<world, budget, shown, fresh, held, left, result, logged,
                   wrote, disturbed>>

StaleSection(a, p) ==
    \/ p \notin DOMAIN fresh[a].authority
    \/ fresh[a].authority[p] # shown[a].authority[p]
    \/ \E plan \in {shown[a], fresh[a]} :
        \E x \in DOMAIN plan.entries[p] : plan.entries[p][x].status = "error"

(* The next section in order, while there is one in the shown plan. *)
AtSection(a, p) ==
    /\ pc[a] = "sections"
    /\ stage[a] <= Len(Plugins)
    /\ p = Plugins[stage[a]]

NextSection(a) == stage' = [stage EXCEPT ![a] = @ + 1]

SkipSection(a) ==
    /\ \E p \in Range(Plugins) :
        AtSection(a, p) /\ p \notin DOMAIN shown[a].entries
    /\ NextSection(a)
    /\ UNCHANGED <<world, budget, pc, shown, fresh, held, left, result, logged,
                   wrote, disturbed>>

(* What the plugin itself refuses, by the configuration it is given. *)
Refusal(a, p) ==
    CASE p = "license" /\ shown[a].authority[p] # <<config[p], shown[a].profile.licenses>>
            -> "stale"
      [] p = "registry" /\ shown[a].authority[p][2] # "planned" -> "blocked"
      [] p = "registry" /\ shown[a].authority[p][2] = "planned"
            /\ ~Enabled(config[p]) -> "stale"
      [] OTHER -> "none"

(* A section that ends at once: it is stale, its configuration cannot be    *)
(* read, or the plugin refuses it.                                          *)
EndSection(a) ==
    \E p \in Range(Plugins) :
        /\ AtSection(a, p)
        /\ p \in DOMAIN shown[a].entries
        /\ \E status \in {"stale", "failed", "blocked"} :
            /\ \/ StaleSection(a, p) /\ status = "stale" /\ NoFault
               \/ ~StaleSection(a, p) /\ status = "failed" /\ Fault
               \/ ~StaleSection(a, p) /\ status = Refusal(a, p) /\ NoFault
            /\ result' = [result EXCEPT ![a] = Ended(a, p, status)]
        /\ NextSection(a)
        /\ UNCHANGED <<world, pc, shown, fresh, held, left, logged, wrote,
                       disturbed>>

(* The plugin goes through its resources by the configuration just read. *)
EnterSection(a) ==
    \E p \in Range(Plugins) :
        /\ AtSection(a, p)
        /\ p \in DOMAIN shown[a].entries
        /\ ~StaleSection(a, p)
        /\ Refusal(a, p) = "none"
        /\ held' = [held EXCEPT ![a] = config[p]]
        /\ IF p = "license"
           THEN /\ left' = [left EXCEPT ![a] = SetToSeq(DOMAIN shown[a].entries[p])]
                /\ Goto(a, "files")
           ELSE /\ Goto(a, "preset")
                /\ UNCHANGED left
        /\ UNCHANGED <<world, budget, stage, shown, fresh, result, logged, wrote,
                       disturbed>>

(* The entry at hand is done with: the next one, or the next section. *)
NextEntry(a, label) ==
    /\ left' = [left EXCEPT ![a] = Tail(@)]
    /\ IF Len(left[a]) > 1 THEN Goto(a, label) /\ UNCHANGED stage
                           ELSE Goto(a, "sections") /\ NextSection(a)

EntryEnds(a, x, status) == result' = [result EXCEPT ![a] = Over(Only(x, status), @)]

(* Seeded fault: a file that is not as shown is waited for. *)
CheckFileWaits(a) ==
    LET x == Head(left[a])
        entry == shown[a].entries["license"][x]
    IN  /\ pc[a] = "files"
        /\ Fingerprint(held[a], Looked(held[a]), x) = entry.fingerprint
        /\ IF entry.status # "change"
           THEN EntryEnds(a, x, entry.status) /\ NextEntry(a, "files")
           ELSE Goto(a, "moving") /\ UNCHANGED <<result, left, stage>>
        /\ UNCHANGED <<world, budget, shown, fresh, held, logged, wrote, disturbed>>

(* A license file is planned by itself once more, and the plan compared.    *)
CheckFile(a) ==
    LET c == held[a]
        x == Head(left[a])
        entry == shown[a].entries["license"][x]
        known == c = None \/ (c # None /\ x \in c.listed)
    IN  /\ pc[a] = "files"
        /\ \E insp \in Inspections(c) :
            /\ InspectedAs(c, insp)
            /\ IF ~known \/ Fingerprint(c, insp, x) # entry.fingerprint
               THEN EntryEnds(a, x, "stale") /\ NextEntry(a, "files")
               ELSE IF entry.status # "change"
               THEN EntryEnds(a, x, entry.status) /\ NextEntry(a, "files")
               ELSE Goto(a, "moving") /\ UNCHANGED <<result, left, stage>>
        /\ UNCHANGED <<world, shown, fresh, held, logged, wrote, disturbed>>

(* License Manager executes it, after one more look at the file. *)
MoveFile(a) ==
    LET c == held[a]
        x == Head(left[a])
        entry == shown[a].entries["license"][x]
    IN  /\ pc[a] = "moving"
        /\ NextEntry(a, "files")
        /\ \/ \E insp \in Inspections(c) :
                /\ InspectedAs(c, insp)
                /\ Fingerprint(c, insp, x) # entry.fingerprint
                /\ EntryEnds(a, x, IF insp[x].status \in {"conflict", "error"}
                                   THEN "blocked" ELSE "stale")
                /\ UNCHANGED <<look, wrote, disturbed>>
           \/ /\ Fingerprint(c, Looked(c), x) = entry.fingerprint
              /\ Change(a, c.place, x, entry.fingerprint.look, entry.desired)
        /\ UNCHANGED <<config, profile, snapshot, shown, fresh, held, logged>>

(* The preset is planned again, by the configuration read for the section:  *)
(* another one makes every entry stale.  A preset may be empty.             *)
PlanPreset(a) ==
    LET c == held[a]
    IN  /\ pc[a] = "preset"
        /\ \E insp \in Inspections(c) :
            /\ InspectedAs(c, insp)
            /\ IF c # shown[a].authority["registry"][1]
               THEN /\ result' = [result EXCEPT ![a] = Ended(a, "registry", "stale")]
                    /\ Goto(a, "sections")
                    /\ NextSection(a)
                    /\ UNCHANGED <<fresh, left>>
               ELSE /\ fresh' = [fresh EXCEPT ![a].entries["registry"] =
                                   RegistrySection(c, insp).entries]
                    /\ left' = [left EXCEPT ![a] = SetToSeq(DOMAIN c.preset)]
                    /\ IF DOMAIN c.preset # {}
                       THEN Goto(a, "targets") /\ UNCHANGED stage
                       ELSE Goto(a, "sections") /\ NextSection(a)
                    /\ UNCHANGED result
        /\ UNCHANGED <<world, shown, held, logged, wrote, disturbed>>

(* Seeded fault: an entry that was shown as blocked is tried. *)
ApplyTargetAnyway(a) ==
    LET x == Head(left[a])
        entry == shown[a].entries["registry"][x]
        now == fresh[a].entries["registry"][x]
    IN  /\ pc[a] = "targets"
        /\ NextEntry(a, "targets")
        /\ IF now.status # "change"
           THEN EntryEnds(a, x, "stale") /\ NoFault /\ UNCHANGED <<look, wrote, disturbed>>
           ELSE Change(a, held[a].place, x, now.fingerprint.look, entry.desired)
        /\ UNCHANGED <<config, profile, snapshot, shown, fresh, held, logged>>

(* Seeded fault: every target must still be as shown. *)
ApplyTargetOfWhole(a) ==
    LET x == Head(left[a])
        entries == shown[a].entries["registry"]
    IN  /\ pc[a] = "targets"
        /\ NextEntry(a, "targets")
        /\ IF /\ entries[x].status = "change"
              /\ \A y \in DOMAIN entries :
                    look[held[a].place][y] = entries[y].fingerprint.look
           THEN Change(a, held[a].place, x, entries[x].fingerprint.look,
                       entries[x].desired)
           ELSE EntryEnds(a, x, "stale") /\ NoFault /\ UNCHANGED <<look, wrote, disturbed>>
        /\ UNCHANGED <<config, profile, snapshot, shown, fresh, held, logged>>

(* The entry of a target: a blocked branch is; what was not shown as a      *)
(* change is skipped, which a profile calls unchanged; what is no longer as *)
(* shown is stale; and the rest is changed without looking again.           *)
ApplyTarget(a) ==
    LET x == Head(left[a])
        entry == shown[a].entries["registry"][x]
        now == fresh[a].entries["registry"][x]
        status == CASE x \in Branch /\ now.status = "blocked" -> "blocked"
                    [] ~(x \in Branch /\ now.status = "blocked")
                         /\ entry.status # "change" -> "no_change"
                    [] OTHER -> "stale"
    IN  /\ pc[a] = "targets"
        /\ NextEntry(a, "targets")
        /\ IF /\ entry.status = "change" /\ now.status = "change"
              /\ now.fingerprint = entry.fingerprint
           THEN Change(a, held[a].place, x, now.fingerprint.look, entry.desired)
           ELSE EntryEnds(a, x, status) /\ NoFault /\ UNCHANGED <<look, wrote, disturbed>>
        /\ UNCHANGED <<config, profile, snapshot, shown, fresh, held, logged>>

Got(a, statuses) == \E x \in DOMAIN result[a] : result[a][x] \in statuses

(* Seeded fault: a section that failed is not counted. *)
ProfileStatusOfSuccesses(a) ==
    IF Got(a, {"success"}) THEN "success"
    ELSE IF Got(a, {"blocked", "stale"}) THEN "rejected" ELSE "no_changes"

ProfileStatus(a) ==
    CASE Got(a, {"success"}) /\ Got(a, {"failed", "blocked", "stale"}) -> "partial"
      [] Got(a, {"success"}) /\ ~Got(a, {"failed", "blocked", "stale"}) -> "success"
      [] ~Got(a, {"success"}) /\ Got(a, {"failed"}) -> "failed"
      [] ~Got(a, {"success", "failed"}) /\ Got(a, {"blocked", "stale"}) -> "rejected"
      [] OTHER -> "no_changes"

(* The entry in the Operation Log, which may not be saved. *)
LogProfile(a) ==
    /\ \/ pc[a] = "logging"
       \/ pc[a] = "sections" /\ stage[a] > Len(Plugins)
    /\ \/ NoFault /\ logged' = [logged EXCEPT ![a] = ProfileStatus(a)]
       \/ Fault /\ logged' = [logged EXCEPT ![a] = "unsaved"]
    /\ Goto(a, "answered")
    /\ fresh' = [fresh EXCEPT ![a] = NoPlan]
    /\ held' = [held EXCEPT ![a] = None]
    /\ UNCHANGED <<world, stage, shown, left, result, wrote, disturbed>>

ApplyProfile(a) ==
    \/ PlanSection(a)
    \/ ShowProfilePlan(a)
    \/ Replanned(a)
    \/ SkipSection(a) \/ EndSection(a) \/ EnterSection(a)
    \/ CheckFile(a) \/ MoveFile(a)
    \/ PlanPreset(a) \/ ApplyTarget(a)
    \/ LogProfile(a)

===========================================================================

--------------------- MODULE EnvironmentChanges_proofs ---------------------
(***************************************************************************)
(* Proofs about Environment Profiles and Snapshot Restores, for any files, *)
(* targets, places, configurations and requests: each changes only what    *)
(* its page has shown, and its results and its log are true.               *)
(***************************************************************************)
EXTENDS EnvironmentChanges, FiniteSetTheorems, TLAPS

ApplierLabels ==
    {"idle", "planning", "shown", "replanning", "sections", "files", "moving",
     "preset", "targets", "logging", "answered"}

RestorerLabels ==
    {"idle", "capturing", "shown", "recapturing", "entries", "restoring",
     "logging", "answered"}

(* The entries of a section: its resources, or one that stands for none. *)
Keys(p) == IF p = "license" THEN File \union {"license"}
                            ELSE Target \union {"registry", "preset"}

WorldOK ==
    /\ look \in [Place -> [Resource -> State]]
    /\ DOMAIN config = {"license", "logs", "registry"}
    /\ \A p \in DOMAIN config : config[p] \in Configurations(p)
    /\ profile \in Profiles
    /\ IsSnapshot(snapshot)

WorkOK ==
    /\ DOMAIN pc = Request /\ DOMAIN stage = Request
    /\ DOMAIN shown = Request /\ DOMAIN fresh = Request
    /\ DOMAIN held = Request /\ DOMAIN left = Request
    /\ DOMAIN result = Request /\ DOMAIN logged = Request
    /\ DOMAIN wrote = Request /\ DOMAIN disturbed = Request
    /\ \A a \in Applier : pc[a] \in ApplierLabels /\ stage[a] \in 1..3
    /\ \A s \in Restorer : pc[s] \in RestorerLabels /\ stage[s] \in 1..4

(* An entry that is shown as a change: of a resource at its place, which is *)
(* in another state than it is to be in.                                    *)
ChangeOf(x, entry) ==
    /\ x \in File \union Target
    /\ entry.place \in Place
    /\ entry.desired \in Holding
    /\ entry.fingerprint = [place |-> IF x \in File THEN entry.place ELSE None,
                            look  |-> entry.fingerprint.look]
    /\ entry.fingerprint.look \in State
    /\ entry.fingerprint.look.status \in Holding \ {entry.desired}

(* It was planned by configuration c. *)
By(c, x, entry) == Enabled(c) /\ x \in c.listed /\ c.place = entry.place

Plan(plan) == DOMAIN plan = {"profile", "authority", "entries"}

PlanStatuses == {"change", "no_change", "blocked", "error"}

(* A plan of a profile: the sections of the plugins it has come to. *)
ProfilePlan(plan) ==
    /\ Plan(plan)
    /\ DOMAIN plan.authority = DOMAIN plan.entries
    /\ DOMAIN plan.entries \subseteq {"license", "registry"}
    /\ \A p \in DOMAIN plan.entries :
        /\ DOMAIN plan.entries[p] \subseteq Keys(p)
        /\ \A x \in DOMAIN plan.entries[p] :
            /\ plan.entries[p][x].status \in PlanStatuses
            /\ plan.entries[p][x].status = "change"
                => /\ ChangeOf(x, plan.entries[p][x])
                   /\ By(plan.authority[p][1], x, plan.entries[p][x])

(* Where no entry has an error, there is one for each resource that the     *)
(* section is about.                                                        *)
NoErrors(plan, p) ==
    \A x \in DOMAIN plan.entries[p] : plan.entries[p][x].status # "error"

Complete(plan) ==
    /\ "license" \in DOMAIN plan.entries /\ NoErrors(plan, "license") =>
          /\ DOMAIN plan.entries["license"] = DOMAIN plan.profile.licenses
          /\ DOMAIN plan.profile.licenses # {}
    /\ /\ "registry" \in DOMAIN plan.entries /\ NoErrors(plan, "registry")
       /\ plan.authority["registry"][2] = "planned"
       => LET c == plan.authority["registry"][1]
          IN  /\ Enabled(c) /\ c \in Configurations("registry") /\ c.preset # None
              /\ DOMAIN plan.entries["registry"] = DOMAIN c.preset

InSection == {"files", "moving", "targets"}

(* The list of what is left names each resource once. *)
Listed(r) ==
    /\ left[r] \in Seq(Resource)
    /\ IsInjective(left[r])

(* An Environment Profile at work, wherever it is. *)
ProfileWork(a) ==
    /\ ProfilePlan(shown[a]) /\ ProfilePlan(fresh[a])
    /\ pc[a] # "idle" => shown[a].profile \in Profiles \ {None}
    /\ pc[a] = "idle" => shown[a] = NoPlan
    /\ pc[a] \in {"idle", "shown"} => stage[a] = 1
    /\ pc[a] \in {"replanning", "sections"} \union InSection \union {"preset"} =>
          fresh[a].profile = shown[a].profile
    /\ Complete(shown[a])
    /\ pc[a] \in {"files", "moving"} =>
          /\ stage[a] = 1 /\ "license" \in DOMAIN shown[a].entries
          /\ held[a] = shown[a].authority["license"][1]
          /\ Range(left[a]) \subseteq DOMAIN shown[a].entries["license"]
    /\ pc[a] = "moving" =>
          shown[a].entries["license"][Head(left[a])].status = "change"
    /\ pc[a] \in {"preset", "targets"} =>
          /\ stage[a] = 2 /\ "registry" \in DOMAIN shown[a].entries
          /\ "registry" \in DOMAIN fresh[a].entries
          /\ fresh[a].authority["registry"] = shown[a].authority["registry"]
          /\ NoErrors(shown[a], "registry")
          /\ shown[a].authority["registry"][2] = "planned"
    /\ pc[a] = "targets" =>
          /\ held[a] = shown[a].authority["registry"][1]
          /\ Range(left[a]) \subseteq DOMAIN shown[a].entries["registry"]
          /\ DOMAIN fresh[a].entries["registry"] = DOMAIN shown[a].entries["registry"]
    /\ pc[a] \in InSection => Listed(a) /\ left[a] # <<>>

(* What has been captured of the present. *)
CaptureOK(present) ==
    /\ DOMAIN present \subseteq Resource
    /\ present \in [DOMAIN present -> Captures]
    /\ \A x \in DOMAIN present :
          IF x \in File THEN present[x].place = None ELSE present[x].place \in Place

(* A plan of a restore: what is shown as a change is in the snapshot, and   *)
(* so is the place of a Registry target.                                    *)
RestorePlan(plan) ==
    /\ IsSnapshot(plan.profile) /\ plan.profile # None
    /\ DOMAIN plan.entries = {"snapshot"}
    /\ DOMAIN plan.profile \subseteq DOMAIN plan.entries["snapshot"]
    /\ DOMAIN plan.entries["snapshot"] \subseteq Resource
    /\ \A x \in DOMAIN plan.entries["snapshot"] :
          LET entry == plan.entries["snapshot"][x]
          IN  entry.status = "change" =>
                /\ ChangeOf(x, entry)
                /\ x \in DOMAIN plan.profile
                /\ x \in Target => plan.profile[x].place = entry.place

Restoring == {"entries", "restoring"}

(* A restore at work, wherever it is. *)
RestoreWork(s) ==
    /\ Plan(shown[s]) /\ Plan(fresh[s])
    /\ pc[s] \in {"idle", "shown"} => stage[s] = 1
    /\ pc[s] \in {"idle", "capturing"} => shown[s] = NoPlan
    /\ pc[s] \in {"capturing", "recapturing"} =>
          /\ IsSnapshot(fresh[s].profile) /\ fresh[s].profile # None
          /\ CaptureOK(fresh[s].authority)
    /\ pc[s] \notin {"idle", "capturing"} => RestorePlan(shown[s])
    /\ pc[s] \in Restoring =>
          /\ DOMAIN fresh[s].entries = {"snapshot"}
          /\ Listed(s)
          /\ Range(left[s]) \subseteq DOMAIN fresh[s].entries["snapshot"]
    /\ pc[s] = "restoring" =>
          /\ left[s] # <<>>
          /\ Head(left[s]) \in DOMAIN shown[s].entries["snapshot"]
          /\ shown[s].entries["snapshot"][Head(left[s])].status = "change"

(* Before it executes, a request has no results and has written nothing;    *)
(* then what is left to do has none yet.                                    *)
ProfileResults(a) ==
    /\ pc[a] \in {"idle", "planning", "shown", "replanning"} =>
          DOMAIN result[a] = {} /\ wrote[a] = {}
    /\ pc[a] = "sections" /\ stage[a] = 1 => DOMAIN result[a] = {}
    /\ pc[a] \in {"files", "moving", "preset"} \/ (pc[a] = "sections" /\ stage[a] = 2)
          => DOMAIN result[a] \subseteq Keys("license")
    /\ pc[a] \in InSection => Range(left[a]) \intersect DOMAIN result[a] = {}

RestoreResults(s) ==
    /\ pc[s] \in {"idle", "capturing", "shown", "recapturing"} =>
          DOMAIN result[s] = {} /\ wrote[s] = {}
    /\ pc[s] \in Restoring => Range(left[s]) \intersect DOMAIN result[s] = {}

(* What is written has a result, of success or failure. *)
Books(r) ==
    /\ wrote[r] \subseteq Results(r, "success") \union Results(r, "failed")
    /\ Results(r, "success") \subseteq wrote[r]
    /\ logged[r] # "none" => pc[r] = "answered"
---------------------------------------------------------------------------
(* Lists. *)

(* The sequence of a set has each of its elements once. *)
LEMMA ListOf ==
    ASSUME NEW S \in SUBSET Resource
    PROVE  /\ SetToSeq(S) \in Seq(Resource) /\ IsInjective(SetToSeq(S))
           /\ Range(SetToSeq(S)) = S
           /\ S # {} => SetToSeq(S) # <<>>
<1> DEFINE n == Cardinality(S)
           f == SetToSeq(S)
<1>1. IsFiniteSet(S)
  BY NamesAssumption, FS_Subset DEF NamesAssumption
<1>2. n \in Nat /\ ExistsBijection(1..n, S)
  BY <1>1, FS_CardinalityType
<1>3. PICK g : g \in Bijection(1..n, S)
  BY <1>2 DEF ExistsBijection
<1>4. g \in [1..n -> S] /\ IsInjective(g)
  BY <1>3 DEF Bijection, Injection, IsInjective
<1>5. f \in [1..n -> S] /\ IsInjective(f)
  BY <1>4 DEF SetToSeq
<1>6. f \in Injection(1..n, S)
  BY <1>5 DEF Injection
<1>7. Cardinality(1..n) = n
  BY <1>2, FS_Interval
<1>8. f \in Surjection(1..n, S)
  BY <1>1, <1>6, <1>7, FS_Injection
<1>9. Range(f) = S
  BY <1>5, <1>8 DEF Surjection, Range
<1>10. f \in Seq(Resource)
  BY <1>2, <1>5
<1>11. f = <<>> => S = {}
  BY <1>9 DEF Range
<1> QED BY <1>5, <1>9, <1>10, <1>11

(* What is left after the first of them. *)
LEMMA RestOf ==
    ASSUME NEW S, NEW s \in Seq(S), IsInjective(s), s # <<>>
    PROVE  /\ Head(s) \in S /\ Head(s) \in Range(s)
           /\ Tail(s) \in Seq(S) /\ IsInjective(Tail(s))
           /\ Range(Tail(s)) = Range(s) \ {Head(s)}
           /\ Len(s) > 1 <=> Tail(s) # <<>>
<1> DEFINE t == Tail(s)
<1>1. /\ Len(s) \in Nat /\ Len(s) > 0 /\ DOMAIN s = 1..Len(s)
      /\ s \in [1..Len(s) -> S] /\ Head(s) = s[1]
  OBVIOUS
<1>2. /\ t \in Seq(S) /\ Len(t) = Len(s) - 1 /\ DOMAIN t = 1..(Len(s) - 1)
      /\ \A i \in 1..(Len(s) - 1) : t[i] = s[i + 1]
  BY <1>1
<1>3. IsInjective(t)
  BY <1>1, <1>2 DEF IsInjective
<1>4. ASSUME NEW v
      PROVE  v \in Range(t) <=> v \in Range(s) /\ v # Head(s)
  <2>1. ASSUME v \in Range(t) PROVE v \in Range(s) /\ v # Head(s)
    <3>1. PICK i \in 1..(Len(s) - 1) : v = s[i + 1]
      BY <1>2, <2>1 DEF Range
    <3>2. i + 1 \in DOMAIN s /\ 1 \in DOMAIN s /\ i + 1 # 1
      BY <1>1, <3>1
    <3> QED BY <1>1, <3>1, <3>2 DEF Range, IsInjective
  <2>2. ASSUME v \in Range(s), v # Head(s) PROVE v \in Range(t)
    <3>1. PICK i \in 1..Len(s) : v = s[i]
      BY <1>1, <2>2 DEF Range
    <3>2. i - 1 \in 1..(Len(s) - 1) /\ i = (i - 1) + 1
      BY <1>1, <2>2, <3>1
    <3>3. t[i - 1] = v
      BY <1>2, <3>1, <3>2
    <3> QED BY <1>2, <3>2, <3>3 DEF Range
  <2> QED BY <2>1, <2>2
<1>5. Head(s) \in S /\ Head(s) \in Range(s)
  BY <1>1 DEF Range
<1>6. Len(s) > 1 <=> t # <<>>
  <2>1. t = <<>> <=> Len(t) = 0
    BY <1>2
  <2>2. ASSUME NEW m \in Nat, m > 0, NEW n, n = m - 1 PROVE m > 1 <=> n # 0
    BY <2>2
  <2>3. Len(s) > 1 <=> Len(t) # 0
    <3>1. Len(s) \in Nat /\ Len(s) > 0 /\ Len(t) = Len(s) - 1
      BY <1>1, <1>2
    <3> HIDE DEF t
    <3> QED BY <2>2, <3>1
  <2> QED BY <2>1, <2>3
<1> QED BY <1>2, <1>3, <1>4, <1>5, <1>6

---------------------------------------------------------------------------
(* Who takes a step. *)

ProfileStep(a) ==
    PreviewProfile(a) \/ ConfirmProfile(a) \/ ConfirmProfileRaises(a) \/ ApplyProfile(a)

RestoreStep(s) ==
    PreviewRestore(s) \/ ConfirmRestore(s) \/ ConfirmRestoreRaises(s) \/ RestoreSnapshot(s)

Surroundings == OtherProgram \/ SaveConfiguration \/ EditProfile \/ DeleteSnapshot

(* The work of request r is where it was. *)
Keeps(r) ==
    /\ pc'[r] = pc[r] /\ stage'[r] = stage[r] /\ shown'[r] = shown[r]
    /\ fresh'[r] = fresh[r] /\ held'[r] = held[r] /\ left'[r] = left[r]
    /\ result'[r] = result[r] /\ logged'[r] = logged[r] /\ wrote'[r] = wrote[r]

(* The actions keep the domains of what a request keeps. *)
Domains ==
    /\ DOMAIN pc = Request /\ DOMAIN stage = Request
    /\ DOMAIN shown = Request /\ DOMAIN fresh = Request
    /\ DOMAIN held = Request /\ DOMAIN left = Request
    /\ DOMAIN result = Request /\ DOMAIN logged = Request
    /\ DOMAIN wrote = Request /\ DOMAIN disturbed = Request

LEMMA ChangeKeeps ==
    ASSUME Domains, NEW r \in Request, NEW place, NEW x, NEW found, NEW desired,
           Change(r, place, x, found, desired)
    PROVE  /\ DOMAIN result' = Request /\ DOMAIN wrote' = Request
           /\ DOMAIN disturbed' = Request
           /\ \A q \in Request \ {r} : result'[q] = result[q] /\ wrote'[q] = wrote[q]
  BY DEF Domains, Change, Others

LEMMA ProfileKeeps ==
    ASSUME Domains, NEW a \in Applier, ProfileStep(a)
    PROVE  Domains' /\ \A r \in Request \ {a} : Keeps(r)
<1> USE DEF Domains, Keeps, Goto, work, world
<1>1. CASE PreviewProfile(a)
  BY <1>1 DEF PreviewProfile
<1>2. CASE ConfirmProfile(a)
  BY <1>2 DEF ConfirmProfile
<1>3. CASE ConfirmProfileRaises(a)
  BY <1>3 DEF ConfirmProfileRaises
<1>4. CASE PlanSection(a)
  BY <1>4 DEF PlanSection
<1>5. CASE ShowProfilePlan(a) \/ Replanned(a)
  BY <1>5 DEF ShowProfilePlan, Replanned
<1>6. CASE SkipSection(a)
  BY <1>6 DEF SkipSection, NextSection
<1>7. CASE EndSection(a)
  BY <1>7 DEF EndSection, NextSection
<1>8. CASE EnterSection(a)
  BY <1>8 DEF EnterSection, NextSection
<1>9. CASE CheckFile(a)
  BY <1>9 DEF CheckFile, NextSection, NextEntry, EntryEnds
<1>10. CASE MoveFile(a)
  <2> DEFINE c == held[a]
             x == Head(left[a])
             entry == shown[a].entries["license"][x]
  <2>1. /\ NextEntry(a, "files")
        /\ UNCHANGED <<config, profile, snapshot, shown, fresh, held, logged>>
    BY <1>10 DEF MoveFile
  <2>2. /\ DOMAIN result' = Request /\ DOMAIN wrote' = Request
        /\ DOMAIN disturbed' = Request
        /\ \A q \in Request \ {a} : result'[q] = result[q] /\ wrote'[q] = wrote[q]
    <3>1. CASE Change(a, c.place, x, entry.fingerprint.look, entry.desired)
      BY <3>1, ChangeKeeps DEF Request
    <3>2. CASE \E status : EntryEnds(a, x, status) /\ UNCHANGED <<look, wrote, disturbed>>
      BY <3>2 DEF EntryEnds
    <3> QED BY <1>10, <3>1, <3>2 DEF MoveFile
  <2> QED BY <2>1, <2>2 DEF NextEntry, NextSection
<1>11. CASE PlanPreset(a)
  BY <1>11 DEF PlanPreset, NextSection
<1>12. CASE ApplyTarget(a)
  BY <1>12 DEF ApplyTarget, NextSection, NextEntry, EntryEnds, Change, Others
<1>13. CASE LogProfile(a)
  BY <1>13 DEF LogProfile
<1> QED BY <1>1, <1>2, <1>3, <1>4, <1>5, <1>6, <1>7, <1>8, <1>9, <1>10, <1>11,
           <1>12, <1>13 DEF ProfileStep, ApplyProfile

LEMMA RestoreKeeps ==
    ASSUME Domains, NEW s \in Restorer, RestoreStep(s)
    PROVE  Domains' /\ \A r \in Request \ {s} : Keeps(r)
<1> USE DEF Domains, Keeps, Goto, work, world, EntryDone
<1>1. CASE PreviewRestore(s) \/ ConfirmRestore(s) \/ ConfirmRestoreRaises(s)
  BY <1>1 DEF PreviewRestore, ConfirmRestore, ConfirmRestoreRaises
<1>2. CASE Capture(s)
  BY <1>2 DEF Capture
<1>3. CASE ShowRestorePlan(s)
  BY <1>3 DEF ShowRestorePlan
<1>4. CASE ReplanRestore(s)
  BY <1>4 DEF ReplanRestore
<1>5. CASE DecideEntry(s)
  BY <1>5 DEF DecideEntry
<1>6. CASE RefuseEntry(s)
  BY <1>6 DEF RefuseEntry
<1>7. CASE ExecuteEntry(s)
  BY <1>7 DEF ExecuteEntry, Change, Others
<1>8. CASE EndRestore(s) \/ LogRestore(s)
  BY <1>8 DEF EndRestore, LogRestore
<1> QED BY <1>1, <1>2, <1>3, <1>4, <1>5, <1>6, <1>7, <1>8
        DEF RestoreStep, RestoreSnapshot
---------------------------------------------------------------------------
(* Plans of a profile. *)

(* What is planned as a change has been read, and is in the other state. *)
LEMMA PlannedChange ==
    ASSUME WorldOK, NEW p \in {"license", "logs", "registry"},
           NEW c \in Configurations(p), NEW insp \in Inspections(c), NEW x,
           NEW desired \in Holding, Planned(insp, x, desired) = "change"
    PROVE  /\ Enabled(c) /\ c.place \in Place /\ x \in c.listed /\ x \in Resource
           /\ PluginOf(x) = p
           /\ x \in DOMAIN insp /\ insp[x] = look[c.place][x] /\ insp[x] \in State
           /\ insp[x].status \in Holding \ {desired}
<1>1. x \in DOMAIN insp /\ insp[x].status \in Holding \ {desired}
  BY DEF Planned, Holding
<1>2. DOMAIN insp = DOMAIN Looked(c)
  BY DEF Inspections
<1>3. Enabled(c) /\ x \in c.listed
  BY <1>1, <1>2 DEF Looked
<1>4. c.place \in Place /\ x \in Resource /\ PluginOf(x) = p
  BY <1>3 DEF Configurations, Enabled
<1>5. look[c.place][x] \in State
  BY <1>4 DEF WorldOK
<1>6. insp[x] # Unread
  <2>1. Unread.status = "error"
    BY DEF Unread
  <2> QED BY <1>1, <2>1 DEF Holding
<1>7. insp[x] = Looked(c)[x]
  BY <1>1, <1>2, <1>6 DEF Inspections
<1>8. Looked(c)[x] = look[c.place][x]
  BY <1>3 DEF Looked
<1> QED BY <1>1, <1>3, <1>4, <1>5, <1>7, <1>8

LEMMA PlannedStatus ==
    ASSUME NEW insp, NEW x, NEW desired
    PROVE  Planned(insp, x, desired) \in PlanStatuses
  BY DEF Planned, PlanStatuses

LEMMA PluginOfThings ==
    /\ \A x \in Resource : PluginOf(x) = "license" <=> x \in File
    /\ \A x \in Resource : PluginOf(x) = "registry" <=> x \in Target
  BY NamesAssumption DEF NamesAssumption, PluginOf, Resource

(* So is an entry with the fingerprint and the place that plans give it. *)
LEMMA EntryPlanned ==
    ASSUME WorldOK, NEW p \in {"license", "registry"},
           NEW c \in Configurations(p), NEW insp \in Inspections(c), NEW x,
           NEW entry, entry.desired \in Holding,
           Planned(insp, x, entry.desired) = "change", entry.place = PlaceOf(c),
           entry.fingerprint = Fingerprint(c, insp, x)
    PROVE  ChangeOf(x, entry) /\ By(c, x, entry)
<1>1. /\ Enabled(c) /\ c.place \in Place /\ x \in c.listed /\ x \in Resource
      /\ PluginOf(x) = p
      /\ x \in DOMAIN insp /\ insp[x] \in State
      /\ insp[x].status \in Holding \ {entry.desired}
  BY PlannedChange
<1>2. entry.place = c.place
  BY <1>1 DEF PlaceOf, Enabled
<1>3. entry.fingerprint = [place |-> IF x \in File THEN c.place ELSE None, look |-> insp[x]]
  BY <1>1 DEF Fingerprint
<1>4. x \in File \union Target
  BY <1>1, PluginOfThings
<1>5. /\ entry.fingerprint.look = insp[x]
      /\ entry.fingerprint = [place |-> IF x \in File THEN entry.place ELSE None,
                              look  |-> entry.fingerprint.look]
  BY <1>2, <1>3
<1> QED BY <1>1, <1>2, <1>4, <1>5 DEF ChangeOf, By

SectionOK(p, section) ==
    /\ DOMAIN section.entries \subseteq Keys(p)
    /\ \A x \in DOMAIN section.entries :
        /\ section.entries[x].status \in PlanStatuses
        /\ section.entries[x].status = "change"
            => /\ ChangeOf(x, section.entries[x])
               /\ By(section.authority[1], x, section.entries[x])

LEMMA LicenseSectionOK ==
    ASSUME WorldOK, NEW prof \in Profiles \ {None}, NEW c \in Configurations("license"),
           NEW insp \in Inspections(c)
    PROVE  /\ SectionOK("license", LicenseSection(prof, c, insp))
           /\ DOMAIN LicenseSection(prof, c, insp).entries = DOMAIN prof.licenses
<1> DEFINE section == LicenseSection(prof, c, insp)
<1>1. /\ section.authority = <<c, prof.licenses>>
      /\ DOMAIN section.entries = DOMAIN prof.licenses
      /\ \A x \in DOMAIN prof.licenses :
          section.entries[x] = [status      |-> LicenseStatus(prof, c, insp, x),
                                desired     |-> prof.licenses[x],
                                place       |-> PlaceOf(c),
                                fingerprint |-> Fingerprint(c, insp, x)]
  BY DEF LicenseSection
<1> HIDE DEF section
<1>2. DOMAIN prof.licenses \subseteq File
      /\ \A x \in DOMAIN prof.licenses : prof.licenses[x] \in Holding
  BY DEF Profiles, Wishes
<1>3. ASSUME NEW x \in DOMAIN prof.licenses, section.entries[x].status = "change"
      PROVE  ChangeOf(x, section.entries[x]) /\ By(c, x, section.entries[x])
  <2> DEFINE entry == [status      |-> LicenseStatus(prof, c, insp, x),
                       desired     |-> prof.licenses[x],
                       place       |-> PlaceOf(c),
                       fingerprint |-> Fingerprint(c, insp, x)]
  <2>1. /\ LicenseStatus(prof, c, insp, x) = "change"
        /\ section.entries[x].desired = prof.licenses[x]
        /\ section.entries[x].place = PlaceOf(c)
        /\ section.entries[x].fingerprint = Fingerprint(c, insp, x)
    <3>1. section.entries[x] = entry
      BY <1>1
    <3>2. entry.status = "change"
      BY <3>1, <1>3
    <3> QED BY <3>1, <3>2
  <2>2. Planned(insp, x, prof.licenses[x]) = "change"
    BY <2>1 DEF LicenseStatus
  <2>3. Planned(insp, x, section.entries[x].desired) = "change"
        /\ section.entries[x].desired \in Holding
    BY <1>2, <2>1, <2>2
  <2> QED BY <2>1, <2>3, EntryPlanned
<1>4. section.authority[1] = c
  BY <1>1
<1>5. ASSUME NEW x \in DOMAIN prof.licenses
      PROVE  section.entries[x].status \in PlanStatuses
  <2>1. LicenseStatus(prof, c, insp, x) \in PlanStatuses
    BY PlannedStatus DEF LicenseStatus, PlanStatuses
  <2> DEFINE entry == [status      |-> LicenseStatus(prof, c, insp, x),
                       desired     |-> prof.licenses[x],
                       place       |-> PlaceOf(c),
                       fingerprint |-> Fingerprint(c, insp, x)]
  <2>2. section.entries[x] = entry
    BY <1>1
  <2> QED BY <2>1, <2>2
<1>6. SectionOK("license", section)
  BY <1>1, <1>2, <1>3, <1>4, <1>5 DEF SectionOK, Keys
<1> QED BY <1>1, <1>6 DEF section

LEMMA RegistrySectionOK ==
    ASSUME WorldOK, NEW c \in Configurations("registry"), NEW insp \in Inspections(c)
    PROVE  LET section == RegistrySection(c, insp) IN
           /\ SectionOK("registry", section)
           /\ section.authority[2] = "planned" =>
                /\ Enabled(c) /\ c.preset # None /\ section.authority[1] = c
                /\ DOMAIN section.entries = DOMAIN c.preset
<1> DEFINE section == RegistrySection(c, insp)
<1>1. CASE ~Enabled(c) \/ c.preset = None
  <2>1. section \in {NoPreset("unavailable"), NoPreset("missing")}
    BY <1>1 DEF RegistrySection
  <2>2. /\ section.authority[2] # "planned" /\ DOMAIN section.entries = {"preset"}
        /\ section.entries["preset"].status = "blocked"
    BY <2>1 DEF NoPreset, Only
  <2> QED BY <2>2 DEF SectionOK, Keys, PlanStatuses
<1>2. CASE Enabled(c) /\ c.preset # None
  <2>1. /\ section.authority = <<c, "planned">>
        /\ DOMAIN section.entries = DOMAIN c.preset
        /\ \A x \in DOMAIN c.preset :
            section.entries[x] = [status      |-> Planned(insp, x, c.preset[x]),
                                  desired     |-> c.preset[x],
                                  place       |-> PlaceOf(c),
                                  fingerprint |-> Fingerprint(c, insp, x)]
    BY <1>2 DEF RegistrySection
  <2> HIDE DEF section
  <2>2. DOMAIN c.preset \subseteq Target
        /\ \A x \in DOMAIN c.preset : c.preset[x] \in Holding
    BY <1>2 DEF Configurations, Wishes, Enabled
  <2>3. ASSUME NEW x \in DOMAIN c.preset, section.entries[x].status = "change"
        PROVE  ChangeOf(x, section.entries[x]) /\ By(c, x, section.entries[x])
    <3> DEFINE entry == [status      |-> Planned(insp, x, c.preset[x]),
                         desired     |-> c.preset[x],
                         place       |-> PlaceOf(c),
                         fingerprint |-> Fingerprint(c, insp, x)]
    <3>0. section.entries[x] = entry
      BY <2>1
    <3>1. /\ Planned(insp, x, section.entries[x].desired) = "change"
          /\ section.entries[x].desired \in Holding
          /\ section.entries[x].place = PlaceOf(c)
          /\ section.entries[x].fingerprint = Fingerprint(c, insp, x)
      BY <3>0, <2>2, <2>3
    <3> QED BY <3>1, EntryPlanned
  <2>4. section.authority[1] = c
    BY <2>1
  <2>5. ASSUME NEW x \in DOMAIN c.preset
        PROVE  section.entries[x].status \in PlanStatuses
    <3> DEFINE entry == [status      |-> Planned(insp, x, c.preset[x]),
                         desired     |-> c.preset[x],
                         place       |-> PlaceOf(c),
                         fingerprint |-> Fingerprint(c, insp, x)]
    <3>1. section.entries[x] = entry
      BY <2>1
    <3> QED BY <3>1, PlannedStatus
  <2>6. SectionOK("registry", section)
    BY <2>1, <2>2, <2>3, <2>4, <2>5 DEF SectionOK, Keys
  <2> QED BY <1>2, <2>1, <2>4, <2>6 DEF section
<1> QED BY <1>1, <1>2

LEMMA ErrorSectionOK ==
    ASSUME NEW p \in {"license", "registry"}
    PROVE  /\ SectionOK(p, ErrorSection(p))
           /\ DOMAIN ErrorSection(p).entries = {p}
           /\ ErrorSection(p).entries[p].status = "error"
  BY DEF ErrorSection, Only, SectionOK, Keys, PlanStatuses

(* A section is added to a plan. *)
LEMMA AddedTo ==
    ASSUME NEW plan, ProfilePlan(plan), NEW p, NEW section
    PROVE  LET new == Add(plan, p, section) IN
           /\ DOMAIN new = {"profile", "authority", "entries"}
           /\ new.profile = plan.profile
           /\ DOMAIN new.authority = DOMAIN plan.authority \union {p}
           /\ DOMAIN new.entries = DOMAIN plan.entries \union {p}
           /\ new.authority[p] = section.authority /\ new.entries[p] = section.entries
           /\ \A q \in DOMAIN plan.authority : q # p => new.authority[q] = plan.authority[q]
           /\ \A q \in DOMAIN plan.entries : q # p => new.entries[q] = plan.entries[q]
<1> DEFINE new == Add(plan, p, section)
<1>1. /\ DOMAIN new = {"profile", "authority", "entries"}
      /\ new.profile = plan.profile
      /\ new.authority = Over(Only(p, section.authority), plan.authority)
      /\ new.entries = Over(Only(p, section.entries), plan.entries)
  BY DEF ProfilePlan, Plan, Add
<1> HIDE DEF new
<1>2. /\ DOMAIN new.authority = DOMAIN plan.authority \union {p}
      /\ DOMAIN new.entries = DOMAIN plan.entries \union {p}
      /\ new.authority[p] = section.authority /\ new.entries[p] = section.entries
      /\ \A q \in DOMAIN plan.authority : q # p => new.authority[q] = plan.authority[q]
      /\ \A q \in DOMAIN plan.entries : q # p => new.entries[q] = plan.entries[q]
  BY <1>1 DEF Over, Only
<1> QED BY <1>1, <1>2 DEF new

LEMMA AddOK ==
    ASSUME NEW plan, ProfilePlan(plan),
           NEW p \in {"license", "registry"}, NEW section, SectionOK(p, section)
    PROVE  ProfilePlan(Add(plan, p, section))
<1> DEFINE new == Add(plan, p, section)
<1> HIDE DEF new
<1>2. /\ DOMAIN new = {"profile", "authority", "entries"}
      /\ DOMAIN new.authority = DOMAIN plan.authority \union {p}
      /\ DOMAIN new.entries = DOMAIN plan.entries \union {p}
      /\ new.authority[p] = section.authority /\ new.entries[p] = section.entries
      /\ \A q \in DOMAIN plan.authority : q # p => new.authority[q] = plan.authority[q]
      /\ \A q \in DOMAIN plan.entries : q # p => new.entries[q] = plan.entries[q]
  BY AddedTo DEF new
<1>3. ProfilePlan(new)
  <2>1. DOMAIN new.authority = DOMAIN new.entries
        /\ DOMAIN new.entries \subseteq {"license", "registry"}
    BY <1>2 DEF ProfilePlan
  <2>2. ASSUME NEW q \in DOMAIN new.entries
        PROVE  SectionOK(q, [authority |-> new.authority[q], entries |-> new.entries[q]])
    <3>1. CASE q = p
      BY <1>2, <3>1 DEF SectionOK
    <3>2. CASE q # p
      BY <1>2, <3>2 DEF SectionOK, ProfilePlan
    <3> QED BY <3>1, <3>2
  <2> QED BY <1>2, <2>1, <2>2 DEF ProfilePlan, Plan, SectionOK
<1> QED BY <1>3 DEF new

LEMMA AddComplete ==
    ASSUME NEW plan, ProfilePlan(plan), Complete(plan),
           NEW p \in {"license", "registry"}, NEW section,
           (\A x \in DOMAIN section.entries : section.entries[x].status # "error") =>
              IF p = "license"
              THEN /\ DOMAIN section.entries = DOMAIN plan.profile.licenses
                   /\ DOMAIN plan.profile.licenses # {}
              ELSE section.authority[2] = "planned" =>
                    LET c == section.authority[1]
                    IN  /\ Enabled(c) /\ c \in Configurations("registry") /\ c.preset # None
                        /\ DOMAIN section.entries = DOMAIN c.preset
    PROVE  Complete(Add(plan, p, section))
<1> DEFINE new == Add(plan, p, section)
<1> HIDE DEF new
<1>2. /\ new.profile = plan.profile
      /\ DOMAIN new.authority = DOMAIN plan.authority \union {p}
      /\ DOMAIN new.entries = DOMAIN plan.entries \union {p}
      /\ new.authority[p] = section.authority /\ new.entries[p] = section.entries
      /\ \A q \in DOMAIN plan.authority : q # p => new.authority[q] = plan.authority[q]
      /\ \A q \in DOMAIN plan.entries : q # p => new.entries[q] = plan.entries[q]
  BY AddedTo DEF new
<1>4. Complete(new)
  <2>1. ASSUME "license" \in DOMAIN new.entries, NoErrors(new, "license")
        PROVE  /\ DOMAIN new.entries["license"] = DOMAIN new.profile.licenses
               /\ DOMAIN new.profile.licenses # {}
    <3>1. CASE p = "license"
      BY <1>2, <2>1, <3>1 DEF NoErrors
    <3>2. CASE p # "license"
      <4>1. "license" \in DOMAIN plan.entries /\ NoErrors(plan, "license")
        BY <1>2, <2>1, <3>2 DEF NoErrors
      <4> QED BY <1>2, <3>2, <4>1 DEF Complete
    <3> QED BY <3>1, <3>2
  <2>2. ASSUME "registry" \in DOMAIN new.entries, NoErrors(new, "registry"),
               new.authority["registry"][2] = "planned"
        PROVE  LET c == new.authority["registry"][1]
               IN  /\ Enabled(c) /\ c \in Configurations("registry") /\ c.preset # None
                   /\ DOMAIN new.entries["registry"] = DOMAIN c.preset
    <3>1. CASE p = "registry"
      BY <1>2, <2>2, <3>1 DEF NoErrors
    <3>2. CASE p # "registry"
      <4>1. "registry" \in DOMAIN plan.entries /\ NoErrors(plan, "registry")
            /\ "registry" \in DOMAIN plan.authority
        BY <1>2, <2>2, <3>2 DEF NoErrors, ProfilePlan
      <4> QED BY <1>2, <2>2, <3>2, <4>1 DEF Complete
    <3> QED BY <3>1, <3>2
  <2> QED BY <2>1, <2>2 DEF Complete
<1> QED BY <1>4 DEF new
---------------------------------------------------------------------------
(* A profile is applied: what the steps of its request keep true of it. *)

ProfileInv(a) == ProfileWork(a) /\ ProfileResults(a) /\ Books(a)

TypesOK == WorldOK /\ WorkOK

LEMMA PreviewProfileOK ==
    ASSUME TypesOK, NEW a \in Applier, ProfileInv(a), PreviewProfile(a)
    PROVE  ProfileInv(a)' /\ pc'[a] \in ApplierLabels /\ stage'[a] \in 1..3
<1>1. a \in Request /\ pc[a] = "idle"
  BY DEF Request, PreviewProfile
<1>2. /\ pc'[a] = "planning" /\ stage'[a] = 1 /\ fresh'[a] = fresh[a]
      /\ left'[a] = left[a] /\ held'[a] = held[a]
      /\ result'[a] = result[a] /\ wrote'[a] = wrote[a] /\ logged'[a] = logged[a]
      /\ shown'[a] = [NoPlan EXCEPT !.profile = profile]
  BY <1>1 DEF PreviewProfile, TypesOK, WorkOK, Goto, ProfileInv, ProfileWork
<1>3. /\ DOMAIN shown'[a] = {"profile", "authority", "entries"}
      /\ shown'[a].profile = profile /\ profile \in Profiles \ {None}
      /\ shown'[a].entries = Nothing /\ shown'[a].authority = Nothing
      /\ DOMAIN Nothing = {}
  BY <1>2 DEF NoPlan, Nothing, PreviewProfile, TypesOK, WorldOK
<1>4. ProfilePlan(shown'[a]) /\ Complete(shown'[a])
  BY <1>3 DEF ProfilePlan, Plan, Complete
<1>5. ProfileWork(a)'
  BY <1>1, <1>2, <1>3, <1>4 DEF ProfileInv, ProfileWork, InSection
<1>6. ProfileResults(a)'
  BY <1>1, <1>2 DEF ProfileInv, ProfileResults, InSection
<1>7. Books(a)'
  BY <1>1, <1>2 DEF ProfileInv, Books, Results
<1> QED BY <1>2, <1>5, <1>6, <1>7 DEF ProfileInv, ApplierLabels
(* The plan that one more plugin has been asked for. *)
LEMMA PlanMore ==
    ASSUME TypesOK, NEW a \in Applier, PlanSection(a),
           NEW plan, plan = (IF pc[a] = "planning" THEN shown[a] ELSE fresh[a]),
           ProfilePlan(plan), plan.profile \in Profiles \ {None},
           stage[a] \in 1..3
    PROVE  \E new :
             /\ IF pc[a] = "planning"
                THEN shown' = [shown EXCEPT ![a] = new] /\ UNCHANGED fresh
                ELSE fresh' = [fresh EXCEPT ![a] = new] /\ UNCHANGED shown
             /\ ProfilePlan(new) /\ new.profile = plan.profile
             /\ Complete(plan) => Complete(new)
<1> DEFINE p == Plugins[stage[a]]
           next(new) == IF pc[a] = "planning"
                        THEN shown' = [shown EXCEPT ![a] = new] /\ UNCHANGED fresh
                        ELSE fresh' = [fresh EXCEPT ![a] = new] /\ UNCHANGED shown
           Fine(new) == /\ ProfilePlan(new) /\ new.profile = plan.profile
                        /\ Complete(plan) => Complete(new)
<1>1. p \in {"license", "registry"}
  BY DEF PlanSection, Plugins
<1>2. \/ next(plan)
      \/ /\ Uses(plan.profile, p)
         /\ \E insp \in Inspections(config[p]) :
              next(Add(plan, p, Section(p, plan.profile, config[p], insp)))
      \/ next(Add(plan, p, ErrorSection(p)))
  BY DEF PlanSection
<1>3. config[p] \in Configurations(p)
  BY <1>1 DEF TypesOK, WorldOK
<1> HIDE DEF p
<1>4. ASSUME Uses(plan.profile, p), NEW insp \in Inspections(config[p])
      PROVE  Fine(Add(plan, p, Section(p, plan.profile, config[p], insp)))
  <2> DEFINE section == Section(p, plan.profile, config[p], insp)
  <2>1. CASE p = "license"
    <3>1. /\ SectionOK("license", section)
          /\ DOMAIN section.entries = DOMAIN plan.profile.licenses
          /\ DOMAIN plan.profile.licenses # {}
      BY <1>3, <1>4, <2>1, LicenseSectionOK DEF Section, TypesOK, Uses
    <3> QED BY <2>1, <3>1, AddOK, AddComplete, AddedTo
  <2>2. CASE p = "registry"
    <3>1. /\ SectionOK("registry", section)
          /\ section.authority[2] = "planned" =>
                LET c == section.authority[1]
                IN  /\ Enabled(c) /\ c \in Configurations("registry") /\ c.preset # None
                    /\ DOMAIN section.entries = DOMAIN c.preset
      BY <1>3, <2>2, RegistrySectionOK DEF Section, TypesOK
    <3> QED BY <2>2, <3>1, AddOK, AddComplete, AddedTo
  <2> QED BY <1>1, <2>1, <2>2
<1>5. Fine(Add(plan, p, ErrorSection(p)))
  <2>1. /\ SectionOK(p, ErrorSection(p))
        /\ ~ \A x \in DOMAIN ErrorSection(p).entries :
              ErrorSection(p).entries[x].status # "error"
    BY <1>1, ErrorSectionOK
  <2> QED BY <1>1, <2>1, AddOK, AddComplete, AddedTo
<1>6. Fine(plan)
  OBVIOUS
<1> HIDE DEF next, Fine
<1>7. \E new : next(new) /\ Fine(new)
  BY <1>2, <1>4, <1>5, <1>6
<1> QED BY <1>7 DEF next, Fine
LEMMA PlanSectionOK ==
    ASSUME TypesOK, NEW a \in Applier, ProfileInv(a), PlanSection(a)
    PROVE  ProfileInv(a)' /\ pc'[a] \in ApplierLabels /\ stage'[a] \in 1..3
<1> DEFINE plan == IF pc[a] = "planning" THEN shown[a] ELSE fresh[a]
<1>1. a \in Request /\ pc[a] \in {"planning", "replanning"} /\ stage[a] \in 1..2
  BY DEF Request, PlanSection, Plugins, TypesOK, WorkOK
<1>2. ProfilePlan(plan) /\ plan.profile \in Profiles \ {None}
  BY <1>1 DEF ProfileInv, ProfileWork
<1>3. PICK new :
        /\ IF pc[a] = "planning"
           THEN shown' = [shown EXCEPT ![a] = new] /\ UNCHANGED fresh
           ELSE fresh' = [fresh EXCEPT ![a] = new] /\ UNCHANGED shown
        /\ ProfilePlan(new) /\ new.profile = plan.profile
        /\ Complete(plan) => Complete(new)
  BY <1>1, <1>2, PlanMore
<1>4. /\ pc'[a] = pc[a] /\ stage'[a] \in 1..3
      /\ left'[a] = left[a] /\ held'[a] = held[a]
      /\ result'[a] = result[a] /\ wrote'[a] = wrote[a] /\ logged'[a] = logged[a]
  BY <1>1 DEF PlanSection, TypesOK, WorkOK
<1>5. /\ ProfilePlan(shown'[a]) /\ ProfilePlan(fresh'[a]) /\ Complete(shown'[a])
      /\ shown'[a].profile = shown[a].profile
      /\ fresh'[a].profile = fresh[a].profile
  <2>1. CASE pc[a] = "planning"
    <3>1. shown'[a] = new /\ fresh'[a] = fresh[a] /\ plan = shown[a]
      BY <1>1, <1>3, <2>1 DEF TypesOK, WorkOK
    <3> QED BY <1>3, <3>1 DEF ProfileInv, ProfileWork
  <2>2. CASE pc[a] # "planning"
    <3>1. shown'[a] = shown[a] /\ fresh'[a] = new /\ plan = fresh[a]
      BY <1>1, <1>3, <2>2 DEF TypesOK, WorkOK
    <3> QED BY <1>3, <3>1 DEF ProfileInv, ProfileWork
  <2> QED BY <2>1, <2>2
<1> HIDE DEF plan
<1>6. ProfileWork(a)'
  BY <1>1, <1>4, <1>5 DEF ProfileInv, ProfileWork, InSection
<1>7. ProfileResults(a)'
  BY <1>1, <1>4 DEF ProfileInv, ProfileResults, InSection
<1>8. Books(a)'
  BY <1>1, <1>4 DEF ProfileInv, Books, Results
<1> QED BY <1>1, <1>4, <1>6, <1>7, <1>8 DEF ProfileInv, ApplierLabels

LEMMA ShowProfilePlanOK ==
    ASSUME TypesOK, NEW a \in Applier, ProfileInv(a), ShowProfilePlan(a) \/ Replanned(a)
    PROVE  ProfileInv(a)' /\ pc'[a] \in ApplierLabels /\ stage'[a] \in 1..3
<1>1. /\ a \in Request /\ pc[a] \in {"planning", "replanning"}
      /\ pc'[a] = (IF pc[a] = "planning" THEN "shown" ELSE "sections")
      /\ stage'[a] = 1 /\ shown'[a] = shown[a] /\ fresh'[a] = fresh[a]
      /\ left'[a] = left[a] /\ held'[a] = held[a]
      /\ result'[a] = result[a] /\ wrote'[a] = wrote[a] /\ logged'[a] = logged[a]
  BY DEF Request, ShowProfilePlan, Replanned, TypesOK, WorkOK, Goto
<1>2. ProfileWork(a)'
  BY <1>1 DEF ProfileInv, ProfileWork, InSection
<1>3. ProfileResults(a)'
  BY <1>1 DEF ProfileInv, ProfileResults, InSection
<1>4. Books(a)'
  BY <1>1 DEF ProfileInv, Books, Results
<1> QED BY <1>1, <1>2, <1>3, <1>4 DEF ProfileInv, ApplierLabels

LEMMA ConfirmProfileOK ==
    ASSUME TypesOK, NEW a \in Applier, ProfileInv(a),
           ConfirmProfile(a) \/ ConfirmProfileRaises(a)
    PROVE  ProfileInv(a)' /\ pc'[a] \in ApplierLabels /\ stage'[a] \in 1..3
<1>1. /\ a \in Request /\ pc[a] = "shown"
      /\ pc'[a] \in {"replanning", "logging", "answered"}
      /\ stage'[a] = stage[a] /\ stage[a] \in 1..3 /\ shown'[a] = shown[a]
      /\ left'[a] = left[a] /\ held'[a] = held[a]
      /\ wrote'[a] = wrote[a] /\ logged'[a] = logged[a]
  BY DEF Request, ConfirmProfile, ConfirmProfileRaises, TypesOK, WorkOK, Goto
<1>2. \/ /\ pc'[a] = "replanning" /\ result'[a] = result[a]
         /\ fresh'[a] = [NoPlan EXCEPT !.profile = profile]
         /\ profile = shown[a].profile
      \/ /\ pc'[a] = "logging" /\ fresh'[a] = fresh[a]
         /\ \A x \in DOMAIN result'[a] : result'[a][x] = "stale"
      \/ pc'[a] = "answered" /\ fresh'[a] = fresh[a] /\ result'[a] = result[a]
  BY <1>1 DEF ConfirmProfile, ConfirmProfileRaises, TypesOK, WorkOK, Goto
<1>3. ProfilePlan(fresh'[a])
  <2>1. CASE pc'[a] = "replanning"
    <3>1. /\ DOMAIN fresh'[a] = {"profile", "authority", "entries"}
          /\ fresh'[a].entries = Nothing /\ fresh'[a].authority = Nothing
          /\ DOMAIN Nothing = {}
      BY <1>2, <2>1 DEF NoPlan, Nothing
    <3> QED BY <3>1 DEF ProfilePlan, Plan
  <2> QED BY <1>2, <2>1 DEF ProfileInv, ProfileWork
<1>4. pc'[a] = "replanning" => fresh'[a].profile = shown'[a].profile
  BY <1>1, <1>2 DEF NoPlan
<1>5. ProfileWork(a)'
  BY <1>1, <1>3, <1>4 DEF ProfileInv, ProfileWork, InSection
<1>6. DOMAIN result[a] = {} /\ wrote[a] = {} /\ logged[a] = "none"
  BY <1>1 DEF ProfileInv, ProfileResults, Books
<1>7. ProfileResults(a)'
  BY <1>1, <1>2, <1>6 DEF ProfileResults, InSection
<1>8. Books(a)'
  BY <1>1, <1>2, <1>6 DEF Books, Results
<1> QED BY <1>1, <1>5, <1>7, <1>8 DEF ProfileInv, ApplierLabels
(* What a section may make of results: entries that had none get one that   *)
(* is no success.                                                           *)
LEMMA BooksAfter ==
    ASSUME NEW r \in Request, Books(r), NEW g,
           result'[r] = Over(g, result[r]), wrote'[r] = wrote[r],
           logged'[r] = logged[r], logged[r] = "none",
           \A x \in DOMAIN g : x \notin DOMAIN result[r] /\ g[x] # "success"
    PROVE  Books(r)'
<1>1. /\ DOMAIN result'[r] = DOMAIN g \union DOMAIN result[r]
      /\ \A x \in DOMAIN result[r] : result'[r][x] = result[r][x]
      /\ \A x \in DOMAIN g : result'[r][x] = g[x]
  BY DEF Over
<1>2. ASSUME NEW x \in wrote[r] PROVE x \in Results(r, "success")' \union Results(r, "failed")'
  BY <1>1 DEF Books, Results
<1>3. ASSUME NEW x \in Results(r, "success")' PROVE x \in wrote[r]
  BY <1>1, <1>3 DEF Books, Results
<1> QED BY <1>2, <1>3 DEF Books

(* A change is done, and then counts as success, or fails. *)
LEMMA BooksChange ==
    ASSUME NEW r \in Request, DOMAIN result = Request, DOMAIN wrote = Request,
           Books(r), NEW place, NEW x, NEW found, NEW desired,
           Change(r, place, x, found, desired), x \notin DOMAIN result[r],
           logged'[r] = logged[r], logged[r] = "none"
    PROVE  /\ Books(r)'
           /\ \E status : result'[r] = Over(Only(x, status), result[r])
<1>1. PICK to \in {"done", "undone", "stuck", "untouched"} :
        /\ result' = [result EXCEPT ![r] =
                        Over(Only(x, IF to = "done" THEN "success" ELSE "failed"), @)]
        /\ wrote' = [wrote EXCEPT ![r] =
                       IF to \in {"done", "stuck"} THEN @ \union {x} ELSE @]
  BY DEF Change
<1> DEFINE st == IF to = "done" THEN "success" ELSE "failed"
<1>2. /\ result'[r] = Over(Only(x, st), result[r])
      /\ wrote'[r] = (IF to \in {"done", "stuck"} THEN wrote[r] \union {x} ELSE wrote[r])
  BY <1>1
<1>3. /\ DOMAIN result'[r] = {x} \union DOMAIN result[r]
      /\ \A y \in DOMAIN result[r] : result'[r][y] = result[r][y]
      /\ result'[r][x] = st
  BY <1>2 DEF Over, Only
<1>4. ASSUME NEW y \in wrote'[r] PROVE y \in Results(r, "success")' \union Results(r, "failed")'
  <2>1. CASE y = x
    BY <1>3, <2>1 DEF Results
  <2>2. CASE y # x
    BY <1>2, <1>3, <1>4, <2>2 DEF Books, Results
  <2> QED BY <2>1, <2>2
<1>5. ASSUME NEW y \in Results(r, "success")' PROVE y \in wrote'[r]
  <2>1. CASE y = x
    BY <1>2, <1>3, <1>5, <2>1 DEF Results
  <2>2. CASE y # x
    BY <1>2, <1>3, <1>5, <2>2 DEF Books, Results
  <2> QED BY <2>1, <2>2
<1> QED BY <1>2, <1>4, <1>5 DEF Books

(* The first of the list gets a result, and is off it. *)
LEMMA FirstDone ==
    ASSUME NEW r \in Request, Listed(r), left[r] # <<>>, left'[r] = Tail(left[r]),
           Range(left[r]) \intersect DOMAIN result[r] = {},
           NEW status, result'[r] = Over(Only(Head(left[r]), status), result[r])
    PROVE  /\ Head(left[r]) \in Range(left[r]) /\ Head(left[r]) \in Resource
           /\ Listed(r)'
           /\ Range(left'[r]) = Range(left[r]) \ {Head(left[r])}
           /\ Range(left'[r]) \intersect DOMAIN result'[r] = {}
           /\ Len(left[r]) > 1 <=> left'[r] # <<>>
           /\ DOMAIN result'[r] = DOMAIN result[r] \union {Head(left[r])}
<1>1. left[r] \in Seq(Resource) /\ IsInjective(left[r])
  BY DEF Listed
<1>2. /\ Head(left[r]) \in Resource /\ Head(left[r]) \in Range(left[r])
      /\ Tail(left[r]) \in Seq(Resource) /\ IsInjective(Tail(left[r]))
      /\ Range(Tail(left[r])) = Range(left[r]) \ {Head(left[r])}
      /\ Len(left[r]) > 1 <=> Tail(left[r]) # <<>>
  BY <1>1, RestOf
<1>3. DOMAIN result'[r] = DOMAIN result[r] \union {Head(left[r])}
  BY DEF Over, Only
<1> QED BY <1>2, <1>3 DEF Listed

LEMMA KeysApart == Keys("license") \intersect Keys("registry") = {}
  BY NamesAssumption DEF NamesAssumption, Keys, Resource

LEMMA SkipSectionOK ==
    ASSUME TypesOK, NEW a \in Applier, ProfileInv(a), SkipSection(a)
    PROVE  ProfileInv(a)' /\ pc'[a] \in ApplierLabels /\ stage'[a] \in 1..3
<1>1. /\ a \in Request /\ pc[a] = "sections" /\ stage[a] \in 1..2
      /\ pc'[a] = pc[a] /\ stage'[a] = stage[a] + 1
      /\ shown'[a] = shown[a] /\ fresh'[a] = fresh[a]
      /\ left'[a] = left[a] /\ held'[a] = held[a]
      /\ result'[a] = result[a] /\ wrote'[a] = wrote[a] /\ logged'[a] = logged[a]
  BY DEF Request, SkipSection, AtSection, NextSection, Plugins, TypesOK, WorkOK
<1>2. ProfileWork(a)'
  BY <1>1 DEF ProfileInv, ProfileWork, InSection
<1>3. ProfileResults(a)'
  BY <1>1 DEF ProfileInv, ProfileResults, InSection
<1>4. Books(a)'
  BY <1>1 DEF ProfileInv, Books, Results
<1> QED BY <1>1, <1>2, <1>3, <1>4 DEF ProfileInv, ApplierLabels

(* The section at hand. *)
LEMMA SectionAt ==
    ASSUME TypesOK, NEW a \in Applier, ProfileInv(a), NEW p, AtSection(a, p),
           p \in DOMAIN shown[a].entries
    PROVE  /\ pc[a] = "sections" /\ stage[a] \in 1..2
           /\ p = (IF stage[a] = 1 THEN "license" ELSE "registry")
           /\ DOMAIN shown[a].entries[p] \subseteq Keys(p)
           /\ DOMAIN shown[a].entries[p] \intersect DOMAIN result[a] = {}
           /\ logged[a] = "none"
<1>1. /\ pc[a] = "sections" /\ stage[a] \in 1..2
      /\ p = (IF stage[a] = 1 THEN "license" ELSE "registry")
  BY DEF AtSection, Plugins, TypesOK, WorkOK
<1>2. DOMAIN shown[a].entries[p] \subseteq Keys(p)
  BY DEF ProfileInv, ProfileWork, ProfilePlan
<1>3. DOMAIN shown[a].entries[p] \intersect DOMAIN result[a] = {}
  BY <1>1, <1>2, KeysApart DEF ProfileInv, ProfileResults
<1>4. logged[a] = "none"
  BY <1>1 DEF ProfileInv, Books
<1> QED BY <1>1, <1>2, <1>3, <1>4

LEMMA EndSectionOK ==
    ASSUME TypesOK, NEW a \in Applier, ProfileInv(a), EndSection(a)
    PROVE  ProfileInv(a)' /\ pc'[a] \in ApplierLabels /\ stage'[a] \in 1..3
<1>1. PICK p, status :
        /\ AtSection(a, p) /\ p \in DOMAIN shown[a].entries
        /\ status \in {"stale", "failed", "blocked"}
        /\ result' = [result EXCEPT ![a] = Ended(a, p, status)]
        /\ NextSection(a)
        /\ UNCHANGED <<world, pc, shown, fresh, held, left, logged, wrote, disturbed>>
  BY DEF EndSection
<1> DEFINE g == [x \in DOMAIN shown[a].entries[p] |-> status]
<1>2. /\ pc[a] = "sections" /\ stage[a] \in 1..2
      /\ p = (IF stage[a] = 1 THEN "license" ELSE "registry")
      /\ DOMAIN shown[a].entries[p] \subseteq Keys(p)
      /\ DOMAIN shown[a].entries[p] \intersect DOMAIN result[a] = {}
      /\ logged[a] = "none"
  BY <1>1, SectionAt
<1>3. /\ a \in Request
      /\ pc'[a] = pc[a] /\ stage'[a] = stage[a] + 1
      /\ shown'[a] = shown[a] /\ fresh'[a] = fresh[a]
      /\ left'[a] = left[a] /\ held'[a] = held[a]
      /\ result'[a] = Over(g, result[a])
      /\ wrote'[a] = wrote[a] /\ logged'[a] = logged[a]
  BY <1>1 DEF Request, NextSection, TypesOK, WorkOK, Ended
<1>4. ProfileWork(a)'
  BY <1>2, <1>3 DEF ProfileInv, ProfileWork, InSection
<1>5. ProfileResults(a)'
  <2>1. DOMAIN result'[a] = DOMAIN shown[a].entries[p] \union DOMAIN result[a]
    BY <1>3 DEF Over
  <2>2. stage[a] = 1 => DOMAIN result'[a] \subseteq Keys("license")
    BY <1>2, <2>1 DEF ProfileInv, ProfileResults
  <2> QED BY <1>2, <1>3, <2>2 DEF ProfileResults, InSection
<1>6. \A x \in DOMAIN g : x \notin DOMAIN result[a] /\ g[x] # "success"
  BY <1>1, <1>2
<1>7. Books(a)'
  BY <1>2, <1>3, <1>6, BooksAfter DEF ProfileInv
<1> QED BY <1>2, <1>3, <1>4, <1>5, <1>7 DEF ProfileInv, ApplierLabels
LEMMA NoErrorsAt ==
    ASSUME NEW a \in Applier, NEW p, ~StaleSection(a, p)
    PROVE  /\ p \in DOMAIN fresh[a].authority
           /\ fresh[a].authority[p] = shown[a].authority[p]
           /\ NoErrors(shown[a], p)
  BY DEF StaleSection, NoErrors

LEMMA EnterSectionOK ==
    ASSUME TypesOK, NEW a \in Applier, ProfileInv(a), EnterSection(a)
    PROVE  ProfileInv(a)' /\ pc'[a] \in ApplierLabels /\ stage'[a] \in 1..3
<1>1. PICK p \in Range(Plugins) :
        /\ AtSection(a, p) /\ p \in DOMAIN shown[a].entries
        /\ ~StaleSection(a, p) /\ Refusal(a, p) = "none"
        /\ held' = [held EXCEPT ![a] = config[p]]
        /\ IF p = "license"
           THEN /\ left' = [left EXCEPT ![a] = SetToSeq(DOMAIN shown[a].entries[p])]
                /\ Goto(a, "files")
           ELSE /\ Goto(a, "preset")
                /\ UNCHANGED left
        /\ UNCHANGED <<world, budget, stage, shown, fresh, result, logged, wrote,
                       disturbed>>
  BY DEF EnterSection
<1>2. /\ pc[a] = "sections" /\ stage[a] \in 1..2
      /\ p = (IF stage[a] = 1 THEN "license" ELSE "registry")
      /\ DOMAIN shown[a].entries[p] \subseteq Keys(p)
      /\ DOMAIN shown[a].entries[p] \intersect DOMAIN result[a] = {}
      /\ logged[a] = "none"
  BY <1>1, SectionAt
<1>3. /\ a \in Request
      /\ stage'[a] = stage[a]
      /\ shown'[a] = shown[a] /\ fresh'[a] = fresh[a] /\ held'[a] = config[p]
      /\ result'[a] = result[a] /\ wrote'[a] = wrote[a] /\ logged'[a] = logged[a]
  BY <1>1 DEF Request, TypesOK, WorkOK
<1>4. /\ p \in DOMAIN fresh[a].authority
      /\ fresh[a].authority[p] = shown[a].authority[p]
      /\ NoErrors(shown[a], p)
  BY <1>1, NoErrorsAt
<1>5. p \in DOMAIN fresh[a].entries
  BY <1>4 DEF ProfileInv, ProfileWork, ProfilePlan
<1>6. shown[a].profile \in Profiles \ {None} /\ Complete(shown[a])
      /\ ProfilePlan(shown[a]) /\ ProfilePlan(fresh[a])
      /\ fresh[a].profile = shown[a].profile
  BY <1>2 DEF ProfileInv, ProfileWork
<1>7. CASE p = "license"
  <2> DEFINE S == DOMAIN shown[a].entries["license"]
  <2>1. /\ pc'[a] = "files" /\ left'[a] = SetToSeq(S) /\ stage[a] = 1
    BY <1>1, <1>2, <1>3, <1>7 DEF Goto, TypesOK, WorkOK
  <2>2. S = DOMAIN shown[a].profile.licenses /\ S # {}
    BY <1>1, <1>4, <1>6, <1>7 DEF Complete
  <2>3. S \in SUBSET Resource
    BY <1>6, <2>2 DEF Profiles, Wishes, Resource
  <2>4. /\ SetToSeq(S) \in Seq(Resource) /\ IsInjective(SetToSeq(S))
        /\ Range(SetToSeq(S)) = S /\ SetToSeq(S) # <<>>
    BY <2>2, <2>3, ListOf
  <2>5. held'[a] = shown[a].authority["license"][1]
    <3>1. shown[a].authority[p] = <<config[p], shown[a].profile.licenses>>
      BY <1>1, <1>7 DEF Refusal
    <3> QED BY <1>3, <1>7, <3>1
  <2> HIDE DEF S
  <2>6. Listed(a)' /\ left'[a] # <<>>
    BY <2>1, <2>4 DEF Listed
  <2>7. Range(left'[a]) = S /\ "license" \in DOMAIN shown[a].entries
    BY <1>1, <1>7, <2>1, <2>4
  <2>8. ProfileWork(a)'
    BY <1>3, <1>6, <2>1, <2>5, <2>6, <2>7 DEF ProfileWork, InSection, S
  <2>9. ProfileResults(a)'
    BY <1>2, <1>3, <1>7, <2>1, <2>7 DEF ProfileInv, ProfileResults, InSection, S
  <2>10. Books(a)'
    BY <1>2, <1>3 DEF ProfileInv, Books, Results
  <2> QED BY <1>2, <1>3, <2>1, <2>8, <2>9, <2>10 DEF ProfileInv, ApplierLabels
<1>8. CASE p = "registry"
  <2>1. /\ pc'[a] = "preset" /\ stage[a] = 2
    BY <1>1, <1>2, <1>3, <1>8 DEF Goto, TypesOK, WorkOK
  <2>2. shown[a].authority["registry"][2] = "planned"
    BY <1>1, <1>8 DEF Refusal
  <2>3. ProfileWork(a)'
    BY <1>1, <1>3, <1>4, <1>5, <1>6, <1>8, <2>1, <2>2 DEF ProfileWork, InSection
  <2>4. ProfileResults(a)'
    BY <1>2, <1>3, <2>1 DEF ProfileInv, ProfileResults, InSection
  <2>5. Books(a)'
    BY <1>2, <1>3 DEF ProfileInv, Books, Results
  <2> QED BY <1>2, <1>3, <2>1, <2>3, <2>4, <2>5 DEF ProfileInv, ApplierLabels
<1> QED BY <1>2, <1>7, <1>8

(* The next entry, or the next section. *)
LEMMA NextEntryTo ==
    ASSUME TypesOK, NEW a \in Applier, NEW label, NextEntry(a, label)
    PROVE  /\ left'[a] = Tail(left[a])
           /\ Len(left[a]) > 1 => pc'[a] = label /\ stage'[a] = stage[a]
           /\ ~(Len(left[a]) > 1) => pc'[a] = "sections" /\ stage'[a] = stage[a] + 1
  BY DEF TypesOK, WorkOK, Request, NextEntry, NextSection, Goto

(* An entry of a section gets its result, and the next one is at hand. *)
LEMMA EntryOK ==
    ASSUME TypesOK, NEW a \in Applier, ProfileInv(a),
           NEW label \in {"files", "targets"},
           pc[a] \in (IF label = "files" THEN {"files", "moving"} ELSE {"targets"}),
           NextEntry(a, label),
           NEW status, result'[a] = Over(Only(Head(left[a]), status), result[a]),
           shown'[a] = shown[a], fresh'[a] = fresh[a], held'[a] = held[a]
    PROVE  /\ ProfileWork(a)' /\ ProfileResults(a)'
           /\ pc'[a] \in ApplierLabels /\ stage'[a] \in 1..3
<1>1. /\ Listed(a) /\ left[a] # <<>>
      /\ Range(left[a]) \intersect DOMAIN result[a] = {}
      /\ stage[a] = (IF label = "files" THEN 1 ELSE 2)
  BY DEF ProfileInv, ProfileWork, ProfileResults, InSection
<1>2. /\ left'[a] = Tail(left[a])
      /\ Len(left[a]) > 1 => pc'[a] = label /\ stage'[a] = stage[a]
      /\ ~(Len(left[a]) > 1) => pc'[a] = "sections" /\ stage'[a] = stage[a] + 1
  BY NextEntryTo
<1>3. /\ Head(left[a]) \in Range(left[a])
      /\ Listed(a)'
      /\ Range(left'[a]) = Range(left[a]) \ {Head(left[a])}
      /\ Range(left'[a]) \intersect DOMAIN result'[a] = {}
      /\ Len(left[a]) > 1 <=> left'[a] # <<>>
      /\ DOMAIN result'[a] = DOMAIN result[a] \union {Head(left[a])}
  BY <1>1, <1>2, FirstDone DEF Request
<1>4. CASE label = "files"
  <2>1. Head(left[a]) \in Keys("license") /\ DOMAIN result[a] \subseteq Keys("license")
    BY <1>3, <1>4 DEF ProfileInv, ProfileWork, ProfileResults, ProfilePlan
  <2>2. \/ pc'[a] = "files" /\ stage'[a] = 1 /\ left'[a] # <<>>
        \/ pc'[a] = "sections" /\ stage'[a] = 2
    BY <1>1, <1>2, <1>3, <1>4
  <2>3. ProfileWork(a)'
    BY <1>3, <1>4, <2>2 DEF ProfileInv, ProfileWork, InSection
  <2>4. ProfileResults(a)'
    BY <1>3, <2>1, <2>2 DEF ProfileResults, InSection
  <2> QED BY <2>2, <2>3, <2>4 DEF ApplierLabels
<1>5. CASE label = "targets"
  <2>1. pc[a] = "targets"
    BY <1>5
  <2>2. \/ pc'[a] = "targets" /\ stage'[a] = 2 /\ left'[a] # <<>>
        \/ pc'[a] = "sections" /\ stage'[a] = 3
    BY <1>1, <1>2, <1>3, <1>5
  <2>3. ProfileWork(a)'
    BY <1>3, <2>1, <2>2 DEF ProfileInv, ProfileWork, InSection
  <2>4. ProfileResults(a)'
    BY <1>3, <2>2 DEF ProfileResults, InSection
  <2> QED BY <2>2, <2>3, <2>4 DEF ApplierLabels
<1> QED BY <1>4, <1>5
LEMMA CheckFileOK ==
    ASSUME TypesOK, NEW a \in Applier, ProfileInv(a), CheckFile(a)
    PROVE  ProfileInv(a)' /\ pc'[a] \in ApplierLabels /\ stage'[a] \in 1..3
<1> DEFINE x == Head(left[a])
           entry == shown[a].entries["license"][x]
<1>1. /\ a \in Request /\ pc[a] = "files" /\ logged[a] = "none"
      /\ shown'[a] = shown[a] /\ fresh'[a] = fresh[a] /\ held'[a] = held[a]
      /\ logged'[a] = logged[a] /\ wrote'[a] = wrote[a]
  BY DEF CheckFile, Request, TypesOK, WorkOK, ProfileInv, Books
<1>2. \/ \E status \in {"stale", entry.status} :
            /\ EntryEnds(a, x, status) /\ NextEntry(a, "files")
            /\ status # "change"
      \/ entry.status = "change" /\ Goto(a, "moving") /\ UNCHANGED <<result, left, stage>>
  BY DEF CheckFile
<1>3. /\ stage[a] = 1 /\ "license" \in DOMAIN shown[a].entries
      /\ x \in DOMAIN shown[a].entries["license"]
      /\ x \notin DOMAIN result[a]
  <2>1. /\ Range(left[a]) \subseteq DOMAIN shown[a].entries["license"]
        /\ Range(left[a]) \intersect DOMAIN result[a] = {}
        /\ Listed(a) /\ left[a] # <<>>
    BY <1>1 DEF ProfileInv, ProfileWork, ProfileResults, InSection
  <2>2. x \in Range(left[a])
    BY <2>1, RestOf DEF Listed
  <2> QED BY <1>1, <2>1, <2>2 DEF ProfileInv, ProfileWork
<1>4. CASE entry.status = "change" /\ Goto(a, "moving") /\ UNCHANGED <<result, left, stage>>
  <2>1. /\ pc'[a] = "moving" /\ left'[a] = left[a] /\ stage'[a] = stage[a]
        /\ result'[a] = result[a]
    BY <1>1, <1>4 DEF Goto, TypesOK, WorkOK
  <2>2. shown'[a].entries["license"][Head(left'[a])].status = "change"
    BY <1>1, <1>4, <2>1
  <2> HIDE DEF x, entry
  <2>3. ProfileWork(a)'
    BY <1>1, <2>1, <2>2 DEF ProfileInv, ProfileWork, InSection, Listed
  <2>4. ProfileResults(a)'
    BY <1>1, <2>1 DEF ProfileInv, ProfileResults, InSection
  <2>5. Books(a)'
    BY <1>1, <2>1 DEF ProfileInv, Books, Results
  <2> QED BY <1>3, <2>1, <2>3, <2>4, <2>5 DEF ProfileInv, ApplierLabels
<1>5. CASE \E status \in {"stale", entry.status} :
            /\ EntryEnds(a, x, status) /\ NextEntry(a, "files")
            /\ status # "change"
  <2>1. PICK status \in {"stale", entry.status} :
            EntryEnds(a, x, status) /\ NextEntry(a, "files")
    BY <1>5
  <2>2. result'[a] = Over(Only(x, status), result[a])
    BY <1>1, <2>1 DEF EntryEnds, TypesOK, WorkOK
  <2>3. /\ ProfileWork(a)' /\ ProfileResults(a)'
        /\ pc'[a] \in ApplierLabels /\ stage'[a] \in 1..3
    BY <1>1, <2>1, <2>2, EntryOK
  <2>4. status # "success"
    BY <1>3, <2>1 DEF ProfileInv, ProfileWork, ProfilePlan, PlanStatuses
  <2>5. Books(a)'
    <3>1. DOMAIN Only(x, status) = {x} /\ Only(x, status)[x] = status
      BY DEF Only
    <3> QED BY <1>1, <1>3, <2>2, <2>4, <3>1, BooksAfter DEF ProfileInv
  <2> QED BY <2>3, <2>5 DEF ProfileInv
<1> QED BY <1>2, <1>4, <1>5
LEMMA BooksEntry ==
    ASSUME TypesOK, NEW r \in Request, Books(r), NEW x, NEW status,
           result'[r] = Over(Only(x, status), result[r]), wrote'[r] = wrote[r],
           logged'[r] = logged[r], logged[r] = "none",
           x \notin DOMAIN result[r], status # "success"
    PROVE  Books(r)'
<1>1. DOMAIN Only(x, status) = {x} /\ Only(x, status)[x] = status
  BY DEF Only
<1> QED BY <1>1, BooksAfter

(* The resource at hand in a section, and its entry. *)
LEMMA FirstOfSection ==
    ASSUME TypesOK, NEW a \in Applier, ProfileInv(a), pc[a] \in InSection
    PROVE  LET p == IF pc[a] = "targets" THEN "registry" ELSE "license"
               x == Head(left[a])
           IN  /\ a \in Request /\ x \in Resource
               /\ p \in DOMAIN shown[a].entries /\ p \in DOMAIN shown[a].authority
               /\ x \in DOMAIN shown[a].entries[p]
               /\ held[a] = shown[a].authority[p][1]
               /\ x \notin DOMAIN result[a] /\ logged[a] = "none"
               /\ shown[a].entries[p][x].status = "change" =>
                    /\ ChangeOf(x, shown[a].entries[p][x])
                    /\ By(held[a], x, shown[a].entries[p][x])
<1> DEFINE p == IF pc[a] = "targets" THEN "registry" ELSE "license"
           x == Head(left[a])
<1>1. /\ p \in DOMAIN shown[a].entries
      /\ Range(left[a]) \subseteq DOMAIN shown[a].entries[p]
      /\ Range(left[a]) \intersect DOMAIN result[a] = {}
      /\ held[a] = shown[a].authority[p][1]
      /\ Listed(a) /\ left[a] # <<>> /\ ProfilePlan(shown[a])
  BY DEF ProfileInv, ProfileWork, ProfileResults, InSection
<1>2. x \in Range(left[a]) /\ x \in Resource
  BY <1>1, RestOf DEF Listed
<1>3. logged[a] = "none"
  BY DEF ProfileInv, Books, InSection
<1>4. /\ p \in DOMAIN shown[a].authority
      /\ shown[a].entries[p][x].status = "change" =>
            /\ ChangeOf(x, shown[a].entries[p][x])
            /\ By(held[a], x, shown[a].entries[p][x])
  BY <1>1, <1>2 DEF ProfilePlan
<1> QED BY <1>1, <1>2, <1>3, <1>4 DEF Request

LEMMA MoveFileOK ==
    ASSUME TypesOK, NEW a \in Applier, ProfileInv(a), MoveFile(a)
    PROVE  ProfileInv(a)' /\ pc'[a] \in ApplierLabels /\ stage'[a] \in 1..3
<1> DEFINE c == held[a]
           x == Head(left[a])
           entry == shown[a].entries["license"][x]
<1>1. /\ a \in Request /\ pc[a] = "moving"
      /\ shown'[a] = shown[a] /\ fresh'[a] = fresh[a] /\ held'[a] = held[a]
      /\ logged'[a] = logged[a] /\ NextEntry(a, "files")
  BY DEF MoveFile, Request
<1>2. x \notin DOMAIN result[a] /\ logged[a] = "none"
  BY <1>1, FirstOfSection DEF InSection
<1>3. \/ \E status \in {"blocked", "stale"} :
            EntryEnds(a, x, status) /\ UNCHANGED <<look, wrote, disturbed>>
      \/ Change(a, c.place, x, entry.fingerprint.look, entry.desired)
  BY DEF MoveFile
<1>4. /\ Books(a)'
      /\ \E status : result'[a] = Over(Only(x, status), result[a])
  <2>1. CASE Change(a, c.place, x, entry.fingerprint.look, entry.desired)
    BY <1>1, <1>2, <2>1, BooksChange DEF TypesOK, WorkOK, ProfileInv
  <2>2. ASSUME NEW status \in {"blocked", "stale"}, EntryEnds(a, x, status),
               UNCHANGED <<look, wrote, disturbed>>
        PROVE  <1>4!1 /\ <1>4!2
    <3>1. result'[a] = Over(Only(x, status), result[a])
      BY <1>1, <2>2 DEF EntryEnds, TypesOK, WorkOK
    <3>2. Books(a)'
      BY <1>1, <1>2, <2>2, <3>1, BooksEntry DEF ProfileInv
    <3> QED BY <3>1, <3>2
  <2> QED BY <1>3, <2>1, <2>2
<1>5. /\ ProfileWork(a)' /\ ProfileResults(a)'
      /\ pc'[a] \in ApplierLabels /\ stage'[a] \in 1..3
  BY <1>1, <1>4, EntryOK
<1> QED BY <1>4, <1>5 DEF ProfileInv

LEMMA ApplyTargetOK ==
    ASSUME TypesOK, NEW a \in Applier, ProfileInv(a), ApplyTarget(a)
    PROVE  ProfileInv(a)' /\ pc'[a] \in ApplierLabels /\ stage'[a] \in 1..3
<1> DEFINE x == Head(left[a])
           entry == shown[a].entries["registry"][x]
           now == fresh[a].entries["registry"][x]
<1>1. /\ a \in Request /\ pc[a] = "targets"
      /\ shown'[a] = shown[a] /\ fresh'[a] = fresh[a] /\ held'[a] = held[a]
      /\ logged'[a] = logged[a] /\ NextEntry(a, "targets")
  BY DEF ApplyTarget, Request
<1>2. x \notin DOMAIN result[a] /\ logged[a] = "none"
  BY <1>1, FirstOfSection DEF InSection
<1>3. \/ \E status \in {"blocked", "no_change", "stale"} :
            EntryEnds(a, x, status) /\ UNCHANGED <<look, wrote, disturbed>>
      \/ Change(a, held[a].place, x, now.fingerprint.look, entry.desired)
  BY DEF ApplyTarget
<1>4. /\ Books(a)'
      /\ \E status : result'[a] = Over(Only(x, status), result[a])
  <2>1. CASE Change(a, held[a].place, x, now.fingerprint.look, entry.desired)
    BY <1>1, <1>2, <2>1, BooksChange DEF TypesOK, WorkOK, ProfileInv
  <2>2. ASSUME NEW status \in {"blocked", "no_change", "stale"}, EntryEnds(a, x, status),
               UNCHANGED <<look, wrote, disturbed>>
        PROVE  <1>4!1 /\ <1>4!2
    <3>1. result'[a] = Over(Only(x, status), result[a])
      BY <1>1, <2>2 DEF EntryEnds, TypesOK, WorkOK
    <3>2. Books(a)'
      BY <1>1, <1>2, <2>2, <3>1, BooksEntry DEF ProfileInv
    <3> QED BY <3>1, <3>2
  <2> QED BY <1>3, <2>1, <2>2
<1>5. /\ ProfileWork(a)' /\ ProfileResults(a)'
      /\ pc'[a] \in ApplierLabels /\ stage'[a] \in 1..3
  BY <1>1, <1>4, EntryOK
<1> QED BY <1>4, <1>5 DEF ProfileInv

LEMMA LogProfileOK ==
    ASSUME TypesOK, NEW a \in Applier, ProfileInv(a), LogProfile(a)
    PROVE  ProfileInv(a)' /\ pc'[a] \in ApplierLabels /\ stage'[a] \in 1..3
<1>1. /\ a \in Request /\ pc[a] \in {"logging", "sections"}
      /\ pc'[a] = "answered" /\ stage'[a] = stage[a] /\ stage[a] \in 1..3
      /\ shown'[a] = shown[a] /\ fresh'[a] = NoPlan
      /\ result'[a] = result[a] /\ wrote'[a] = wrote[a]
  BY DEF LogProfile, Request, TypesOK, WorkOK, Goto
<1>2. ProfilePlan(NoPlan)
  BY DEF NoPlan, Nothing, ProfilePlan, Plan
<1>3. ProfileWork(a)'
  BY <1>1, <1>2 DEF ProfileInv, ProfileWork, InSection
<1>4. ProfileResults(a)'
  BY <1>1 DEF ProfileResults, InSection
<1>5. Books(a)'
  BY <1>1 DEF ProfileInv, Books, Results
<1> QED BY <1>1, <1>3, <1>4, <1>5 DEF ProfileInv, ApplierLabels
(* The preset is planned again by the configuration that it was shown by. *)
LEMMA PresetAgain ==
    ASSUME TypesOK, NEW a \in Applier, ProfileInv(a), pc[a] = "preset",
           held[a] = shown[a].authority["registry"][1],
           NEW insp \in Inspections(held[a])
    PROVE  LET c == held[a]
               section == RegistrySection(c, insp)
           IN  /\ Enabled(c) /\ c \in Configurations("registry") /\ c.preset # None
               /\ DOMAIN c.preset = DOMAIN shown[a].entries["registry"]
               /\ DOMAIN c.preset \in SUBSET Target
               /\ SectionOK("registry", section) /\ section.authority[1] = c
               /\ DOMAIN section.entries = DOMAIN c.preset
<1> DEFINE c == held[a]
           section == RegistrySection(c, insp)
<1>1. /\ "registry" \in DOMAIN shown[a].entries /\ NoErrors(shown[a], "registry")
      /\ shown[a].authority["registry"][2] = "planned" /\ Complete(shown[a])
  BY DEF ProfileInv, ProfileWork
<1>2. /\ Enabled(c) /\ c \in Configurations("registry") /\ c.preset # None
      /\ DOMAIN c.preset = DOMAIN shown[a].entries["registry"]
  BY <1>1 DEF Complete
<1>3. DOMAIN c.preset \in SUBSET Target
  BY <1>2 DEF Configurations, Wishes, Enabled
<1>4. section.authority[2] = "planned"
  BY <1>2 DEF RegistrySection
<1>5. /\ SectionOK("registry", section) /\ section.authority[1] = c
      /\ DOMAIN section.entries = DOMAIN c.preset
  BY <1>2, <1>4, RegistrySectionOK DEF TypesOK
<1> QED BY <1>2, <1>3, <1>5

LEMMA PlanPresetOK ==
    ASSUME TypesOK, NEW a \in Applier, ProfileInv(a), PlanPreset(a)
    PROVE  ProfileInv(a)' /\ pc'[a] \in ApplierLabels /\ stage'[a] \in 1..3
<1> DEFINE c == held[a]
<1>1. /\ a \in Request /\ pc[a] = "preset" /\ stage[a] = 2 /\ logged[a] = "none"
      /\ shown'[a] = shown[a] /\ held'[a] = held[a]
      /\ logged'[a] = logged[a] /\ wrote'[a] = wrote[a]
      /\ "registry" \in DOMAIN shown[a].entries
      /\ "registry" \in DOMAIN fresh[a].entries
      /\ fresh[a].authority["registry"] = shown[a].authority["registry"]
      /\ NoErrors(shown[a], "registry")
      /\ shown[a].authority["registry"][2] = "planned"
      /\ DOMAIN result[a] \subseteq Keys("license")
  BY DEF PlanPreset, Request, TypesOK, WorkOK, ProfileInv, ProfileWork, ProfileResults, Books
<1>2. DOMAIN shown[a].entries["registry"] \intersect Keys("license") = {}
  BY <1>1, KeysApart DEF ProfileInv, ProfileWork, ProfilePlan
<1>3. CASE c # shown[a].authority["registry"][1]
  <2> DEFINE g == [x \in DOMAIN shown[a].entries["registry"] |-> "stale"]
  <2>1. /\ pc'[a] = "sections" /\ stage'[a] = 3 /\ fresh'[a] = fresh[a]
        /\ result'[a] = Over(g, result[a])
    BY <1>1, <1>3 DEF PlanPreset, Goto, NextSection, Ended, TypesOK, WorkOK
  <2>2. ProfileWork(a)'
    BY <1>1, <2>1 DEF ProfileInv, ProfileWork, InSection
  <2>3. ProfileResults(a)'
    BY <2>1 DEF ProfileResults, InSection
  <2>4. \A x \in DOMAIN g : x \notin DOMAIN result[a] /\ g[x] # "success"
    BY <1>1, <1>2
  <2>5. Books(a)'
    BY <1>1, <2>1, <2>4, BooksAfter DEF ProfileInv
  <2> QED BY <2>1, <2>2, <2>3, <2>5 DEF ProfileInv, ApplierLabels
<1>4. CASE c = shown[a].authority["registry"][1]
  <2>1. PICK insp \in Inspections(c) :
          /\ fresh' = [fresh EXCEPT ![a].entries["registry"] = RegistrySection(c, insp).entries]
          /\ left' = [left EXCEPT ![a] = SetToSeq(DOMAIN c.preset)]
          /\ IF DOMAIN c.preset # {}
             THEN Goto(a, "targets") /\ UNCHANGED stage
             ELSE Goto(a, "sections") /\ NextSection(a)
          /\ UNCHANGED result
    BY <1>4 DEF PlanPreset
  <2> DEFINE section == RegistrySection(c, insp)
             S == DOMAIN c.preset
  <2>2. /\ S = DOMAIN shown[a].entries["registry"]
        /\ S \in SUBSET Target
        /\ SectionOK("registry", section) /\ section.authority[1] = c
        /\ DOMAIN section.entries = S
    BY <1>1, <1>4, <2>1, PresetAgain
  <2>3. /\ SetToSeq(S) \in Seq(Resource) /\ IsInjective(SetToSeq(S))
        /\ Range(SetToSeq(S)) = S
        /\ S # {} => SetToSeq(S) # <<>>
    BY <2>2, ListOf DEF Resource
  <2>4. /\ left'[a] = SetToSeq(S) /\ result'[a] = result[a]
        /\ \/ pc'[a] = "targets" /\ stage'[a] = 2 /\ S # {}
           \/ pc'[a] = "sections" /\ stage'[a] = 3
    BY <1>1, <2>1 DEF Goto, NextSection, TypesOK, WorkOK
  <2>5. /\ DOMAIN fresh'[a] = {"profile", "authority", "entries"}
        /\ fresh'[a].profile = fresh[a].profile /\ fresh'[a].authority = fresh[a].authority
        /\ DOMAIN fresh'[a].entries = DOMAIN fresh[a].entries
        /\ fresh'[a].entries["registry"] = section.entries
        /\ \A q \in DOMAIN fresh[a].entries :
              q # "registry" => fresh'[a].entries[q] = fresh[a].entries[q]
    <3>1. fresh'[a] = [fresh[a] EXCEPT !.entries = [@ EXCEPT !["registry"] = section.entries]]
      BY <1>1, <2>1 DEF TypesOK, WorkOK
    <3>2. DOMAIN fresh[a] = {"profile", "authority", "entries"}
      BY DEF ProfileInv, ProfileWork, ProfilePlan, Plan
    <3> HIDE DEF section
    <3> QED BY <1>1, <3>1, <3>2
  <2> HIDE DEF S, section, c
  <2>6. ProfilePlan(fresh'[a])
    <3>1. /\ ProfilePlan(fresh[a])
          /\ fresh[a].authority["registry"][1] = c
      BY <1>1, <1>4 DEF ProfileInv, ProfileWork
    <3>2. ASSUME NEW q \in DOMAIN fresh'[a].entries
          PROVE  SectionOK(q, [authority |-> fresh'[a].authority[q],
                               entries |-> fresh'[a].entries[q]])
      <4>1. CASE q = "registry"
        BY <2>2, <2>5, <3>1, <4>1 DEF SectionOK
      <4>2. CASE q # "registry"
        BY <2>5, <3>1, <3>2, <4>2 DEF SectionOK, ProfilePlan
      <4> QED BY <4>1, <4>2
    <3>3. /\ DOMAIN fresh'[a].authority = DOMAIN fresh'[a].entries
          /\ DOMAIN fresh'[a].entries \subseteq {"license", "registry"}
      BY <2>5, <3>1 DEF ProfilePlan
    <3> QED BY <2>5, <3>2, <3>3 DEF ProfilePlan, Plan, SectionOK
  <2>7. Listed(a)'
    BY <2>3, <2>4 DEF Listed
  <2>8. /\ held'[a] = shown'[a].authority["registry"][1]
        /\ Range(left'[a]) = S
        /\ DOMAIN fresh'[a].entries["registry"] = S
        /\ "registry" \in DOMAIN fresh'[a].entries
        /\ fresh'[a].authority["registry"] = shown'[a].authority["registry"]
    BY <1>1, <1>4, <2>2, <2>3, <2>4, <2>5 DEF c
  <2>9. ProfileWork(a)'
    BY <1>1, <2>2, <2>3, <2>4, <2>5, <2>6, <2>7, <2>8 DEF ProfileInv, ProfileWork, InSection
  <2>10. ProfileResults(a)'
    BY <1>1, <1>2, <2>2, <2>4, <2>8 DEF ProfileResults, InSection
  <2>11. Books(a)'
    BY <1>1, <2>4 DEF ProfileInv, Books, Results
  <2> QED BY <2>4, <2>9, <2>10, <2>11 DEF ProfileInv, ApplierLabels
<1> QED BY <1>3, <1>4

LEMMA ProfileStepOK ==
    ASSUME TypesOK, NEW a \in Applier, ProfileInv(a), ProfileStep(a)
    PROVE  ProfileInv(a)' /\ pc'[a] \in ApplierLabels /\ stage'[a] \in 1..3
  BY PreviewProfileOK, PlanSectionOK, ShowProfilePlanOK, ConfirmProfileOK,
     SkipSectionOK, EndSectionOK, EnterSectionOK, CheckFileOK, MoveFileOK,
     PlanPresetOK, ApplyTargetOK, LogProfileOK DEF ProfileStep, ApplyProfile
---------------------------------------------------------------------------
(* Plans of a restore. *)

RestoreChange(x, saved, entry) ==
    /\ ChangeOf(x, entry)
    /\ x \in DOMAIN saved
    /\ x \in Target => saved[x].place = entry.place

(* What is planned as a change is in the snapshot, has been captured, and   *)
(* is in the other state.                                                   *)
LEMMA RestoreEntryOK ==
    ASSUME NEW p \in {"license", "logs", "registry"}, NEW c \in Configurations(p),
           NEW x, NEW present, CaptureOK(present),
           NEW saved, RestoreEntry(c, x, present, saved).status = "change"
    PROVE  /\ RestoreChange(x, saved, RestoreEntry(c, x, present, saved))
           /\ By(c, x, RestoreEntry(c, x, present, saved))
           /\ x \in DOMAIN present
           /\ RestoreEntry(c, x, present, saved).fingerprint.look = present[x].look
<1> DEFINE entry == RestoreEntry(c, x, present, saved)
<1>1. /\ EntryStatus(c, x, present, saved) = "change"
      /\ entry.desired = (IF x \in DOMAIN saved THEN saved[x].look.status ELSE None)
      /\ entry.place = PlaceOf(c)
      /\ entry.fingerprint = IF x \in DOMAIN present
                             THEN [place |-> IF x \in File THEN PlaceOf(c) ELSE None,
                                   look |-> present[x].look]
                             ELSE [place |-> None, look |-> None]
  BY DEF RestoreEntry
<1>2. x \notin Source /\ Required(c, x, present, saved) = "change"
  BY <1>1 DEF EntryStatus
<1>3. /\ x \in DOMAIN saved /\ x \in DOMAIN present /\ Restorable(c, x, saved[x])
      /\ Planned([y \in {x} |-> present[x].look], x, saved[x].look.status) = "change"
  BY <1>2 DEF Required
<1>4. present[x].look.status \in Holding \ {saved[x].look.status}
  BY <1>3 DEF Planned
<1>5. present[x] \in Captures
  BY <1>3 DEF CaptureOK
<1>6. present[x].look \in State
  <2>1. Unread.status \notin Holding
    BY DEF Unread, Holding
  <2> QED BY <1>4, <1>5, <2>1 DEF Captures
<1>7. /\ Enabled(c) /\ x \in c.listed /\ saved[x].look.status \in Holding
      /\ x \in Target => saved[x].place = c.place
  BY <1>3 DEF Restorable
<1>8. c.place \in Place /\ PlaceOf(c) = c.place /\ x \in Resource
  BY <1>7 DEF Configurations, Enabled, PlaceOf
<1>9. x \in File \union Target
  BY <1>2, <1>8 DEF Resource
<1> HIDE DEF entry
<1>10. /\ entry.desired = saved[x].look.status /\ entry.place = c.place
       /\ entry.fingerprint = [place |-> IF x \in File THEN entry.place ELSE None,
                               look  |-> entry.fingerprint.look]
       /\ entry.fingerprint.look = present[x].look
  BY <1>1, <1>3, <1>8
<1>11. ChangeOf(x, entry)
  BY <1>4, <1>6, <1>7, <1>8, <1>9, <1>10 DEF ChangeOf
<1>12. RestoreChange(x, saved, entry) /\ By(c, x, entry)
  BY <1>3, <1>7, <1>10, <1>11 DEF RestoreChange, By
<1> QED BY <1>3, <1>10, <1>12 DEF entry

(* The plan of all that is in the snapshot or was captured. *)
LEMMA PlansOK ==
    ASSUME WorldOK, NEW s \in Restorer, CaptureOK(fresh[s].authority),
           NEW plan \in Plans(s)
    PROVE  LET present == fresh[s].authority
               saved == fresh[s].profile
           IN  /\ DOMAIN plan = DOMAIN present \union DOMAIN saved
               /\ \A x \in DOMAIN plan : plan[x].status = "change" =>
                    /\ RestoreChange(x, saved, plan[x])
                    /\ By(config[PluginOf(x)], x, plan[x])
                    /\ x \in DOMAIN present
                    /\ plan[x].fingerprint.look = present[x].look
<1> DEFINE present == fresh[s].authority
           saved == fresh[s].profile
           all == DOMAIN present \union DOMAIN saved
           whole == [x \in all |-> RestoreEntry(config[PluginOf(x)], x, present, saved)]
<1>1. DOMAIN Difference(present, saved) = all
  BY DEF Difference
<1>2. \/ plan = whole
      \/ \E x \in all : plan = [whole EXCEPT ![x].status = "error"]
  BY <1>1 DEF Plans
<1>3. DOMAIN plan = all
  BY <1>2
<1>4. ASSUME NEW x \in DOMAIN plan, plan[x].status = "change"
      PROVE  plan[x] = RestoreEntry(config[PluginOf(x)], x, present, saved)
  <2>1. CASE plan = whole
    BY <1>3, <1>4, <2>1
  <2>2. ASSUME NEW y \in all, plan = [whole EXCEPT ![y].status = "error"]
        PROVE  plan[x] = RestoreEntry(config[PluginOf(x)], x, present, saved)
    <3>1. "status" \in DOMAIN whole[y]
      BY DEF RestoreEntry
    <3>2. plan[y].status = "error"
      <4> HIDE DEF whole
      <4>1. y \in DOMAIN whole
        BY DEF whole
      <4> QED BY <2>2, <3>1, <4>1
    <3>3. x # y
      BY <1>4, <3>2
    <3> QED BY <1>3, <1>4, <2>2, <3>3
  <2> QED BY <1>2, <2>1, <2>2
<1>5. ASSUME NEW x \in DOMAIN plan, plan[x].status = "change"
      PROVE  /\ RestoreChange(x, saved, plan[x])
             /\ By(config[PluginOf(x)], x, plan[x])
             /\ x \in DOMAIN present
             /\ plan[x].fingerprint.look = present[x].look
  <2>1. PluginOf(x) \in {"license", "logs", "registry"}
    BY DEF PluginOf
  <2>2. config[PluginOf(x)] \in Configurations(PluginOf(x))
    BY <2>1 DEF WorldOK
  <2>3. /\ plan[x] = RestoreEntry(config[PluginOf(x)], x, present, saved)
        /\ RestoreEntry(config[PluginOf(x)], x, present, saved).status = "change"
    BY <1>4, <1>5
  <2> HIDE DEF whole, all, present, saved
  <2> QED BY <2>1, <2>2, <2>3, RestoreEntryOK DEF present, saved
<1> QED BY <1>3, <1>5

LEMMA RestorePlanOK ==
    ASSUME WorldOK, NEW s \in Restorer, CaptureOK(fresh[s].authority),
           IsSnapshot(fresh[s].profile), fresh[s].profile # None,
           NEW plan \in Plans(s), NEW new,
           new = [NoPlan EXCEPT !.profile = fresh[s].profile,
                                !.entries = Only("snapshot", plan)]
    PROVE  RestorePlan(new) /\ Plan(new)
<1>1. /\ DOMAIN new = {"profile", "authority", "entries"}
      /\ new.profile = fresh[s].profile
      /\ new.entries = Only("snapshot", plan)
  BY DEF NoPlan
<1>2. DOMAIN new.entries = {"snapshot"} /\ new.entries["snapshot"] = plan
  BY <1>1 DEF Only
<1>3. /\ DOMAIN plan = DOMAIN fresh[s].authority \union DOMAIN fresh[s].profile
      /\ \A x \in DOMAIN plan : plan[x].status = "change" =>
            RestoreChange(x, fresh[s].profile, plan[x])
  BY PlansOK
<1>4. DOMAIN plan \subseteq Resource
  BY <1>3 DEF CaptureOK, IsSnapshot
<1> HIDE DEF NoPlan
<1> QED BY <1>1, <1>2, <1>3, <1>4 DEF RestorePlan, RestoreChange, Plan

(* What an inspection finds. *)
LEMMA InspectionOK ==
    ASSUME WorldOK, NEW p \in {"license", "logs", "registry"},
           NEW c \in Configurations(p), NEW insp \in Inspections(c)
    PROVE  /\ DOMAIN insp = (IF Enabled(c) THEN c.listed ELSE {})
           /\ DOMAIN insp \subseteq Resource
           /\ \A x \in DOMAIN insp :
                /\ Enabled(c) /\ c.place \in Place /\ PluginOf(x) = p
                /\ insp[x] = look[c.place][x] \/ insp[x] = Unread
                /\ insp[x] \in State \union {Unread}
<1>1. DOMAIN insp = (IF Enabled(c) THEN c.listed ELSE {}) /\ DOMAIN insp = DOMAIN Looked(c)
  BY DEF Inspections, Looked
<1>2. ASSUME NEW x \in DOMAIN insp
      PROVE  /\ Enabled(c) /\ c.place \in Place /\ x \in Resource /\ PluginOf(x) = p
             /\ Looked(c)[x] = look[c.place][x] /\ look[c.place][x] \in State
  <2>1. Enabled(c) /\ x \in c.listed
    BY <1>1
  <2>2. c.place \in Place /\ x \in Resource /\ PluginOf(x) = p
    BY <2>1 DEF Configurations, Enabled
  <2>3. Looked(c)[x] = look[c.place][x]
    BY <2>1 DEF Looked
  <2> QED BY <2>1, <2>2, <2>3 DEF WorldOK
<1>3. ASSUME NEW x \in DOMAIN insp
      PROVE  insp[x] = Looked(c)[x] \/ insp[x] = Unread
  BY <1>1 DEF Inspections
<1> QED BY <1>1, <1>2, <1>3

LEMMA CapturedOK ==
    ASSUME WorldOK, NEW p \in {"license", "logs", "registry"},
           NEW c \in Configurations(p), NEW insp \in Inspections(c),
           NEW present, CaptureOK(present)
    PROVE  CaptureOK(Over(Captured(c, insp), present))
<1> DEFINE f == Captured(c, insp)
           new == Over(f, present)
<1>1. DOMAIN insp \subseteq Resource
      /\ \A x \in DOMAIN insp : c.place \in Place /\ insp[x] \in State \union {Unread}
  BY InspectionOK
<1>2. /\ DOMAIN f = DOMAIN insp
      /\ \A x \in DOMAIN f : f[x] = [place |-> IF x \in File THEN None ELSE c.place,
                                     look  |-> insp[x]]
  BY DEF Captured
<1> HIDE DEF f
<1>3. \A x \in DOMAIN f : f[x] \in Captures
        /\ IF x \in File THEN f[x].place = None ELSE f[x].place \in Place
  BY <1>1, <1>2 DEF Captures
<1>4. /\ DOMAIN new = DOMAIN f \union DOMAIN present
      /\ \A x \in DOMAIN new : new[x] = IF x \in DOMAIN f THEN f[x] ELSE present[x]
      /\ new = [x \in DOMAIN new |-> new[x]]
  BY DEF Over
<1> HIDE DEF new
<1>5. \A x \in DOMAIN new : new[x] \in Captures
        /\ IF x \in File THEN new[x].place = None ELSE new[x].place \in Place
  BY <1>3, <1>4 DEF CaptureOK
<1>6. DOMAIN new \subseteq Resource
  BY <1>1, <1>2, <1>4 DEF CaptureOK
<1>7. new \in [DOMAIN new -> Captures]
  BY <1>4, <1>5
<1>8. CaptureOK(new)
  BY <1>5, <1>6, <1>7 DEF CaptureOK
<1> QED BY <1>8 DEF new, f

---------------------------------------------------------------------------
(* A snapshot is restored: what the steps of its request keep true of it. *)

RestoreInv(s) == RestoreWork(s) /\ RestoreResults(s) /\ Books(s)

LEMMA PreviewRestoreOK ==
    ASSUME TypesOK, NEW s \in Restorer, RestoreInv(s), PreviewRestore(s)
    PROVE  RestoreInv(s)' /\ pc'[s] \in RestorerLabels /\ stage'[s] \in 1..4
<1>1. /\ s \in Request /\ pc[s] = "idle" /\ pc'[s] = "capturing" /\ stage'[s] = 1
      /\ shown'[s] = shown[s] /\ left'[s] = left[s]
      /\ result'[s] = result[s] /\ wrote'[s] = wrote[s] /\ logged'[s] = logged[s]
      /\ fresh'[s] = [NoPlan EXCEPT !.profile = snapshot]
      /\ snapshot # None /\ IsSnapshot(snapshot)
  BY DEF PreviewRestore, Request, TypesOK, WorkOK, WorldOK, Goto, RestoreInv, RestoreWork
<1>2. /\ DOMAIN fresh'[s] = {"profile", "authority", "entries"}
      /\ fresh'[s].profile = snapshot /\ fresh'[s].authority = Nothing
  BY <1>1 DEF NoPlan
<1>3. CaptureOK(Nothing)
  BY DEF CaptureOK, Nothing
<1>4. RestoreWork(s)'
  BY <1>1, <1>2, <1>3 DEF RestoreInv, RestoreWork, Plan, Restoring
<1>5. RestoreResults(s)'
  BY <1>1 DEF RestoreInv, RestoreResults, Restoring
<1>6. Books(s)'
  BY <1>1 DEF RestoreInv, Books, Results
<1> QED BY <1>1, <1>4, <1>5, <1>6 DEF RestoreInv, RestorerLabels

LEMMA CaptureStepOK ==
    ASSUME TypesOK, NEW s \in Restorer, RestoreInv(s), Capture(s)
    PROVE  RestoreInv(s)' /\ pc'[s] \in RestorerLabels /\ stage'[s] \in 1..4
<1> DEFINE p == Capturing[stage[s]]
           c == config[p]
<1>1. /\ s \in Request /\ pc[s] \in {"capturing", "recapturing"} /\ stage[s] \in 1..3
      /\ pc'[s] = pc[s] /\ stage'[s] = stage[s] + 1
      /\ shown'[s] = shown[s] /\ left'[s] = left[s]
      /\ result'[s] = result[s] /\ wrote'[s] = wrote[s] /\ logged'[s] = logged[s]
  BY DEF Capture, Capturing, Request, TypesOK, WorkOK
<1>2. p \in {"license", "logs", "registry"} /\ c \in Configurations(p)
  BY <1>1 DEF Capturing, TypesOK, WorldOK
<1>3. /\ DOMAIN fresh[s] = {"profile", "authority", "entries"}
      /\ IsSnapshot(fresh[s].profile) /\ fresh[s].profile # None
      /\ CaptureOK(fresh[s].authority)
  BY <1>1 DEF RestoreInv, RestoreWork, Plan
<1>4. /\ DOMAIN fresh'[s] = {"profile", "authority", "entries"}
      /\ fresh'[s].profile = fresh[s].profile
      /\ CaptureOK(fresh'[s].authority)
  <2>1. CASE UNCHANGED fresh
    BY <1>3, <2>1
  <2>2. ASSUME NEW insp \in Inspections(c),
               fresh' = [fresh EXCEPT ![s].authority = Over(Captured(c, insp), @)]
        PROVE  <1>4!1 /\ <1>4!2 /\ <1>4!3
    <3>1. fresh'[s] = [fresh[s] EXCEPT !.authority =
                          Over(Captured(c, insp), fresh[s].authority)]
      BY <1>1, <2>2 DEF TypesOK, WorkOK
    <3>2. CaptureOK(Over(Captured(c, insp), fresh[s].authority))
      BY <1>2, <1>3, CapturedOK DEF TypesOK
    <3> HIDE DEF p, c
    <3> QED BY <1>3, <3>1, <3>2
  <2> QED BY <2>1, <2>2 DEF Capture
<1>5. RestoreWork(s)'
  BY <1>1, <1>3, <1>4 DEF RestoreInv, RestoreWork, Plan, Restoring
<1>6. RestoreResults(s)'
  BY <1>1 DEF RestoreInv, RestoreResults, Restoring
<1>7. Books(s)'
  BY <1>1 DEF RestoreInv, Books, Results
<1> QED BY <1>1, <1>5, <1>6, <1>7 DEF RestoreInv, RestorerLabels

LEMMA ShowRestorePlanOK ==
    ASSUME TypesOK, NEW s \in Restorer, RestoreInv(s), ShowRestorePlan(s)
    PROVE  RestoreInv(s)' /\ pc'[s] \in RestorerLabels /\ stage'[s] \in 1..4
<1>1. PICK plan \in Plans(s) :
        /\ shown' = [shown EXCEPT ![s] = [NoPlan EXCEPT !.profile = fresh[s].profile,
                                                        !.entries = Only("snapshot", plan)]]
        /\ Goto(s, IF \E x \in DOMAIN plan : plan[x].status = "change"
                   THEN "shown" ELSE "answered")
  BY DEF ShowRestorePlan
<1>2. /\ s \in Request /\ pc[s] = "capturing" /\ stage'[s] = 1 /\ fresh'[s] = NoPlan
      /\ left'[s] = left[s]
      /\ result'[s] = result[s] /\ wrote'[s] = wrote[s] /\ logged'[s] = logged[s]
  BY DEF ShowRestorePlan, Request, TypesOK, WorkOK
<1>3. /\ pc'[s] \in {"shown", "answered"}
      /\ shown'[s] = [NoPlan EXCEPT !.profile = fresh[s].profile,
                                    !.entries = Only("snapshot", plan)]
  BY <1>1, <1>2 DEF Goto, TypesOK, WorkOK
<1>4. /\ IsSnapshot(fresh[s].profile) /\ fresh[s].profile # None
      /\ CaptureOK(fresh[s].authority)
  BY <1>2 DEF RestoreInv, RestoreWork
<1>5. RestorePlan(shown'[s]) /\ Plan(shown'[s])
  BY <1>3, <1>4, RestorePlanOK DEF TypesOK
<1>6. Plan(NoPlan)
  BY DEF Plan, NoPlan
<1>7. RestoreWork(s)'
  BY <1>2, <1>3, <1>5, <1>6 DEF RestoreWork, Restoring
<1>8. RestoreResults(s)'
  BY <1>2, <1>3 DEF RestoreInv, RestoreResults, Restoring
<1>9. Books(s)'
  BY <1>2, <1>3 DEF RestoreInv, Books, Results
<1> QED BY <1>2, <1>3, <1>7, <1>8, <1>9 DEF RestoreInv, RestorerLabels

LEMMA ConfirmRestoreOK ==
    ASSUME TypesOK, NEW s \in Restorer, RestoreInv(s),
           ConfirmRestore(s) \/ ConfirmRestoreRaises(s)
    PROVE  RestoreInv(s)' /\ pc'[s] \in RestorerLabels /\ stage'[s] \in 1..4
<1>1. /\ s \in Request /\ pc[s] = "shown"
      /\ pc'[s] \in {"recapturing", "answered"} /\ stage'[s] = stage[s] /\ stage[s] \in 1..4
      /\ shown'[s] = shown[s] /\ left'[s] = left[s]
      /\ result'[s] = result[s] /\ wrote'[s] = wrote[s] /\ logged'[s] = logged[s]
  BY DEF ConfirmRestore, ConfirmRestoreRaises, Request, TypesOK, WorkOK, Goto
<1>2. \/ pc'[s] = "answered" /\ fresh'[s] = fresh[s]
      \/ /\ pc'[s] = "recapturing" /\ snapshot # None
         /\ fresh'[s] = [NoPlan EXCEPT !.profile = snapshot]
  BY <1>1 DEF ConfirmRestore, ConfirmRestoreRaises, TypesOK, WorkOK, Goto
<1>3. /\ Plan(fresh'[s])
      /\ pc'[s] = "recapturing" => /\ IsSnapshot(fresh'[s].profile) /\ fresh'[s].profile # None
                                   /\ CaptureOK(fresh'[s].authority)
  <2>1. CASE pc'[s] = "recapturing"
    <3>1. /\ DOMAIN fresh'[s] = {"profile", "authority", "entries"}
          /\ fresh'[s].profile = snapshot /\ fresh'[s].authority = Nothing
      BY <1>2, <2>1 DEF NoPlan
    <3>2. CaptureOK(Nothing)
      BY DEF CaptureOK, Nothing
    <3> QED BY <1>2, <2>1, <3>1, <3>2 DEF Plan, TypesOK, WorldOK
  <2> QED BY <1>2, <2>1 DEF RestoreInv, RestoreWork
<1>4. RestoreWork(s)'
  BY <1>1, <1>3 DEF RestoreInv, RestoreWork, Restoring
<1>5. RestoreResults(s)'
  BY <1>1 DEF RestoreInv, RestoreResults, Restoring
<1>6. Books(s)'
  BY <1>1 DEF RestoreInv, Books, Results
<1> QED BY <1>1, <1>4, <1>5, <1>6 DEF RestoreInv, RestorerLabels

LEMMA ReplanRestoreOK ==
    ASSUME TypesOK, NEW s \in Restorer, RestoreInv(s), ReplanRestore(s)
    PROVE  RestoreInv(s)' /\ pc'[s] \in RestorerLabels /\ stage'[s] \in 1..4
<1>1. PICK plan \in Plans(s) :
        /\ fresh' = [fresh EXCEPT ![s].entries = Only("snapshot", plan)]
        /\ left' = [left EXCEPT ![s] = SetToSeq(DOMAIN plan)]
  BY DEF ReplanRestore
<1>2. /\ s \in Request /\ pc[s] = "recapturing" /\ pc'[s] = "entries"
      /\ stage'[s] = stage[s] /\ stage[s] \in 1..4
      /\ shown'[s] = shown[s]
      /\ result'[s] = result[s] /\ wrote'[s] = wrote[s] /\ logged'[s] = logged[s]
  BY DEF ReplanRestore, Request, TypesOK, WorkOK, Goto
<1>3. /\ fresh'[s] = [fresh[s] EXCEPT !.entries = Only("snapshot", plan)]
      /\ left'[s] = SetToSeq(DOMAIN plan)
  BY <1>1, <1>2 DEF TypesOK, WorkOK
<1>4. /\ DOMAIN fresh[s] = {"profile", "authority", "entries"}
      /\ IsSnapshot(fresh[s].profile) /\ CaptureOK(fresh[s].authority)
      /\ RestorePlan(shown[s]) /\ Plan(shown[s])
  BY <1>2 DEF RestoreInv, RestoreWork, Plan
<1>5. DOMAIN plan \in SUBSET Resource
  <2>1. DOMAIN plan = DOMAIN fresh[s].authority \union DOMAIN fresh[s].profile
    BY <1>4, PlansOK DEF TypesOK
  <2>2. CASE fresh[s].profile = None
    BY <1>2, <2>2 DEF RestoreInv, RestoreWork
  <2> QED BY <1>4, <2>1, <2>2 DEF CaptureOK, IsSnapshot
<1>6. /\ left'[s] \in Seq(Resource) /\ IsInjective(left'[s])
      /\ Range(left'[s]) = DOMAIN plan
  BY <1>3, <1>5, ListOf
<1>7. /\ DOMAIN fresh'[s] = {"profile", "authority", "entries"}
      /\ DOMAIN fresh'[s].entries = {"snapshot"} /\ fresh'[s].entries["snapshot"] = plan
  BY <1>3, <1>4 DEF Only
<1>8. RestoreWork(s)'
  BY <1>2, <1>4, <1>6, <1>7 DEF RestoreWork, Plan, Restoring, Listed
<1>9. DOMAIN result[s] = {}
  BY <1>2 DEF RestoreInv, RestoreResults
<1>10. RestoreResults(s)'
  BY <1>2, <1>9 DEF RestoreResults, Restoring
<1>11. Books(s)'
  BY <1>2 DEF RestoreInv, Books, Results
<1> QED BY <1>2, <1>8, <1>10, <1>11 DEF RestoreInv, RestorerLabels

(* An entry of a restore is done with, and the next one is at hand. *)
LEMMA RestoreEntryDone ==
    ASSUME TypesOK, NEW s \in Restorer, RestoreInv(s), pc[s] \in Restoring,
           left[s] # <<>>, pc'[s] = "entries", left'[s] = Tail(left[s]),
           NEW status, result'[s] = Over(Only(Head(left[s]), status), result[s]),
           shown'[s] = shown[s], fresh'[s] = fresh[s]
    PROVE  RestoreWork(s)' /\ RestoreResults(s)'
<1>1. /\ Listed(s) /\ Range(left[s]) \intersect DOMAIN result[s] = {}
      /\ Range(left[s]) \subseteq DOMAIN fresh[s].entries["snapshot"]
  BY DEF RestoreInv, RestoreWork, RestoreResults
<1>2. /\ Listed(s)' /\ Range(left'[s]) = Range(left[s]) \ {Head(left[s])}
      /\ Range(left'[s]) \intersect DOMAIN result'[s] = {}
  BY <1>1, FirstDone DEF Request
<1>3. RestoreWork(s)'
  BY <1>1, <1>2 DEF RestoreInv, RestoreWork, Restoring
<1>4. RestoreResults(s)'
  BY <1>2 DEF RestoreResults, Restoring
<1> QED BY <1>3, <1>4

(* The resource at hand of a restore. *)
LEMMA FirstOfRestore ==
    ASSUME TypesOK, NEW s \in Restorer, RestoreInv(s), pc[s] \in Restoring, left[s] # <<>>
    PROVE  LET x == Head(left[s])
           IN  /\ s \in Request /\ x \in Resource
               /\ x \in DOMAIN fresh[s].entries["snapshot"]
               /\ x \notin DOMAIN result[s] /\ logged[s] = "none"
<1>1. /\ Listed(s) /\ Range(left[s]) \intersect DOMAIN result[s] = {}
      /\ Range(left[s]) \subseteq DOMAIN fresh[s].entries["snapshot"]
  BY DEF RestoreInv, RestoreWork, RestoreResults
<1>2. Head(left[s]) \in Range(left[s]) /\ Head(left[s]) \in Resource
  BY <1>1, RestOf DEF Listed
<1>3. logged[s] = "none"
  BY DEF RestoreInv, Books, Restoring
<1> QED BY <1>1, <1>2, <1>3 DEF Request

LEMMA DecideEntryOK ==
    ASSUME TypesOK, NEW s \in Restorer, RestoreInv(s), DecideEntry(s)
    PROVE  RestoreInv(s)' /\ pc'[s] \in RestorerLabels /\ stage'[s] \in 1..4
<1> DEFINE x == Head(left[s])
<1>1. /\ s \in Request /\ pc[s] = "entries" /\ left[s] # <<>>
      /\ stage'[s] = stage[s] /\ stage[s] \in 1..4
      /\ shown'[s] = shown[s] /\ fresh'[s] = fresh[s]
      /\ wrote'[s] = wrote[s] /\ logged'[s] = logged[s]
  BY DEF DecideEntry, Request, TypesOK, WorkOK
<1>2. x \notin DOMAIN result[s] /\ logged[s] = "none"
  BY <1>1, FirstOfRestore DEF Restoring
<1>3. \/ \E status \in {"stale", "unsupported", "skipped", "failed"} :
            EntryDone(s, x, status)
      \/ /\ Decision(s, x) = "execute"
         /\ Goto(s, "restoring") /\ UNCHANGED <<result, left>>
  BY DEF DecideEntry, Decision
<1>4. CASE Decision(s, x) = "execute" /\ Goto(s, "restoring") /\ UNCHANGED <<result, left>>
  <2>1. x \in DOMAIN shown[s].entries["snapshot"]
        /\ shown[s].entries["snapshot"][x].status = "change"
    BY <1>4 DEF Decision
  <2>2. pc'[s] = "restoring" /\ left'[s] = left[s] /\ result'[s] = result[s]
    BY <1>1, <1>4 DEF Goto, TypesOK, WorkOK
  <2>3. RestoreWork(s)'
    BY <1>1, <2>1, <2>2 DEF RestoreInv, RestoreWork, Restoring, Listed
  <2>4. RestoreResults(s)'
    BY <1>1, <2>2 DEF RestoreInv, RestoreResults, Restoring
  <2>5. Books(s)'
    BY <1>1, <1>2, <2>2 DEF RestoreInv, Books, Results
  <2> QED BY <1>1, <2>2, <2>3, <2>4, <2>5 DEF RestoreInv, RestorerLabels
<1>5. ASSUME NEW status \in {"stale", "unsupported", "skipped", "failed"},
             EntryDone(s, x, status)
      PROVE  RestoreInv(s)' /\ pc'[s] \in RestorerLabels /\ stage'[s] \in 1..4
  <2>1. /\ pc'[s] = "entries" /\ left'[s] = Tail(left[s])
        /\ result'[s] = Over(Only(x, status), result[s])
    BY <1>1, <1>5 DEF EntryDone, Goto, TypesOK, WorkOK
  <2>2. RestoreWork(s)' /\ RestoreResults(s)'
    BY <1>1, <2>1, RestoreEntryDone DEF Restoring
  <2>3. Books(s)'
    BY <1>1, <1>2, <2>1, BooksEntry DEF RestoreInv
  <2> QED BY <1>1, <2>1, <2>2, <2>3 DEF RestoreInv, RestorerLabels
<1> QED BY <1>3, <1>4, <1>5

LEMMA RefuseEntryOK ==
    ASSUME TypesOK, NEW s \in Restorer, RestoreInv(s), RefuseEntry(s)
    PROVE  RestoreInv(s)' /\ pc'[s] \in RestorerLabels /\ stage'[s] \in 1..4
<1> DEFINE x == Head(left[s])
<1>1. /\ s \in Request /\ pc[s] = "restoring"
      /\ stage'[s] = stage[s] /\ stage[s] \in 1..4
      /\ shown'[s] = shown[s] /\ fresh'[s] = fresh[s]
      /\ wrote'[s] = wrote[s] /\ logged'[s] = logged[s]
  BY DEF RefuseEntry, Request, TypesOK, WorkOK
<1>2. left[s] # <<>>
  BY <1>1 DEF RestoreInv, RestoreWork
<1>3. x \notin DOMAIN result[s] /\ logged[s] = "none"
  BY <1>1, <1>2, FirstOfRestore DEF Restoring
<1>4. PICK status \in {"failed", "stale"} : EntryDone(s, x, status)
  BY DEF RefuseEntry
<1>5. /\ pc'[s] = "entries" /\ left'[s] = Tail(left[s])
      /\ result'[s] = Over(Only(x, status), result[s])
  BY <1>1, <1>4 DEF EntryDone, Goto, TypesOK, WorkOK
<1>6. RestoreWork(s)' /\ RestoreResults(s)'
  BY <1>1, <1>2, <1>5, RestoreEntryDone DEF Restoring
<1>7. Books(s)'
  BY <1>1, <1>3, <1>4, <1>5, BooksEntry DEF RestoreInv
<1> QED BY <1>1, <1>5, <1>6, <1>7 DEF RestoreInv, RestorerLabels

LEMMA ExecuteEntryOK ==
    ASSUME TypesOK, NEW s \in Restorer, RestoreInv(s), ExecuteEntry(s)
    PROVE  RestoreInv(s)' /\ pc'[s] \in RestorerLabels /\ stage'[s] \in 1..4
<1> DEFINE x == Head(left[s])
           entry == shown[s].entries["snapshot"][x]
<1>1. /\ s \in Request /\ pc[s] = "restoring" /\ pc'[s] = "entries"
      /\ stage'[s] = stage[s] /\ stage[s] \in 1..4 /\ left'[s] = Tail(left[s])
      /\ shown'[s] = shown[s] /\ fresh'[s] = fresh[s] /\ logged'[s] = logged[s]
  BY DEF ExecuteEntry, Request, TypesOK, WorkOK, Goto
<1>2. left[s] # <<>>
  BY <1>1 DEF RestoreInv, RestoreWork
<1>3. x \notin DOMAIN result[s] /\ logged[s] = "none"
  BY <1>1, <1>2, FirstOfRestore DEF Restoring
<1>4. Change(s, held[s].place, x, entry.fingerprint.look, entry.desired)
  BY DEF ExecuteEntry
<1>5. /\ Books(s)' /\ \E status : result'[s] = Over(Only(x, status), result[s])
  BY <1>1, <1>3, <1>4, BooksChange DEF TypesOK, WorkOK, RestoreInv
<1>6. RestoreWork(s)' /\ RestoreResults(s)'
  BY <1>1, <1>2, <1>5, RestoreEntryDone DEF Restoring
<1> QED BY <1>1, <1>5, <1>6 DEF RestoreInv, RestorerLabels

LEMMA EndRestoreOK ==
    ASSUME TypesOK, NEW s \in Restorer, RestoreInv(s), EndRestore(s) \/ LogRestore(s)
    PROVE  RestoreInv(s)' /\ pc'[s] \in RestorerLabels /\ stage'[s] \in 1..4
<1>1. /\ s \in Request /\ stage'[s] = stage[s] /\ stage[s] \in 1..4
      /\ shown'[s] = shown[s] /\ left'[s] = left[s] /\ wrote'[s] = wrote[s]
      /\ pc'[s] \in {"logging", "answered"} /\ pc[s] \in {"entries", "logging"}
  BY DEF EndRestore, LogRestore, Request, TypesOK, WorkOK, Goto
<1>2. Plan(fresh'[s])
  <2>1. fresh'[s] \in {fresh[s], NoPlan}
    BY <1>1 DEF EndRestore, LogRestore, TypesOK, WorkOK
  <2>2. Plan(NoPlan)
    BY DEF Plan, NoPlan
  <2> QED BY <2>1, <2>2 DEF RestoreInv, RestoreWork
<1>3. RestoreWork(s)'
  BY <1>1, <1>2 DEF RestoreInv, RestoreWork, Restoring
<1>4. RestoreResults(s)'
  BY <1>1 DEF RestoreResults, Restoring
<1>5. Books(s)'
  <2>1. CASE LogRestore(s)
    <3>1. pc'[s] = "answered" /\ result'[s] = result[s]
      BY <1>1, <2>1 DEF LogRestore, Goto, TypesOK, WorkOK
    <3> QED BY <1>1, <3>1 DEF RestoreInv, Books, Results
  <2>2. CASE EndRestore(s)
    <3> DEFINE g == [x \in DOMAIN shown[s].entries["snapshot"] |-> "stale"]
    <3>1. /\ result'[s] = Over(result[s], g) /\ logged'[s] = logged[s]
          /\ logged[s] = "none"
      BY <1>1, <2>2 DEF EndRestore, TypesOK, WorkOK, RestoreInv, Books
    <3>2. /\ DOMAIN result[s] \subseteq DOMAIN result'[s]
          /\ \A x \in DOMAIN result[s] : result'[s][x] = result[s][x]
          /\ \A x \in DOMAIN result'[s] \ DOMAIN result[s] : result'[s][x] = "stale"
      BY <3>1 DEF Over
    <3>3. \A x \in wrote'[s] : x \in Results(s, "success")' \union Results(s, "failed")'
      BY <1>1, <3>2 DEF RestoreInv, Books, Results
    <3>4. \A x \in Results(s, "success")' : x \in wrote'[s]
      BY <1>1, <3>2 DEF RestoreInv, Books, Results
    <3> QED BY <3>1, <3>3, <3>4 DEF Books
  <2> QED BY <2>1, <2>2
<1> QED BY <1>1, <1>3, <1>4, <1>5 DEF RestoreInv, RestorerLabels

LEMMA RestoreStepOK ==
    ASSUME TypesOK, NEW s \in Restorer, RestoreInv(s), RestoreStep(s)
    PROVE  RestoreInv(s)' /\ pc'[s] \in RestorerLabels /\ stage'[s] \in 1..4
  BY PreviewRestoreOK, CaptureStepOK, ShowRestorePlanOK, ConfirmRestoreOK,
     ReplanRestoreOK, DecideEntryOK, RefuseEntryOK, ExecuteEntryOK, EndRestoreOK
     DEF RestoreStep, RestoreSnapshot

---------------------------------------------------------------------------
(* The machine and the saved data keep their types. *)

(* What a change makes of the resource. *)
Becomes(place, x, found, desired, new) ==
    /\ look' = [look EXCEPT ![place][x] = new]
    /\ \/ new.status \in {desired, Stuck(x, desired), found.status}
       \/ new = look[place][x]

LEMMA ChangeTo ==
    ASSUME WorldOK, NEW r, NEW place \in Place, NEW x \in Resource,
           NEW found \in State, NEW desired \in Holding,
           Change(r, place, x, found, desired)
    PROVE  \E new \in State : Becomes(place, x, found, desired, new)
<1> DEFINE now == look[place][x]
<1>1. now \in State /\ Stuck(x, desired) \in Statuses
  BY DEF WorldOK, Stuck, Holding, Statuses
<1>2. PICK to \in {"done", "undone", "stuck", "untouched"} :
        look' = [look EXCEPT ![place][x] =
                    CASE to = "done"      -> [now EXCEPT !.status = desired]
                      [] to = "undone"    -> found
                      [] to = "stuck"     -> [now EXCEPT !.status = Stuck(x, desired)]
                      [] to = "untouched" -> now]
  BY DEF Change
<1> DEFINE new == CASE to = "done"      -> [now EXCEPT !.status = desired]
                    [] to = "undone"    -> found
                    [] to = "stuck"     -> [now EXCEPT !.status = Stuck(x, desired)]
                    [] to = "untouched" -> now
<1> HIDE DEF now
<1>3. /\ [now EXCEPT !.status = desired] \in State
      /\ [now EXCEPT !.status = Stuck(x, desired)] \in State
      /\ [now EXCEPT !.status = desired].status = desired
      /\ [now EXCEPT !.status = Stuck(x, desired)].status = Stuck(x, desired)
  BY <1>1 DEF State, Holding, Statuses
<1>4. /\ new \in State
      /\ \/ new.status \in {desired, Stuck(x, desired), found.status}
         \/ new = now
  <2>1. CASE to = "done"
    BY <1>3, <2>1
  <2>2. CASE to = "undone"
    BY <2>2
  <2>3. CASE to = "stuck"
    BY <1>3, <2>3
  <2>4. CASE to = "untouched"
    BY <1>1, <2>4
  <2> QED BY <1>2, <2>1, <2>2, <2>3, <2>4
<1>5. look' = [look EXCEPT ![place][x] = new]
  BY <1>2
<1>6. Becomes(place, x, found, desired, new)
  BY <1>4, <1>5 DEF Becomes, now
<1> HIDE DEF new
<1> QED BY <1>4, <1>6

LEMMA ChangeTyped ==
    ASSUME WorldOK, NEW r, NEW place \in Place, NEW x \in Resource,
           NEW found \in State, NEW desired \in Holding,
           Change(r, place, x, found, desired)
    PROVE  look' \in [Place -> [Resource -> State]]
<1>1. PICK new \in State : Becomes(place, x, found, desired, new)
  BY ChangeTo
<1>2. look' = [look EXCEPT ![place][x] = new]
  BY <1>1 DEF Becomes
<1> QED BY <1>2 DEF WorldOK

(* The three actions that execute change a resource by an entry that is     *)
(* shown as a change, at the place that it was planned for.                 *)
LEMMA MovesByEntry ==
    ASSUME TypesOK, NEW a \in Applier, ProfileInv(a), pc[a] = "moving"
    PROVE  LET x == Head(left[a])
               entry == shown[a].entries["license"][x]
           IN  /\ entry.status = "change" /\ ChangeOf(x, entry) /\ By(held[a], x, entry)
               /\ x \in Resource
<1> DEFINE x == Head(left[a])
           entry == shown[a].entries["license"][x]
<1>1. entry.status = "change"
  BY DEF ProfileInv, ProfileWork
<1>2. x \in Resource /\ (entry.status = "change" => ChangeOf(x, entry) /\ By(held[a], x, entry))
  BY FirstOfSection DEF InSection
<1> QED BY <1>1, <1>2

LEMMA TargetsByEntry ==
    ASSUME TypesOK, NEW a \in Applier, ProfileInv(a), pc[a] = "targets",
           shown[a].entries["registry"][Head(left[a])].status = "change",
           fresh[a].entries["registry"][Head(left[a])].fingerprint =
               shown[a].entries["registry"][Head(left[a])].fingerprint
    PROVE  LET x == Head(left[a])
               entry == shown[a].entries["registry"][x]
           IN  /\ ChangeOf(x, entry) /\ By(held[a], x, entry) /\ x \in Resource
               /\ fresh[a].entries["registry"][x].fingerprint.look = entry.fingerprint.look
<1> DEFINE x == Head(left[a])
           entry == shown[a].entries["registry"][x]
<1>1. x \in Resource /\ (entry.status = "change" => ChangeOf(x, entry) /\ By(held[a], x, entry))
  BY FirstOfSection DEF InSection
<1> QED BY <1>1

LEMMA RestoresByEntry ==
    ASSUME TypesOK, NEW s \in Restorer, RestoreInv(s), ExecuteEntry(s)
    PROVE  LET x == Head(left[s])
               entry == shown[s].entries["snapshot"][x]
           IN  /\ entry.status = "change" /\ ChangeOf(x, entry)
               /\ x \in Resource /\ held[s].place = entry.place
<1> DEFINE x == Head(left[s])
           entry == shown[s].entries["snapshot"][x]
           c == held[s]
<1>1. /\ pc[s] = "restoring" /\ Enabled(c) /\ x \in c.listed
      /\ x \in Target => Restorable(c, x, shown[s].profile[x])
      /\ Fingerprint(c, Looked(c), x) = entry.fingerprint
  BY DEF ExecuteEntry
<1>2. /\ left[s] # <<>> /\ x \in DOMAIN shown[s].entries["snapshot"]
      /\ entry.status = "change" /\ RestorePlan(shown[s])
  BY <1>1 DEF RestoreInv, RestoreWork
<1>3. /\ ChangeOf(x, entry)
      /\ x \in Target => shown[s].profile[x].place = entry.place
  BY <1>2 DEF RestorePlan
<1>4. x \in Resource
  BY <1>1, <1>2, FirstOfRestore DEF Restoring
<1>5. CASE x \in Target
  BY <1>1, <1>2, <1>3, <1>4, <1>5 DEF Restorable
<1>6. CASE x \in File
  <2>1. x \in DOMAIN Looked(c)
    BY <1>1 DEF Looked
  <2>2. Fingerprint(c, Looked(c), x).place = c.place
    BY <1>6, <2>1 DEF Fingerprint
  <2>3. entry.fingerprint.place = entry.place
    <3>1. PICK seen : entry.fingerprint = [place |-> IF x \in File THEN entry.place ELSE None,
                                           look  |-> seen]
      BY <1>3 DEF ChangeOf
    <3> QED BY <1>6, <3>1
  <2> QED BY <1>1, <1>2, <1>3, <1>4, <2>2, <2>3
<1> QED BY <1>3, <1>5, <1>6 DEF ChangeOf

LEMMA ProfileLook ==
    ASSUME TypesOK, NEW a \in Applier, ProfileInv(a), ProfileStep(a)
    PROVE  look' \in [Place -> [Resource -> State]] /\ UNCHANGED <<config, profile, snapshot>>
<1>1. CASE MoveFile(a)
  <2> DEFINE x == Head(left[a])
             entry == shown[a].entries["license"][x]
  <2>1. pc[a] = "moving" /\ UNCHANGED <<config, profile, snapshot>>
    BY <1>1 DEF MoveFile
  <2>2. /\ x \in Resource /\ held[a].place \in Place /\ entry.fingerprint.look \in State
        /\ entry.desired \in Holding
    BY <2>1, MovesByEntry DEF ChangeOf, By
  <2>3. \/ UNCHANGED look
        \/ Change(a, held[a].place, x, entry.fingerprint.look, entry.desired)
    BY <1>1 DEF MoveFile
  <2>4. WorldOK
    BY DEF TypesOK
  <2>5. CASE Change(a, held[a].place, x, entry.fingerprint.look, entry.desired)
    BY <2>1, <2>2, <2>4, <2>5, ChangeTyped
  <2> QED BY <2>1, <2>3, <2>4, <2>5 DEF WorldOK
<1>2. CASE ApplyTarget(a)
  <2> DEFINE x == Head(left[a])
             entry == shown[a].entries["registry"][x]
             now == fresh[a].entries["registry"][x]
  <2>1. pc[a] = "targets" /\ UNCHANGED <<config, profile, snapshot>>
    BY <1>2 DEF ApplyTarget
  <2>2. \/ UNCHANGED look
        \/ /\ entry.status = "change" /\ now.fingerprint = entry.fingerprint
           /\ Change(a, held[a].place, x, now.fingerprint.look, entry.desired)
    BY <1>2 DEF ApplyTarget
  <2>3. WorldOK
    BY DEF TypesOK
  <2>4. CASE /\ entry.status = "change" /\ now.fingerprint = entry.fingerprint
             /\ Change(a, held[a].place, x, now.fingerprint.look, entry.desired)
    <3>1. /\ x \in Resource /\ held[a].place \in Place /\ now.fingerprint.look \in State
          /\ entry.desired \in Holding
      BY <2>1, <2>4, TargetsByEntry DEF ChangeOf, By
    <3> QED BY <2>1, <2>3, <2>4, <3>1, ChangeTyped
  <2> QED BY <2>1, <2>2, <2>3, <2>4 DEF WorldOK
<1>3. CASE ~MoveFile(a) /\ ~ApplyTarget(a)
  <2>1. UNCHANGED world
    BY <1>3 DEF ProfileStep, ApplyProfile, PreviewProfile, ConfirmProfile,
       ConfirmProfileRaises, PlanSection, ShowProfilePlan, Replanned, SkipSection,
       EndSection, EnterSection, CheckFile, PlanPreset, LogProfile, world
  <2> QED BY <2>1 DEF world, TypesOK, WorldOK
<1> QED BY <1>1, <1>2, <1>3

LEMMA RestoreLook ==
    ASSUME TypesOK, NEW s \in Restorer, RestoreInv(s), RestoreStep(s)
    PROVE  look' \in [Place -> [Resource -> State]] /\ UNCHANGED <<config, profile, snapshot>>
<1>1. CASE ExecuteEntry(s)
  <2> DEFINE x == Head(left[s])
             entry == shown[s].entries["snapshot"][x]
  <2>1. /\ UNCHANGED <<config, profile, snapshot>>
        /\ Change(s, held[s].place, x, entry.fingerprint.look, entry.desired)
    BY <1>1 DEF ExecuteEntry
  <2>2. /\ x \in Resource /\ held[s].place \in Place /\ entry.fingerprint.look \in State
        /\ entry.desired \in Holding
    BY <1>1, RestoresByEntry DEF ChangeOf
  <2> QED BY <2>1, <2>2, ChangeTyped DEF TypesOK
<1>2. CASE ~ExecuteEntry(s)
  <2>1. UNCHANGED world
    BY <1>2 DEF RestoreStep, RestoreSnapshot, PreviewRestore, ConfirmRestore,
       ConfirmRestoreRaises, Capture, ShowRestorePlan, ReplanRestore, DecideEntry,
       RefuseEntry, EndRestore, LogRestore, world
  <2> QED BY <2>1 DEF world, TypesOK, WorldOK
<1> QED BY <1>1, <1>2

---------------------------------------------------------------------------
(* The inductive invariant. *)

(* What the Operation Log claims for request r. *)
LogTrue(r) ==
    /\ logged[r] \in {"success", "partial"} => Results(r, "success") # {}
    /\ logged[r] = "success" => wrote[r] = Results(r, "success")
    /\ logged[r] = "no_changes" => wrote[r] = {}
    /\ logged[r] \in {"rejected", "failed"} => wrote[r] \subseteq Results(r, "failed")

Inv ==
    /\ TypesOK
    /\ \A a \in Applier : ProfileInv(a)
    /\ \A s \in Restorer : RestoreInv(s)
    /\ \A r \in Request : LogTrue(r)

(* The work of others is not touched. *)
LEMMA KeepsProfile ==
    ASSUME NEW a \in Applier, ProfileInv(a), Keeps(a)
    PROVE  ProfileInv(a)'
<1>1. ProfileWork(a)'
  BY DEF Keeps, ProfileInv, ProfileWork, Listed
<1>2. ProfileResults(a)' /\ Books(a)'
  BY DEF Keeps, ProfileInv, ProfileResults, Books, Results
<1> QED BY <1>1, <1>2 DEF ProfileInv

LEMMA KeepsRestore ==
    ASSUME NEW s \in Restorer, RestoreInv(s), Keeps(s)
    PROVE  RestoreInv(s)'
<1>1. RestoreWork(s)'
  BY DEF Keeps, RestoreInv, RestoreWork, Listed
<1>2. RestoreResults(s)' /\ Books(s)'
  BY DEF Keeps, RestoreInv, RestoreResults, Books, Results
<1> QED BY <1>1, <1>2 DEF RestoreInv

LEMMA KeepsLog ==
    ASSUME NEW r \in Request, LogTrue(r), Keeps(r)
    PROVE  LogTrue(r)'
  BY DEF Keeps, LogTrue, Results

LEMMA ProfileLog ==
    ASSUME TypesOK, NEW a \in Applier, ProfileInv(a), LogTrue(a), ProfileStep(a)
    PROVE  LogTrue(a)'
<1>1. CASE LogProfile(a)
  <2>1. /\ logged'[a] \in {ProfileStatus(a), "unsaved"}
        /\ result'[a] = result[a] /\ wrote'[a] = wrote[a]
    BY <1>1 DEF LogProfile, TypesOK, WorkOK, Request
  <2>2. \A status : Results(a, status)' = Results(a, status)
    BY <2>1 DEF Results
  <2>3. \A status : Results(a, status) # {} <=> Got(a, {status})
    BY DEF Results, Got
  <2>4. \A other : Got(a, {"success"}) => Got(a, {"success", other})
    BY DEF Got
  <2>5. Got(a, {"failed"}) => Got(a, {"failed", "blocked", "stale"}) /\ Got(a, {"success", "failed"})
    BY DEF Got
  <2>6. /\ wrote[a] \subseteq Results(a, "success") \union Results(a, "failed")
        /\ Results(a, "success") \subseteq wrote[a]
    BY DEF ProfileInv, Books
  <2>7. ProfileStatus(a) \in {"success", "partial"} => Got(a, {"success"})
    BY DEF ProfileStatus
  <2>8. ProfileStatus(a) = "success" => ~Got(a, {"failed", "blocked", "stale"})
    BY DEF ProfileStatus
  <2>9. ProfileStatus(a) \in {"rejected", "failed", "no_changes"} => ~Got(a, {"success"})
    BY <2>4 DEF ProfileStatus
  <2>10. ProfileStatus(a) = "no_changes" => ~Got(a, {"failed"})
    BY <2>5, <2>9 DEF ProfileStatus
  <2>11. /\ logged'[a] \in {"success", "partial"} => Results(a, "success") # {}
         /\ logged'[a] = "success" => wrote[a] = Results(a, "success")
    BY <2>1, <2>3, <2>5, <2>6, <2>7, <2>8
  <2>12. /\ logged'[a] = "no_changes" => wrote[a] = {}
         /\ logged'[a] \in {"rejected", "failed"} => wrote[a] \subseteq Results(a, "failed")
    BY <2>1, <2>3, <2>6, <2>9, <2>10
  <2> QED BY <2>1, <2>2, <2>11, <2>12 DEF LogTrue
<1>2. CASE ~LogProfile(a)
  <2>1. logged'[a] = logged[a] /\ pc[a] # "answered"
    BY <1>2 DEF ProfileStep, ApplyProfile, PreviewProfile, ConfirmProfile,
       ConfirmProfileRaises, PlanSection, ShowProfilePlan, Replanned, SkipSection,
       EndSection, EnterSection, AtSection, CheckFile, MoveFile, PlanPreset, ApplyTarget
  <2>2. logged[a] = "none"
    BY <2>1 DEF ProfileInv, Books
  <2> QED BY <2>1, <2>2 DEF LogTrue
<1> QED BY <1>1, <1>2

LEMMA RestoreLog ==
    ASSUME TypesOK, NEW s \in Restorer, RestoreInv(s), LogTrue(s), RestoreStep(s)
    PROVE  LogTrue(s)'
<1>1. CASE LogRestore(s)
  <2>1. /\ logged'[s] \in {RestoreStatus(s), "unsaved"}
        /\ result'[s] = result[s] /\ wrote'[s] = wrote[s]
    BY <1>1 DEF LogRestore, TypesOK, WorkOK, Request
  <2>2. \A status : Results(s, status)' = Results(s, status)
    BY <2>1 DEF Results
  <2>3. \A status : Results(s, status) # {} <=> Counted(s, {status})
    BY DEF Results, Counted
  <2>4. \A other : Counted(s, {"success"}) => Counted(s, {"success", other})
    BY DEF Counted
  <2>5. Counted(s, {"failed"}) => Counted(s, {"failed", "stale"})
    BY DEF Counted
  <2>6. /\ wrote[s] \subseteq Results(s, "success") \union Results(s, "failed")
        /\ Results(s, "success") \subseteq wrote[s]
    BY DEF RestoreInv, Books
  <2>7. RestoreStatus(s) \in {"success", "partial"} => Counted(s, {"success"})
    BY DEF RestoreStatus
  <2>8. RestoreStatus(s) = "success" => ~Counted(s, {"failed", "stale"})
    BY DEF RestoreStatus
  <2>9. RestoreStatus(s) \in {"rejected", "failed", "no_changes"} => ~Counted(s, {"success"})
    BY <2>4 DEF RestoreStatus
  <2>10. RestoreStatus(s) = "no_changes" => ~Counted(s, {"failed"})
    <3>1. Counted(s, {"success", "stale"}) => Counted(s, {"success"}) \/ Counted(s, {"stale"})
      BY DEF Counted
    <3> QED BY <2>9, <3>1 DEF RestoreStatus
  <2>11. /\ logged'[s] \in {"success", "partial"} => Results(s, "success") # {}
         /\ logged'[s] = "success" => wrote[s] = Results(s, "success")
    BY <2>1, <2>3, <2>5, <2>6, <2>7, <2>8
  <2>12. /\ logged'[s] = "no_changes" => wrote[s] = {}
         /\ logged'[s] \in {"rejected", "failed"} => wrote[s] \subseteq Results(s, "failed")
    BY <2>1, <2>3, <2>6, <2>9, <2>10
  <2> QED BY <2>1, <2>2, <2>11, <2>12 DEF LogTrue
<1>2. CASE ~LogRestore(s)
  <2>1. logged'[s] = logged[s] /\ pc[s] # "answered"
    BY <1>2 DEF RestoreStep, RestoreSnapshot, PreviewRestore, ConfirmRestore,
       ConfirmRestoreRaises, Capture, ShowRestorePlan, ReplanRestore, DecideEntry,
       RefuseEntry, ExecuteEntry, EndRestore
  <2>2. logged[s] = "none"
    BY <2>1 DEF RestoreInv, Books
  <2> QED BY <2>1, <2>2 DEF LogTrue
<1> QED BY <1>1, <1>2

(* What others do to the machine and to the saved data. *)
LEMMA SurroundingsOK ==
    ASSUME TypesOK, Surroundings
    PROVE  TypesOK' /\ \A r \in Request : Keeps(r)
<1>1. UNCHANGED <<work, wrote>>
  BY DEF Surroundings, OtherProgram, SaveConfiguration, EditProfile, DeleteSnapshot
<1>2. DOMAIN disturbed' = Request
  BY DEF Surroundings, OtherProgram, SaveConfiguration, EditProfile, DeleteSnapshot,
     Others, TypesOK, WorkOK
<1>3. WorkOK'
  BY <1>1, <1>2 DEF work, TypesOK, WorkOK
<1>4. \A r \in Request : Keeps(r)
  BY <1>1 DEF work, Keeps
<1>5. WorldOK'
  <2>1. CASE OtherProgram
    <3>1. PICK place, x, new :
            /\ new \in [status : StatusesOf(x), mark : IF x \in File THEN {1, 2} ELSE {1}]
            /\ look' = [look EXCEPT ![place][x] = new]
      BY <2>1 DEF OtherProgram
    <3>2. new \in State
      BY <3>1 DEF State, StatusesOf
    <3>3. look' \in [Place -> [Resource -> State]]
      BY <3>1, <3>2 DEF TypesOK, WorldOK
    <3> QED BY <2>1, <3>3 DEF OtherProgram, TypesOK, WorldOK
  <2>2. CASE SaveConfiguration
    <3>1. PICK p \in DOMAIN config :
            \E c \in Savable[p] : config' = [config EXCEPT ![p] = c]
      BY <2>2 DEF SaveConfiguration
    <3>2. PICK c \in Configurations(p) : config' = [config EXCEPT ![p] = c]
      BY <3>1, SettingAssumption DEF SettingAssumption, TypesOK, WorldOK
    <3>3. DOMAIN config' = DOMAIN config
          /\ \A q \in DOMAIN config : config'[q] \in Configurations(q)
      BY <3>2 DEF TypesOK, WorldOK
    <3> QED BY <2>2, <3>3 DEF SaveConfiguration, TypesOK, WorldOK
  <2>3. CASE EditProfile
    <3>1. profile' \in Profiles
      BY <2>3, SettingAssumption DEF EditProfile, SettingAssumption, Profiles
    <3> QED BY <2>3, <3>1 DEF EditProfile, TypesOK, WorldOK
  <2>4. CASE DeleteSnapshot
    BY <2>4 DEF DeleteSnapshot, TypesOK, WorldOK, IsSnapshot
  <2> QED BY <2>1, <2>2, <2>3, <2>4 DEF Surroundings
<1> QED BY <1>3, <1>4, <1>5 DEF TypesOK

LEMMA Steps ==
    ASSUME Next
    PROVE  \/ \E a \in Applier : ProfileStep(a)
           \/ \E s \in Restorer : RestoreStep(s)
           \/ Surroundings
  BY DEF Next, ProfileStep, RestoreStep, Surroundings

LEMMA InitOK == ASSUME Init PROVE Inv
<1> USE DEF Init, EnvironmentInit
<1>1. PICK begun \in Setting :
        /\ look = begun.look /\ config = begun.config
        /\ profile = begun.profile /\ snapshot = begun.snapshot
  OBVIOUS
<1>2. WorldOK
  BY <1>1, SettingAssumption DEF SettingAssumption, WorldOK
<1>3. WorkOK
  BY DEF WorkOK, ApplierLabels, RestorerLabels, Request
<1>4. Plan(NoPlan) /\ DOMAIN NoPlan.entries = {} /\ DOMAIN NoPlan.authority = {}
  BY DEF NoPlan, Nothing, Plan
<1>5. ASSUME NEW r \in Request
      PROVE  /\ pc[r] = "idle" /\ stage[r] = 1 /\ shown[r] = NoPlan /\ fresh[r] = NoPlan
             /\ DOMAIN result[r] = {} /\ wrote[r] = {} /\ logged[r] = "none"
  BY DEF Nothing
<1>6. \A r \in Request : Books(r) /\ LogTrue(r)
  BY <1>5 DEF Books, Results, LogTrue
<1>7. ASSUME NEW a \in Applier PROVE ProfileInv(a)
  <2>1. ProfilePlan(NoPlan) /\ Complete(NoPlan)
    BY <1>4 DEF ProfilePlan, Complete
  <2>2. ProfileWork(a)
    BY <1>5, <2>1 DEF ProfileWork, Request, InSection
  <2>3. ProfileResults(a)
    BY <1>5 DEF ProfileResults, Request, InSection
  <2> QED BY <1>6, <2>2, <2>3 DEF ProfileInv, Request
<1>8. ASSUME NEW s \in Restorer PROVE RestoreInv(s)
  <2>1. RestoreWork(s)
    BY <1>4, <1>5 DEF RestoreWork, Request, Restoring
  <2>2. RestoreResults(s)
    BY <1>5 DEF RestoreResults, Request, Restoring
  <2> QED BY <1>6, <2>1, <2>2 DEF RestoreInv, Request
<1> QED BY <1>2, <1>3, <1>6, <1>7, <1>8 DEF Inv, TypesOK

LEMMA NextOK == ASSUME Inv, [Next]_vars PROVE Inv'
<1>1. ASSUME NEW a \in Applier, ProfileStep(a) PROVE Inv'
  <2>1. TypesOK /\ ProfileInv(a) /\ LogTrue(a) /\ Domains
    BY DEF Inv, TypesOK, WorkOK, Domains, Request
  <2>2. Domains' /\ \A r \in Request \ {a} : Keeps(r)
    BY <1>1, <2>1, ProfileKeeps
  <2>3. ProfileInv(a)' /\ pc'[a] \in ApplierLabels /\ stage'[a] \in 1..3
    BY <1>1, <2>1, ProfileStepOK
  <2>4. LogTrue(a)'
    BY <1>1, <2>1, ProfileLog
  <2>5. WorldOK'
    BY <1>1, <2>1, ProfileLook DEF TypesOK, WorldOK
  <2>6. a \notin Restorer
    BY NamesAssumption DEF NamesAssumption
  <2>7. WorkOK'
    BY <2>1, <2>2, <2>3, <2>6 DEF Domains, Keeps, TypesOK, WorkOK, Request
  <2>8. \A b \in Applier : ProfileInv(b)'
    BY <2>2, <2>3, KeepsProfile DEF Inv, Request
  <2>9. \A s \in Restorer : RestoreInv(s)'
    BY <2>2, <2>6, KeepsRestore DEF Inv, Request
  <2>10. \A r \in Request : LogTrue(r)'
    BY <2>2, <2>4, KeepsLog DEF Inv
  <2> QED BY <2>5, <2>7, <2>8, <2>9, <2>10 DEF Inv, TypesOK
<1>2. ASSUME NEW s \in Restorer, RestoreStep(s) PROVE Inv'
  <2>1. TypesOK /\ RestoreInv(s) /\ LogTrue(s) /\ Domains
    BY DEF Inv, TypesOK, WorkOK, Domains, Request
  <2>2. Domains' /\ \A r \in Request \ {s} : Keeps(r)
    BY <1>2, <2>1, RestoreKeeps
  <2>3. RestoreInv(s)' /\ pc'[s] \in RestorerLabels /\ stage'[s] \in 1..4
    BY <1>2, <2>1, RestoreStepOK
  <2>4. LogTrue(s)'
    BY <1>2, <2>1, RestoreLog
  <2>5. WorldOK'
    BY <1>2, <2>1, RestoreLook DEF TypesOK, WorldOK
  <2>6. s \notin Applier
    BY NamesAssumption DEF NamesAssumption
  <2>7. WorkOK'
    BY <2>1, <2>2, <2>3, <2>6 DEF Domains, Keeps, TypesOK, WorkOK, Request
  <2>8. \A a \in Applier : ProfileInv(a)'
    BY <2>2, <2>6, KeepsProfile DEF Inv, Request
  <2>9. \A q \in Restorer : RestoreInv(q)'
    BY <2>2, <2>3, KeepsRestore DEF Inv, Request
  <2>10. \A r \in Request : LogTrue(r)'
    BY <2>2, <2>4, KeepsLog DEF Inv
  <2> QED BY <2>5, <2>7, <2>8, <2>9, <2>10 DEF Inv, TypesOK
<1>3. ASSUME Surroundings PROVE Inv'
  <2>1. TypesOK' /\ \A r \in Request : Keeps(r)
    BY <1>3, SurroundingsOK DEF Inv
  <2>2. \A a \in Applier : ProfileInv(a)'
    BY <2>1, KeepsProfile DEF Inv, Request
  <2>3. \A s \in Restorer : RestoreInv(s)'
    BY <2>1, KeepsRestore DEF Inv, Request
  <2>4. \A r \in Request : LogTrue(r)'
    BY <2>1, KeepsLog DEF Inv
  <2> QED BY <2>1, <2>2, <2>3, <2>4 DEF Inv
<1>4. ASSUME UNCHANGED vars PROVE Inv'
  <2>1. TypesOK'
    BY <1>4 DEF Inv, TypesOK, WorldOK, WorkOK, vars, world, work
  <2>2. \A r \in Request : Keeps(r)
    BY <1>4 DEF Keeps, vars, work
  <2>3. \A a \in Applier : ProfileInv(a)'
    BY <2>2, KeepsProfile DEF Inv, Request
  <2>4. \A s \in Restorer : RestoreInv(s)'
    BY <2>2, KeepsRestore DEF Inv, Request
  <2>5. \A r \in Request : LogTrue(r)'
    BY <2>2, KeepsLog DEF Inv
  <2> QED BY <2>1, <2>3, <2>4, <2>5 DEF Inv
<1> QED BY <1>1, <1>2, <1>3, <1>4, Steps

LEMMA Invariance == Spec => []Inv
<1>1. Init => Inv
  BY InitOK
<1>2. Inv /\ [Next]_vars => Inv'
  BY NextOK
<1> QED BY <1>1, <1>2, PTL DEF Spec

(* The Operation Log claims nothing that was not done, and what claims that *)
(* nothing was changed is true (_operation_status of both executors).       *)
THEOREM LogIsTrueHolds == Spec => []LogIsTrue
<1>1. Inv => LogIsTrue
  BY DEF Inv, LogTrue, LogIsTrue
<1> QED BY <1>1, Invariance, PTL

---------------------------------------------------------------------------
(* What was shown of a resource. *)

LEMMA ProfileShown ==
    ASSUME NEW a \in Applier, ProfileInv(a),
           NEW p \in DOMAIN shown[a].entries, NEW x \in DOMAIN shown[a].entries[p]
    PROVE  EntryShown(a, x) = shown[a].entries[p][x]
<1> DEFINE pair == <<x, shown[a].entries[p][x]>>
<1>1. pair \in EntriesShown(a) /\ pair[1] = x
  BY DEF EntriesShown
<1>2. ASSUME NEW q \in DOMAIN shown[a].entries, NEW y \in DOMAIN shown[a].entries[q], y = x
      PROVE  q = p
  <2>1. /\ p \in {"license", "registry"} /\ q \in {"license", "registry"}
        /\ x \in Keys(p) /\ x \in Keys(q)
    BY <1>2 DEF ProfileInv, ProfileWork, ProfilePlan
  <2> QED BY <2>1, KeysApart
<1>3. ASSUME NEW other \in EntriesShown(a), other[1] = x
      PROVE  other = pair
  <2>1. PICK q \in DOMAIN shown[a].entries :
          \E y \in DOMAIN shown[a].entries[q] : other = <<y, shown[a].entries[q][y]>>
    BY DEF EntriesShown
  <2>2. PICK y \in DOMAIN shown[a].entries[q] : other = <<y, shown[a].entries[q][y]>>
    BY <2>1
  <2>3. y = x
    BY <1>3, <2>2
  <2> QED BY <1>2, <2>2, <2>3
<1> HIDE DEF pair
<1>4. EntryShown(a, x) = pair[2]
  BY <1>1, <1>3 DEF EntryShown
<1> QED BY <1>4 DEF pair

LEMMA RestoreShown ==
    ASSUME NEW s \in Restorer, DOMAIN shown[s].entries = {"snapshot"},
           NEW x \in DOMAIN shown[s].entries["snapshot"]
    PROVE  EntryShown(s, x) = shown[s].entries["snapshot"][x]
<1> DEFINE pair == <<x, shown[s].entries["snapshot"][x]>>
<1>1. pair \in EntriesShown(s) /\ pair[1] = x
  BY DEF EntriesShown
<1>2. ASSUME NEW other \in EntriesShown(s), other[1] = x
      PROVE  other = pair
  <2>1. PICK y \in DOMAIN shown[s].entries["snapshot"] :
          other = <<y, shown[s].entries["snapshot"][y]>>
    BY DEF EntriesShown
  <2> QED BY <1>2, <2>1
<1> HIDE DEF pair
<1>3. EntryShown(s, x) = pair[2]
  BY <1>1, <1>2 DEF EntryShown
<1> QED BY <1>3 DEF pair

---------------------------------------------------------------------------
(* What the steps of others do to a request. *)

(* What others change is noted with every request that has begun. *)
Noted(r) ==
    /\ disturbed[r] \subseteq disturbed'[r]
    /\ pc[r] # "idle" =>
         /\ \A place \in Place : \A x \in Resource :
               look'[place][x] = look[place][x] \/ x \in disturbed'[r]
         /\ \A p \in DOMAIN config : config'[p] = config[p] \/ p \in disturbed'[r]
         /\ profile' = profile \/ "profile" \in disturbed'[r]
    /\ snapshot' \in {snapshot, None}

(* A step of its own. *)
Alone(r) == disturbed'[r] = disturbed[r] /\ UNCHANGED <<config, profile, snapshot>>

LEMMA ChangeNoted ==
    ASSUME TypesOK, NEW r \in Request, NEW place, NEW x, NEW found, NEW desired,
           Change(r, place, x, found, desired), UNCHANGED <<config, profile, snapshot>>
    PROVE  Alone(r) /\ \A q \in Request \ {r} : Noted(q)
<1>1. \E new : look' = [look EXCEPT ![place][x] = new]
  BY DEF Change
<1>2. \A pl \in Place : \A y \in Resource :
        look'[pl][y] = look[pl][y] \/ (look' # look /\ y = x)
  BY <1>1 DEF TypesOK, WorldOK
<1>3. Others(r, IF look' = look THEN {} ELSE {x})
  BY DEF Change
<1>4. disturbed'[r] = disturbed[r]
  BY <1>3 DEF Others
<1>5. ASSUME NEW q \in Request \ {r} PROVE Noted(q)
  <2>1. disturbed'[q] = IF pc[q] # "idle"
                        THEN disturbed[q] \union (IF look' = look THEN {} ELSE {x})
                        ELSE disturbed[q]
    BY <1>3 DEF Others
  <2> QED BY <1>2, <2>1 DEF Noted
<1> QED BY <1>4, <1>5 DEF Alone

LEMMA NothingNoted ==
    ASSUME UNCHANGED <<world, disturbed>>
    PROVE  \A r \in Request : Alone(r) /\ Noted(r)
  BY DEF world, Alone, Noted

LEMMA ProfileNoted ==
    ASSUME TypesOK, NEW a \in Applier, ProfileInv(a), ProfileStep(a)
    PROVE  Alone(a) /\ \A r \in Request \ {a} : Noted(r)
<1>1. CASE MoveFile(a) \/ ApplyTarget(a)
  <2>1. UNCHANGED <<config, profile, snapshot>>
        /\ \/ UNCHANGED <<look, disturbed>>
           \/ \E place, x, found, desired : Change(a, place, x, found, desired)
    BY <1>1 DEF MoveFile, ApplyTarget
  <2>2. CASE UNCHANGED <<look, disturbed>>
    BY <2>1, <2>2, NothingNoted DEF world, Request
  <2>3. CASE \E place, x, found, desired : Change(a, place, x, found, desired)
    BY <2>1, <2>3, ChangeNoted DEF Request
  <2> QED BY <2>1, <2>2, <2>3
<1>2. CASE ~MoveFile(a) /\ ~ApplyTarget(a)
  <2>1. UNCHANGED <<world, disturbed>>
    BY <1>2 DEF ProfileStep, ApplyProfile, PreviewProfile, ConfirmProfile,
       ConfirmProfileRaises, PlanSection, ShowProfilePlan, Replanned, SkipSection,
       EndSection, EnterSection, CheckFile, PlanPreset, LogProfile
  <2> QED BY <2>1, NothingNoted DEF Request
<1> QED BY <1>1, <1>2

LEMMA RestoreNoted ==
    ASSUME TypesOK, NEW s \in Restorer, RestoreInv(s), RestoreStep(s)
    PROVE  Alone(s) /\ \A r \in Request \ {s} : Noted(r)
<1>1. CASE ExecuteEntry(s)
  <2>1. UNCHANGED <<config, profile, snapshot>>
        /\ \E place, x, found, desired : Change(s, place, x, found, desired)
    BY <1>1 DEF ExecuteEntry
  <2> QED BY <2>1, ChangeNoted DEF Request
<1>2. CASE ~ExecuteEntry(s)
  <2>1. UNCHANGED <<world, disturbed>>
    BY <1>2 DEF RestoreStep, RestoreSnapshot, PreviewRestore, ConfirmRestore,
       ConfirmRestoreRaises, Capture, ShowRestorePlan, ReplanRestore, DecideEntry,
       RefuseEntry, EndRestore, LogRestore
  <2> QED BY <2>1, NothingNoted DEF Request
<1> QED BY <1>1, <1>2

LEMMA SurroundingsNoted ==
    ASSUME TypesOK, Surroundings
    PROVE  \A r \in Request : Noted(r)
<1>0. \A r \in Request : r # None
  BY NamesAssumption DEF NamesAssumption
<1>1. CASE OtherProgram
  <2>1. PICK place, x, new :
          look' = [look EXCEPT ![place][x] = new] /\ Others(None, {x})
    BY <1>1 DEF OtherProgram
  <2>2. \A pl \in Place : \A y \in Resource : look'[pl][y] = look[pl][y] \/ y = x
    BY <2>1 DEF TypesOK, WorldOK
  <2> QED BY <1>0, <1>1, <2>1, <2>2 DEF OtherProgram, Others, Noted
<1>2. CASE SaveConfiguration
  <2>1. PICK p, c : config' = [config EXCEPT ![p] = c] /\ Others(None, {p})
    BY <1>2 DEF SaveConfiguration
  <2> QED BY <1>0, <1>2, <2>1 DEF SaveConfiguration, Others, Noted
<1>3. CASE EditProfile
  BY <1>0, <1>3 DEF EditProfile, Others, Noted
<1>4. CASE DeleteSnapshot
  BY <1>4 DEF DeleteSnapshot, Noted
<1> QED BY <1>1, <1>2, <1>3, <1>4 DEF Surroundings

---------------------------------------------------------------------------
(* What a request changes. *)

(* While the preset is executed, what is left to do is as planned again     *)
(* when its section began, or somebody else has changed it since.           *)
AsPlanned(a) ==
    pc[a] = "targets" =>
        \A x \in Range(left[a]) :
            LET now == fresh[a].entries["registry"][x]
            IN  now.status = "change" /\ x \notin disturbed[a]
                => look[held[a].place][x] = now.fingerprint.look

(* Request r changes the resource at hand by the entry that was shown. *)
WritesEntry(r) ==
    LET x == Head(left[r])
        entry == EntryShown(r, x)
    IN  /\ x \in Resource /\ x \notin DOMAIN result[r]
        /\ entry.status = "change" /\ ChangeOf(x, entry)
        /\ look[entry.place][x] = entry.fingerprint.look \/ x \in disturbed[r]
        /\ Change(r, entry.place, x, entry.fingerprint.look, entry.desired)
        /\ shown'[r] = shown[r]

(* Results are never taken back, and new ones are no success. *)
More(r) ==
    /\ UNCHANGED look
    /\ shown'[r] = shown[r] \/ DOMAIN result'[r] = {}
    /\ \A x \in DOMAIN result[r] : x \in DOMAIN result'[r] /\ result'[r][x] = result[r][x]
    /\ \A x \in DOMAIN result'[r] \ DOMAIN result[r] : result'[r][x] # "success"

LEMMA MoreWith ==
    ASSUME NEW r \in Request, NEW g, result'[r] = Over(g, result[r]), UNCHANGED look,
           shown'[r] = shown[r],
           \A x \in DOMAIN g : x \notin DOMAIN result[r] /\ g[x] # "success"
    PROVE  More(r)
  BY DEF More, Over

LEMMA MoreOne ==
    ASSUME NEW r \in Request, NEW x, NEW status, UNCHANGED look, shown'[r] = shown[r],
           result'[r] = Over(Only(x, status), result[r]),
           x \notin DOMAIN result[r], status # "success"
    PROVE  More(r)
<1>1. DOMAIN Only(x, status) = {x} /\ Only(x, status)[x] = status
  BY DEF Only
<1> QED BY <1>1, MoreWith

LEMMA ProfileActs ==
    ASSUME TypesOK, NEW a \in Applier, ProfileInv(a), AsPlanned(a), ProfileStep(a)
    PROVE  WritesEntry(a) \/ More(a)
<1>0. a \in Request
  BY DEF Request
<1>1. CASE \/ PreviewProfile(a) \/ ConfirmProfileRaises(a) \/ PlanSection(a)
           \/ ShowProfilePlan(a) \/ Replanned(a) \/ SkipSection(a) \/ EnterSection(a)
           \/ LogProfile(a)
  <2>1. UNCHANGED <<look, result>>
    BY <1>1 DEF PreviewProfile, ConfirmProfileRaises, PlanSection, ShowProfilePlan,
       Replanned, SkipSection, EnterSection, LogProfile, world
  <2>2. \/ shown'[a] = shown[a]
        \/ pc[a] \in {"idle", "planning", "replanning"}
    BY <1>1 DEF PreviewProfile, ConfirmProfileRaises, PlanSection, ShowProfilePlan,
       Replanned, SkipSection, EnterSection, LogProfile
  <2>3. shown'[a] = shown[a] \/ DOMAIN result'[a] = {}
    BY <2>1, <2>2 DEF ProfileInv, ProfileResults
  <2> QED BY <2>1, <2>3 DEF More
<1>2. CASE ConfirmProfile(a)
  <2>1. pc[a] = "shown" /\ UNCHANGED <<look, shown>>
    BY <1>2 DEF ConfirmProfile, world
  <2>2. \/ result'[a] = result[a]
        \/ \A x \in DOMAIN result'[a] : result'[a][x] = "stale"
    BY <1>0, <1>2 DEF ConfirmProfile, TypesOK, WorkOK
  <2>3. DOMAIN result[a] = {}
    BY <2>1 DEF ProfileInv, ProfileResults
  <2> QED BY <2>1, <2>2, <2>3 DEF More
<1>3. CASE EndSection(a)
  <2>1. PICK p, status :
          /\ AtSection(a, p) /\ p \in DOMAIN shown[a].entries
          /\ status \in {"stale", "failed", "blocked"}
          /\ result' = [result EXCEPT ![a] = Ended(a, p, status)]
          /\ UNCHANGED <<look, shown>>
    BY <1>3 DEF EndSection, world
  <2> DEFINE g == [x \in DOMAIN shown[a].entries[p] |-> status]
  <2>2. DOMAIN shown[a].entries[p] \intersect DOMAIN result[a] = {}
    BY <2>1, SectionAt
  <2>3. result'[a] = Over(g, result[a])
    BY <1>0, <2>1 DEF Ended, TypesOK, WorkOK
  <2>4. \A x \in DOMAIN g : x \notin DOMAIN result[a] /\ g[x] # "success"
    BY <2>1, <2>2
  <2> QED BY <1>0, <2>1, <2>3, <2>4, MoreWith
<1>4. CASE CheckFile(a)
  <2> DEFINE x == Head(left[a])
             entry == shown[a].entries["license"][x]
  <2>1. pc[a] = "files" /\ UNCHANGED <<look, shown>>
    BY <1>4 DEF CheckFile, world
  <2>2. \/ UNCHANGED result
        \/ \E status \in {"stale", entry.status} : EntryEnds(a, x, status)
    BY <1>4 DEF CheckFile
  <2>3. /\ x \notin DOMAIN result[a]
        /\ entry.status # "success"
    <3>1. x \notin DOMAIN result[a] /\ "license" \in DOMAIN shown[a].entries
          /\ x \in DOMAIN shown[a].entries["license"]
      BY <2>1, FirstOfSection DEF InSection
    <3> QED BY <3>1 DEF ProfileInv, ProfileWork, ProfilePlan, PlanStatuses
  <2>4. ASSUME NEW status \in {"stale", entry.status}, EntryEnds(a, x, status)
        PROVE  More(a)
    <3>1. result'[a] = Over(Only(x, status), result[a])
      BY <1>0, <2>4 DEF EntryEnds, TypesOK, WorkOK
    <3>2. status # "success"
      BY <2>3
    <3> QED BY <1>0, <2>1, <2>3, <3>1, <3>2, MoreOne
  <2> QED BY <2>1, <2>2, <2>4 DEF More
<1>5. CASE MoveFile(a)
  <2> DEFINE x == Head(left[a])
             c == held[a]
             entry == shown[a].entries["license"][x]
  <2>1. pc[a] = "moving" /\ UNCHANGED shown
    BY <1>5 DEF MoveFile
  <2>2. \/ \E status \in {"blocked", "stale"} :
              EntryEnds(a, x, status) /\ UNCHANGED look
        \/ /\ Fingerprint(c, Looked(c), x) = entry.fingerprint
           /\ Change(a, c.place, x, entry.fingerprint.look, entry.desired)
    BY <1>5 DEF MoveFile
  <2>3. /\ x \notin DOMAIN result[a] /\ "license" \in DOMAIN shown[a].entries
        /\ x \in DOMAIN shown[a].entries["license"]
    BY <2>1, FirstOfSection DEF InSection
  <2>4. /\ entry.status = "change" /\ ChangeOf(x, entry) /\ By(c, x, entry)
        /\ x \in Resource
    BY <2>1, MovesByEntry
  <2>5. ASSUME NEW status \in {"blocked", "stale"}, EntryEnds(a, x, status), UNCHANGED look
        PROVE  More(a)
    <3>1. result'[a] = Over(Only(x, status), result[a])
      BY <1>0, <2>5 DEF EntryEnds, TypesOK, WorkOK
    <3> QED BY <1>0, <2>1, <2>3, <2>5, <3>1, MoreOne
  <2>6. ASSUME Fingerprint(c, Looked(c), x) = entry.fingerprint,
               Change(a, c.place, x, entry.fingerprint.look, entry.desired)
        PROVE  WritesEntry(a)
    <3>1. EntryShown(a, x) = entry
      BY <2>3, ProfileShown
    <3>2. x \in DOMAIN Looked(c) /\ Looked(c)[x] = look[c.place][x] /\ c.place = entry.place
      BY <2>4 DEF By, Looked
    <3>3. look[entry.place][x] = entry.fingerprint.look
      <4>1. Fingerprint(c, Looked(c), x).look = Looked(c)[x]
        BY <3>2 DEF Fingerprint
      <4> QED BY <2>6, <3>2, <4>1
    <3>4. Change(a, entry.place, x, entry.fingerprint.look, entry.desired)
      BY <2>6, <3>2
    <3> HIDE DEF entry, x
    <3> QED BY <2>1, <2>3, <2>4, <3>1, <3>3, <3>4 DEF WritesEntry, x
  <2> QED BY <2>2, <2>5, <2>6
<1>6. CASE PlanPreset(a)
  <2>1. pc[a] = "preset" /\ UNCHANGED <<look, shown>>
    BY <1>6 DEF PlanPreset, world
  <2> DEFINE g == [x \in DOMAIN shown[a].entries["registry"] |-> "stale"]
  <2>2. UNCHANGED result \/ result'[a] = Over(g, result[a])
    BY <1>0, <1>6 DEF PlanPreset, Ended, TypesOK, WorkOK
  <2>3. /\ "registry" \in DOMAIN shown[a].entries
        /\ DOMAIN result[a] \subseteq Keys("license")
    BY <2>1 DEF ProfileInv, ProfileWork, ProfileResults
  <2>4. \A x \in DOMAIN g : x \notin DOMAIN result[a] /\ g[x] # "success"
    BY <2>3, KeysApart DEF ProfileInv, ProfileWork, ProfilePlan
  <2>5. CASE result'[a] = Over(g, result[a])
    BY <1>0, <2>1, <2>4, <2>5, MoreWith
  <2> QED BY <2>1, <2>2, <2>5 DEF More
<1>7. CASE ApplyTarget(a)
  <2> DEFINE x == Head(left[a])
             entry == shown[a].entries["registry"][x]
             now == fresh[a].entries["registry"][x]
  <2>1. pc[a] = "targets" /\ UNCHANGED shown
    BY <1>7 DEF ApplyTarget
  <2>2. \/ \E status \in {"blocked", "no_change", "stale"} :
              EntryEnds(a, x, status) /\ UNCHANGED look
        \/ /\ entry.status = "change" /\ now.status = "change"
           /\ now.fingerprint = entry.fingerprint
           /\ Change(a, held[a].place, x, now.fingerprint.look, entry.desired)
    BY <1>7 DEF ApplyTarget
  <2>3. /\ x \notin DOMAIN result[a] /\ "registry" \in DOMAIN shown[a].entries
        /\ x \in DOMAIN shown[a].entries["registry"]
    BY <2>1, FirstOfSection DEF InSection
  <2>4. ASSUME NEW status \in {"blocked", "no_change", "stale"}, EntryEnds(a, x, status),
               UNCHANGED look
        PROVE  More(a)
    <3>1. result'[a] = Over(Only(x, status), result[a])
      BY <1>0, <2>4 DEF EntryEnds, TypesOK, WorkOK
    <3> QED BY <1>0, <2>1, <2>3, <2>4, <3>1, MoreOne
  <2>5. ASSUME entry.status = "change", now.status = "change",
               now.fingerprint = entry.fingerprint,
               Change(a, held[a].place, x, now.fingerprint.look, entry.desired)
        PROVE  WritesEntry(a)
    <3>1. EntryShown(a, x) = entry
      BY <2>3, ProfileShown
    <3>2. /\ ChangeOf(x, entry) /\ By(held[a], x, entry) /\ x \in Resource
          /\ now.fingerprint.look = entry.fingerprint.look
      BY <2>1, <2>5, TargetsByEntry
    <3>3. held[a].place = entry.place
      BY <3>2 DEF By
    <3>4. x \in Range(left[a])
      <4>1. Listed(a) /\ left[a] # <<>>
        BY <2>1 DEF ProfileInv, ProfileWork, InSection
      <4> QED BY <4>1, RestOf DEF Listed
    <3>5. look[entry.place][x] = entry.fingerprint.look \/ x \in disturbed[a]
      BY <2>1, <2>5, <3>2, <3>3, <3>4 DEF AsPlanned
    <3>6. Change(a, entry.place, x, entry.fingerprint.look, entry.desired)
      BY <2>5, <3>2, <3>3
    <3> HIDE DEF entry, x, now
    <3> QED BY <2>1, <2>3, <2>5, <3>1, <3>2, <3>5, <3>6 DEF WritesEntry, x
  <2> QED BY <2>2, <2>4, <2>5
<1> QED BY <1>1, <1>2, <1>3, <1>4, <1>5, <1>6, <1>7 DEF ProfileStep, ApplyProfile

LEMMA RestoreActs ==
    ASSUME TypesOK, NEW s \in Restorer, RestoreInv(s), RestoreStep(s)
    PROVE  WritesEntry(s) \/ More(s)
<1>0. s \in Request
  BY DEF Request
<1>1. CASE \/ PreviewRestore(s) \/ Capture(s) \/ ShowRestorePlan(s) \/ ConfirmRestore(s)
           \/ ConfirmRestoreRaises(s) \/ ReplanRestore(s) \/ LogRestore(s)
  <2>1. UNCHANGED <<look, result>>
    BY <1>1 DEF PreviewRestore, Capture, ShowRestorePlan, ConfirmRestore,
       ConfirmRestoreRaises, ReplanRestore, LogRestore, world
  <2>2. shown'[s] = shown[s] \/ pc[s] = "capturing"
    BY <1>1 DEF PreviewRestore, Capture, ShowRestorePlan, ConfirmRestore,
       ConfirmRestoreRaises, ReplanRestore, LogRestore
  <2>3. shown'[s] = shown[s] \/ DOMAIN result'[s] = {}
    BY <2>1, <2>2 DEF RestoreInv, RestoreResults
  <2> QED BY <2>1, <2>3 DEF More
<1>2. CASE DecideEntry(s) \/ RefuseEntry(s)
  <2> DEFINE x == Head(left[s])
  <2>1. /\ pc[s] \in Restoring /\ left[s] # <<>> /\ UNCHANGED <<look, shown>>
    BY <1>2 DEF DecideEntry, RefuseEntry, Restoring, RestoreInv, RestoreWork, world
  <2>2. \/ UNCHANGED result
        \/ \E status \in {"stale", "unsupported", "skipped", "failed"} :
              EntryDone(s, x, status)
    BY <1>2 DEF DecideEntry, Decision, RefuseEntry
  <2>3. x \notin DOMAIN result[s]
    BY <2>1, FirstOfRestore
  <2>4. ASSUME NEW status \in {"stale", "unsupported", "skipped", "failed"},
               EntryDone(s, x, status)
        PROVE  More(s)
    <3>1. result'[s] = Over(Only(x, status), result[s])
      BY <1>0, <2>4 DEF EntryDone, TypesOK, WorkOK
    <3> QED BY <1>0, <2>1, <2>3, <3>1, MoreOne
  <2> QED BY <2>1, <2>2, <2>4 DEF More
<1>3. CASE ExecuteEntry(s)
  <2> DEFINE x == Head(left[s])
             c == held[s]
             entry == shown[s].entries["snapshot"][x]
  <2>1. /\ pc[s] = "restoring" /\ UNCHANGED shown /\ Enabled(c) /\ x \in c.listed
        /\ Fingerprint(c, Looked(c), x) = entry.fingerprint
        /\ Change(s, c.place, x, entry.fingerprint.look, entry.desired)
    BY <1>3 DEF ExecuteEntry
  <2>2. left[s] # <<>> /\ x \in DOMAIN shown[s].entries["snapshot"]
        /\ DOMAIN shown[s].entries = {"snapshot"}
    BY <2>1 DEF RestoreInv, RestoreWork, RestorePlan
  <2>3. x \notin DOMAIN result[s]
    BY <2>1, <2>2, FirstOfRestore DEF Restoring
  <2>4. /\ entry.status = "change" /\ ChangeOf(x, entry)
        /\ x \in Resource /\ held[s].place = entry.place
    BY <1>3, RestoresByEntry
  <2>5. EntryShown(s, x) = entry
    BY <2>2, RestoreShown
  <2>6. look[entry.place][x] = entry.fingerprint.look
    <3>1. x \in DOMAIN Looked(c) /\ Looked(c)[x] = look[c.place][x]
      BY <2>1 DEF Looked
    <3>2. Fingerprint(c, Looked(c), x).look = Looked(c)[x]
      BY <3>1 DEF Fingerprint
    <3> QED BY <2>1, <2>4, <3>1, <3>2
  <2>7. Change(s, entry.place, x, entry.fingerprint.look, entry.desired)
    BY <2>1, <2>4
  <2> HIDE DEF x, entry
  <2> QED BY <2>1, <2>3, <2>4, <2>5, <2>6, <2>7 DEF WritesEntry, x
<1>4. CASE EndRestore(s)
  <2>1. /\ UNCHANGED <<look, shown>>
        /\ result'[s] = Over(result[s], [x \in DOMAIN shown[s].entries["snapshot"] |-> "stale"])
    BY <1>0, <1>4 DEF EndRestore, TypesOK, WorkOK, world
  <2> QED BY <2>1 DEF More, Over
<1> QED BY <1>1, <1>2, <1>3, <1>4 DEF RestoreStep, RestoreSnapshot

LEMMA PlannedTarget ==
    ASSUME NEW a \in Applier, ProfileInv(a), pc[a] = "targets", NEW x \in Range(left[a]),
           fresh[a].entries["registry"][x].status = "change"
    PROVE  held[a].place \in Place /\ x \in Resource
<1>1. x \in DOMAIN fresh[a].entries["registry"] /\ "registry" \in DOMAIN fresh[a].entries
      /\ held[a] = shown[a].authority["registry"][1]
      /\ fresh[a].authority["registry"] = shown[a].authority["registry"]
  BY DEF ProfileInv, ProfileWork
<1>2. LET entry == fresh[a].entries["registry"][x]
      IN  ChangeOf(x, entry) /\ By(held[a], x, entry)
  BY <1>1 DEF ProfileInv, ProfileWork, ProfilePlan
<1> QED BY <1>2 DEF ChangeOf, By, Resource

LEMMA KeepsAsPlanned ==
    ASSUME TypesOK, NEW a \in Applier, ProfileInv(a), AsPlanned(a), Keeps(a), Noted(a)
    PROVE  AsPlanned(a)'
<1> SUFFICES ASSUME pc[a] = "targets", NEW x \in Range(left[a]),
                    fresh[a].entries["registry"][x].status = "change",
                    x \notin disturbed'[a]
             PROVE  look'[held[a].place][x] = fresh[a].entries["registry"][x].fingerprint.look
  BY DEF AsPlanned, Keeps
<1>1. look[held[a].place][x] = fresh[a].entries["registry"][x].fingerprint.look
  BY DEF AsPlanned, Noted
<1>2. held[a].place \in Place /\ x \in Resource
  BY PlannedTarget
<1> QED BY <1>1, <1>2 DEF Noted

LEMMA ProfileAsPlanned ==
    ASSUME TypesOK, NEW a \in Applier, ProfileInv(a), AsPlanned(a), ProfileStep(a)
    PROVE  AsPlanned(a)'
<1>0. a \in Request /\ disturbed'[a] = disturbed[a]
  BY ProfileNoted DEF Request, Alone
<1>1. CASE ApplyTarget(a)
  <2> DEFINE x == Head(left[a])
             now == fresh[a].entries["registry"][x]
             entry == shown[a].entries["registry"][x]
  <2>1. /\ pc[a] = "targets" /\ left'[a] = Tail(left[a])
        /\ UNCHANGED <<fresh, held>>
    BY <1>1, NextEntryTo DEF ApplyTarget
  <2>2. \A y \in Range(left'[a]) : y \in Range(left[a]) /\ y # x
    <3>1. Listed(a) /\ left[a] # <<>>
      BY <2>1 DEF ProfileInv, ProfileWork, InSection
    <3> QED BY <2>1, <3>1, RestOf DEF Listed
  <2>3. \/ UNCHANGED look
        \/ \E new : look' = [look EXCEPT ![held[a].place][x] = new]
    BY <1>1 DEF ApplyTarget, Change
  <2>4. ASSUME NEW y \in Resource \ {x}, held[a].place \in Place
        PROVE  look'[held[a].place][y] = look[held[a].place][y]
    <3>1. CASE UNCHANGED look
      BY <3>1
    <3>2. CASE \E new : look' = [look EXCEPT ![held[a].place][x] = new]
      <4>1. look \in [Place -> [Resource -> State]]
        BY DEF TypesOK, WorldOK
      <4> HIDE DEF x
      <4> QED BY <2>4, <3>2, <4>1
    <3> QED BY <2>3, <3>1, <3>2
  <2>5. ASSUME NEW y \in Range(left[a]), fresh[a].entries["registry"][y].status = "change"
        PROVE  held[a].place \in Place /\ y \in Resource
    BY <2>1, <2>5, PlannedTarget
  <2> QED BY <1>0, <2>1, <2>2, <2>4, <2>5 DEF AsPlanned
<1>2. CASE PlanPreset(a)
  <2> DEFINE c == held[a]
  <2>1. /\ pc[a] = "preset" /\ UNCHANGED <<look, held, shown>>
        /\ "registry" \in DOMAIN fresh[a].entries
    BY <1>2 DEF PlanPreset, world, ProfileInv, ProfileWork
  <2>2. CASE c # shown[a].authority["registry"][1]
    <3>1. pc'[a] = "sections"
      BY <1>0, <1>2, <2>2 DEF PlanPreset, Goto, TypesOK, WorkOK
    <3> QED BY <3>1 DEF AsPlanned
  <2>3. CASE c = shown[a].authority["registry"][1]
    <3>1. PICK insp \in Inspections(c) :
            /\ fresh' = [fresh EXCEPT ![a].entries["registry"] = RegistrySection(c, insp).entries]
            /\ left' = [left EXCEPT ![a] = SetToSeq(DOMAIN c.preset)]
      BY <1>2, <2>3 DEF PlanPreset
    <3> DEFINE section == RegistrySection(c, insp)
    <3>2. /\ Enabled(c) /\ c \in Configurations("registry") /\ c.preset # None
          /\ DOMAIN c.preset \in SUBSET Target
      BY <2>1, <2>3, PresetAgain
    <3>3. fresh'[a].entries["registry"] = section.entries
      <4>1. fresh'[a] = [fresh[a] EXCEPT !.entries = [@ EXCEPT !["registry"] = section.entries]]
        BY <1>0, <3>1 DEF TypesOK, WorkOK
      <4>2. DOMAIN fresh[a] = {"profile", "authority", "entries"}
        BY DEF ProfileInv, ProfileWork, ProfilePlan, Plan
      <4> HIDE DEF section
      <4> QED BY <2>1, <4>1, <4>2
    <3>4. left'[a] = SetToSeq(DOMAIN c.preset)
      BY <1>0, <3>1 DEF TypesOK, WorkOK
    <3>5. Range(left'[a]) = DOMAIN c.preset
      BY <3>2, <3>4, ListOf DEF Resource
    <3>6. ASSUME NEW x \in DOMAIN c.preset, section.entries[x].status = "change"
          PROVE  look[c.place][x] = section.entries[x].fingerprint.look
      <4> DEFINE entry == [status      |-> Planned(insp, x, c.preset[x]),
                           desired     |-> c.preset[x],
                           place       |-> PlaceOf(c),
                           fingerprint |-> Fingerprint(c, insp, x)]
      <4>1. section.entries[x] = entry
        BY <3>2 DEF RegistrySection
      <4>2. Planned(insp, x, c.preset[x]) = "change" /\ c.preset[x] \in Holding
        BY <3>2, <3>6, <4>1 DEF Configurations, Wishes, Enabled
      <4>3. x \in DOMAIN insp /\ insp[x] = look[c.place][x]
        BY <3>2, <4>2, PlannedChange DEF TypesOK
      <4>4. Fingerprint(c, insp, x).look = insp[x]
        BY <4>3 DEF Fingerprint
      <4> QED BY <4>1, <4>3, <4>4
    <3> HIDE DEF section
    <3> QED BY <2>1, <3>3, <3>5, <3>6 DEF AsPlanned
  <2> QED BY <2>2, <2>3
<1>3. CASE ~ApplyTarget(a) /\ ~PlanPreset(a)
  <2>1. pc'[a] # "targets"
    <3>1. CASE CheckFile(a) \/ MoveFile(a)
      BY <1>0, <3>1 DEF CheckFile, MoveFile, NextEntry, Goto, TypesOK, WorkOK
    <3>2. CASE ~CheckFile(a) /\ ~MoveFile(a)
      BY <1>0, <1>3, <3>2 DEF ProfileStep, ApplyProfile, PreviewProfile, ConfirmProfile,
         ConfirmProfileRaises, PlanSection, ShowProfilePlan, Replanned, SkipSection,
         EndSection, EnterSection, AtSection, LogProfile, Goto, TypesOK, WorkOK
    <3> QED BY <3>1, <3>2
  <2> QED BY <2>1 DEF AsPlanned
<1> QED BY <1>1, <1>2, <1>3

---------------------------------------------------------------------------
(* Successes. *)

(* A success is still there, unless somebody else has changed the resource. *)
Done(r) ==
    \A x \in Results(r, "success") :
        LET entry == EntryShown(r, x)
        IN  /\ x \in Resource /\ entry.place \in Place
            /\ x \in disturbed[r] \/ look[entry.place][x].status = entry.desired

LEMMA KeepsDone ==
    ASSUME NEW r \in Request, Done(r), Keeps(r), Noted(r),
           pc[r] = "idle" => DOMAIN result[r] = {}
    PROVE  Done(r)'
<1>1. Results(r, "success")' = Results(r, "success")
  BY DEF Keeps, Results
<1>2. \A x : EntryShown(r, x)' = EntryShown(r, x)
  BY DEF Keeps, EntryShown, EntriesShown
<1>3. ASSUME NEW x \in Results(r, "success")
      PROVE  LET entry == EntryShown(r, x)
             IN  /\ x \in Resource /\ entry.place \in Place
                 /\ x \in disturbed'[r] \/ look'[entry.place][x].status = entry.desired
  <2>1. pc[r] # "idle"
    BY DEF Results
  <2> QED BY <2>1 DEF Done, Noted
<1> QED BY <1>1, <1>2, <1>3 DEF Done

LEMMA MoreDone ==
    ASSUME NEW r \in Request, Done(r), More(r), Alone(r)
    PROVE  Done(r)'
<1>1. ASSUME NEW x \in Results(r, "success")'
      PROVE  x \in Results(r, "success") /\ EntryShown(r, x)' = EntryShown(r, x)
  <2>1. x \in Results(r, "success") /\ shown'[r] = shown[r]
    BY DEF More, Results
  <2> QED BY <2>1 DEF EntryShown, EntriesShown
<1> QED BY <1>1 DEF Done, More, Alone

LEMMA WritesDone ==
    ASSUME TypesOK, NEW r \in Request, Done(r), WritesEntry(r), Alone(r)
    PROVE  Done(r)'
<1> DEFINE x == Head(left[r])
           entry == EntryShown(r, x)
<1>1. /\ x \in Resource /\ x \notin DOMAIN result[r]
      /\ entry.place \in Place /\ entry.desired \in Holding
      /\ Change(r, entry.place, x, entry.fingerprint.look, entry.desired)
      /\ shown'[r] = shown[r]
  BY DEF WritesEntry, ChangeOf
<1>2. ASSUME NEW y PROVE EntryShown(r, y)' = EntryShown(r, y)
  <2>1. shown'[r] = shown[r]
    BY <1>1
  <2> HIDE DEF x, entry
  <2> QED BY <2>1 DEF EntryShown, EntriesShown
<1> DEFINE now == look[entry.place][x]
<1>3. PICK to \in {"done", "undone", "stuck", "untouched"} :
        /\ look' = [look EXCEPT ![entry.place][x] =
              CASE to = "done"      -> [now EXCEPT !.status = entry.desired]
                [] to = "undone"    -> entry.fingerprint.look
                [] to = "stuck"     -> [now EXCEPT !.status = Stuck(x, entry.desired)]
                [] to = "untouched" -> now]
        /\ result' = [result EXCEPT ![r] =
              Over(Only(x, IF to = "done" THEN "success" ELSE "failed"), @)]
  BY <1>1 DEF Change
<1> DEFINE st == IF to = "done" THEN "success" ELSE "failed"
<1>4. result'[r] = Over(Only(x, st), result[r])
  BY <1>3 DEF TypesOK, WorkOK
<1>5. /\ DOMAIN result'[r] = {x} \union DOMAIN result[r]
      /\ \A y \in DOMAIN result[r] : result'[r][y] = result[r][y]
      /\ result'[r][x] = st
  BY <1>1, <1>4 DEF Over, Only
<1>6. to = "done" => look'[entry.place][x].status = entry.desired
  <2>1. ASSUME to = "done" PROVE look'[entry.place][x].status = entry.desired
    <3>1. look' = [look EXCEPT ![entry.place][x] = [now EXCEPT !.status = entry.desired]]
      BY <1>3, <2>1
    <3>2. look'[entry.place][x] = [now EXCEPT !.status = entry.desired]
      BY <1>1, <3>1 DEF TypesOK, WorldOK
    <3>3. now \in State
      BY <1>1 DEF TypesOK, WorldOK
    <3> HIDE DEF now, entry
    <3> QED BY <3>2, <3>3 DEF State
  <2> QED BY <2>1
<1>7. \E new : look' = [look EXCEPT ![entry.place][x] = new]
  BY <1>3
<1> HIDE DEF x, entry, now
<1>8. \A pl \in Place : \A y \in Resource \ {x} : look'[pl][y] = look[pl][y]
  BY <1>7 DEF TypesOK, WorldOK
<1>9. ASSUME NEW y \in Results(r, "success")'
      PROVE  LET e == EntryShown(r, y)
             IN  /\ y \in Resource /\ e.place \in Place
                 /\ y \in disturbed'[r] \/ look'[e.place][y].status = e.desired
  <2>1. CASE y = x
    <3>1. to = "done"
      BY <1>5, <2>1 DEF Results
    <3> QED BY <1>1, <1>6, <2>1, <3>1 DEF x, entry
  <2>2. CASE y # x
    <3>1. y \in Results(r, "success")
      BY <1>5, <2>2 DEF Results
    <3> QED BY <1>8, <2>2, <3>1 DEF Done, Alone
  <2> QED BY <2>1, <2>2
<1> QED BY <1>2, <1>9 DEF Done

---------------------------------------------------------------------------
(* Nothing is forgotten. *)

(* When a restore is logged, each entry that was shown has a result; and    *)
(* what is passed over was not shown as a change.                           *)
Told(s) ==
    /\ pc[s] = "logging" \/ logged[s] # "none" =>
          DOMAIN shown[s].entries["snapshot"] \subseteq DOMAIN result[s]
    /\ \A x \in DOMAIN result[s] : result[s][x] \in {"skipped", "unsupported"} =>
          /\ x \in DOMAIN shown[s].entries["snapshot"]
          /\ shown[s].entries["snapshot"][x].status # "change"

LEMMA KeepsTold ==
    ASSUME NEW s \in Restorer, Told(s), Keeps(s)
    PROVE  Told(s)'
  BY DEF Keeps, Told

LEMMA ToldWith ==
    ASSUME NEW s \in Restorer, Told(s), shown'[s] = shown[s], pc'[s] # "logging",
           logged'[s] = "none", NEW x, NEW status,
           result'[s] = Over(Only(x, status), result[s]),
           status \in {"skipped", "unsupported"} =>
              /\ x \in DOMAIN shown[s].entries["snapshot"]
              /\ shown[s].entries["snapshot"][x].status # "change"
    PROVE  Told(s)'
<1>1. /\ DOMAIN result'[s] = {x} \union DOMAIN result[s]
      /\ \A y \in DOMAIN result[s] \ {x} : result'[s][y] = result[s][y]
      /\ result'[s][x] = status
  BY DEF Over, Only
<1> QED BY <1>1 DEF Told

LEMMA RestoreTold ==
    ASSUME TypesOK, NEW s \in Restorer, RestoreInv(s), Told(s), RestoreStep(s)
    PROVE  Told(s)'
<1>0. s \in Request
  BY DEF Request
<1> DEFINE x == Head(left[s])
<1>1. CASE \/ PreviewRestore(s) \/ Capture(s) \/ ShowRestorePlan(s) \/ ConfirmRestore(s)
           \/ ConfirmRestoreRaises(s) \/ ReplanRestore(s)
  <2>1. /\ result'[s] = result[s] /\ logged'[s] = logged[s] /\ pc'[s] # "logging"
        /\ pc[s] \in {"idle", "capturing", "shown", "recapturing"}
    BY <1>0, <1>1 DEF PreviewRestore, Capture, ShowRestorePlan, ConfirmRestore,
       ConfirmRestoreRaises, ReplanRestore, Goto, TypesOK, WorkOK
  <2>2. DOMAIN result[s] = {} /\ logged[s] = "none"
    BY <2>1 DEF RestoreInv, RestoreResults, Books
  <2> QED BY <2>1, <2>2 DEF Told
<1>2. CASE DecideEntry(s)
  <2>1. /\ pc[s] = "entries" /\ shown'[s] = shown[s] /\ logged'[s] = logged[s]
        /\ logged[s] = "none" /\ pc'[s] \in {"entries", "restoring"}
    BY <1>0, <1>2 DEF DecideEntry, EntryDone, Goto, TypesOK, WorkOK, RestoreInv, Books
  <2>2. \/ UNCHANGED result
        \/ \E status : /\ EntryDone(s, x, status)
                       /\ status = Decision(s, x) \/ status = "failed"
    BY <1>2 DEF DecideEntry
  <2>3. Decision(s, x) \in {"skipped", "unsupported"} =>
            /\ x \in DOMAIN shown[s].entries["snapshot"]
            /\ shown[s].entries["snapshot"][x].status # "change"
    BY DEF Decision
  <2>4. ASSUME NEW status, EntryDone(s, x, status),
               status = Decision(s, x) \/ status = "failed"
        PROVE  Told(s)'
    <3>1. result'[s] = Over(Only(x, status), result[s])
      BY <1>0, <2>4 DEF EntryDone, TypesOK, WorkOK
    <3> QED BY <2>1, <2>3, <2>4, <3>1, ToldWith
  <2>5. CASE UNCHANGED result
    BY <2>1, <2>5 DEF Told
  <2> QED BY <2>2, <2>4, <2>5
<1>3. CASE RefuseEntry(s) \/ ExecuteEntry(s)
  <2>1. /\ pc[s] = "restoring" /\ shown'[s] = shown[s] /\ logged'[s] = logged[s]
        /\ logged[s] = "none" /\ pc'[s] = "entries"
    BY <1>0, <1>3 DEF RefuseEntry, ExecuteEntry, EntryDone, Goto, TypesOK, WorkOK,
       RestoreInv, Books
  <2>2. PICK status \in {"failed", "stale", "success"} :
          result' = [result EXCEPT ![s] = Over(Only(x, status), @)]
    BY <1>3 DEF RefuseEntry, ExecuteEntry, EntryDone, Change
  <2>3. result'[s] = Over(Only(x, status), result[s])
    BY <1>0, <2>2 DEF TypesOK, WorkOK
  <2> QED BY <2>1, <2>2, <2>3, ToldWith
<1>4. CASE EndRestore(s)
  <2> DEFINE g == [y \in DOMAIN shown[s].entries["snapshot"] |-> "stale"]
  <2>1. /\ shown'[s] = shown[s] /\ result'[s] = Over(result[s], g)
    BY <1>0, <1>4 DEF EndRestore, TypesOK, WorkOK
  <2>2. /\ DOMAIN result'[s] = DOMAIN result[s] \union DOMAIN shown[s].entries["snapshot"]
        /\ \A y \in DOMAIN result[s] : result'[s][y] = result[s][y]
        /\ \A y \in DOMAIN result'[s] \ DOMAIN result[s] : result'[s][y] = "stale"
    BY <2>1 DEF Over
  <2> QED BY <2>1, <2>2 DEF Told
<1>5. CASE LogRestore(s)
  <2>1. /\ pc[s] = "logging" /\ shown'[s] = shown[s] /\ result'[s] = result[s]
    BY <1>5 DEF LogRestore
  <2> QED BY <2>1 DEF Told
<1> QED BY <1>1, <1>2, <1>3, <1>4, <1>5 DEF RestoreStep, RestoreSnapshot

---------------------------------------------------------------------------
(* All of it together. *)

(* Every request does and tells what is true. *)
TrueInv ==
    /\ Inv
    /\ \A a \in Applier : AsPlanned(a)
    /\ \A r \in Request : Done(r)
    /\ \A s \in Restorer : Told(s)

LEMMA IdleEmpty ==
    ASSUME Inv, NEW r \in Request, pc[r] = "idle"
    PROVE  DOMAIN result[r] = {}
  BY DEF Inv, ProfileInv, ProfileResults, RestoreInv, RestoreResults, Request

LEMMA TrueInit == ASSUME Init PROVE TrueInv
<1>1. Inv
  BY InitOK
<1>2. ASSUME NEW r \in Request
      PROVE  pc[r] = "idle" /\ DOMAIN result[r] = {} /\ logged[r] = "none"
  BY DEF Init, EnvironmentInit, Nothing
<1>3. \A a \in Applier : AsPlanned(a)
  BY <1>2 DEF AsPlanned, Request
<1>4. \A r \in Request : Done(r)
  BY <1>2 DEF Done, Results
<1>5. \A s \in Restorer : Told(s)
  BY <1>2 DEF Told, Request
<1> QED BY <1>1, <1>3, <1>4, <1>5 DEF TrueInv

(* A request that takes no step itself. *)
LEMMA TrueOthers ==
    ASSUME TrueInv, NEW r \in Request, Keeps(r), Noted(r)
    PROVE  Done(r)' /\ (r \in Applier => AsPlanned(r)') /\ (r \in Restorer => Told(r)')
<1>1. Done(r)'
  BY IdleEmpty, KeepsDone DEF TrueInv
<1>2. r \in Applier => AsPlanned(r)'
  BY KeepsAsPlanned DEF TrueInv, Inv
<1>3. r \in Restorer => Told(r)'
  BY KeepsTold DEF TrueInv
<1> QED BY <1>1, <1>2, <1>3

LEMMA TrueNext == ASSUME TrueInv, [Next]_vars PROVE TrueInv'
<1>0. Inv' /\ TypesOK /\ Domains
  BY NextOK DEF TrueInv, Inv, TypesOK, WorkOK, Domains
<1>1. ASSUME NEW a \in Applier, ProfileStep(a) PROVE TrueInv'
  <2>1. ProfileInv(a) /\ AsPlanned(a) /\ Done(a) /\ a \in Request
    BY DEF TrueInv, Inv, Request
  <2>2. \A r \in Request \ {a} : Keeps(r) /\ Noted(r)
    BY <1>0, <1>1, <2>1, ProfileKeeps, ProfileNoted
  <2>3. AsPlanned(a)'
    BY <1>0, <1>1, <2>1, ProfileAsPlanned
  <2>4. Done(a)'
    BY <1>0, <1>1, <2>1, ProfileActs, ProfileNoted, WritesDone, MoreDone
  <2>5. a \notin Restorer
    BY NamesAssumption DEF NamesAssumption
  <2> QED BY <1>0, <2>2, <2>3, <2>4, <2>5, TrueOthers DEF TrueInv, Request
<1>2. ASSUME NEW s \in Restorer, RestoreStep(s) PROVE TrueInv'
  <2>1. RestoreInv(s) /\ Told(s) /\ Done(s) /\ s \in Request
    BY DEF TrueInv, Inv, Request
  <2>2. \A r \in Request \ {s} : Keeps(r) /\ Noted(r)
    BY <1>0, <1>2, <2>1, RestoreKeeps, RestoreNoted
  <2>3. Told(s)'
    BY <1>0, <1>2, <2>1, RestoreTold
  <2>4. Done(s)'
    BY <1>0, <1>2, <2>1, RestoreActs, RestoreNoted, WritesDone, MoreDone
  <2>5. s \notin Applier
    BY NamesAssumption DEF NamesAssumption
  <2> QED BY <1>0, <2>2, <2>3, <2>4, <2>5, TrueOthers DEF TrueInv, Request
<1>3. ASSUME Surroundings PROVE TrueInv'
  <2>1. \A r \in Request : Keeps(r) /\ Noted(r)
    BY <1>0, <1>3, SurroundingsOK, SurroundingsNoted
  <2> QED BY <1>0, <2>1, TrueOthers DEF TrueInv, Request
<1>4. ASSUME UNCHANGED vars PROVE TrueInv'
  <2>1. \A r \in Request : Keeps(r) /\ Noted(r)
    BY <1>4, NothingNoted DEF Keeps, vars, work
  <2> QED BY <1>0, <2>1, TrueOthers DEF TrueInv, Request
<1> QED BY <1>1, <1>2, <1>3, <1>4, Steps

LEMMA TrueInvariance == Spec => []TrueInv
<1>1. Init => TrueInv
  BY TrueInit
<1>2. TrueInv /\ [Next]_vars => TrueInv'
  BY TrueNext
<1> QED BY <1>1, <1>2, PTL DEF Spec

(* A success is a change that was made and is still there unless somebody   *)
(* else has changed the resource; a refusal stands for no change            *)
(* (_profile_license_result, status_map, _execute_entry).                   *)
THEOREM ResultsAreTrueHolds == Spec => []ResultsAreTrue
<1>1. ASSUME TrueInv, NEW r \in Request, NEW x \in DOMAIN result[r]
      PROVE  LET entry == EntryShown(r, x)
             IN  /\ result[r][x] \in Refused => x \notin wrote[r]
                 /\ result[r][x] = "success" =>
                      /\ x \in wrote[r]
                      /\ x \in disturbed[r] \/ look[entry.place][x].status = entry.desired
  <2>1. Books(r)
    BY <1>1 DEF TrueInv, Inv, ProfileInv, RestoreInv, Request
  <2>2. result[r][x] \in Refused => x \notin wrote[r]
    BY <2>1 DEF Books, Results, Refused
  <2>3. result[r][x] = "success" => x \in wrote[r]
    BY <2>1 DEF Books, Results
  <2>4. result[r][x] = "success" =>
          x \in disturbed[r]
            \/ look[EntryShown(r, x).place][x].status = EntryShown(r, x).desired
    BY <1>1 DEF TrueInv, Done, Results
  <2> QED BY <2>2, <2>3, <2>4
<1>2. TrueInv => ResultsAreTrue
  BY <1>1 DEF ResultsAreTrue
<1> QED BY <1>2, TrueInvariance, PTL

(* What a snapshot has of each resource is answered for, and no change that *)
(* was shown is passed over in silence (SnapshotDiffer.diff,                *)
(* _execute_entry).                                                         *)
THEOREM NothingIsForgottenHolds == Spec => []NothingIsForgotten
<1>1. ASSUME TrueInv, NEW s \in Restorer, logged[s] # "none",
             NEW x \in DOMAIN shown[s].profile
      PROVE  /\ x \in DOMAIN result[s]
             /\ result[s][x] \in {"skipped", "unsupported"} =>
                  EntryShown(s, x).status # "change"
  <2>1. RestorePlan(shown[s])
    BY <1>1 DEF TrueInv, Inv, RestoreInv, RestoreWork, Books
  <2>2. x \in DOMAIN shown[s].entries["snapshot"] /\ DOMAIN shown[s].entries = {"snapshot"}
    BY <2>1 DEF RestorePlan
  <2>3. Told(s)
    BY <1>1 DEF TrueInv
  <2>4. EntryShown(s, x) = shown[s].entries["snapshot"][x]
    BY <2>2, RestoreShown
  <2> QED BY <1>1, <2>2, <2>3, <2>4 DEF Told
<1>2. TrueInv => NothingIsForgotten
  BY <1>1 DEF NothingIsForgotten
<1> QED BY <1>2, TrueInvariance, PTL

LEMMA WrittenAs ==
    ASSUME TypesOK, NEW r \in Request, WritesEntry(r), look' # look
    PROVE  WrittenAsShown(r)
<1> DEFINE x == Head(left[r])
           entry == EntryShown(r, x)
<1>1. /\ x \in Resource /\ entry.place \in Place /\ entry.desired \in Holding
      /\ entry.fingerprint.look \in State /\ entry.status = "change"
      /\ look[entry.place][x] = entry.fingerprint.look \/ x \in disturbed[r]
      /\ Change(r, entry.place, x, entry.fingerprint.look, entry.desired)
  BY DEF WritesEntry, ChangeOf
<1> HIDE DEF x, entry
<1>2. PICK new \in State :
        Becomes(entry.place, x, entry.fingerprint.look, entry.desired, new)
  BY <1>1, ChangeTo DEF TypesOK
<1>3. look' = [look EXCEPT ![entry.place][x] = new]
  BY <1>2 DEF Becomes
<1>4. look'[entry.place][x] = new
  BY <1>1, <1>3 DEF TypesOK, WorldOK
<1>5. new # look[entry.place][x]
  <2>1. ASSUME new = look[entry.place][x] PROVE FALSE
    <3>1. look' = look
      BY <1>1, <1>3, <2>1 DEF TypesOK, WorldOK
    <3> QED BY <3>1
  <2> QED BY <2>1
<1>6. new.status \in {entry.desired, Stuck(x, entry.desired), entry.fingerprint.look.status}
  BY <1>2, <1>5 DEF Becomes
<1> QED BY <1>1, <1>3, <1>4, <1>6 DEF WrittenAsShown, x, entry

(* A request changes one resource at a time, where and as its page has      *)
(* shown it (executor.execute, execute_environment_profile,                 *)
(* execute_restore).                                                        *)
THEOREM WritesWhatWasShownHolds == Spec => WritesWhatWasShown
<1>1. ASSUME TrueInv, [Next]_vars, NEW r \in Request, look' # look,
             <<pc[r], left[r]>>' # <<pc[r], left[r]>>
      PROVE  WrittenAsShown(r)
  <2>0. TypesOK /\ Domains /\ ~Keeps(r)
    BY <1>1 DEF TrueInv, Inv, TypesOK, WorkOK, Domains, Keeps
  <2>1. ASSUME NEW a \in Applier, ProfileStep(a) PROVE WrittenAsShown(r)
    <3>1. r = a
      BY <2>0, <2>1, ProfileKeeps
    <3>2. WritesEntry(a)
      BY <1>1, <2>0, <2>1, ProfileActs DEF TrueInv, Inv, More
    <3> QED BY <1>1, <2>0, <3>1, <3>2, WrittenAs
  <2>2. ASSUME NEW s \in Restorer, RestoreStep(s) PROVE WrittenAsShown(r)
    <3>1. r = s
      BY <2>0, <2>2, RestoreKeeps
    <3>2. WritesEntry(s)
      BY <1>1, <2>0, <2>2, RestoreActs DEF TrueInv, Inv, More
    <3> QED BY <1>1, <2>0, <3>1, <3>2, WrittenAs
  <2>3. CASE Surroundings
    BY <2>0, <2>3, SurroundingsOK
  <2>4. CASE UNCHANGED vars
    BY <1>1, <2>4 DEF vars, world
  <2> QED BY <1>1, <2>1, <2>2, <2>3, <2>4, Steps
<1>2. TrueInv /\ [Next]_vars =>
        [\A r \in Request :
            look' # look /\ <<pc[r], left[r]>>' # <<pc[r], left[r]>> => WrittenAsShown(r)]_vars
  BY <1>1
<1> QED BY <1>2, TrueInvariance, PTL DEF Spec, WritesWhatWasShown

---------------------------------------------------------------------------
(* What is called stale has a reason outside the request.  All that follows *)
(* is about behaviours in which no call has failed.                         *)

Purses ==
    /\ DOMAIN budget = {"faults", "changes", "edits", "failed"}
    /\ budget.failed \in BOOLEAN

Unfailing == budget.failed = FALSE

LEMMA FaultFails == ASSUME Purses, Fault PROVE Purses' /\ ~Unfailing'
<1>1. budget' = [budget EXCEPT !.faults = @ - 1, !.failed = TRUE]
  BY DEF Fault
<1>2. DOMAIN budget' = DOMAIN budget /\ budget'.failed = TRUE
  BY <1>1 DEF Purses
<1> QED BY <1>2 DEF Purses, Unfailing

(* A step with its calls. *)
Calls == NoFault \/ Fault

LEMMA ProfileCalls ==
    ASSUME NEW a \in Applier, ProfileStep(a) PROVE Calls
<1> USE DEF Calls, NoFault, InspectedAs
<1>1. CASE PreviewProfile(a) \/ ConfirmProfile(a) \/ ConfirmProfileRaises(a)
  BY <1>1 DEF PreviewProfile, ConfirmProfile, ConfirmProfileRaises
<1>2. CASE PlanSection(a) \/ ShowProfilePlan(a) \/ Replanned(a) \/ SkipSection(a)
  BY <1>2 DEF PlanSection, ShowProfilePlan, Replanned, SkipSection
<1>3. CASE EndSection(a) \/ EnterSection(a) \/ CheckFile(a)
  BY <1>3 DEF EndSection, EnterSection, CheckFile
<1>4. CASE MoveFile(a)
  BY <1>4 DEF MoveFile, Change
<1>5. CASE PlanPreset(a) \/ LogProfile(a)
  BY <1>5 DEF PlanPreset, LogProfile
<1>6. CASE ApplyTarget(a)
  BY <1>6 DEF ApplyTarget, Change
<1> QED BY <1>1, <1>2, <1>3, <1>4, <1>5, <1>6 DEF ProfileStep, ApplyProfile

LEMMA RestoreCalls ==
    ASSUME NEW s \in Restorer, RestoreStep(s) PROVE Calls
<1> USE DEF Calls, NoFault, InspectedAs, PlannedAs
<1>1. CASE PreviewRestore(s) \/ ConfirmRestore(s) \/ ConfirmRestoreRaises(s)
  BY <1>1 DEF PreviewRestore, ConfirmRestore, ConfirmRestoreRaises
<1>2. CASE Capture(s) \/ ShowRestorePlan(s) \/ ReplanRestore(s)
  BY <1>2 DEF Capture, ShowRestorePlan, ReplanRestore
<1>3. CASE DecideEntry(s) \/ RefuseEntry(s) \/ EndRestore(s) \/ LogRestore(s)
  BY <1>3 DEF DecideEntry, RefuseEntry, EndRestore, LogRestore
<1>4. CASE ExecuteEntry(s)
  BY <1>4 DEF ExecuteEntry, Change
<1> QED BY <1>1, <1>2, <1>3, <1>4 DEF RestoreStep, RestoreSnapshot

(* That a call has failed is not forgotten. *)
LEMMA PursesKept ==
    ASSUME Purses, [Next]_vars
    PROVE  Purses' /\ (Unfailing' => Unfailing)
<1>1. CASE UNCHANGED budget
  BY <1>1 DEF Purses, Unfailing
<1>2. CASE Fault
  BY <1>2, FaultFails
<1>3. CASE Surroundings
  <2>1. PICK purse \in {"changes", "edits"} : budget' = [budget EXCEPT ![purse] = @ - 1]
    BY <1>3 DEF Surroundings, OtherProgram, SaveConfiguration, EditProfile,
       DeleteSnapshot, Spend
  <2>2. DOMAIN budget' = DOMAIN budget /\ budget'.failed = budget.failed
    BY <2>1
  <2> QED BY <2>2 DEF Purses, Unfailing
<1> QED BY <1>1, <1>2, <1>3, Steps, ProfileCalls, RestoreCalls DEF Calls, NoFault, vars

LEMMA FoundAsItIs ==
    ASSUME Purses, Unfailing', NEW c, NEW insp, InspectedAs(c, insp)
    PROVE  insp = Looked(c)
  BY FaultFails DEF InspectedAs

---------------------------------------------------------------------------
(* What was shown, until it is decided. *)

(* Nobody else has changed what x was planned from. *)
Calm(r, x) == Reasons(r, x) \intersect disturbed[r] = {}

(* What is still to be decided is as it was shown. *)
Stands(r) ==
    \A pair \in EntriesShown(r) :
        pair[2].status = "change" /\ pair[1] \notin DOMAIN result[r] /\ Calm(r, pair[1])
        => look[pair[2].place][pair[1]] = pair[2].fingerprint.look

(* What a step of r calls stale is not calm, or is of a section with a      *)
(* target that cannot be planned.                                           *)
Excuses(r) ==
    \A pair \in EntriesShown(r) :
        /\ pair[2].status = "change"
        /\ pair[1] \in Results(r, "stale")' \ Results(r, "stale")
        => ~Calm(r, pair[1]) \/ (pair[1] \in Target /\ Spoilers(r) # {})

LEMMA ProfilePair ==
    ASSUME NEW a \in Applier, ProfileInv(a), NEW pair \in EntriesShown(a),
           pair[2].status = "change"
    PROVE  LET x == pair[1]
               p == PluginOf(x)
           IN  /\ p \in {"license", "registry"} /\ p \in DOMAIN shown[a].entries
               /\ x \in DOMAIN shown[a].entries[p] /\ pair[2] = shown[a].entries[p][x]
               /\ ChangeOf(x, pair[2]) /\ By(shown[a].authority[p][1], x, pair[2])
               /\ x \in Resource /\ pc[a] # "idle"
<1>1. PICK p \in DOMAIN shown[a].entries :
        \E x \in DOMAIN shown[a].entries[p] : pair = <<x, shown[a].entries[p][x]>>
  BY DEF EntriesShown
<1>2. PICK x \in DOMAIN shown[a].entries[p] : pair = <<x, shown[a].entries[p][x]>>
  BY <1>1
<1>3. /\ p \in {"license", "registry"} /\ x \in Keys(p)
      /\ ChangeOf(x, pair[2]) /\ By(shown[a].authority[p][1], x, pair[2])
  BY <1>2 DEF ProfileInv, ProfileWork, ProfilePlan
<1>4. x \in Resource /\ p = PluginOf(x)
  BY <1>3, NamesAssumption DEF NamesAssumption, ChangeOf, Keys, Resource, PluginOf
<1>5. pc[a] # "idle"
  <2>1. DOMAIN NoPlan.entries = {}
    BY DEF NoPlan, Nothing
  <2> QED BY <2>1 DEF ProfileInv, ProfileWork
<1> QED BY <1>2, <1>3, <1>4, <1>5

LEMMA RestorePair ==
    ASSUME NEW s \in Restorer, RestoreInv(s), NEW pair \in EntriesShown(s),
           pair[2].status = "change"
    PROVE  LET x == pair[1]
           IN  /\ DOMAIN shown[s].entries = {"snapshot"}
               /\ x \in DOMAIN shown[s].entries["snapshot"]
               /\ pair[2] = shown[s].entries["snapshot"][x]
               /\ ChangeOf(x, pair[2]) /\ x \in DOMAIN shown[s].profile
               /\ x \in Resource /\ pc[s] \notin {"idle", "capturing"}
<1>1. pc[s] \notin {"idle", "capturing"}
  <2>1. DOMAIN NoPlan.entries = {}
    BY DEF NoPlan, Nothing
  <2>2. DOMAIN shown[s].entries # {}
    BY DEF EntriesShown
  <2> QED BY <2>1, <2>2 DEF RestoreInv, RestoreWork
<1>2. RestorePlan(shown[s])
  BY <1>1 DEF RestoreInv, RestoreWork
<1>3. PICK x \in DOMAIN shown[s].entries["snapshot"] :
        pair = <<x, shown[s].entries["snapshot"][x]>>
  BY <1>2 DEF EntriesShown, RestorePlan
<1> QED BY <1>1, <1>2, <1>3 DEF RestorePlan, ChangeOf, Resource

(* A change that was shown, of either kind. *)
LEMMA PairOf ==
    ASSUME Inv, NEW r \in Request, NEW pair \in EntriesShown(r),
           pair[2].status = "change"
    PROVE  /\ ChangeOf(pair[1], pair[2]) /\ pair[1] \in Resource /\ pc[r] # "idle"
           /\ pair[2] = EntryShown(r, pair[1])
<1>1. CASE r \in Applier
  BY <1>1, ProfilePair, ProfileShown DEF Inv
<1>2. CASE r \in Restorer
  BY <1>2, RestorePair, RestoreShown DEF Inv
<1> QED BY <1>1, <1>2 DEF Request

LEMMA KeepsStands ==
    ASSUME Inv, NEW r \in Request, Stands(r), Keeps(r), Noted(r)
    PROVE  Stands(r)'
<1>1. EntriesShown(r)' = EntriesShown(r) /\ result'[r] = result[r]
  BY DEF Keeps, EntriesShown
<1>2. \A x : Calm(r, x)' => Calm(r, x)
  BY DEF Calm, Reasons, Noted
<1>3. ASSUME NEW pair \in EntriesShown(r), pair[2].status = "change",
             pair[1] \notin DOMAIN result[r], Calm(r, pair[1])'
      PROVE  look'[pair[2].place][pair[1]] = pair[2].fingerprint.look
  <2>1. look[pair[2].place][pair[1]] = pair[2].fingerprint.look
    BY <1>2, <1>3 DEF Stands
  <2>2. pair[2].place \in Place /\ pair[1] \in Resource /\ pc[r] # "idle"
    BY <1>3, PairOf DEF ChangeOf
  <2>3. pair[1] \notin disturbed'[r]
    BY <1>3 DEF Calm, Reasons
  <2> QED BY <2>1, <2>2, <2>3 DEF Noted
<1> QED BY <1>1, <1>3 DEF Stands

(* A step of its own that shows nothing new. *)
LEMMA ActsStand ==
    ASSUME Inv, NEW r \in Request, Stands(r), Alone(r), shown'[r] = shown[r],
           WritesEntry(r) \/ More(r)
    PROVE  Stands(r)'
<1>1. EntriesShown(r)' = EntriesShown(r) /\ \A x : Calm(r, x)' <=> Calm(r, x)
  BY DEF EntriesShown, Calm, Reasons, Alone
<1>2. CASE More(r)
  <2>1. UNCHANGED look
    BY <1>2 DEF More
  <2>2. \A x : x \notin DOMAIN result'[r] => x \notin DOMAIN result[r]
    BY <1>2 DEF More
  <2> QED BY <1>1, <2>1, <2>2 DEF Stands
<1>3. CASE WritesEntry(r)
  <2> DEFINE x == Head(left[r])
             entry == EntryShown(r, x)
  <2>1. /\ x \in Resource /\ entry.place \in Place
        /\ Change(r, entry.place, x, entry.fingerprint.look, entry.desired)
    BY <1>3 DEF WritesEntry, ChangeOf
  <2> HIDE DEF x, entry
  <2>2. /\ \E new : look' = [look EXCEPT ![entry.place][x] = new]
        /\ \E status : result' = [result EXCEPT ![r] = Over(Only(x, status), @)]
    BY <2>1 DEF Change
  <2>3. \A pl \in Place : \A y \in Resource \ {x} : look'[pl][y] = look[pl][y]
    BY <2>1, <2>2 DEF Inv, TypesOK, WorldOK
  <2>4. PICK status : result'[r] = Over(Only(x, status), result[r])
    BY <2>2 DEF Inv, TypesOK, WorkOK
  <2>5. DOMAIN result'[r] = {x} \union DOMAIN result[r]
    BY <2>4 DEF Over, Only
  <2>6. ASSUME NEW pair \in EntriesShown(r), pair[2].status = "change",
               pair[1] \notin DOMAIN result'[r], Calm(r, pair[1])
        PROVE  look'[pair[2].place][pair[1]] = pair[2].fingerprint.look
    <3>1. pair[1] \notin DOMAIN result[r] /\ pair[1] # x
      BY <2>5, <2>6
    <3>2. look[pair[2].place][pair[1]] = pair[2].fingerprint.look
      BY <2>6, <3>1 DEF Stands
    <3>3. pair[2].place \in Place /\ pair[1] \in Resource
      BY <2>6, PairOf DEF ChangeOf
    <3> QED BY <2>3, <3>1, <3>2, <3>3
  <2> QED BY <1>1, <2>6 DEF Stands
<1> QED BY <1>2, <1>3

---------------------------------------------------------------------------
(* What the plans of a profile are made from. *)

(* What a section is compared by, if the saved configuration is c. *)
AuthorityOf(p, prof, c) ==
    IF p = "license" THEN <<c, prof.licenses>>
    ELSE IF ~Enabled(c) THEN <<None, "unavailable">>
    ELSE IF c.preset = None THEN <<None, "missing">> ELSE <<c, "planned">>

(* The section for the license has errors only if its plugin is disabled,   *)
(* and a preset says what its targets are to become.                        *)
Faithful(p, authority, entries) ==
    /\ p = "license" /\ (\E x \in DOMAIN entries : entries[x].status = "error")
         => ~Enabled(authority[1])
    /\ p = "registry" =>
         \A x \in DOMAIN entries : entries[x].status = "change" =>
            entries[x].desired = authority[1].preset[x]

(* The sections of a plan are of plugins that its profile says something    *)
(* of, made from their saved configurations unless these have changed.      *)
MadeFrom(plan, saved, changed) ==
    \A p \in DOMAIN plan.entries :
        /\ Uses(plan.profile, p)
        /\ p \in changed \/ plan.authority[p] = AuthorityOf(p, plan.profile, saved[p])
        /\ Faithful(p, plan.authority[p], plan.entries[p])

LEMMA EntryFound ==
    ASSUME WorldOK, NEW p \in {"license", "logs", "registry"},
           NEW c \in Configurations(p), NEW x, NEW desired \in Holding,
           Planned(Looked(c), x, desired) = "change"
    PROVE  look[PlaceOf(c)][x] = Fingerprint(c, Looked(c), x).look
<1>1. Looked(c) \in Inspections(c)
  BY DEF Inspections
<1>2. Enabled(c) /\ x \in DOMAIN Looked(c) /\ Looked(c)[x] = look[c.place][x]
  BY <1>1, PlannedChange
<1>3. PlaceOf(c) = c.place
  BY <1>2 DEF PlaceOf, Enabled
<1>4. Fingerprint(c, Looked(c), x).look = Looked(c)[x]
  BY <1>2 DEF Fingerprint
<1> QED BY <1>2, <1>3, <1>4

(* The entries of a section as they are found. *)
Found(entries) ==
    \A x \in DOMAIN entries : entries[x].status = "change" =>
        look[entries[x].place][x] = entries[x].fingerprint.look

LEMMA LicenseFrom ==
    ASSUME WorldOK, NEW prof \in Profiles \ {None}, NEW c \in Configurations("license"),
           NEW section, section = LicenseSection(prof, c, Looked(c))
    PROVE  /\ section.authority = AuthorityOf("license", prof, c)
           /\ Faithful("license", section.authority, section.entries)
           /\ Found(section.entries)
<1>1. /\ section.authority = <<c, prof.licenses>>
      /\ DOMAIN section.entries = DOMAIN prof.licenses
      /\ \A x \in DOMAIN prof.licenses :
           /\ section.entries[x].status = LicenseStatus(prof, c, Looked(c), x)
           /\ section.entries[x].place = PlaceOf(c)
           /\ section.entries[x].fingerprint = Fingerprint(c, Looked(c), x)
  BY DEF LicenseSection
<1>2. \A x \in DOMAIN prof.licenses : prof.licenses[x] \in Holding /\ x \in File
  BY DEF Profiles, Wishes
<1>3. ASSUME NEW x \in DOMAIN prof.licenses, section.entries[x].status = "error"
      PROVE  ~Enabled(c)
  <2>1. LicenseStatus(prof, c, Looked(c), x) = "error"
    BY <1>1, <1>3
  <2>2. x \notin Target
    BY <1>2, NamesAssumption DEF NamesAssumption
  <2>3. Planned(Looked(c), x, prof.licenses[x]) # "error"
    BY <2>2 DEF Planned, Unplannable
  <2>4. x \in c.listed /\ x \notin DOMAIN Looked(c)
    BY <2>1, <2>3 DEF LicenseStatus
  <2> QED BY <2>4 DEF Looked
<1>4. ASSUME NEW x \in DOMAIN prof.licenses, section.entries[x].status = "change"
      PROVE  look[section.entries[x].place][x] = section.entries[x].fingerprint.look
  <2>1. Planned(Looked(c), x, prof.licenses[x]) = "change"
    BY <1>1, <1>4 DEF LicenseStatus
  <2>2. look[PlaceOf(c)][x] = Fingerprint(c, Looked(c), x).look
    BY <1>2, <2>1, EntryFound
  <2> QED BY <1>1, <2>2
<1> QED BY <1>1, <1>3, <1>4 DEF AuthorityOf, Faithful, Found

LEMMA RegistryFrom ==
    ASSUME WorldOK, NEW prof, NEW c \in Configurations("registry"),
           NEW section, section = RegistrySection(c, Looked(c))
    PROVE  /\ section.authority = AuthorityOf("registry", prof, c)
           /\ Faithful("registry", section.authority, section.entries)
           /\ Found(section.entries)
<1>1. CASE ~Enabled(c) \/ c.preset = None
  <2>1. PICK reason : /\ section = NoPreset(reason)
                      /\ AuthorityOf("registry", prof, c) = <<None, reason>>
    BY <1>1 DEF RegistrySection, AuthorityOf
  <2>2. /\ section.authority = <<None, reason>>
        /\ \A x \in DOMAIN section.entries : section.entries[x].status = "blocked"
    BY <2>1 DEF NoPreset, Only
  <2> QED BY <2>1, <2>2 DEF Faithful, Found
<1>2. CASE Enabled(c) /\ c.preset # None
  <2>1. /\ section.authority = <<c, "planned">>
        /\ DOMAIN section.entries = DOMAIN c.preset
        /\ \A x \in DOMAIN c.preset :
             /\ section.entries[x].status = Planned(Looked(c), x, c.preset[x])
             /\ section.entries[x].desired = c.preset[x]
             /\ section.entries[x].place = PlaceOf(c)
             /\ section.entries[x].fingerprint = Fingerprint(c, Looked(c), x)
    BY <1>2 DEF RegistrySection
  <2>2. \A x \in DOMAIN c.preset : c.preset[x] \in Holding
    BY <1>2 DEF Configurations, Wishes, Enabled
  <2>3. ASSUME NEW x \in DOMAIN c.preset, section.entries[x].status = "change"
        PROVE  look[section.entries[x].place][x] = section.entries[x].fingerprint.look
    <3>1. Planned(Looked(c), x, c.preset[x]) = "change"
      BY <2>1, <2>3
    <3>2. look[PlaceOf(c)][x] = Fingerprint(c, Looked(c), x).look
      BY <2>2, <3>1, EntryFound
    <3> QED BY <2>1, <3>2
  <2> QED BY <1>2, <2>1, <2>3 DEF AuthorityOf, Faithful, Found
<1> QED BY <1>1, <1>2

(* A plan with one section more. *)
LEMMA AddMade ==
    ASSUME WorldOK, NEW plan, ProfilePlan(plan), plan.profile \in Profiles \ {None},
           NEW changed, MadeFrom(plan, config, changed),
           NEW p \in {"license", "registry"}, Uses(plan.profile, p), NEW new,
           new = Add(plan, p, Section(p, plan.profile, config[p], Looked(config[p])))
    PROVE  /\ MadeFrom(new, config, changed) /\ new.profile = plan.profile
           /\ DOMAIN new.entries = DOMAIN plan.entries \union {p}
           /\ Found(new.entries[p])
           /\ \A q \in DOMAIN plan.entries \ {p} : new.entries[q] = plan.entries[q]
<1> DEFINE section == Section(p, plan.profile, config[p], Looked(config[p]))
<1>1. /\ section.authority = AuthorityOf(p, plan.profile, config[p])
      /\ Faithful(p, section.authority, section.entries)
      /\ Found(section.entries)
  <2>1. config[p] \in Configurations(p)
    BY DEF WorldOK
  <2> QED BY <2>1, LicenseFrom, RegistryFrom DEF Section
<1>2. DOMAIN plan.authority = DOMAIN plan.entries
  BY DEF ProfilePlan
<1> HIDE DEF section
<1>3. /\ new.profile = plan.profile
      /\ DOMAIN new.entries = DOMAIN plan.entries \union {p}
      /\ new.authority[p] = section.authority /\ new.entries[p] = section.entries
      /\ \A q \in DOMAIN plan.entries \ {p} :
            new.authority[q] = plan.authority[q] /\ new.entries[q] = plan.entries[q]
  BY <1>2, AddedTo DEF section
<1> QED BY <1>1, <1>3 DEF MadeFrom

---------------------------------------------------------------------------
(* A profile, from its page to the end. *)

Executing == {"replanning", "sections", "preset"} \union InSection

(* The profile is the one that is shown, until it is read again. *)
SameProfile(a) ==
    pc[a] \in {"planning", "shown"} =>
        profile = shown[a].profile \/ "profile" \in disturbed[a]

PlansMade(a) ==
    /\ MadeFrom(shown[a], config, disturbed[a])
    /\ pc[a] \in Executing => MadeFrom(fresh[a], config, disturbed[a])

(* What the profile says something of has been planned again. *)
AllReplanned(a) ==
    pc[a] \in Executing =>
        \A i \in 1..2 :
            /\ pc[a] = "replanning" => i < stage[a]
            /\ Uses(fresh[a].profile, Plugins[i])
            => Plugins[i] \in DOMAIN fresh[a].entries

SameConfiguration(a) ==
    pc[a] = "preset" => held[a] = config["registry"] \/ "registry" \in disturbed[a]

(* A target that was shown as a change and is calm is planned as one again. *)
TargetsStand(a) ==
    pc[a] = "targets" =>
        \A x \in Range(left[a]) :
            LET entry == shown[a].entries["registry"][x]
                now == fresh[a].entries["registry"][x]
            IN  entry.status = "change" /\ Calm(a, x) =>
                    now.status = "change" /\ now.fingerprint = entry.fingerprint

ProfileSound(a) ==
    /\ SameProfile(a) /\ PlansMade(a) /\ AllReplanned(a)
    /\ SameConfiguration(a) /\ TargetsStand(a)

LEMMA KeepsMade ==
    ASSUME TypesOK, NEW a \in Applier, Noted(a), pc[a] # "idle",
           NEW plan, ProfilePlan(plan), MadeFrom(plan, config, disturbed[a])
    PROVE  MadeFrom(plan, config', disturbed'[a])
<1>1. ASSUME NEW p \in DOMAIN plan.entries
      PROVE  /\ config'[p] = config[p] \/ p \in disturbed'[a]
             /\ p \in disturbed[a] => p \in disturbed'[a]
  BY DEF Noted, ProfilePlan, TypesOK, WorldOK
<1> QED BY <1>1 DEF MadeFrom

LEMMA KeepsProfileSound ==
    ASSUME TypesOK, NEW a \in Applier, ProfileInv(a), ProfileSound(a), Keeps(a), Noted(a)
    PROVE  ProfileSound(a)'
<1>0. ProfilePlan(shown[a]) /\ ProfilePlan(fresh[a])
  BY DEF ProfileInv, ProfileWork
<1>1. PlansMade(a)'
  <2>1. CASE pc[a] = "idle"
    <3>1. shown'[a] = NoPlan /\ pc'[a] \notin Executing
      BY <2>1 DEF Keeps, ProfileInv, ProfileWork, Executing, InSection
    <3>2. DOMAIN NoPlan.entries = {}
      BY DEF NoPlan, Nothing
    <3> QED BY <3>1, <3>2 DEF PlansMade, MadeFrom
  <2>2. CASE pc[a] # "idle"
    <3>1. MadeFrom(shown[a], config', disturbed'[a])
      BY <1>0, <2>2, KeepsMade DEF ProfileSound, PlansMade
    <3>2. pc[a] \in Executing => MadeFrom(fresh[a], config', disturbed'[a])
      BY <1>0, <2>2, KeepsMade DEF ProfileSound, PlansMade
    <3> QED BY <3>1, <3>2 DEF Keeps, PlansMade
  <2> QED BY <2>1, <2>2
<1>2. SameProfile(a)'
  BY DEF ProfileSound, SameProfile, Keeps, Noted
<1>3. AllReplanned(a)'
  BY DEF ProfileSound, AllReplanned, Keeps
<1>4. SameConfiguration(a)'
  <2>1. "registry" \in DOMAIN config
    BY DEF TypesOK, WorldOK
  <2> QED BY <2>1 DEF ProfileSound, SameConfiguration, Keeps, Noted
<1>5. TargetsStand(a)'
  <2>1. \A x : Calm(a, x)' => Calm(a, x)
    BY DEF Calm, Reasons, Noted
  <2> QED BY <2>1 DEF ProfileSound, TargetsStand, Keeps
<1> QED BY <1>1, <1>2, <1>3, <1>4, <1>5 DEF ProfileSound

LEMMA SectionPlanned ==
    ASSUME TypesOK, Purses, Unfailing', NEW a \in Applier, PlanSection(a),
           NEW plan, plan = (IF pc[a] = "planning" THEN shown[a] ELSE fresh[a])
    PROVE  LET p == Plugins[stage[a]] IN
           /\ a \in Request /\ pc[a] \in {"planning", "replanning"} /\ stage[a] \in 1..2
           /\ p \in {"license", "registry"}
           /\ pc'[a] = pc[a] /\ stage'[a] = stage[a] + 1 /\ result'[a] = result[a]
           /\ \E new :
                /\ IF pc[a] = "planning"
                   THEN shown'[a] = new /\ fresh'[a] = fresh[a]
                   ELSE fresh'[a] = new /\ shown'[a] = shown[a]
                /\ IF Uses(plan.profile, p)
                   THEN new = Add(plan, p, Section(p, plan.profile, config[p], Looked(config[p])))
                   ELSE new = plan
<1> DEFINE p == Plugins[stage[a]]
           next(new) == IF pc[a] = "planning"
                        THEN shown' = [shown EXCEPT ![a] = new] /\ UNCHANGED fresh
                        ELSE fresh' = [fresh EXCEPT ![a] = new] /\ UNCHANGED shown
<1>1. /\ a \in Request /\ pc[a] \in {"planning", "replanning"} /\ stage[a] \in 1..2
      /\ p \in {"license", "registry"}
      /\ pc'[a] = pc[a] /\ stage'[a] = stage[a] + 1 /\ result'[a] = result[a]
  BY DEF PlanSection, Plugins, Request, TypesOK, WorkOK
<1>2. \/ ~Uses(plan.profile, p) /\ next(plan)
      \/ /\ Uses(plan.profile, p)
         /\ \E insp \in Inspections(config[p]) :
               /\ InspectedAs(config[p], insp)
               /\ next(Add(plan, p, Section(p, plan.profile, config[p], insp)))
      \/ Fault
  BY DEF PlanSection
<1>3. ~Fault
  BY FaultFails
<1>4. \/ ~Uses(plan.profile, p) /\ next(plan)
      \/ /\ Uses(plan.profile, p)
         /\ next(Add(plan, p, Section(p, plan.profile, config[p], Looked(config[p]))))
  <2> HIDE DEF p, next
  <2> QED BY <1>2, <1>3, FoundAsItIs
<1> HIDE DEF p
<1>5. \A new : next(new) => IF pc[a] = "planning"
                            THEN shown'[a] = new /\ fresh'[a] = fresh[a]
                            ELSE fresh'[a] = new /\ shown'[a] = shown[a]
  BY <1>1 DEF TypesOK, WorkOK
<1> HIDE DEF next
<1>6. \E new :
        /\ IF pc[a] = "planning"
           THEN shown'[a] = new /\ fresh'[a] = fresh[a]
           ELSE fresh'[a] = new /\ shown'[a] = shown[a]
        /\ IF Uses(plan.profile, p)
           THEN new = Add(plan, p, Section(p, plan.profile, config[p], Looked(config[p])))
           ELSE new = plan
  BY <1>4, <1>5
<1> QED BY <1>1, <1>6 DEF p

LEMMA SectionSound ==
    ASSUME TypesOK, Purses, Unfailing', NEW a \in Applier, ProfileInv(a), Alone(a),
           ProfileSound(a), Stands(a), PlanSection(a), UNCHANGED look
    PROVE  ProfileSound(a)' /\ Stands(a)'
<1> DEFINE plan == IF pc[a] = "planning" THEN shown[a] ELSE fresh[a]
           p == Plugins[stage[a]]
<1>1. /\ a \in Request /\ pc[a] \in {"planning", "replanning"} /\ stage[a] \in 1..2
      /\ p \in {"license", "registry"}
      /\ pc'[a] = pc[a] /\ stage'[a] = stage[a] + 1 /\ result'[a] = result[a]
  BY SectionPlanned
<1>2. PICK new :
        /\ IF pc[a] = "planning"
           THEN shown'[a] = new /\ fresh'[a] = fresh[a]
           ELSE fresh'[a] = new /\ shown'[a] = shown[a]
        /\ IF Uses(plan.profile, p)
           THEN new = Add(plan, p, Section(p, plan.profile, config[p], Looked(config[p])))
           ELSE new = plan
  BY SectionPlanned
<1>3. /\ ProfilePlan(plan) /\ plan.profile \in Profiles \ {None}
      /\ MadeFrom(plan, config, disturbed[a])
  BY <1>1 DEF ProfileInv, ProfileWork, ProfileSound, PlansMade, Executing
<1>4. p = "license" <=> stage[a] = 1
  BY <1>1 DEF Plugins
<1> HIDE DEF p
<1>5. /\ MadeFrom(new, config, disturbed[a]) /\ new.profile = plan.profile
      /\ DOMAIN plan.entries \subseteq DOMAIN new.entries
      /\ Uses(plan.profile, p) => p \in DOMAIN new.entries /\ Found(new.entries[p])
      /\ \A q \in DOMAIN new.entries :
            new.entries[q] = plan.entries[q] \/ (q = p /\ Uses(plan.profile, p))
  <2>1. CASE Uses(plan.profile, p)
    BY <1>1, <1>2, <1>3, <2>1, AddMade DEF TypesOK
  <2>2. CASE ~Uses(plan.profile, p)
    BY <1>2, <1>3, <2>2
  <2> QED BY <2>1, <2>2
<1>6. CASE pc[a] = "planning"
  <2>1. shown'[a] = new /\ plan = shown[a] /\ pc'[a] \notin Executing
    BY <1>1, <1>2, <1>6 DEF Executing, InSection
  <2>2. ProfileSound(a)'
    BY <1>1, <1>5, <1>6, <2>1 DEF ProfileSound, SameProfile, PlansMade, AllReplanned,
       SameConfiguration, TargetsStand, Executing, Alone
  <2>3. ASSUME NEW pair \in EntriesShown(a)', pair[2].status = "change",
               pair[1] \notin DOMAIN result[a], Calm(a, pair[1])
        PROVE  look[pair[2].place][pair[1]] = pair[2].fingerprint.look
    <3>1. PICK q \in DOMAIN new.entries :
            \E x \in DOMAIN new.entries[q] : pair = <<x, new.entries[q][x]>>
      BY <2>1, <2>3 DEF EntriesShown
    <3>2. CASE q = p /\ Uses(plan.profile, p)
      BY <1>5, <2>3, <3>1, <3>2 DEF Found
    <3>3. CASE new.entries[q] = plan.entries[q] /\ ~(q = p /\ Uses(plan.profile, p))
      <4>1. q \in DOMAIN shown[a].entries
        BY <1>2, <1>3, <2>1, <3>1, <3>3, AddMade, <1>1 DEF TypesOK
      <4>2. pair \in EntriesShown(a)
        BY <2>1, <3>1, <3>3, <4>1 DEF EntriesShown
      <4> QED BY <2>3, <4>2 DEF Stands
    <3> QED BY <1>5, <3>1, <3>2, <3>3
  <2>4. Stands(a)'
    <3>1. \A x : Calm(a, x)' <=> Calm(a, x)
      BY DEF Calm, Reasons, Alone
    <3> QED BY <1>1, <2>3, <3>1 DEF Stands
  <2> QED BY <2>2, <2>4
<1>7. CASE pc[a] = "replanning"
  <2>1. fresh'[a] = new /\ plan = fresh[a] /\ shown'[a] = shown[a]
    BY <1>2, <1>7
  <2>2. AllReplanned(a)'
    <3>1. ASSUME NEW i \in 1..2, i < stage[a] + 1, Uses(new.profile, Plugins[i])
          PROVE  Plugins[i] \in DOMAIN new.entries
      <4>1. CASE i = stage[a]
        BY <1>5, <3>1, <4>1 DEF p
      <4>2. CASE i < stage[a]
        BY <1>5, <1>7, <2>1, <3>1, <4>2 DEF ProfileSound, AllReplanned, Executing
      <4> QED BY <1>1, <3>1, <4>1, <4>2
    <3> QED BY <1>1, <1>7, <2>1, <3>1 DEF AllReplanned
  <2>3. ProfileSound(a)'
    BY <1>1, <1>5, <1>7, <2>1, <2>2 DEF ProfileSound, SameProfile, PlansMade,
       SameConfiguration, TargetsStand, Alone
  <2>4. Stands(a)'
    <3>1. EntriesShown(a)' = EntriesShown(a) /\ \A x : Calm(a, x)' <=> Calm(a, x)
      BY <2>1 DEF EntriesShown, Calm, Reasons, Alone
    <3> QED BY <1>1, <3>1 DEF Stands
  <2> QED BY <2>3, <2>4
<1> QED BY <1>1, <1>6, <1>7

(* A resource that is as an entry was shown by c is planned as shown. *)
LEMMA PlannedAsShown ==
    ASSUME WorldOK, NEW p \in {"license", "registry"}, NEW c \in Configurations(p),
           NEW x, NEW entry, ChangeOf(x, entry), By(c, x, entry),
           look[entry.place][x] = entry.fingerprint.look
    PROVE  /\ x \in DOMAIN Looked(c) /\ Looked(c)[x] = entry.fingerprint.look
           /\ Planned(Looked(c), x, entry.desired) = "change"
           /\ Fingerprint(c, Looked(c), x) = entry.fingerprint
<1>1. x \in DOMAIN Looked(c) /\ Looked(c)[x] = entry.fingerprint.look
  BY DEF By, Looked
<1>2. Looked(c)[x].status \in Holding \ {entry.desired}
  BY <1>1 DEF ChangeOf
<1>3. ~Unplannable(Looked(c), x)
  BY <1>1, <1>2 DEF Unplannable, Holding
<1>4. Planned(Looked(c), x, entry.desired) = "change"
  BY <1>1, <1>2, <1>3 DEF Planned
<1>5. Fingerprint(c, Looked(c), x)
        = [place |-> IF x \in File THEN c.place ELSE None, look |-> Looked(c)[x]]
  BY <1>1 DEF Fingerprint
<1>6. PICK seen : entry.fingerprint
                    = [place |-> IF x \in File THEN entry.place ELSE None, look |-> seen]
  BY DEF ChangeOf
<1>7. entry.fingerprint.look = seen
  BY <1>6
<1>8. c.place = entry.place
  BY DEF By
<1>9. Fingerprint(c, Looked(c), x) = entry.fingerprint
  BY <1>1, <1>5, <1>6, <1>7, <1>8
<1> QED BY <1>1, <1>4, <1>9

(* A target that was shown as a change, when its preset is planned again. *)
LEMMA TargetAgain ==
    ASSUME TypesOK, NEW a \in Applier, ProfileInv(a), ProfileSound(a), Stands(a),
           pc[a] = "preset", held[a] = shown[a].authority["registry"][1],
           NEW x \in DOMAIN shown[a].entries["registry"],
           shown[a].entries["registry"][x].status = "change", Calm(a, x)
    PROVE  LET entry == shown[a].entries["registry"][x]
               now == RegistrySection(held[a], Looked(held[a])).entries[x]
           IN  now.status = "change" /\ now.fingerprint = entry.fingerprint
<1> DEFINE c == held[a]
           entry == shown[a].entries["registry"][x]
           pair == <<x, entry>>
<1>1. /\ "registry" \in DOMAIN shown[a].entries /\ x \in Keys("registry")
      /\ ChangeOf(x, entry) /\ By(c, x, entry)
  BY DEF ProfileInv, ProfileWork, ProfilePlan
<1>2. /\ Enabled(c) /\ c \in Configurations("registry") /\ c.preset # None
      /\ DOMAIN c.preset = DOMAIN shown[a].entries["registry"]
  <2>1. Looked(c) \in Inspections(c)
    BY DEF Inspections
  <2> QED BY <2>1, PresetAgain
<1>3. x \notin DOMAIN result[a]
  BY <1>1, KeysApart DEF ProfileInv, ProfileResults
<1>4. pair \in EntriesShown(a) /\ pair[1] = x /\ pair[2] = entry
  BY <1>1 DEF EntriesShown
<1> HIDE DEF pair
<1>5. look[entry.place][x] = entry.fingerprint.look
  BY <1>3, <1>4 DEF Stands
<1>6. entry.desired = c.preset[x]
  BY <1>1 DEF ProfileSound, PlansMade, MadeFrom, Faithful
<1> DEFINE now == [status      |-> Planned(Looked(c), x, c.preset[x]),
                   desired     |-> c.preset[x],
                   place       |-> PlaceOf(c),
                   fingerprint |-> Fingerprint(c, Looked(c), x)]
<1>7. RegistrySection(c, Looked(c)).entries[x] = now
  BY <1>2 DEF RegistrySection
<1>8. /\ Planned(Looked(c), x, entry.desired) = "change"
      /\ Fingerprint(c, Looked(c), x) = entry.fingerprint
  <2> HIDE DEF c, entry
  <2> QED BY <1>1, <1>2, <1>5, PlannedAsShown DEF TypesOK
<1>9. now.status = "change" /\ now.fingerprint = entry.fingerprint
  BY <1>6, <1>8
<1> QED BY <1>7, <1>9

LEMMA PresetSound ==
    ASSUME TypesOK, Purses, Unfailing', NEW a \in Applier, ProfileInv(a), Alone(a),
           ProfileSound(a), Stands(a), PlanPreset(a)
    PROVE  ProfileSound(a)'
<1> DEFINE c == held[a]
<1>1. /\ a \in Request /\ pc[a] = "preset" /\ stage[a] = 2
      /\ UNCHANGED <<look, held, shown>>
      /\ "registry" \in DOMAIN fresh[a].entries /\ "registry" \in DOMAIN shown[a].entries
      /\ fresh[a].authority["registry"] = shown[a].authority["registry"]
      /\ ProfilePlan(fresh[a])
  BY DEF PlanPreset, world, Request, ProfileInv, ProfileWork
<1>2. CASE c # shown[a].authority["registry"][1]
  <2>1. /\ pc'[a] = "sections" /\ UNCHANGED fresh
    BY <1>1, <1>2 DEF PlanPreset, Goto, TypesOK, WorkOK
  <2> QED BY <1>1, <2>1 DEF ProfileSound, SameProfile, PlansMade, AllReplanned,
         SameConfiguration, TargetsStand, Executing, Alone
<1>3. CASE c = shown[a].authority["registry"][1]
  <2> DEFINE section == RegistrySection(c, Looked(c))
  <2>1. /\ fresh' = [fresh EXCEPT ![a].entries["registry"] = section.entries]
        /\ left' = [left EXCEPT ![a] = SetToSeq(DOMAIN c.preset)]
        /\ pc'[a] \in {"targets", "sections"}
    <3>1. PICK insp \in Inspections(c) :
            /\ InspectedAs(c, insp)
            /\ fresh' = [fresh EXCEPT ![a].entries["registry"] = RegistrySection(c, insp).entries]
            /\ left' = [left EXCEPT ![a] = SetToSeq(DOMAIN c.preset)]
            /\ Goto(a, "targets") \/ Goto(a, "sections")
      BY <1>3 DEF PlanPreset
    <3>2. insp = Looked(c)
      BY <3>1, FoundAsItIs
    <3>3. pc'[a] \in {"targets", "sections"}
      BY <1>1, <3>1 DEF Goto, TypesOK, WorkOK
    <3> QED BY <3>1, <3>2, <3>3
  <2>2. /\ Enabled(c) /\ c \in Configurations("registry") /\ c.preset # None
        /\ DOMAIN c.preset = DOMAIN shown[a].entries["registry"]
        /\ DOMAIN c.preset \in SUBSET Target
    <3>1. Looked(c) \in Inspections(c)
      BY DEF Inspections
    <3> QED BY <1>1, <1>3, <3>1, PresetAgain
  <2>3. Range(left'[a]) = DOMAIN c.preset
    <3>1. left'[a] = SetToSeq(DOMAIN c.preset)
      BY <1>1, <2>1 DEF TypesOK, WorkOK
    <3> QED BY <2>2, <3>1, ListOf DEF Resource
  <2>4. /\ Faithful("registry", shown[a].authority["registry"], section.entries)
    <3>1. Faithful("registry", section.authority, section.entries)
      BY <2>2, RegistryFrom DEF TypesOK
    <3>2. section.authority[1] = shown[a].authority["registry"][1]
      BY <1>3, <2>2 DEF RegistrySection
    <3> HIDE DEF section
    <3> QED BY <3>1, <3>2 DEF Faithful
  <2>5. \A x \in DOMAIN c.preset :
          LET entry == shown[a].entries["registry"][x]
          IN  entry.status = "change" /\ Calm(a, x) =>
                /\ section.entries[x].status = "change"
                /\ section.entries[x].fingerprint = entry.fingerprint
    BY <1>1, <1>3, <2>2, TargetAgain
  <2> HIDE DEF section
  <2>6. /\ fresh'[a].profile = fresh[a].profile
        /\ fresh'[a].authority = fresh[a].authority
        /\ DOMAIN fresh'[a].entries = DOMAIN fresh[a].entries
        /\ fresh'[a].entries["registry"] = section.entries
        /\ \A q \in DOMAIN fresh[a].entries \ {"registry"} :
              fresh'[a].entries[q] = fresh[a].entries[q]
    <3>1. fresh'[a] = [fresh[a] EXCEPT !.entries = [@ EXCEPT !["registry"] = section.entries]]
      BY <1>1, <2>1 DEF TypesOK, WorkOK
    <3>2. DOMAIN fresh[a] = {"profile", "authority", "entries"}
      BY <1>1 DEF ProfilePlan, Plan
    <3> QED BY <1>1, <3>1, <3>2
  <2>7. PlansMade(a)'
    <3>1. MadeFrom(fresh'[a], config, disturbed[a])
      <4>1. MadeFrom(fresh[a], config, disturbed[a])
        BY <1>1 DEF ProfileSound, PlansMade, Executing
      <4> QED BY <1>1, <2>4, <2>6, <4>1 DEF MadeFrom
    <3> QED BY <1>1, <3>1 DEF ProfileSound, PlansMade, Alone
  <2>8. TargetsStand(a)'
    <3>1. \A x : Calm(a, x)' <=> Calm(a, x)
      BY DEF Calm, Reasons, Alone
    <3> QED BY <1>1, <2>3, <2>5, <2>6, <3>1 DEF TargetsStand
  <2> QED BY <1>1, <2>1, <2>6, <2>7, <2>8 DEF ProfileSound, SameProfile, AllReplanned,
         SameConfiguration, Executing
<1> QED BY <1>2, <1>3

(* A step that leaves its plans alone and goes on, or is done executing. *)
LEMMA OnwardSound ==
    ASSUME NEW a \in Applier, Alone(a), ProfileSound(a), shown'[a] = shown[a],
           pc'[a] \notin {"planning", "shown", "replanning", "preset"},
           pc'[a] \in Executing =>
               /\ fresh'[a] = fresh[a]
               /\ pc[a] \in Executing \ {"replanning"},
           pc'[a] = "targets" => pc[a] = "targets" /\ Range(left'[a]) \subseteq Range(left[a])
    PROVE  ProfileSound(a)'
<1>1. SameProfile(a)' /\ SameConfiguration(a)'
  BY DEF SameProfile, SameConfiguration
<1>2. PlansMade(a)'
  BY DEF ProfileSound, PlansMade, Alone
<1>3. AllReplanned(a)'
  BY DEF ProfileSound, AllReplanned
<1>4. TargetsStand(a)'
  <2>1. \A x : Calm(a, x)' <=> Calm(a, x)
    BY DEF Calm, Reasons, Alone
  <2>2. pc'[a] = "targets" => fresh'[a] = fresh[a]
    BY DEF Executing, InSection
  <2> QED BY <2>1, <2>2 DEF ProfileSound, TargetsStand
<1> QED BY <1>1, <1>2, <1>3, <1>4 DEF ProfileSound

LEMMA BeginSound ==
    ASSUME TypesOK, NEW a \in Applier, ProfileInv(a), Alone(a), ProfileSound(a),
           PreviewProfile(a) \/ ShowProfilePlan(a) \/ Replanned(a)
    PROVE  ProfileSound(a)'
<1>0. a \in Request
  BY DEF Request
<1>1. CASE PreviewProfile(a)
  <2>1. /\ pc'[a] = "planning" /\ shown'[a] = [NoPlan EXCEPT !.profile = profile]
    BY <1>0, <1>1 DEF PreviewProfile, Goto, TypesOK, WorkOK
  <2>2. shown'[a].profile = profile /\ DOMAIN shown'[a].entries = {}
    BY <2>1 DEF NoPlan, Nothing
  <2>3. PlansMade(a)' /\ AllReplanned(a)'
    BY <2>1, <2>2 DEF PlansMade, MadeFrom, AllReplanned, Executing, InSection
  <2>4. SameProfile(a)' /\ SameConfiguration(a)' /\ TargetsStand(a)'
    BY <2>1, <2>2 DEF SameProfile, SameConfiguration, TargetsStand, Alone
  <2> QED BY <2>3, <2>4 DEF ProfileSound
<1>2. CASE ShowProfilePlan(a)
  <2>1. pc[a] = "planning" /\ pc'[a] = "shown" /\ shown'[a] = shown[a]
    BY <1>0, <1>2 DEF ShowProfilePlan, Goto, TypesOK, WorkOK
  <2>2. PlansMade(a)' /\ AllReplanned(a)'
    BY <2>1 DEF ProfileSound, PlansMade, AllReplanned, Executing, InSection, Alone
  <2>3. SameProfile(a)' /\ SameConfiguration(a)' /\ TargetsStand(a)'
    BY <2>1 DEF ProfileSound, SameProfile, SameConfiguration, TargetsStand, Alone
  <2> QED BY <2>2, <2>3 DEF ProfileSound
<1>3. CASE Replanned(a)
  <2>1. /\ pc[a] = "replanning" /\ pc'[a] = "sections" /\ stage[a] = 3
        /\ shown'[a] = shown[a] /\ fresh'[a] = fresh[a]
    BY <1>0, <1>3 DEF Replanned, Plugins, Goto, TypesOK, WorkOK
  <2>2. PlansMade(a)'
    BY <2>1 DEF ProfileSound, PlansMade, Executing, Alone
  <2>3. AllReplanned(a)'
    BY <2>1 DEF ProfileSound, AllReplanned, Executing
  <2>4. SameProfile(a)' /\ SameConfiguration(a)' /\ TargetsStand(a)'
    BY <2>1 DEF SameProfile, SameConfiguration, TargetsStand
  <2> QED BY <2>2, <2>3, <2>4 DEF ProfileSound
<1> QED BY <1>1, <1>2, <1>3

LEMMA ConfirmSound ==
    ASSUME TypesOK, NEW a \in Applier, ProfileInv(a), Alone(a), ProfileSound(a),
           ConfirmProfile(a) \/ ConfirmProfileRaises(a) \/ LogProfile(a)
    PROVE  ProfileSound(a)'
<1>0. a \in Request /\ shown'[a] = shown[a]
  BY DEF Request, ConfirmProfile, ConfirmProfileRaises, LogProfile
<1>1. CASE pc'[a] \in {"logging", "answered"}
  BY <1>0, <1>1, OnwardSound DEF Executing, InSection
<1>2. CASE pc'[a] \notin {"logging", "answered"}
  <2>1. /\ pc[a] = "shown" /\ pc'[a] = "replanning" /\ stage'[a] = stage[a]
        /\ fresh'[a] = [NoPlan EXCEPT !.profile = profile]
    BY <1>0, <1>2 DEF ConfirmProfile, ConfirmProfileRaises, LogProfile, Goto,
       TypesOK, WorkOK
  <2>2. DOMAIN fresh'[a].entries = {}
    BY <2>1 DEF NoPlan, Nothing
  <2>3. stage'[a] = 1
    BY <2>1 DEF ProfileInv, ProfileWork
  <2>4. PlansMade(a)'
    BY <1>0, <2>2 DEF ProfileSound, PlansMade, MadeFrom, Alone
  <2>5. AllReplanned(a)'
    BY <2>1, <2>3 DEF AllReplanned
  <2>6. SameProfile(a)' /\ SameConfiguration(a)' /\ TargetsStand(a)'
    BY <2>1 DEF SameProfile, SameConfiguration, TargetsStand
  <2> QED BY <2>4, <2>5, <2>6 DEF ProfileSound
<1> QED BY <1>1, <1>2

LEMMA SectionsSound ==
    ASSUME TypesOK, NEW a \in Applier, ProfileInv(a), Alone(a), ProfileSound(a),
           SkipSection(a) \/ EndSection(a) \/ EnterSection(a)
    PROVE  ProfileSound(a)'
<1>1. /\ a \in Request /\ pc[a] = "sections"
      /\ shown'[a] = shown[a] /\ fresh'[a] = fresh[a]
      /\ pc'[a] \in {"sections", "files", "preset"}
  BY DEF Request, SkipSection, EndSection, EnterSection, AtSection, Goto, TypesOK, WorkOK
<1>2. CASE pc'[a] # "preset"
  BY <1>1, <1>2, OnwardSound DEF Executing
<1>3. CASE pc'[a] = "preset"
  <2>1. held'[a] = config["registry"]
    <3>1. PICK p \in Range(Plugins) :
            /\ held' = [held EXCEPT ![a] = config[p]]
            /\ IF p = "license" THEN Goto(a, "files") ELSE Goto(a, "preset")
      BY <1>1, <1>3 DEF SkipSection, EndSection, EnterSection
    <3>2. p # "license"
      BY <1>1, <1>3, <3>1 DEF Goto, TypesOK, WorkOK
    <3>3. Range(Plugins) = {"license", "registry"}
      BY DEF Range, Plugins
    <3> QED BY <1>1, <3>1, <3>2, <3>3 DEF TypesOK, WorkOK
  <2>2. SameProfile(a)' /\ SameConfiguration(a)' /\ TargetsStand(a)'
    BY <1>3, <2>1 DEF SameProfile, SameConfiguration, TargetsStand, Alone
  <2>3. PlansMade(a)' /\ AllReplanned(a)'
    BY <1>1, <1>3 DEF ProfileSound, PlansMade, AllReplanned, Executing, Alone
  <2> QED BY <2>2, <2>3 DEF ProfileSound
<1> QED BY <1>2, <1>3

LEMMA EntriesSound ==
    ASSUME TypesOK, NEW a \in Applier, ProfileInv(a), Alone(a), ProfileSound(a),
           CheckFile(a) \/ MoveFile(a) \/ ApplyTarget(a)
    PROVE  ProfileSound(a)'
<1>1. /\ a \in Request /\ pc[a] \in InSection
      /\ shown'[a] = shown[a] /\ fresh'[a] = fresh[a]
  BY DEF Request, CheckFile, MoveFile, ApplyTarget, InSection
<1>2. CASE CheckFile(a) \/ MoveFile(a)
  <2>1. pc'[a] \in {"files", "moving", "sections"}
    BY <1>1, <1>2 DEF CheckFile, MoveFile, NextEntry, Goto, TypesOK, WorkOK
  <2> QED BY <1>1, <2>1, OnwardSound DEF Executing, InSection
<1>3. CASE ApplyTarget(a)
  <2>1. pc[a] = "targets" /\ NextEntry(a, "targets")
    BY <1>3 DEF ApplyTarget
  <2>2. left'[a] = Tail(left[a]) /\ pc'[a] \in {"targets", "sections"}
    BY <2>1, NextEntryTo
  <2>3. Range(left'[a]) \subseteq Range(left[a])
    <3>1. Listed(a) /\ left[a] # <<>>
      BY <2>1 DEF ProfileInv, ProfileWork, InSection
    <3> QED BY <2>2, <3>1, RestOf DEF Listed
  <2> QED BY <1>1, <2>1, <2>2, <2>3, OnwardSound DEF Executing, InSection
<1> QED BY <1>2, <1>3

LEMMA ProfileStepSound ==
    ASSUME TypesOK, Purses, Unfailing', NEW a \in Applier, ProfileInv(a), Alone(a),
           ProfileSound(a), Stands(a), ProfileStep(a)
    PROVE  ProfileSound(a)'
<1>1. PlanSection(a) => UNCHANGED look
  BY DEF PlanSection, world
<1> QED BY <1>1, BeginSound, ConfirmSound, SectionSound, SectionsSound, EntriesSound,
       PresetSound DEF ProfileStep, ApplyProfile

---------------------------------------------------------------------------
(* What cannot be planned, from the page to the section of the preset. *)

(* The targets of the preset that cannot be planned at present. *)
ErrorsNow ==
    LET section == RegistrySection(config["registry"], Looked(config["registry"]))
    IN  {x \in DOMAIN section.entries : section.entries[x].status = "error"}

(* These errors have been shown, or others are the reason for them. *)
Covered(a, errors) ==
    "registry" \in DOMAIN shown[a].entries /\ "registry" \notin disturbed[a] =>
        errors \subseteq ErrorsOf(shown[a]) \union disturbed[a]

BeforePreset(a) ==
    \/ pc[a] \in {"replanning", "files", "moving"}
    \/ pc[a] = "sections" /\ stage[a] <= 2

(* As long as the request itself has changed nothing of the preset, what it *)
(* would find unreadable is covered, and so is what it has found.           *)
Legible(a) ==
    /\ pc[a] \in {"planning", "shown", "replanning"} => Covered(a, ErrorsNow)
    /\ BeforePreset(a) => Covered(a, ErrorsOf(fresh[a]))

LEMMA ErrorsSame ==
    ASSUME UNCHANGED <<look, config>> PROVE ErrorsNow' = ErrorsNow
  BY DEF ErrorsNow, RegistrySection, Looked

(* Only what others change comes to be an error. *)
LEMMA ErrorsNoted ==
    ASSUME TypesOK, NEW a \in Applier, Noted(a), pc[a] # "idle",
           "registry" \notin disturbed'[a]
    PROVE  ErrorsNow' \subseteq ErrorsNow \union disturbed'[a]
<1> DEFINE c == config["registry"]
           now == RegistrySection(c, Looked(c))
<1>1. c \in Configurations("registry") /\ config'["registry"] = c
  BY DEF TypesOK, WorldOK, Noted
<1>2. CASE ~Enabled(c) \/ c.preset = None
  <2>1. RegistrySection(c, Looked(c)') = now
    BY <1>2 DEF RegistrySection
  <2> QED BY <1>1, <2>1 DEF ErrorsNow, Looked
<1>3. CASE Enabled(c) /\ c.preset # None
  <2> DEFINE found == Looked(c)
             later == [x \in c.listed |-> look'[c.place][x]]
  <2>1. found = [x \in c.listed |-> look[c.place][x]]
    BY <1>3 DEF Looked
  <2>2. RegistrySection(config["registry"], Looked(config["registry"]))'
          = RegistrySection(c, later)
    BY <1>1, <1>3 DEF RegistrySection, Looked
  <2>3. c.place \in Place /\ c.listed \subseteq Resource
    BY <1>1, <1>3 DEF Configurations, Enabled
  <2>4. \A x \in c.listed \ disturbed'[a] : later[x] = found[x]
    BY <2>1, <2>3 DEF Noted
  <2>5. DOMAIN later = DOMAIN found
    BY <2>1
  <2> HIDE DEF found, later
  <2>6. ASSUME NEW x \in DOMAIN c.preset, x \notin disturbed'[a],
               Planned(later, x, c.preset[x]) = "error"
        PROVE  Planned(found, x, c.preset[x]) = "error"
    <3>1. Unplannable(later, x)
      BY <2>6 DEF Planned
    <3>2. Unplannable(found, x)
      BY <2>1, <2>4, <2>5, <2>6, <3>1 DEF Unplannable
    <3>3. c.preset[x] \in Holding
      BY <1>1, <1>3, <2>6 DEF Configurations, Wishes, Enabled
    <3> HIDE DEF c
    <3> QED BY <3>2, <3>3 DEF Planned, Unplannable, Holding
  <2>7. /\ DOMAIN RegistrySection(c, later).entries = DOMAIN c.preset
        /\ \A x \in DOMAIN c.preset :
             RegistrySection(c, later).entries[x].status = Planned(later, x, c.preset[x])
    BY <1>3 DEF RegistrySection
  <2>8. /\ DOMAIN RegistrySection(c, found).entries = DOMAIN c.preset
        /\ \A x \in DOMAIN c.preset :
             RegistrySection(c, found).entries[x].status = Planned(found, x, c.preset[x])
    BY <1>3 DEF RegistrySection
  <2>9. ErrorsNow' = {x \in DOMAIN c.preset : Planned(later, x, c.preset[x]) = "error"}
    BY <2>2, <2>7 DEF ErrorsNow
  <2>10. ErrorsNow = {x \in DOMAIN c.preset : Planned(found, x, c.preset[x]) = "error"}
    BY <2>8 DEF ErrorsNow, found
  <2> QED BY <2>6, <2>9, <2>10
<1> QED BY <1>2, <1>3

LEMMA KeepsLegible ==
    ASSUME TypesOK, NEW a \in Applier, Legible(a), Keeps(a), Noted(a)
    PROVE  Legible(a)'
<1>1. shown'[a] = shown[a] /\ fresh'[a] = fresh[a] /\ pc'[a] = pc[a]
      /\ stage'[a] = stage[a] /\ disturbed[a] \subseteq disturbed'[a]
  BY DEF Keeps, Noted
<1>2. ASSUME pc[a] \in {"planning", "shown", "replanning"} PROVE Covered(a, ErrorsNow)'
  BY <1>1, <1>2, ErrorsNoted DEF Legible, Covered
<1>3. ASSUME BeforePreset(a) PROVE Covered(a, ErrorsOf(fresh[a]))'
  BY <1>1, <1>3 DEF Legible, Covered
<1> QED BY <1>1, <1>2, <1>3 DEF Legible, BeforePreset

(* A step that leaves its plans alone. *)
LEMMA OnwardLegible ==
    ASSUME NEW a \in Applier, Legible(a), Alone(a),
           pc'[a] \in {"planning", "shown", "replanning"} =>
               /\ pc[a] \in {"planning", "shown", "replanning"}
               /\ UNCHANGED look /\ shown'[a] = shown[a],
           BeforePreset(a)' =>
               BeforePreset(a) /\ shown'[a] = shown[a] /\ fresh'[a] = fresh[a]
    PROVE  Legible(a)'
<1>1. UNCHANGED look => ErrorsNow' = ErrorsNow
  BY ErrorsSame DEF Alone
<1> QED BY <1>1 DEF Legible, Covered, Alone

(* One section is planned: the errors of the preset are those of now. *)
LEMMA SectionLegible ==
    ASSUME TypesOK, Purses, Unfailing', NEW a \in Applier, ProfileInv(a), Alone(a),
           ProfileSound(a), Legible(a), PlanSection(a), UNCHANGED look
    PROVE  Legible(a)'
<1> DEFINE plan == IF pc[a] = "planning" THEN shown[a] ELSE fresh[a]
           p == Plugins[stage[a]]
           section == Section(p, plan.profile, config[p], Looked(config[p]))
<1>1. /\ pc[a] \in {"planning", "replanning"} /\ pc'[a] = pc[a]
      /\ p \in {"license", "registry"}
  BY SectionPlanned
<1>2. PICK new :
        /\ IF pc[a] = "planning"
           THEN shown'[a] = new /\ fresh'[a] = fresh[a]
           ELSE fresh'[a] = new /\ shown'[a] = shown[a]
        /\ IF Uses(plan.profile, p) THEN new = Add(plan, p, section) ELSE new = plan
  BY SectionPlanned
<1>3. ProfilePlan(plan)
  BY <1>1 DEF ProfileInv, ProfileWork
<1>4. p = "registry" =>
        ErrorsNow = {x \in DOMAIN section.entries : section.entries[x].status = "error"}
  BY DEF Section, ErrorsNow
<1> HIDE DEF p, section
<1>5. ErrorsOf(new) \in {ErrorsOf(plan), ErrorsNow}
      /\ ("registry" \in DOMAIN new.entries =>
            ErrorsOf(new) = ErrorsNow \/
            ("registry" \in DOMAIN plan.entries /\ ErrorsOf(new) = ErrorsOf(plan)))
  <2>1. CASE new = Add(plan, p, section)
    <3>1. /\ DOMAIN new.entries = DOMAIN plan.entries \union {p}
          /\ new.entries[p] = section.entries
          /\ \A q \in DOMAIN plan.entries \ {p} : new.entries[q] = plan.entries[q]
      BY <1>1, <1>3, <2>1, AddedTo DEF ProfilePlan
    <3>2. CASE p = "registry"
      BY <1>4, <3>1, <3>2 DEF ErrorsOf
    <3>3. CASE p # "registry"
      BY <3>1, <3>3 DEF ErrorsOf
    <3> QED BY <3>2, <3>3
  <2>2. CASE new = plan
    BY <2>2
  <2> QED BY <1>2, <2>1, <2>2
<1>6. ErrorsNow' = ErrorsNow
  BY ErrorsSame DEF Alone
<1>7. CASE pc[a] = "planning"
  <2>1. shown'[a] = new /\ plan = shown[a] /\ ~BeforePreset(a)'
    BY <1>1, <1>2, <1>7 DEF BeforePreset
  <2>2. Covered(a, ErrorsNow)
    BY <1>7 DEF Legible
  <2>3. Covered(a, ErrorsNow)'
    BY <1>5, <1>6, <2>1, <2>2 DEF Covered, Alone
  <2> QED BY <2>1, <2>3 DEF Legible
<1>8. CASE pc[a] = "replanning"
  <2>1. fresh'[a] = new /\ plan = fresh[a] /\ shown'[a] = shown[a]
    BY <1>2, <1>8
  <2>2. Covered(a, ErrorsNow) /\ Covered(a, ErrorsOf(fresh[a]))
    BY <1>8 DEF Legible, BeforePreset
  <2>3. Covered(a, ErrorsNow)'
    BY <1>6, <2>1, <2>2 DEF Covered, Alone
  <2>4. Covered(a, ErrorsOf(fresh[a]))'
    BY <1>5, <2>1, <2>2 DEF Covered, Alone
  <2> QED BY <1>1, <1>8, <2>3, <2>4 DEF Legible
<1> QED BY <1>1, <1>7, <1>8

LEMMA BeginLegible ==
    ASSUME TypesOK, NEW a \in Applier, ProfileInv(a), Alone(a), Legible(a),
           \/ PreviewProfile(a) \/ ShowProfilePlan(a) \/ Replanned(a)
           \/ ConfirmProfile(a) \/ ConfirmProfileRaises(a) \/ LogProfile(a)
    PROVE  Legible(a)'
<1>0. a \in Request
  BY DEF Request
<1>1. CASE PreviewProfile(a)
  <2>1. pc'[a] = "planning" /\ shown'[a] = [NoPlan EXCEPT !.profile = profile]
    BY <1>0, <1>1 DEF PreviewProfile, Goto, TypesOK, WorkOK
  <2>2. DOMAIN shown'[a].entries = {}
    BY <2>1 DEF NoPlan, Nothing
  <2> QED BY <2>1, <2>2 DEF Legible, Covered, BeforePreset
<1>2. CASE ShowProfilePlan(a)
  <2>1. /\ pc[a] = "planning" /\ pc'[a] = "shown" /\ shown'[a] = shown[a]
        /\ UNCHANGED look
    BY <1>0, <1>2 DEF ShowProfilePlan, Goto, TypesOK, WorkOK, world
  <2> QED BY <2>1, OnwardLegible DEF BeforePreset
<1>3. CASE Replanned(a)
  <2>1. /\ pc[a] = "replanning" /\ pc'[a] = "sections"
        /\ shown'[a] = shown[a] /\ fresh'[a] = fresh[a]
    BY <1>0, <1>3 DEF Replanned, Goto, TypesOK, WorkOK
  <2> QED BY <2>1, OnwardLegible DEF BeforePreset
<1>4. CASE ConfirmProfile(a) \/ ConfirmProfileRaises(a) \/ LogProfile(a)
  <2>1. CASE pc'[a] \in {"logging", "answered"}
    BY <2>1 DEF Legible, BeforePreset
  <2>2. CASE pc'[a] \notin {"logging", "answered"}
    <3>1. /\ pc[a] = "shown" /\ pc'[a] = "replanning"
          /\ fresh'[a] = [NoPlan EXCEPT !.profile = profile]
          /\ shown'[a] = shown[a] /\ UNCHANGED look
      BY <1>0, <1>4, <2>2 DEF ConfirmProfile, ConfirmProfileRaises, LogProfile, Goto,
         TypesOK, WorkOK, world
    <3>2. DOMAIN fresh'[a].entries = {}
      BY <3>1 DEF NoPlan, Nothing
    <3>3. ErrorsOf(fresh'[a]) = {}
      BY <3>2 DEF ErrorsOf
    <3>4. ErrorsNow' = ErrorsNow
      BY <3>1, ErrorsSame DEF Alone
    <3> QED BY <3>1, <3>3, <3>4 DEF Legible, Covered, Alone
  <2> QED BY <2>1, <2>2
<1> QED BY <1>1, <1>2, <1>3, <1>4

LEMMA SectionsLegible ==
    ASSUME TypesOK, NEW a \in Applier, ProfileInv(a), Alone(a), Legible(a),
           \/ SkipSection(a) \/ EndSection(a) \/ EnterSection(a)
           \/ CheckFile(a) \/ MoveFile(a) \/ PlanPreset(a) \/ ApplyTarget(a)
    PROVE  Legible(a)'
<1>0. a \in Request /\ shown'[a] = shown[a]
  BY DEF Request, SkipSection, EndSection, EnterSection, CheckFile, MoveFile,
     PlanPreset, ApplyTarget
<1>1. CASE SkipSection(a) \/ EndSection(a) \/ EnterSection(a)
  <2>1. /\ pc[a] = "sections" /\ stage[a] <= 2 /\ fresh'[a] = fresh[a]
        /\ pc'[a] \in {"sections", "files", "preset"}
    BY <1>0, <1>1 DEF SkipSection, EndSection, EnterSection, AtSection, Plugins, Goto,
       TypesOK, WorkOK
  <2> QED BY <1>0, <2>1, OnwardLegible DEF BeforePreset
<1>2. CASE CheckFile(a) \/ MoveFile(a)
  <2>1. /\ pc[a] \in {"files", "moving"} /\ fresh'[a] = fresh[a]
        /\ pc'[a] \in {"files", "moving", "sections"}
    BY <1>0, <1>2 DEF CheckFile, MoveFile, NextEntry, Goto, TypesOK, WorkOK
  <2> QED BY <1>0, <2>1, OnwardLegible DEF BeforePreset
<1>3. CASE PlanPreset(a) \/ ApplyTarget(a)
  <2>1. pc[a] \in {"preset", "targets"} /\ stage[a] = 2
    BY <1>3 DEF PlanPreset, ApplyTarget, ProfileInv, ProfileWork
  <2>2. \/ pc'[a] = "targets"
        \/ pc'[a] = "sections" /\ stage'[a] = 3
    <3>1. \/ Goto(a, "targets")
          \/ Goto(a, "sections") /\ NextSection(a)
      BY <1>3 DEF PlanPreset, ApplyTarget, NextEntry
    <3> QED BY <1>0, <2>1, <3>1 DEF Goto, NextSection, TypesOK, WorkOK
  <2> QED BY <2>2 DEF Legible, BeforePreset
<1> QED BY <1>1, <1>2, <1>3

LEMMA ProfileStepLegible ==
    ASSUME TypesOK, Purses, Unfailing', NEW a \in Applier, ProfileInv(a), Alone(a),
           ProfileSound(a), Legible(a), ProfileStep(a)
    PROVE  Legible(a)'
<1>1. PlanSection(a) => UNCHANGED look
  BY DEF PlanSection, world
<1> QED BY <1>1, BeginLegible, SectionLegible, SectionsLegible
        DEF ProfileStep, ApplyProfile

---------------------------------------------------------------------------
(* Why an entry of a profile is called stale. *)

LEMMA ExcusesWith ==
    ASSUME NEW r \in Request, NEW g, result'[r] = Over(g, result[r]),
           \A pair \in EntriesShown(r) :
              /\ pair[2].status = "change"
              /\ pair[1] \in DOMAIN g /\ g[pair[1]] = "stale"
              => ~Calm(r, pair[1]) \/ (pair[1] \in Target /\ Spoilers(r) # {})
    PROVE  Excuses(r)
<1>1. \A x : x \in Results(r, "stale")' \ Results(r, "stale") =>
          x \in DOMAIN g /\ g[x] = "stale"
  BY DEF Over, Results
<1> QED BY <1>1 DEF Excuses

LEMMA ExcusesOne ==
    ASSUME NEW r \in Request, NEW x, NEW status,
           result'[r] = Over(Only(x, status), result[r]),
           status = "stale" =>
              \A pair \in EntriesShown(r) :
                 pair[2].status = "change" /\ pair[1] = x => ~Calm(r, x)
    PROVE  Excuses(r)
<1> DEFINE g == Only(x, status)
<1>1. DOMAIN g = {x} /\ g[x] = status
  BY DEF Only
<1> HIDE DEF g
<1> QED BY <1>1, ExcusesWith DEF g

LEMMA ExcusesNone ==
    ASSUME NEW r \in Request, result'[r] = result[r]
    PROVE  Excuses(r)
  BY DEF Excuses, Results

(* What is calm was shown by the configuration that is still saved. *)
LEMMA ShownBy ==
    ASSUME TypesOK, NEW a \in Applier, ProfileInv(a), ProfileSound(a),
           NEW pair \in EntriesShown(a), pair[2].status = "change", Calm(a, pair[1])
    PROVE  LET p == PluginOf(pair[1]) IN
           /\ p \in {"license", "registry"} /\ p \in DOMAIN shown[a].entries
           /\ pair[1] \in DOMAIN shown[a].entries[p]
           /\ pair[2] = shown[a].entries[p][pair[1]]
           /\ p \notin disturbed[a] /\ Uses(shown[a].profile, p)
           /\ shown[a].authority[p] = AuthorityOf(p, shown[a].profile, config[p])
           /\ shown[a].authority[p][1] = config[p] /\ Enabled(config[p])
           /\ config[p] \in Configurations(p)
           /\ p = "registry" => shown[a].authority[p][2] = "planned"
<1> DEFINE p == PluginOf(pair[1])
<1>1. /\ p \in {"license", "registry"} /\ p \in DOMAIN shown[a].entries
      /\ pair[1] \in DOMAIN shown[a].entries[p]
      /\ pair[2] = shown[a].entries[p][pair[1]]
      /\ Enabled(shown[a].authority[p][1])
  BY ProfilePair DEF By
<1>2. p \notin disturbed[a]
  BY DEF Calm, Reasons
<1>3. /\ Uses(shown[a].profile, p)
      /\ shown[a].authority[p] = AuthorityOf(p, shown[a].profile, config[p])
  BY <1>1, <1>2 DEF ProfileSound, PlansMade, MadeFrom
<1>4. config[p] \in Configurations(p)
  BY <1>1 DEF TypesOK, WorldOK
<1> HIDE DEF p
<1>5. ~Enabled(None)
  BY DEF Enabled
<1>6. /\ shown[a].authority[p][1] = config[p]
      /\ p = "registry" => shown[a].authority[p][2] = "planned"
  BY <1>1, <1>3, <1>5 DEF AuthorityOf
<1> QED BY <1>1, <1>2, <1>3, <1>4, <1>6 DEF p

LEMMA ConfirmExcuses ==
    ASSUME NEW a \in Applier, ProfileSound(a), ConfirmProfile(a)
    PROVE  Excuses(a)
<1>1. CASE profile = shown[a].profile
  <2>1. UNCHANGED result
    BY <1>1 DEF ConfirmProfile
  <2> QED BY <2>1, ExcusesNone DEF Request
<1>2. CASE profile # shown[a].profile
  <2>1. "profile" \in disturbed[a]
    BY <1>2 DEF ConfirmProfile, ProfileSound, SameProfile
  <2>2. \A x : ~Calm(a, x)
    BY <2>1 DEF Calm, Reasons
  <2> QED BY <2>2 DEF Excuses
<1> QED BY <1>1, <1>2

(* A section with a calm change is not stale, and the plugin takes it: unless *)
(* it is a preset with a target that cannot be planned.                       *)
LEMMA SectionTaken ==
    ASSUME TypesOK, NEW a \in Applier, ProfileInv(a), ProfileSound(a), Legible(a),
           NEW pair \in EntriesShown(a), pair[2].status = "change", Calm(a, pair[1]),
           NEW p, p = PluginOf(pair[1]), pc[a] = "sections", stage[a] <= 2,
           p = "registry" => Spoilers(a) = {}
    PROVE  ~StaleSection(a, p) /\ Refusal(a, p) = "none"
<1>1. /\ p \in {"license", "registry"} /\ p \in DOMAIN shown[a].entries
      /\ p \notin disturbed[a] /\ Uses(shown[a].profile, p)
      /\ shown[a].authority[p] = AuthorityOf(p, shown[a].profile, config[p])
      /\ shown[a].authority[p][1] = config[p] /\ Enabled(config[p])
      /\ p = "registry" => shown[a].authority[p][2] = "planned"
  BY ShownBy
<1>2. fresh[a].profile = shown[a].profile
  BY DEF ProfileInv, ProfileWork
<1>3. p \in DOMAIN fresh[a].entries /\ p \in DOMAIN fresh[a].authority
  <2>1. PICK i \in 1..2 : p = Plugins[i]
    <3>1. Plugins[1] = "license" /\ Plugins[2] = "registry"
      BY DEF Plugins
    <3> QED BY <1>1, <3>1
  <2>2. p \in DOMAIN fresh[a].entries
    BY <1>1, <1>2, <2>1 DEF ProfileSound, AllReplanned, Executing
  <2> QED BY <2>2 DEF ProfileInv, ProfileWork, ProfilePlan
<1>4. fresh[a].authority[p] = shown[a].authority[p]
  BY <1>1, <1>2, <1>3 DEF ProfileSound, PlansMade, MadeFrom, Executing
<1>5. ASSUME NEW plan \in {shown[a], fresh[a]}, NEW x \in DOMAIN plan.entries[p]
      PROVE  plan.entries[p][x].status # "error"
  <2>1. CASE p = "license"
    <3>1. Faithful(p, plan.authority[p], plan.entries[p])
      BY <1>1, <1>3 DEF ProfileSound, PlansMade, MadeFrom, Executing
    <3>2. plan.authority[p][1] = config[p]
      BY <1>1, <1>4
    <3> QED BY <1>1, <2>1, <3>1, <3>2 DEF Faithful
  <2>2. CASE p = "registry"
    <3>1. ErrorsOf(fresh[a]) \subseteq ErrorsOf(shown[a]) \union disturbed[a]
      BY <1>1, <2>2 DEF Legible, BeforePreset, Covered
    <3>2. ErrorsOf(shown[a]) = {} /\ ErrorsOf(fresh[a]) = {}
      BY <2>2, <3>1 DEF Spoilers
    <3> QED BY <1>1, <1>3, <2>2, <3>2 DEF ErrorsOf
  <2> QED BY <1>1, <2>1, <2>2
<1>6. ~StaleSection(a, p)
  BY <1>3, <1>4, <1>5 DEF StaleSection
<1>7. p = "license" => shown[a].authority[p] = <<config[p], shown[a].profile.licenses>>
  BY <1>1 DEF AuthorityOf
<1>8. Refusal(a, p) = "none"
  BY <1>1, <1>7 DEF Refusal
<1> QED BY <1>6, <1>8

LEMMA EndExcuses ==
    ASSUME TypesOK, Purses, Unfailing', NEW a \in Applier, ProfileInv(a),
           ProfileSound(a), Legible(a), EndSection(a)
    PROVE  Excuses(a)
<1>1. PICK p, status :
        /\ AtSection(a, p) /\ p \in DOMAIN shown[a].entries
        /\ \/ StaleSection(a, p)
           \/ status = "failed"
           \/ status = Refusal(a, p)
        /\ status \in {"stale", "failed", "blocked"}
        /\ result' = [result EXCEPT ![a] = Ended(a, p, status)]
  BY DEF EndSection
<1> DEFINE g == [x \in DOMAIN shown[a].entries[p] |-> status]
<1>2. a \in Request /\ result'[a] = Over(g, result[a])
  BY <1>1 DEF Request, Ended, TypesOK, WorkOK
<1>3. /\ pc[a] = "sections" /\ p \in {"license", "registry"} /\ stage[a] <= 2
      /\ DOMAIN shown[a].entries[p] \subseteq Keys(p)
  <2>1. stage[a] <= 2
    BY <1>1 DEF AtSection, Plugins
  <2> QED BY <1>1, <2>1, SectionAt
<1>4. ASSUME NEW pair \in EntriesShown(a), pair[2].status = "change",
             pair[1] \in DOMAIN g, g[pair[1]] = "stale", Calm(a, pair[1]),
             ~(pair[1] \in Target /\ Spoilers(a) # {})
      PROVE  FALSE
  <2>1. status = "stale" /\ pair[1] \in Keys(p)
    BY <1>3, <1>4
  <2>2. LET q == PluginOf(pair[1])
        IN  q \in {"license", "registry"} /\ pair[1] \in Keys(q)
    BY <1>4, ShownBy DEF ProfileInv, ProfileWork, ProfilePlan
  <2>3. p = PluginOf(pair[1])
    BY <1>3, <2>1, <2>2, KeysApart
  <2>4. p = "registry" => Spoilers(a) = {}
    <3>1. pair[1] \in Resource
      BY <1>4, ProfilePair
    <3> QED BY <1>4, <2>3, <3>1, PluginOfThings
  <2>5. ~StaleSection(a, p) /\ Refusal(a, p) = "none"
    BY <1>3, <1>4, <2>3, <2>4, SectionTaken
  <2> QED BY <1>1, <2>1, <2>5
<1> HIDE DEF g
<1> QED BY <1>2, <1>4, ExcusesWith

(* A file that is calm is found as it was shown. *)
LEMMA FileAsShown ==
    ASSUME TypesOK, NEW a \in Applier, ProfileInv(a), ProfileSound(a), Stands(a),
           pc[a] \in {"files", "moving"},
           NEW pair \in EntriesShown(a), pair[2].status = "change",
           pair[1] = Head(left[a]), Calm(a, pair[1])
    PROVE  LET c == held[a]
               x == Head(left[a])
               entry == shown[a].entries["license"][x]
           IN  /\ c # None /\ x \in c.listed /\ entry.status = "change"
               /\ Fingerprint(c, Looked(c), x) = entry.fingerprint
<1> DEFINE c == held[a]
           x == Head(left[a])
           entry == shown[a].entries["license"][x]
<1>1. /\ "license" \in DOMAIN shown[a].entries /\ x \in DOMAIN shown[a].entries["license"]
      /\ held[a] = shown[a].authority["license"][1]
      /\ x \notin DOMAIN result[a] /\ x \in Resource
      /\ entry.status = "change" => ChangeOf(x, entry) /\ By(c, x, entry)
  BY FirstOfSection DEF InSection
<1>2. PluginOf(x) = "license"
  <2>1. x \in Keys("license")
    BY <1>1 DEF ProfileInv, ProfileWork, ProfilePlan
  <2> QED BY <1>1, <2>1, NamesAssumption, PluginOfThings DEF NamesAssumption, Keys
<1>3. /\ pair[2] = entry
      /\ shown[a].authority["license"][1] = config["license"]
      /\ config["license"] \in Configurations("license")
  BY <1>2, ShownBy
<1>4. c \in Configurations("license") /\ ChangeOf(x, entry) /\ By(c, x, entry)
  BY <1>1, <1>3
<1>5. look[entry.place][x] = entry.fingerprint.look
  BY <1>1, <1>3 DEF Stands
<1>6. Fingerprint(c, Looked(c), x) = entry.fingerprint
  <2> HIDE DEF c, x, entry
  <2> QED BY <1>4, <1>5, PlannedAsShown DEF TypesOK
<1> QED BY <1>3, <1>4, <1>6 DEF By, Enabled

LEMMA CheckExcuses ==
    ASSUME TypesOK, Purses, Unfailing', NEW a \in Applier, ProfileInv(a),
           ProfileSound(a), Stands(a), CheckFile(a)
    PROVE  Excuses(a)
<1> DEFINE c == held[a]
           x == Head(left[a])
           entry == shown[a].entries["license"][x]
           known == c = None \/ (c # None /\ x \in c.listed)
<1>1. a \in Request /\ pc[a] = "files"
  BY DEF CheckFile, Request
<1>2. PICK insp \in Inspections(c) :
        /\ InspectedAs(c, insp)
        /\ \/ /\ ~known \/ Fingerprint(c, insp, x) # entry.fingerprint
              /\ EntryEnds(a, x, "stale")
           \/ entry.status # "change" /\ EntryEnds(a, x, entry.status)
           \/ UNCHANGED result
  BY DEF CheckFile
<1>3. insp = Looked(c)
  BY <1>2, FoundAsItIs
<1>4. ASSUME NEW pair \in EntriesShown(a), pair[2].status = "change",
             pair[1] = x, Calm(a, x)
      PROVE  known /\ Fingerprint(c, insp, x) = entry.fingerprint /\ entry.status = "change"
  BY <1>1, <1>3, <1>4, FileAsShown
<1>5. \A status : EntryEnds(a, x, status) =>
          result'[a] = Over(Only(x, status), result[a])
  BY <1>1 DEF EntryEnds, TypesOK, WorkOK
<1> HIDE DEF c, x, entry, known
<1>6. CASE UNCHANGED result
  BY <1>1, <1>6, ExcusesNone
<1>7. CASE EntryEnds(a, x, "stale") /\ (~known \/ Fingerprint(c, insp, x) # entry.fingerprint)
  BY <1>1, <1>4, <1>5, <1>7, ExcusesOne
<1>8. CASE entry.status # "change" /\ EntryEnds(a, x, entry.status)
  BY <1>1, <1>4, <1>5, <1>8, ExcusesOne
<1> QED BY <1>2, <1>6, <1>7, <1>8

(* What was changed, or was to be, is not called stale. *)
LEMMA ChangeExcuses ==
    ASSUME NEW r \in Request, DOMAIN result = Request, NEW place, NEW x, NEW found,
           NEW desired, Change(r, place, x, found, desired)
    PROVE  Excuses(r)
<1>1. PICK status \in {"success", "failed"} :
        result' = [result EXCEPT ![r] = Over(Only(x, status), @)]
  BY DEF Change
<1>2. result'[r] = Over(Only(x, status), result[r])
  BY <1>1
<1> QED BY <1>2, ExcusesOne

LEMMA MoveExcuses ==
    ASSUME TypesOK, Purses, Unfailing', NEW a \in Applier, ProfileInv(a),
           ProfileSound(a), Stands(a), MoveFile(a)
    PROVE  Excuses(a)
<1> DEFINE c == held[a]
           x == Head(left[a])
           entry == shown[a].entries["license"][x]
<1>1. a \in Request /\ pc[a] = "moving" /\ DOMAIN result = Request
  BY DEF MoveFile, Request, TypesOK, WorkOK
<1>2. \/ \E insp \in Inspections(c) : \E status :
            /\ InspectedAs(c, insp)
            /\ Fingerprint(c, insp, x) # entry.fingerprint
            /\ EntryEnds(a, x, status)
      \/ Change(a, c.place, x, entry.fingerprint.look, entry.desired)
  BY DEF MoveFile
<1>3. ASSUME NEW insp, NEW status, InspectedAs(c, insp),
             Fingerprint(c, insp, x) # entry.fingerprint, EntryEnds(a, x, status)
      PROVE  Excuses(a)
  <2>1. insp = Looked(c)
    BY <1>3, FoundAsItIs
  <2>2. ASSUME NEW pair \in EntriesShown(a), pair[2].status = "change", pair[1] = x
        PROVE  ~Calm(a, x)
    BY <1>1, <1>3, <2>1, <2>2, FileAsShown
  <2>3. result'[a] = Over(Only(x, status), result[a])
    BY <1>1, <1>3 DEF EntryEnds
  <2> HIDE DEF x
  <2> QED BY <1>1, <2>2, <2>3, ExcusesOne
<1>4. CASE Change(a, c.place, x, entry.fingerprint.look, entry.desired)
  BY <1>1, <1>4, ChangeExcuses
<1> QED BY <1>2, <1>3, <1>4

LEMMA PresetExcuses ==
    ASSUME TypesOK, NEW a \in Applier, ProfileInv(a), ProfileSound(a), PlanPreset(a)
    PROVE  Excuses(a)
<1>1. a \in Request /\ pc[a] = "preset"
  BY DEF PlanPreset, Request
<1>2. \/ /\ held[a] # shown[a].authority["registry"][1]
         /\ result' = [result EXCEPT ![a] = Ended(a, "registry", "stale")]
      \/ UNCHANGED result
  BY DEF PlanPreset
<1>3. CASE UNCHANGED result
  BY <1>1, <1>3, ExcusesNone
<1>4. CASE /\ held[a] # shown[a].authority["registry"][1]
           /\ result' = [result EXCEPT ![a] = Ended(a, "registry", "stale")]
  <2> DEFINE g == [x \in DOMAIN shown[a].entries["registry"] |-> "stale"]
  <2>1. result'[a] = Over(g, result[a])
    BY <1>1, <1>4 DEF Ended, TypesOK, WorkOK
  <2>2. ASSUME NEW pair \in EntriesShown(a), pair[2].status = "change",
               pair[1] \in DOMAIN g, Calm(a, pair[1])
        PROVE  FALSE
    <3>1. pair[1] \in Keys("registry")
      BY <1>1, <2>2 DEF ProfileInv, ProfileWork, ProfilePlan
    <3>2. LET q == PluginOf(pair[1])
          IN  q \in {"license", "registry"} /\ pair[1] \in Keys(q)
      BY <2>2, ShownBy DEF ProfileInv, ProfileWork, ProfilePlan
    <3>3. PluginOf(pair[1]) = "registry"
      BY <3>1, <3>2, KeysApart
    <3>4. /\ "registry" \notin disturbed[a]
          /\ shown[a].authority["registry"][1] = config["registry"]
      BY <2>2, <3>3, ShownBy
    <3> QED BY <1>1, <1>4, <3>4 DEF ProfileSound, SameConfiguration
  <2> HIDE DEF g
  <2> QED BY <1>1, <2>1, <2>2, ExcusesWith
<1> QED BY <1>2, <1>3, <1>4

LEMMA TargetExcuses ==
    ASSUME TypesOK, NEW a \in Applier, ProfileInv(a), ProfileSound(a), ApplyTarget(a)
    PROVE  Excuses(a)
<1> DEFINE x == Head(left[a])
           entry == shown[a].entries["registry"][x]
           now == fresh[a].entries["registry"][x]
<1>1. a \in Request /\ pc[a] = "targets" /\ DOMAIN result = Request
  BY DEF ApplyTarget, Request, TypesOK, WorkOK
<1>2. \/ Change(a, held[a].place, x, now.fingerprint.look, entry.desired)
      \/ /\ ~(/\ entry.status = "change" /\ now.status = "change"
              /\ now.fingerprint = entry.fingerprint)
         /\ \E status : EntryEnds(a, x, status)
  BY DEF ApplyTarget
<1>3. CASE Change(a, held[a].place, x, now.fingerprint.look, entry.desired)
  BY <1>1, <1>3, ChangeExcuses
<1>4. ASSUME NEW status, EntryEnds(a, x, status),
             ~(/\ entry.status = "change" /\ now.status = "change"
               /\ now.fingerprint = entry.fingerprint)
      PROVE  Excuses(a)
  <2>1. ASSUME NEW pair \in EntriesShown(a), pair[2].status = "change", pair[1] = x
        PROVE  ~Calm(a, x)
    <3>1. /\ "registry" \in DOMAIN shown[a].entries
          /\ x \in DOMAIN shown[a].entries["registry"]
      BY <1>1, FirstOfSection DEF InSection
    <3>2. EntryShown(a, x) = entry
      BY <3>1, ProfileShown
    <3>3. pair[2] = entry
      <4>1. PICK p \in DOMAIN shown[a].entries :
              \E y \in DOMAIN shown[a].entries[p] : pair = <<y, shown[a].entries[p][y]>>
        BY <2>1 DEF EntriesShown
      <4>2. x \in DOMAIN shown[a].entries[p] /\ pair[2] = shown[a].entries[p][x]
        BY <2>1, <4>1
      <4> QED BY <3>2, <4>2, ProfileShown
    <3>4. x \in Range(left[a])
      <4>1. Listed(a) /\ left[a] # <<>>
        BY <1>1 DEF ProfileInv, ProfileWork, InSection
      <4> QED BY <4>1, RestOf DEF Listed
    <3> QED BY <1>1, <1>4, <2>1, <3>3, <3>4 DEF ProfileSound, TargetsStand
  <2>2. result'[a] = Over(Only(x, status), result[a])
    BY <1>1, <1>4 DEF EntryEnds
  <2> HIDE DEF x
  <2> QED BY <1>1, <2>1, <2>2, ExcusesOne
<1> QED BY <1>2, <1>3, <1>4

LEMMA ProfileExcuses ==
    ASSUME TypesOK, Purses, Unfailing', NEW a \in Applier, ProfileInv(a),
           ProfileSound(a), Legible(a), Stands(a), ProfileStep(a)
    PROVE  Excuses(a)
<1>1. CASE \/ PreviewProfile(a) \/ ConfirmProfileRaises(a) \/ PlanSection(a)
           \/ ShowProfilePlan(a) \/ Replanned(a) \/ SkipSection(a) \/ EnterSection(a)
           \/ LogProfile(a)
  <2>1. UNCHANGED result
    BY <1>1 DEF PreviewProfile, ConfirmProfileRaises, PlanSection, ShowProfilePlan,
       Replanned, SkipSection, EnterSection, LogProfile
  <2> QED BY <2>1, ExcusesNone DEF Request
<1> QED BY <1>1, ConfirmExcuses, EndExcuses, CheckExcuses, MoveExcuses, PresetExcuses,
       TargetExcuses DEF ProfileStep, ApplyProfile

---------------------------------------------------------------------------
(* A restore, from its page to the end. *)

(* The snapshot is the one that is shown, unless it has been deleted. *)
SnapshotAsShown(s) ==
    /\ pc[s] = "capturing" => snapshot \in {None, fresh[s].profile}
    /\ pc[s] = "shown" => snapshot \in {None, shown[s].profile}
    /\ pc[s] \in {"recapturing"} \union Restoring => fresh[s].profile = shown[s].profile

(* What has been captured is all that the plugins have, as it is. *)
CapturedTruly(s) ==
    pc[s] \in {"capturing", "recapturing"} =>
        \A i \in 1..3 :
            LET p == Capturing[i]
                c == config[p]
            IN  i < stage[s] /\ p \notin disturbed[s] /\ Enabled(c) =>
                  \A x \in c.listed :
                    /\ x \in DOMAIN fresh[s].authority
                    /\ x \notin disturbed[s] =>
                         fresh[s].authority[x].look = look[c.place][x]

(* What is shown as a change is to be as in the snapshot, by the saved      *)
(* configuration unless that has changed.                                   *)
RestoreFits(s) ==
    pc[s] \notin {"idle", "capturing"} =>
        \A x \in DOMAIN shown[s].entries["snapshot"] :
            LET entry == shown[s].entries["snapshot"][x]
                p == PluginOf(x)
            IN  entry.status = "change" =>
                  /\ entry.desired = shown[s].profile[x].look.status
                  /\ p \in disturbed[s] \/ By(config[p], x, entry)

HeldFits(s) ==
    pc[s] = "restoring" =>
        LET p == PluginOf(Head(left[s]))
        IN  p \in disturbed[s] \/ held[s] = config[p]

(* What is calm is planned again as it was shown. *)
EntriesStand(s) ==
    pc[s] \in Restoring =>
        \A x \in DOMAIN shown[s].entries["snapshot"] :
            LET entry == shown[s].entries["snapshot"][x]
                now == fresh[s].entries["snapshot"][x]
            IN  entry.status = "change" /\ Calm(s, x) =>
                    now.status = "change" /\ now.fingerprint = entry.fingerprint

(* What is in the snapshot is done with, or left to do. *)
AllLeft(s) ==
    pc[s] \in Restoring =>
        DOMAIN shown[s].profile \subseteq DOMAIN result[s] \union Range(left[s])

RestoreSound(s) ==
    /\ SnapshotAsShown(s) /\ CapturedTruly(s) /\ RestoreFits(s)
    /\ HeldFits(s) /\ EntriesStand(s) /\ AllLeft(s)

LEMMA KeepsRestoreSound ==
    ASSUME TypesOK, NEW s \in Restorer, RestoreInv(s), RestoreSound(s), Keeps(s), Noted(s)
    PROVE  RestoreSound(s)'
<1>1. SnapshotAsShown(s)'
  BY DEF RestoreSound, SnapshotAsShown, Keeps, Noted
<1>2. ASSUME pc[s] # "idle", NEW p \in {"license", "logs", "registry"}, p \notin disturbed'[s]
      PROVE  p \notin disturbed[s] /\ config'[p] = config[p]
  BY <1>2 DEF Noted, TypesOK, WorldOK
<1>3. CapturedTruly(s)'
  <2> SUFFICES ASSUME pc[s] \in {"capturing", "recapturing"}, NEW i \in 1..3,
                      i < stage[s], Capturing[i] \notin disturbed'[s],
                      Enabled(config'[Capturing[i]]),
                      NEW x \in config'[Capturing[i]].listed
               PROVE  /\ x \in DOMAIN fresh[s].authority
                      /\ x \notin disturbed'[s] =>
                           fresh[s].authority[x].look = look'[config'[Capturing[i]].place][x]
    BY DEF CapturedTruly, Keeps
  <2> DEFINE p == Capturing[i]
  <2>1. p \in {"license", "logs", "registry"}
    BY DEF Capturing
  <2>2. p \notin disturbed[s] /\ config'[p] = config[p]
    BY <1>2, <2>1
  <2>3. config[p] \in Configurations(p) /\ config[p] # None
    BY <2>1, <2>2 DEF TypesOK, WorldOK, Enabled
  <2>4. config[p].place \in Place /\ x \in Resource
    BY <2>2, <2>3 DEF Configurations
  <2>5. /\ x \in DOMAIN fresh[s].authority
        /\ x \notin disturbed[s] => fresh[s].authority[x].look = look[config[p].place][x]
    BY <2>2 DEF RestoreSound, CapturedTruly
  <2> QED BY <2>2, <2>4, <2>5 DEF Noted
<1>4. RestoreFits(s)'
  <2>1. \A x : PluginOf(x) \in {"license", "logs", "registry"}
    BY DEF PluginOf
  <2> QED BY <1>2, <2>1 DEF RestoreSound, RestoreFits, Keeps
<1>5. HeldFits(s)'
  <2>1. PluginOf(Head(left[s])) \in {"license", "logs", "registry"}
    BY DEF PluginOf
  <2> QED BY <1>2, <2>1 DEF RestoreSound, HeldFits, Keeps
<1>6. EntriesStand(s)' /\ AllLeft(s)'
  <2>1. \A x : Calm(s, x)' => Calm(s, x)
    BY DEF Calm, Reasons, Noted
  <2> QED BY <2>1 DEF RestoreSound, EntriesStand, AllLeft, Keeps
<1> QED BY <1>1, <1>3, <1>4, <1>5, <1>6 DEF RestoreSound

(* Without a failure, the plan is the one that nothing is wrong with. *)
LEMMA PlanFound ==
    ASSUME Purses, Unfailing', NEW s \in Restorer, NEW plan \in Plans(s),
           PlannedAs(s, plan)
    PROVE  LET present == fresh[s].authority
               saved == fresh[s].profile
           IN  /\ DOMAIN plan = DOMAIN present \union DOMAIN saved
               /\ \A x \in DOMAIN plan :
                    plan[x] = RestoreEntry(config[PluginOf(x)], x, present, saved)
<1> DEFINE present == fresh[s].authority
           saved == fresh[s].profile
           all == DOMAIN present \union DOMAIN saved
           whole == [x \in all |-> RestoreEntry(config[PluginOf(x)], x, present, saved)]
<1>1. DOMAIN Difference(present, saved) = all
  BY DEF Difference
<1>2. \/ plan = whole
      \/ \E x \in all : plan = [whole EXCEPT ![x].status = "error"]
  BY <1>1 DEF Plans
<1>3. ASSUME NEW y \in all, plan = [whole EXCEPT ![y].status = "error"] PROVE FALSE
  <2>1. "status" \in DOMAIN whole[y]
    BY DEF RestoreEntry
  <2>2. y \in DOMAIN plan /\ plan[y].status = "error"
    <3>1. y \in DOMAIN whole
      OBVIOUS
    <3> HIDE DEF whole
    <3> QED BY <1>3, <2>1, <3>1
  <2>3. Fault
    BY <2>2 DEF PlannedAs
  <2> QED BY <2>3, FaultFails
<1>4. plan = whole
  BY <1>2, <1>3
<1> QED BY <1>4

(* What is as it was shown takes the same to restore. *)
LEMMA RestoreAgain ==
    ASSUME NEW c, NEW x, NEW entry, ChangeOf(x, entry), By(c, x, entry),
           NEW saved, x \in DOMAIN saved, saved[x].look.status = entry.desired,
           x \in Target => saved[x].place = entry.place,
           NEW present, x \in DOMAIN present, present[x].look = entry.fingerprint.look
    PROVE  /\ RestoreEntry(c, x, present, saved).status = "change"
           /\ RestoreEntry(c, x, present, saved).fingerprint = entry.fingerprint
<1>1. /\ entry.desired \in Holding /\ x \notin Source
      /\ present[x].look.status \in Holding \ {entry.desired}
  BY NamesAssumption DEF ChangeOf, NamesAssumption
<1>2. Restorable(c, x, saved[x])
  BY <1>1 DEF Restorable, By
<1>3. ~Unplannable([y \in {x} |-> present[x].look], x)
  BY <1>1 DEF Unplannable, Holding
<1>4. Planned([y \in {x} |-> present[x].look], x, saved[x].look.status) = "change"
  BY <1>1, <1>3 DEF Planned
<1>5. Required(c, x, present, saved) = "change"
  BY <1>2, <1>4 DEF Required
<1>6. Difference(present, saved)[x] = "changed"
  <2>1. present[x] # saved[x]
    BY <1>1
  <2> QED BY <2>1 DEF Difference
<1>7. EntryStatus(c, x, present, saved) = "change"
  BY <1>1, <1>5, <1>6 DEF EntryStatus
<1>8. PlaceOf(c) = entry.place
  BY DEF By, Enabled, PlaceOf
<1> DEFINE new == RestoreEntry(c, x, present, saved)
<1>9. /\ new.status = EntryStatus(c, x, present, saved)
      /\ new.fingerprint = [place |-> IF x \in File THEN PlaceOf(c) ELSE None,
                            look  |-> present[x].look]
  BY DEF RestoreEntry
<1> HIDE DEF new
<1>10. PICK seen : entry.fingerprint
                     = [place |-> IF x \in File THEN entry.place ELSE None, look |-> seen]
  BY DEF ChangeOf
<1>11. entry.fingerprint.look = seen
  BY <1>10
<1>12. new.fingerprint = entry.fingerprint
  BY <1>8, <1>9, <1>10, <1>11
<1> QED BY <1>7, <1>9, <1>12 DEF new

(* What is calm and was planned by the saved configuration has been         *)
(* captured as it is, once every plugin has been asked.                     *)
LEMMA CapturedAsIs ==
    ASSUME NEW s \in Restorer, RestoreSound(s), pc[s] \in {"capturing", "recapturing"},
           stage[s] = 4, NEW x \in Resource, NEW entry,
           x \notin disturbed[s], PluginOf(x) \notin disturbed[s],
           By(config[PluginOf(x)], x, entry)
    PROVE  /\ x \in DOMAIN fresh[s].authority
           /\ fresh[s].authority[x].look = look[entry.place][x]
<1>1. PICK i \in 1..3 : PluginOf(x) = Capturing[i]
  <2>1. PluginOf(x) \in {"license", "logs", "registry"}
    BY DEF PluginOf
  <2>2. /\ Capturing[1] = "license" /\ Capturing[2] = "logs"
        /\ Capturing[3] = "registry"
    BY DEF Capturing
  <2> QED BY <2>1, <2>2
<1> QED BY <1>1 DEF RestoreSound, CapturedTruly, By

LEMMA PreviewRestoreSound ==
    ASSUME TypesOK, NEW s \in Restorer, RestoreInv(s), Alone(s), PreviewRestore(s)
    PROVE  RestoreSound(s)'
<1>1. /\ s \in Request /\ pc[s] = "idle" /\ pc'[s] = "capturing" /\ stage'[s] = stage[s]
      /\ fresh'[s] = [NoPlan EXCEPT !.profile = snapshot]
  BY DEF PreviewRestore, Request, TypesOK, WorkOK, Goto
<1>2. stage'[s] = 1 /\ fresh'[s].profile = snapshot
  BY <1>1 DEF RestoreInv, RestoreWork, NoPlan
<1>3. SnapshotAsShown(s)'
  BY <1>1, <1>2 DEF SnapshotAsShown, Restoring, Alone
<1>4. CapturedTruly(s)'
  BY <1>2 DEF CapturedTruly
<1>5. RestoreFits(s)' /\ HeldFits(s)' /\ EntriesStand(s)' /\ AllLeft(s)'
  BY <1>1 DEF RestoreFits, HeldFits, EntriesStand, AllLeft, Restoring
<1> QED BY <1>3, <1>4, <1>5 DEF RestoreSound

LEMMA CaptureSound ==
    ASSUME TypesOK, Purses, Unfailing', NEW s \in Restorer, RestoreInv(s), Alone(s),
           RestoreSound(s), Capture(s)
    PROVE  RestoreSound(s)'
<1> DEFINE p == Capturing[stage[s]]
           c == config[p]
           old == fresh[s].authority
           new == Captured(c, Looked(c))
<1>1. /\ s \in Request /\ pc[s] \in {"capturing", "recapturing"} /\ stage[s] \in 1..3
      /\ pc'[s] = pc[s] /\ stage'[s] = stage[s] + 1
      /\ UNCHANGED <<look, shown>>
  BY DEF Capture, Capturing, Request, TypesOK, WorkOK, world
<1>2. fresh' = [fresh EXCEPT ![s].authority = Over(new, @)]
  <2>1. ~Fault
    BY FaultFails
  <2>2. PICK insp : /\ InspectedAs(c, insp)
                    /\ fresh' = [fresh EXCEPT ![s].authority = Over(Captured(c, insp), @)]
    BY <2>1 DEF Capture
  <2>3. insp = Looked(c)
    BY <2>2, FoundAsItIs
  <2> QED BY <2>2, <2>3
<1>3. fresh'[s] = [fresh[s] EXCEPT !.authority = Over(new, old)]
  BY <1>1, <1>2 DEF TypesOK, WorkOK
<1>4. fresh'[s].profile = fresh[s].profile /\ fresh'[s].authority = Over(new, old)
  <2> HIDE DEF new, old
  <2>1. DOMAIN fresh[s] = {"profile", "authority", "entries"}
    BY DEF RestoreInv, RestoreWork, Plan
  <2> QED BY <1>3, <2>1
<1>5. p \in {"license", "logs", "registry"} /\ c \in Configurations(p)
  BY <1>1 DEF Capturing, TypesOK, WorldOK
<1>6. /\ DOMAIN new = (IF Enabled(c) THEN c.listed ELSE {})
      /\ \A x \in DOMAIN new : PluginOf(x) = p /\ new[x].look = look[c.place][x]
  <2>1. /\ DOMAIN Looked(c) = (IF Enabled(c) THEN c.listed ELSE {})
        /\ \A x \in DOMAIN Looked(c) : Looked(c)[x] = look[c.place][x]
    BY DEF Looked
  <2>2. \A x \in DOMAIN Looked(c) : PluginOf(x) = p
    <3>1. Enabled(c) => c.listed \subseteq {x \in Resource : PluginOf(x) = p}
      BY <1>5 DEF Configurations, Enabled
    <3> QED BY <2>1, <3>1
  <2>3. DOMAIN new = DOMAIN Looked(c) /\ \A x \in DOMAIN new : new[x].look = Looked(c)[x]
    BY DEF Captured
  <2> QED BY <2>1, <2>2, <2>3
<1>7. CapturedTruly(s)'
  <2> SUFFICES ASSUME NEW i \in 1..3, i < stage[s] + 1, Capturing[i] \notin disturbed[s],
                      Enabled(config[Capturing[i]]), NEW x \in config[Capturing[i]].listed
               PROVE  /\ x \in DOMAIN fresh'[s].authority
                      /\ x \notin disturbed[s] =>
                           fresh'[s].authority[x].look = look[config[Capturing[i]].place][x]
    BY <1>1 DEF CapturedTruly, Alone
  <2>1. /\ DOMAIN fresh'[s].authority = DOMAIN new \union DOMAIN old
        /\ \A y \in DOMAIN fresh'[s].authority :
              fresh'[s].authority[y] = IF y \in DOMAIN new THEN new[y] ELSE old[y]
    <3> HIDE DEF new, old
    <3> QED BY <1>4 DEF Over
  <2>2. CASE i = stage[s]
    <3>1. c = config[Capturing[i]]
      BY <2>2
    <3> HIDE DEF new, old, c
    <3> QED BY <1>6, <2>1, <3>1
  <2>3. CASE i # stage[s]
    <3> DEFINE q == Capturing[i]
    <3>1. i < stage[s]
      BY <1>1, <2>3
    <3>2. x \in DOMAIN old /\ (x \notin disturbed[s] => old[x].look = look[config[q].place][x])
      BY <1>1, <3>1 DEF RestoreSound, CapturedTruly
    <3>3. q \in {"license", "logs", "registry"} /\ q # p
      BY <1>1, <3>1 DEF Capturing
    <3>4. config[q] \in Configurations(q) /\ config[q] # None
      BY <3>3 DEF TypesOK, WorldOK, Enabled
    <3>5. PluginOf(x) = q
      BY <3>4 DEF Configurations
    <3> HIDE DEF new, old, q
    <3>6. x \notin DOMAIN new
      BY <1>6, <3>3, <3>5
    <3> QED BY <2>1, <3>2, <3>6 DEF q
  <2> QED BY <2>2, <2>3
<1>8. SnapshotAsShown(s)'
  BY <1>1, <1>4 DEF RestoreSound, SnapshotAsShown, Restoring, Alone
<1>9. RestoreFits(s)'
  BY <1>1 DEF RestoreSound, RestoreFits, Alone
<1>10. HeldFits(s)' /\ EntriesStand(s)' /\ AllLeft(s)'
  BY <1>1 DEF HeldFits, EntriesStand, AllLeft, Restoring
<1> QED BY <1>7, <1>8, <1>9, <1>10 DEF RestoreSound

(* The page of a restore. *)
LEMMA ShowRestoreSound ==
    ASSUME TypesOK, Purses, Unfailing', NEW s \in Restorer, RestoreInv(s), Alone(s),
           RestoreSound(s), ShowRestorePlan(s)
    PROVE  RestoreSound(s)' /\ Stands(s)'
<1> DEFINE present == fresh[s].authority
           saved == fresh[s].profile
<1>1. PICK plan \in Plans(s) :
        /\ PlannedAs(s, plan)
        /\ shown' = [shown EXCEPT ![s] = [NoPlan EXCEPT !.profile = fresh[s].profile,
                                                        !.entries = Only("snapshot", plan)]]
        /\ Goto(s, IF \E x \in DOMAIN plan : plan[x].status = "change"
                   THEN "shown" ELSE "answered")
  BY DEF ShowRestorePlan
<1>2. /\ s \in Request /\ pc[s] = "capturing" /\ stage[s] = 4 /\ UNCHANGED look
      /\ pc'[s] \in {"shown", "answered"}
  BY <1>1 DEF ShowRestorePlan, Capturing, Request, TypesOK, WorkOK, world, Goto
<1>3. shown'[s] = [NoPlan EXCEPT !.profile = fresh[s].profile,
                                 !.entries = Only("snapshot", plan)]
  BY <1>1, <1>2 DEF TypesOK, WorkOK
<1>4. /\ shown'[s].profile = saved
      /\ DOMAIN shown'[s].entries = {"snapshot"} /\ shown'[s].entries["snapshot"] = plan
  BY <1>3 DEF NoPlan, Only
<1>5. CaptureOK(present)
  BY <1>2 DEF RestoreInv, RestoreWork
<1>6. ASSUME NEW x \in DOMAIN plan, plan[x].status = "change"
      PROVE  /\ By(config[PluginOf(x)], x, plan[x])
             /\ plan[x].fingerprint.look = present[x].look
             /\ plan[x].desired = saved[x].look.status
             /\ x \in Resource
  <2>1. /\ RestoreChange(x, saved, plan[x])
        /\ By(config[PluginOf(x)], x, plan[x])
        /\ plan[x].fingerprint.look = present[x].look
    BY <1>5, <1>6, PlansOK DEF TypesOK
  <2>2. plan[x] = RestoreEntry(config[PluginOf(x)], x, present, saved)
    BY PlanFound, <1>1
  <2>3. plan[x].desired = IF x \in DOMAIN saved THEN saved[x].look.status ELSE None
    BY <2>2 DEF RestoreEntry
  <2>4. x \in Resource
    BY <2>1 DEF RestoreChange, ChangeOf, Resource
  <2> QED BY <2>1, <2>3, <2>4 DEF RestoreChange
<1> HIDE DEF present, saved
<1>7. RestoreFits(s)'
  BY <1>4, <1>6 DEF RestoreFits, Alone
<1>8. SnapshotAsShown(s)'
  BY <1>2, <1>4 DEF RestoreSound, SnapshotAsShown, Restoring, Alone, saved
<1>9. CapturedTruly(s)' /\ HeldFits(s)' /\ EntriesStand(s)' /\ AllLeft(s)'
  BY <1>2 DEF CapturedTruly, HeldFits, EntriesStand, AllLeft, Restoring
<1>10. ASSUME NEW pair \in EntriesShown(s)', pair[2].status = "change", Calm(s, pair[1])
       PROVE  look[pair[2].place][pair[1]] = pair[2].fingerprint.look
  <2>1. PICK x \in DOMAIN plan : pair = <<x, plan[x]>>
    BY <1>4 DEF EntriesShown
  <2>2. /\ By(config[PluginOf(x)], x, plan[x])
        /\ plan[x].fingerprint.look = present[x].look /\ x \in Resource
    BY <1>6, <1>10, <2>1
  <2>3. x \notin disturbed[s] /\ PluginOf(x) \notin disturbed[s]
    BY <1>10, <2>1 DEF Calm, Reasons
  <2>4. present[x].look = look[plan[x].place][x]
    BY <1>2, <2>2, <2>3, CapturedAsIs DEF present
  <2> QED BY <2>1, <2>2, <2>4
<1>11. Stands(s)'
  <2>1. \A x : Calm(s, x)' <=> Calm(s, x)
    BY DEF Calm, Reasons, Alone
  <2> QED BY <1>2, <1>10, <2>1 DEF Stands
<1> QED BY <1>7, <1>8, <1>9, <1>11 DEF RestoreSound

LEMMA ConfirmRestoreSound ==
    ASSUME TypesOK, NEW s \in Restorer, RestoreInv(s), Alone(s), RestoreSound(s),
           ConfirmRestore(s) \/ ConfirmRestoreRaises(s)
    PROVE  RestoreSound(s)'
<1>1. /\ s \in Request /\ pc[s] = "shown" /\ shown'[s] = shown[s]
      /\ stage'[s] = stage[s] /\ stage[s] = 1
      /\ \/ pc'[s] = "answered"
         \/ /\ pc'[s] = "recapturing" /\ snapshot # None
            /\ fresh'[s] = [NoPlan EXCEPT !.profile = snapshot]
  BY DEF ConfirmRestore, ConfirmRestoreRaises, Request, TypesOK, WorkOK, Goto,
     RestoreInv, RestoreWork
<1>2. SnapshotAsShown(s)'
  <2>1. [NoPlan EXCEPT !.profile = snapshot].profile = snapshot
    BY DEF NoPlan
  <2> QED BY <1>1, <2>1 DEF RestoreSound, SnapshotAsShown, Restoring
<1>3. RestoreFits(s)'
  BY <1>1 DEF RestoreSound, RestoreFits, Alone
<1>4. CapturedTruly(s)' /\ HeldFits(s)' /\ EntriesStand(s)' /\ AllLeft(s)'
  BY <1>1 DEF CapturedTruly, HeldFits, EntriesStand, AllLeft, Restoring
<1> QED BY <1>2, <1>3, <1>4 DEF RestoreSound

(* A change that was shown and is calm, when all has been captured again. *)
LEMMA EntryAgain ==
    ASSUME TypesOK, NEW s \in Restorer, RestoreInv(s), RestoreSound(s), Stands(s),
           pc[s] = "recapturing", stage[s] = 4,
           NEW x \in DOMAIN shown[s].entries["snapshot"],
           shown[s].entries["snapshot"][x].status = "change", Calm(s, x)
    PROVE  LET entry == shown[s].entries["snapshot"][x]
               now == RestoreEntry(config[PluginOf(x)], x, fresh[s].authority, fresh[s].profile)
           IN  now.status = "change" /\ now.fingerprint = entry.fingerprint
<1> DEFINE entry == shown[s].entries["snapshot"][x]
           pair == <<x, entry>>
           c == config[PluginOf(x)]
<1>1. /\ DOMAIN shown[s].entries = {"snapshot"} /\ ChangeOf(x, entry)
      /\ x \in DOMAIN shown[s].profile /\ x \in Resource
      /\ x \in Target => shown[s].profile[x].place = entry.place
  BY DEF RestoreInv, RestoreWork, RestorePlan, ChangeOf, Resource
<1>2. /\ entry.desired = shown[s].profile[x].look.status
      /\ fresh[s].profile = shown[s].profile
  BY DEF RestoreSound, RestoreFits, SnapshotAsShown
<1>3. /\ x \notin disturbed[s] /\ PluginOf(x) \notin disturbed[s]
      /\ By(c, x, entry)
  BY DEF RestoreSound, RestoreFits, Calm, Reasons
<1>4. /\ x \in DOMAIN fresh[s].authority
      /\ fresh[s].authority[x].look = look[entry.place][x]
  BY <1>1, <1>3, CapturedAsIs
<1>5. look[entry.place][x] = entry.fingerprint.look
  <2>1. pair \in EntriesShown(s) /\ pair[1] = x /\ pair[2] = entry
    BY <1>1 DEF EntriesShown
  <2>2. x \notin DOMAIN result[s]
    BY DEF RestoreInv, RestoreResults
  <2> HIDE DEF pair, entry
  <2> QED BY <2>1, <2>2 DEF Stands, entry
<1> HIDE DEF entry, c
<1>6. /\ RestoreEntry(c, x, fresh[s].authority, fresh[s].profile).status = "change"
      /\ RestoreEntry(c, x, fresh[s].authority, fresh[s].profile).fingerprint
            = entry.fingerprint
  BY <1>1, <1>2, <1>3, <1>4, <1>5, RestoreAgain
<1> QED BY <1>6 DEF entry, c

LEMMA ReplanSound ==
    ASSUME TypesOK, Purses, Unfailing', NEW s \in Restorer, RestoreInv(s), Alone(s),
           RestoreSound(s), Stands(s), ReplanRestore(s)
    PROVE  RestoreSound(s)'
<1> DEFINE present == fresh[s].authority
           saved == fresh[s].profile
<1>1. /\ s \in Request /\ pc[s] = "recapturing" /\ pc'[s] = "entries" /\ stage[s] = 4
      /\ shown'[s] = shown[s] /\ result'[s] = result[s]
  BY DEF ReplanRestore, Capturing, Request, TypesOK, WorkOK, Goto
<1>2. PICK plan \in Plans(s) :
        /\ PlannedAs(s, plan)
        /\ fresh' = [fresh EXCEPT ![s].entries = Only("snapshot", plan)]
        /\ left' = [left EXCEPT ![s] = SetToSeq(DOMAIN plan)]
  BY DEF ReplanRestore
<1>3. /\ DOMAIN plan = DOMAIN present \union DOMAIN saved
      /\ \A x \in DOMAIN plan :
            plan[x] = RestoreEntry(config[PluginOf(x)], x, present, saved)
  BY <1>2, PlanFound
<1>4. fresh'[s] = [fresh[s] EXCEPT !.entries = Only("snapshot", plan)]
      /\ left'[s] = SetToSeq(DOMAIN plan)
  BY <1>1, <1>2 DEF TypesOK, WorkOK
<1>5. /\ fresh'[s].profile = fresh[s].profile
      /\ fresh'[s].entries["snapshot"] = plan
  <2>1. DOMAIN fresh[s] = {"profile", "authority", "entries"}
    BY DEF RestoreInv, RestoreWork, Plan
  <2> QED BY <1>4, <2>1 DEF Only
<1>6. saved = shown[s].profile
  BY <1>1 DEF RestoreSound, SnapshotAsShown
<1>7. DOMAIN plan \in SUBSET Resource
  BY <1>1, <1>3 DEF RestoreInv, RestoreWork, CaptureOK, IsSnapshot
<1>8. Range(left'[s]) = DOMAIN plan
  BY <1>4, <1>7, ListOf
<1>9. ASSUME NEW x \in DOMAIN shown[s].entries["snapshot"],
             shown[s].entries["snapshot"][x].status = "change", Calm(s, x)
      PROVE  /\ plan[x].status = "change"
             /\ plan[x].fingerprint = shown[s].entries["snapshot"][x].fingerprint
  <2>1. x \in DOMAIN shown[s].profile
    BY <1>1, <1>9 DEF RestoreInv, RestoreWork, RestorePlan
  <2>2. plan[x] = RestoreEntry(config[PluginOf(x)], x, present, saved)
    BY <1>3, <1>6, <2>1
  <2> QED BY <1>1, <1>9, <2>2, EntryAgain
<1> HIDE DEF present, saved
<1>10. EntriesStand(s)'
  <2>1. \A x : Calm(s, x)' <=> Calm(s, x)
    BY DEF Calm, Reasons, Alone
  <2> QED BY <1>1, <1>5, <1>9, <2>1 DEF EntriesStand
<1>11. AllLeft(s)'
  BY <1>1, <1>3, <1>6, <1>8 DEF AllLeft
<1>12. RestoreFits(s)'
  BY <1>1 DEF RestoreSound, RestoreFits, Alone
<1>13. SnapshotAsShown(s)'
  BY <1>1, <1>5, <1>6 DEF SnapshotAsShown, Restoring, saved
<1>14. CapturedTruly(s)' /\ HeldFits(s)'
  BY <1>1 DEF CapturedTruly, HeldFits
<1> QED BY <1>10, <1>11, <1>12, <1>13, <1>14 DEF RestoreSound

LEMMA OnwardRestoreSound ==
    ASSUME NEW s \in Restorer, Alone(s), RestoreSound(s), shown'[s] = shown[s],
           pc[s] \notin {"idle", "capturing"},
           pc'[s] \in Restoring \union {"logging", "answered"},
           pc'[s] \in Restoring => fresh'[s] = fresh[s] /\ pc[s] \in Restoring,
           HeldFits(s)', AllLeft(s)'
    PROVE  RestoreSound(s)'
<1>1. SnapshotAsShown(s)' /\ CapturedTruly(s)'
  BY DEF RestoreSound, SnapshotAsShown, CapturedTruly, Restoring
<1>2. RestoreFits(s)'
  BY DEF RestoreSound, RestoreFits, Alone
<1>3. EntriesStand(s)'
  <2>1. \A x : Calm(s, x)' <=> Calm(s, x)
    BY DEF Calm, Reasons, Alone
  <2> QED BY <2>1 DEF RestoreSound, EntriesStand
<1> QED BY <1>1, <1>2, <1>3 DEF RestoreSound

(* The first of the list is done with. *)
LEMMA DoneSound ==
    ASSUME TypesOK, NEW s \in Restorer, RestoreInv(s), Alone(s), RestoreSound(s),
           pc[s] \in Restoring, left[s] # <<>>, pc'[s] = "entries",
           shown'[s] = shown[s], fresh'[s] = fresh[s], left'[s] = Tail(left[s]),
           NEW status, result'[s] = Over(Only(Head(left[s]), status), result[s])
    PROVE  RestoreSound(s)'
<1>1. /\ Range(left'[s]) = Range(left[s]) \ {Head(left[s])}
      /\ DOMAIN result'[s] = DOMAIN result[s] \union {Head(left[s])}
  <2>1. /\ Listed(s) /\ Range(left[s]) \intersect DOMAIN result[s] = {}
    BY DEF RestoreInv, RestoreWork, RestoreResults
  <2> QED BY <2>1, FirstDone DEF Request
<1>2. AllLeft(s)'
  BY <1>1 DEF RestoreSound, AllLeft
<1>3. HeldFits(s)'
  BY DEF HeldFits
<1> QED BY <1>2, <1>3, OnwardRestoreSound DEF Restoring

LEMMA EntryDoneAs ==
    ASSUME TypesOK, NEW s \in Restorer, NEW x, NEW status, EntryDone(s, x, status)
    PROVE  /\ pc'[s] = "entries" /\ left'[s] = Tail(left[s])
           /\ result'[s] = Over(Only(x, status), result[s])
  BY DEF EntryDone, Goto, TypesOK, WorkOK, Request

LEMMA RestoringSound ==
    ASSUME TypesOK, NEW s \in Restorer, RestoreInv(s), Alone(s), RestoreSound(s),
           DecideEntry(s) \/ RefuseEntry(s) \/ ExecuteEntry(s)
    PROVE  RestoreSound(s)'
<1> DEFINE x == Head(left[s])
<1>1. /\ s \in Request /\ pc[s] \in Restoring /\ left[s] # <<>>
      /\ shown'[s] = shown[s] /\ fresh'[s] = fresh[s]
  BY DEF DecideEntry, RefuseEntry, ExecuteEntry, Restoring, Request, RestoreInv, RestoreWork
<1>2. CASE RefuseEntry(s)
  BY <1>1, <1>2, EntryDoneAs, DoneSound DEF RefuseEntry
<1>3. CASE ExecuteEntry(s)
  <2>1. PICK status : result' = [result EXCEPT ![s] = Over(Only(x, status), @)]
    BY <1>3 DEF ExecuteEntry, Change
  <2>2. /\ result'[s] = Over(Only(x, status), result[s])
        /\ pc'[s] = "entries" /\ left'[s] = Tail(left[s])
    BY <1>1, <1>3, <2>1 DEF ExecuteEntry, Goto, TypesOK, WorkOK
  <2> QED BY <1>1, <2>2, DoneSound
<1>4. CASE DecideEntry(s)
  <2>1. CASE \E status : EntryDone(s, x, status)
    BY <1>1, <2>1, EntryDoneAs, DoneSound
  <2>2. CASE ~ \E status : EntryDone(s, x, status)
    <3>1. /\ pc'[s] = "restoring" /\ held'[s] = config[PluginOf(x)]
          /\ left'[s] = left[s] /\ result'[s] = result[s]
      BY <1>1, <1>4, <2>2 DEF DecideEntry, Goto, TypesOK, WorkOK
    <3>2. HeldFits(s)'
      BY <3>1 DEF HeldFits, Alone
    <3>3. AllLeft(s)'
      BY <1>1, <3>1 DEF RestoreSound, AllLeft
    <3> QED BY <1>1, <3>1, <3>2, <3>3, OnwardRestoreSound DEF Restoring
  <2> QED BY <2>1, <2>2
<1> QED BY <1>2, <1>3, <1>4

LEMMA EndRestoreSound ==
    ASSUME TypesOK, NEW s \in Restorer, RestoreInv(s), Alone(s), RestoreSound(s),
           EndRestore(s) \/ LogRestore(s)
    PROVE  RestoreSound(s)'
<1>1. /\ shown'[s] = shown[s] /\ pc[s] \notin {"idle", "capturing"}
      /\ pc'[s] \in {"logging", "answered"}
  BY DEF EndRestore, LogRestore, Goto, TypesOK, WorkOK, Request
<1>2. HeldFits(s)' /\ AllLeft(s)'
  BY <1>1 DEF HeldFits, AllLeft, Restoring
<1> QED BY <1>1, <1>2, OnwardRestoreSound DEF Restoring

LEMMA RestoreStepSound ==
    ASSUME TypesOK, Purses, Unfailing', NEW s \in Restorer, RestoreInv(s), Alone(s),
           RestoreSound(s), Stands(s), RestoreStep(s)
    PROVE  RestoreSound(s)'
  BY PreviewRestoreSound, CaptureSound, ShowRestoreSound, ConfirmRestoreSound,
     ReplanSound, RestoringSound, EndRestoreSound DEF RestoreStep, RestoreSnapshot

---------------------------------------------------------------------------
(* Why an entry of a restore is called stale. *)

LEMMA DecideExcuses ==
    ASSUME TypesOK, NEW s \in Restorer, RestoreInv(s), RestoreSound(s), DecideEntry(s)
    PROVE  Excuses(s)
<1> DEFINE x == Head(left[s])
<1>1. s \in Request /\ pc[s] \in Restoring
  BY DEF DecideEntry, Request, Restoring
<1>2. \/ UNCHANGED result
      \/ \E status : /\ EntryDone(s, x, status)
                     /\ status = "failed"
                        \/ (status = Decision(s, x) /\ status # "execute")
  BY DEF DecideEntry
<1>3. ASSUME NEW pair \in EntriesShown(s), pair[2].status = "change", pair[1] = x, Calm(s, x)
      PROVE  Decision(s, x) = "execute"
  <2>1. /\ x \in DOMAIN shown[s].entries["snapshot"]
        /\ pair[2] = shown[s].entries["snapshot"][x]
    BY <1>3, RestorePair
  <2> QED BY <1>1, <1>3, <2>1 DEF RestoreSound, EntriesStand, Decision
<1>4. CASE UNCHANGED result
  BY <1>1, <1>4, ExcusesNone
<1>5. ASSUME NEW status, EntryDone(s, x, status),
             status = "failed" \/ (status = Decision(s, x) /\ status # "execute")
      PROVE  Excuses(s)
  <2>1. result'[s] = Over(Only(x, status), result[s])
    BY <1>5, EntryDoneAs
  <2> HIDE DEF x
  <2> QED BY <1>1, <1>3, <1>5, <2>1, ExcusesOne
<1> QED BY <1>2, <1>4, <1>5

(* A calm change is found as it was shown, by the configuration it was      *)
(* shown by.                                                                *)
LEMMA EntryAsShown ==
    ASSUME TypesOK, NEW s \in Restorer, RestoreInv(s), RestoreSound(s), Stands(s),
           pc[s] = "restoring", NEW pair \in EntriesShown(s), pair[2].status = "change",
           pair[1] = Head(left[s]), Calm(s, pair[1])
    PROVE  LET c == held[s]
               x == Head(left[s])
               entry == shown[s].entries["snapshot"][x]
           IN  /\ Enabled(c) /\ x \in c.listed
               /\ x \in Target => Restorable(c, x, shown[s].profile[x])
               /\ Fingerprint(c, Looked(c), x) = entry.fingerprint
               /\ x \in File \union Target
<1> DEFINE c == held[s]
           x == Head(left[s])
           p == PluginOf(x)
           entry == shown[s].entries["snapshot"][x]
<1>1. /\ x \in DOMAIN shown[s].entries["snapshot"] /\ pair[2] = entry
      /\ ChangeOf(x, entry) /\ x \in Resource /\ x \in File \union Target
  <2>1. /\ pair[1] \in DOMAIN shown[s].entries["snapshot"]
        /\ pair[2] = shown[s].entries["snapshot"][pair[1]]
        /\ ChangeOf(pair[1], pair[2])
    BY RestorePair
  <2>2. pair[1] = x
    OBVIOUS
  <2> HIDE DEF x
  <2>3. x \in File \union Target
    BY <2>1, <2>2 DEF ChangeOf
  <2> QED BY <2>1, <2>2, <2>3 DEF Resource
<1>2. p \in {"license", "registry"}
  BY <1>1, PluginOfThings
<1>3. x \notin disturbed[s] /\ p \notin disturbed[s]
  BY DEF Calm, Reasons
<1>4. c = config[p] /\ By(config[p], x, entry)
  BY <1>1, <1>3 DEF RestoreSound, RestoreFits, HeldFits
<1>5. c \in Configurations(p)
  BY <1>2, <1>4 DEF TypesOK, WorldOK
<1>6. look[entry.place][x] = entry.fingerprint.look
  <2>1. x \notin DOMAIN result[s]
    <3>1. left[s] # <<>>
      BY DEF RestoreInv, RestoreWork
    <3> QED BY <3>1, FirstOfRestore DEF Restoring
  <2> QED BY <1>1, <2>1 DEF Stands
<1>7. /\ entry.desired = shown[s].profile[x].look.status
      /\ x \in Target => shown[s].profile[x].place = entry.place
  BY <1>1 DEF RestoreSound, RestoreFits, RestoreInv, RestoreWork, RestorePlan
<1> HIDE DEF c, x, p, entry
<1>8. Fingerprint(c, Looked(c), x) = entry.fingerprint
  BY <1>1, <1>2, <1>4, <1>5, <1>6, PlannedAsShown DEF TypesOK
<1>9. /\ Enabled(c) /\ x \in c.listed
      /\ x \in Target => Restorable(c, x, shown[s].profile[x])
  BY <1>1, <1>4, <1>7 DEF By, Restorable, ChangeOf
<1> QED BY <1>1, <1>8, <1>9 DEF c, x, entry

LEMMA RefuseExcuses ==
    ASSUME TypesOK, Purses, Unfailing', NEW s \in Restorer, RestoreInv(s),
           RestoreSound(s), Stands(s), RefuseEntry(s)
    PROVE  Excuses(s)
<1> DEFINE c == held[s]
           x == Head(left[s])
           entry == shown[s].entries["snapshot"][x]
           gone == IF x \in File THEN ~Enabled(c) \/ (c # None /\ x \notin c.listed)
                                 ELSE ~Restorable(c, x, shown[s].profile[x])
<1>1. s \in Request /\ pc[s] = "restoring"
  BY DEF RefuseEntry, Request
<1>2. PICK status :
        /\ EntryDone(s, x, status)
        /\ \/ gone
           \/ \E insp \in Inspections(c) :
                InspectedAs(c, insp) /\ Fingerprint(c, insp, x) # entry.fingerprint
  BY DEF RefuseEntry
<1>3. gone \/ Fingerprint(c, Looked(c), x) # entry.fingerprint
  <2> HIDE DEF c, x, entry, gone
  <2> QED BY <1>2, FoundAsItIs
<1>4. ASSUME NEW pair \in EntriesShown(s), pair[2].status = "change", pair[1] = x
      PROVE  ~Calm(s, x)
  <2>1. ASSUME Calm(s, x) PROVE FALSE
    <3>1. /\ Enabled(c) /\ x \in c.listed
          /\ x \in Target => Restorable(c, x, shown[s].profile[x])
          /\ Fingerprint(c, Looked(c), x) = entry.fingerprint
          /\ x \in File \union Target
      BY <1>1, <1>4, <2>1, EntryAsShown
    <3> QED BY <1>3, <3>1
  <2> QED BY <2>1
<1>5. result'[s] = Over(Only(x, status), result[s])
  BY <1>2, EntryDoneAs
<1> HIDE DEF x
<1> QED BY <1>1, <1>4, <1>5, ExcusesOne

LEMMA EndRestoreExcuses ==
    ASSUME TypesOK, NEW s \in Restorer, RestoreInv(s), RestoreSound(s), EndRestore(s)
    PROVE  Excuses(s)
<1>1. /\ s \in Request /\ pc[s] \in Restoring /\ left[s] = <<>>
  BY DEF EndRestore, Request, Restoring
<1>2. Range(left[s]) = {}
  BY <1>1 DEF Range
<1>3. DOMAIN shown[s].profile \subseteq DOMAIN result[s]
  BY <1>1, <1>2 DEF RestoreSound, AllLeft
<1>4. result'[s] = Over(result[s], [x \in DOMAIN shown[s].entries["snapshot"] |-> "stale"])
  BY <1>1 DEF EndRestore, TypesOK, WorkOK
<1>5. \A x \in DOMAIN result[s] : result'[s][x] = result[s][x]
  BY <1>4 DEF Over
<1>6. ASSUME NEW pair \in EntriesShown(s), pair[2].status = "change"
      PROVE  pair[1] \notin Results(s, "stale")' \ Results(s, "stale")
  <2>1. pair[1] \in DOMAIN result[s]
    BY <1>3, <1>6, RestorePair
  <2> QED BY <1>5, <2>1 DEF Results
<1> QED BY <1>6 DEF Excuses

LEMMA RestoreExcuses ==
    ASSUME TypesOK, Purses, Unfailing', NEW s \in Restorer, RestoreInv(s),
           RestoreSound(s), Stands(s), RestoreStep(s)
    PROVE  Excuses(s)
<1>1. CASE \/ PreviewRestore(s) \/ Capture(s) \/ ShowRestorePlan(s) \/ ConfirmRestore(s)
           \/ ConfirmRestoreRaises(s) \/ ReplanRestore(s) \/ LogRestore(s)
  <2>1. UNCHANGED result
    BY <1>1 DEF PreviewRestore, Capture, ShowRestorePlan, ConfirmRestore,
       ConfirmRestoreRaises, ReplanRestore, LogRestore
  <2> QED BY <2>1, ExcusesNone DEF Request
<1>2. CASE ExecuteEntry(s)
  <2>1. \E place, x, found, desired : Change(s, place, x, found, desired)
    BY <1>2 DEF ExecuteEntry
  <2> QED BY <2>1, ChangeExcuses DEF TypesOK, WorkOK, Request
<1> QED BY <1>1, <1>2, DecideExcuses, RefuseExcuses, EndRestoreExcuses
        DEF RestoreStep, RestoreSnapshot
---------------------------------------------------------------------------
(* What was shown, after a step of the request itself. *)

LEMMA ProfileStands ==
    ASSUME Inv, Purses, Unfailing', NEW a \in Applier, Alone(a), ProfileSound(a),
           Stands(a), AsPlanned(a), ProfileStep(a)
    PROVE  Stands(a)'
<1>0. TypesOK /\ ProfileInv(a) /\ a \in Request
  BY DEF Inv, Request
<1>1. CASE PreviewProfile(a)
  <2>1. shown'[a] = [NoPlan EXCEPT !.profile = profile]
    BY <1>0, <1>1 DEF PreviewProfile, TypesOK, WorkOK
  <2>2. DOMAIN shown'[a].entries = {}
    BY <2>1 DEF NoPlan, Nothing
  <2>3. EntriesShown(a)' = {}
    BY <2>2 DEF EntriesShown
  <2> QED BY <2>3 DEF Stands
<1>2. CASE PlanSection(a)
  <2>1. UNCHANGED look
    BY <1>2 DEF PlanSection, world
  <2> QED BY <1>0, <1>2, <2>1, SectionSound
<1>3. CASE ~PreviewProfile(a) /\ ~PlanSection(a)
  <2>1. UNCHANGED shown
    BY <1>3 DEF ProfileStep, ApplyProfile, ConfirmProfile, ConfirmProfileRaises,
       ShowProfilePlan, Replanned, SkipSection, EndSection, EnterSection, CheckFile,
       MoveFile, PlanPreset, ApplyTarget, LogProfile
  <2>2. WritesEntry(a) \/ More(a)
    BY <1>0, ProfileActs
  <2> QED BY <1>0, <2>1, <2>2, ActsStand
<1> QED BY <1>1, <1>2, <1>3

LEMMA RestoreStands ==
    ASSUME Inv, Purses, Unfailing', NEW s \in Restorer, Alone(s), RestoreSound(s),
           Stands(s), RestoreStep(s)
    PROVE  Stands(s)'
<1>0. TypesOK /\ RestoreInv(s) /\ s \in Request
  BY DEF Inv, Request
<1>1. CASE ShowRestorePlan(s)
  BY <1>0, <1>1, ShowRestoreSound
<1>2. CASE ~ShowRestorePlan(s)
  <2>1. UNCHANGED shown
    BY <1>2 DEF RestoreStep, RestoreSnapshot, PreviewRestore, ConfirmRestore,
       ConfirmRestoreRaises, Capture, ReplanRestore, DecideEntry, RefuseEntry,
       ExecuteEntry, EndRestore, LogRestore
  <2>2. WritesEntry(s) \/ More(s)
    BY <1>0, RestoreActs
  <2> QED BY <1>0, <2>1, <2>2, ActsStand
<1> QED BY <1>1, <1>2

---------------------------------------------------------------------------
(* As long as no call has failed. *)

Sound ==
    /\ \A r \in Request : Stands(r)
    /\ \A a \in Applier : ProfileSound(a) /\ Legible(a)
    /\ \A s \in Restorer : RestoreSound(s)

StaleInv == TrueInv /\ Purses /\ (Unfailing => Sound)

LEMMA StaleInit == ASSUME Init PROVE StaleInv
<1>1. TrueInv
  BY TrueInit
<1>2. Purses
  BY SettingAssumption DEF Init, EnvironmentInit, SettingAssumption, Purses
<1>3. DOMAIN NoPlan.entries = {}
  BY DEF NoPlan, Nothing
<1>4. ASSUME NEW r \in Request
      PROVE  /\ pc[r] = "idle" /\ DOMAIN shown[r].entries = {}
             /\ EntriesShown(r) = {}
  <2>1. pc[r] = "idle" /\ shown[r] = NoPlan
    BY DEF Init, EnvironmentInit
  <2> QED BY <1>3, <2>1 DEF EntriesShown
<1>5. ASSUME NEW r \in Request PROVE Stands(r)
  BY <1>4 DEF Stands
<1>6. ASSUME NEW a \in Applier PROVE ProfileSound(a) /\ Legible(a)
  BY <1>4 DEF ProfileSound, SameProfile, PlansMade, MadeFrom, AllReplanned,
     SameConfiguration, TargetsStand, Executing, InSection, Request, Legible, BeforePreset
<1>7. ASSUME NEW s \in Restorer PROVE RestoreSound(s)
  BY <1>4 DEF RestoreSound, SnapshotAsShown, CapturedTruly, RestoreFits, HeldFits,
     EntriesStand, AllLeft, Restoring, Request
<1> QED BY <1>1, <1>2, <1>5, <1>6, <1>7 DEF StaleInv, Sound

(* A request that takes no step itself. *)
LEMMA SoundOthers ==
    ASSUME Inv, Sound, NEW r \in Request, Keeps(r), Noted(r)
    PROVE  /\ Stands(r)'
           /\ r \in Applier => ProfileSound(r)' /\ Legible(r)'
           /\ r \in Restorer => RestoreSound(r)'
<1>1. Stands(r)'
  BY KeepsStands DEF Sound
<1>2. ASSUME r \in Applier PROVE ProfileSound(r)' /\ Legible(r)'
  BY <1>2, KeepsProfileSound, KeepsLegible DEF Sound, Inv
<1>3. ASSUME r \in Restorer PROVE RestoreSound(r)'
  BY <1>3, KeepsRestoreSound DEF Sound, Inv
<1> QED BY <1>1, <1>2, <1>3

LEMMA StaleNext == ASSUME StaleInv, [Next]_vars PROVE StaleInv'
<1>0. TrueInv' /\ Purses' /\ (Unfailing' => Unfailing)
  BY TrueNext, PursesKept DEF StaleInv
<1> SUFFICES ASSUME Unfailing' PROVE Sound'
  BY <1>0 DEF StaleInv
<1>1. Inv /\ TrueInv /\ TypesOK /\ Domains /\ Purses /\ Sound
  BY <1>0 DEF StaleInv, TrueInv, Inv, TypesOK, WorkOK, Domains
<1>2. ASSUME NEW a \in Applier, ProfileStep(a) PROVE Sound'
  <2>1. ProfileInv(a) /\ AsPlanned(a) /\ a \in Request /\ ProfileSound(a)
        /\ Legible(a) /\ Stands(a)
    BY <1>1 DEF TrueInv, Inv, Request, Sound
  <2>2. Alone(a) /\ \A r \in Request \ {a} : Keeps(r) /\ Noted(r)
    BY <1>1, <1>2, <2>1, ProfileKeeps, ProfileNoted
  <2>3. ProfileSound(a)'
    BY <1>1, <1>2, <2>1, <2>2, ProfileStepSound
  <2>4. Legible(a)'
    BY <1>1, <1>2, <2>1, <2>2, ProfileStepLegible
  <2>5. Stands(a)'
    BY <1>1, <1>2, <2>1, <2>2, ProfileStands
  <2>6. a \notin Restorer
    BY NamesAssumption DEF NamesAssumption
  <2>7. \A r \in Request \ {a} :
           /\ Stands(r)'
           /\ r \in Applier => ProfileSound(r)' /\ Legible(r)'
           /\ r \in Restorer => RestoreSound(r)'
    BY <1>1, <2>2, SoundOthers
  <2> QED BY <2>3, <2>4, <2>5, <2>6, <2>7 DEF Sound, Request
<1>3. ASSUME NEW s \in Restorer, RestoreStep(s) PROVE Sound'
  <2>1. RestoreInv(s) /\ s \in Request /\ RestoreSound(s) /\ Stands(s)
    BY <1>1 DEF TrueInv, Inv, Request, Sound
  <2>2. Alone(s) /\ \A r \in Request \ {s} : Keeps(r) /\ Noted(r)
    BY <1>1, <1>3, <2>1, RestoreKeeps, RestoreNoted
  <2>3. RestoreSound(s)'
    BY <1>1, <1>3, <2>1, <2>2, RestoreStepSound
  <2>4. Stands(s)'
    BY <1>1, <1>3, <2>1, <2>2, RestoreStands
  <2>5. s \notin Applier
    BY NamesAssumption DEF NamesAssumption
  <2>6. \A r \in Request \ {s} :
           /\ Stands(r)'
           /\ r \in Applier => ProfileSound(r)' /\ Legible(r)'
           /\ r \in Restorer => RestoreSound(r)'
    BY <1>1, <2>2, SoundOthers
  <2> QED BY <2>3, <2>4, <2>5, <2>6 DEF Sound, Request
<1>4. ASSUME \A r \in Request : Keeps(r) /\ Noted(r) PROVE Sound'
  <2>1. \A r \in Request :
           /\ Stands(r)'
           /\ r \in Applier => ProfileSound(r)' /\ Legible(r)'
           /\ r \in Restorer => RestoreSound(r)'
    BY <1>1, <1>4, SoundOthers
  <2> QED BY <2>1 DEF Sound, Request
<1>5. CASE Surroundings
  BY <1>1, <1>4, <1>5, SurroundingsOK, SurroundingsNoted
<1>6. CASE UNCHANGED vars
  <2>1. \A r \in Request : Keeps(r) /\ Noted(r)
    BY <1>6, NothingNoted DEF Keeps, vars, work
  <2> QED BY <1>4, <2>1
<1> QED BY <1>2, <1>3, <1>5, <1>6, Steps

(* Whoever takes a step, it excuses what it calls stale. *)
LEMMA StepExcuses ==
    ASSUME StaleInv, [Next]_vars, Unfailing', NEW r \in Request
    PROVE  Excuses(r)
<1>0. Unfailing
  BY PursesKept DEF StaleInv
<1>1. Inv /\ TrueInv /\ TypesOK /\ Domains /\ Purses /\ Sound
  BY <1>0 DEF StaleInv, TrueInv, Inv, TypesOK, WorkOK, Domains
<1>2. ASSUME Keeps(r) PROVE Excuses(r)
  BY <1>2, ExcusesNone DEF Keeps
<1>3. ASSUME NEW a \in Applier, ProfileStep(a) PROVE Excuses(r)
  <2>1. /\ ProfileInv(a) /\ ProfileSound(a) /\ Legible(a) /\ Stands(a)
        /\ a \in Request
    BY <1>1 DEF Inv, Request, Sound
  <2>2. Excuses(a) /\ \A q \in Request \ {a} : Keeps(q)
    BY <1>1, <1>3, <2>1, ProfileExcuses, ProfileKeeps
  <2> QED BY <1>2, <2>2
<1>4. ASSUME NEW s \in Restorer, RestoreStep(s) PROVE Excuses(r)
  <2>1. RestoreInv(s) /\ RestoreSound(s) /\ Stands(s) /\ s \in Request
    BY <1>1 DEF Inv, Request, Sound
  <2>2. Excuses(s) /\ \A q \in Request \ {s} : Keeps(q)
    BY <1>1, <1>4, <2>1, RestoreExcuses, RestoreKeeps
  <2> QED BY <1>2, <2>2
<1>5. CASE Surroundings
  BY <1>1, <1>2, <1>5, SurroundingsOK
<1>6. CASE UNCHANGED vars
  <2>1. Keeps(r)
    BY <1>6 DEF Keeps, vars, work
  <2> QED BY <1>2, <2>1
<1> QED BY <1>3, <1>4, <1>5, <1>6, Steps

(* A step calls what was shown as a change stale only for a reason outside    *)
(* the request, unless a call has failed: the resource, its plugin's          *)
(* configuration or the profile was changed since the page, or a target of    *)
(* its preset was shown with an error or made unreadable since (execute of    *)
(* the profiles, execute_environment_profile of both plugins, and             *)
(* _execute_entry of the restore).                                            *)
THEOREM StaleForAReasonHolds == Spec => StaleForAReason
<1>1. Init => StaleInv
  BY StaleInit
<1>2. StaleInv /\ [Next]_vars => StaleInv'
  BY StaleNext
<1>3. ASSUME StaleInv, [Next]_vars, NEW r \in Request, NEW pair \in EntriesShown(r),
             ~budget'.failed, pair[2].status = "change",
             pair[1] \in Results(r, "stale")' \ Results(r, "stale")
      PROVE  \/ Reasons(r, pair[1]) \intersect disturbed[r] # {}
             \/ pair[1] \in Target /\ Spoilers(r) # {}
  <2>1. Unfailing'
    BY <1>2, <1>3 DEF StaleInv, Purses, Unfailing
  <2>2. Excuses(r)
    BY <1>3, <2>1, StepExcuses
  <2> QED BY <1>3, <2>2 DEF Excuses, Calm
<1>4. StaleInv /\ [Next]_vars =>
        [\A r \in Request : \A pair \in EntriesShown(r) :
           LET x == pair[1]
           IN  /\ ~budget'.failed
               /\ pair[2].status = "change"
               /\ x \in Results(r, "stale")' \ Results(r, "stale")
               => \/ Reasons(r, x) \intersect disturbed[r] # {}
                  \/ x \in Target /\ Spoilers(r) # {}]_vars
  BY <1>3
<1> QED BY <1>1, <1>2, <1>4, PTL DEF Spec, StaleForAReason

===========================================================================

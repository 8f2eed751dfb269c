---------------------- MODULE RegistryEditing_proofs ----------------------
(***************************************************************************)
(* Proofs about applying and editing Registry presets, for any targets,    *)
(* presets, requests, edits and bounds: the stored configuration stays     *)
(* usable, and what a confirmation writes is what its page has shown.      *)
(***************************************************************************)
EXTENDS RegistryEditing, TLAPS

IsPlan(plan) ==
    DOMAIN plan \subseteq Target
    /\ \A e \in DOMAIN plan : plan[e] \in State(e) \union Unread

TypeOK ==
    /\ DOMAIN registry = Target /\ \A e \in Target : registry[e] \in State(e)
    /\ IsConfiguration(configuration)
    /\ DOMAIN pc = Request
    /\ todo \in [Request -> SUBSET Target]
    /\ at \in [Request -> Target \union {"none"}]
    /\ original \in [Request -> {"unread", "present", "absent"}]
    /\ DOMAIN authority = Request
    /\ DOMAIN current = Request
    /\ DOMAIN shown = Request /\ DOMAIN planned = Request
    /\ \A r \in Request :
          /\ IsConfiguration(authority[r]) /\ IsConfiguration(current[r])
          /\ IsPlan(shown[r]) /\ IsPlan(planned[r])
    /\ wrote \in [Request -> SUBSET Target]
    /\ touched \in [Request -> SUBSET Target]
    /\ DOMAIN editing = Editor /\ DOMAIN form = Editor
    /\ DOMAIN settings = Editor
    /\ \A u \in Editor :
          /\ IsDraft(settings[u])
          /\ editing[u] # "idle" => form[u] \in Form

(* The targets of the preset that the page was made for. *)
Wanted(r) ==
    IF HasPreset(authority[r]) THEN DOMAIN Desired(authority[r]) ELSE {}

Executing == {"writing", "setting", "verifying", "restoring", "resetting",
              "renaming", "inspecting", "renaming_back", "reverifying"}

(* A plan is made target by target. *)
PlansGrow(r) ==
    /\ DOMAIN shown[r] \subseteq Wanted(r)
    /\ pc[r] = "idle" => DOMAIN shown[r] = {}
    /\ pc[r] = "previewing" => todo[r] \subseteq Wanted(r)
    /\ pc[r] \in {"idle", "previewing", "nothing", "offered"} =>
          DOMAIN planned[r] = {}
    /\ pc[r] = "planning" => todo[r] \intersect DOMAIN planned[r] = {}
    /\ pc[r] \in {"previewing", "planning"} => at[r] \in todo[r] \union {"none"}
    /\ pc[r] \in {"idle", "offered"} => at[r] = "none"
    /\ pc[r] \in Executing \union {"deciding"} =>
          todo[r] \union {at[r]} \subseteq DOMAIN planned[r] \union {"none"}

(* What is executed was shown as a change, and is still what was shown. *)
ExecutesWhatIsFresh(r) ==
    /\ pc[r] \in Executing \union {"deciding"} => SameAuthority(r)
    /\ pc[r] \in Executing => at[r] \in Eligible(r) /\ Fresh(r, at[r])
    /\ pc[r] \in {"verifying", "inspecting", "reverifying"} => at[r] \in wrote[r]
    /\ pc[r] \in {"renaming", "inspecting", "renaming_back"} => at[r] \in Branch

(* A target that nobody has touched since it was read is as it was read. *)
ReadingsHold(r) ==
    /\ \A e \in DOMAIN planned[r] \ (touched[r] \union wrote[r]) :
          planned[r][e] \notin Unread => registry[e] = planned[r][e]
    /\ original[r] # "unread" =>
          /\ pc[r] \in Inspecting
          /\ at[r] \in Branch
          /\ at[r] \notin touched[r] =>
                (original[r] = "present"
                    <=> registry[at[r]] \in {"visible", "conflict"})

IInv ==
    /\ TypeOK
    /\ \A r \in Request :
          PlansGrow(r) /\ ExecutesWhatIsFresh(r) /\ ReadingsHold(r)

LEMMA StartsRight == Init => IInv
<1> SUFFICES ASSUME Init
             PROVE  IInv
  OBVIOUS
<1> USE DEF Init, ExecutionInit
<1>1. PICK b \in Setting : /\ registry = b.registry
                           /\ configuration = b.configuration
                           /\ budget = b.budget
  OBVIOUS
<1>2. TypeOK
  <2>1. DOMAIN registry = Target /\ \A e \in Target : registry[e] \in State(e)
    BY <1>1, SettingAssumption
  <2>2. IsConfiguration(configuration)
    BY <1>1, SettingAssumption
  <2>3. \A r \in Request : IsPlan(shown[r]) /\ IsPlan(planned[r])
    BY DEF IsPlan, Empty
  <2>4. \A u \in Editor : IsDraft(settings[u])
    BY <2>2 DEF IsConfiguration
  <2> QED BY <2>1, <2>2, <2>3, <2>4 DEF TypeOK
<1>3. ASSUME NEW r \in Request
      PROVE  PlansGrow(r) /\ ExecutesWhatIsFresh(r) /\ ReadingsHold(r)
  BY DEF PlansGrow, ExecutesWhatIsFresh, ReadingsHold, Executing, Inspecting, Empty
<1> QED BY <1>2, <1>3 DEF IInv

---------------------------------------------------------------------------
(* A request is not disturbed by the steps of others: what they change of    *)
(* the Registry, it counts as touched.                                       *)
Undisturbed(r) ==
    /\ pc'[r] = pc[r] /\ todo'[r] = todo[r] /\ at'[r] = at[r]
    /\ original'[r] = original[r]
    /\ authority'[r] = authority[r] /\ current'[r] = current[r]
    /\ shown'[r] = shown[r] /\ planned'[r] = planned[r]
    /\ wrote'[r] = wrote[r]
    /\ touched[r] \subseteq touched'[r]
    /\ \A e \in Target : registry'[e] = registry[e] \/ e \in touched'[r]

Holds(r) == PlansGrow(r) /\ ExecutesWhatIsFresh(r) /\ ReadingsHold(r)

LEMMA Bystander ==
    ASSUME IInv, NEW r \in Request, Undisturbed(r)
    PROVE  Holds(r)'
<1> USE DEF IInv, TypeOK, Undisturbed
<1>1. PlansGrow(r)'
  BY DEF PlansGrow, Executing, Wanted
<1>2. ExecutesWhatIsFresh(r)'
  BY DEF ExecutesWhatIsFresh, SameAuthority, Eligible, ShownStatus, Fresh, PlannedStatus
<1>3. ReadingsHold(r)'
  BY DEF ReadingsHold, IsPlan, Target
<1> QED BY <1>1, <1>2, <1>3 DEF Holds

(* What is known of an entry that is executed. *)
LEMMA EntryAtHand ==
    ASSUME IInv, NEW r \in Request, pc[r] \in Executing
    PROVE  /\ at[r] \in Target /\ at[r] \in Eligible(r) /\ Fresh(r, at[r])
           /\ HasPreset(authority[r]) /\ HasPreset(current[r])
           /\ at[r] \in DOMAIN Desired(authority[r])
           /\ Desired(current[r]) = Desired(authority[r])
           /\ Enabled(current[r], at[r]) = Enabled(authority[r], at[r])
           /\ Desired(current[r])[at[r]] \in State(at[r])
           /\ planned[r][at[r]] = shown[r][at[r]]
           /\ planned[r][at[r]] \in State(at[r]) \ Unread
           /\ at[r] \in Branch =>
                 /\ planned[r][at[r]] \in Visibility
                 /\ planned[r][at[r]] = Opposite(Desired(current[r])[at[r]])
<1>1. at[r] \in Eligible(r) /\ Fresh(r, at[r]) /\ SameAuthority(r)
  BY DEF IInv, ExecutesWhatIsFresh
<1>2. at[r] \in DOMAIN shown[r] /\ at[r] \in Target
  BY <1>1 DEF IInv, TypeOK, IsPlan, Eligible
<1>3. HasPreset(authority[r]) /\ at[r] \in DOMAIN Desired(authority[r])
  BY <1>2 DEF IInv, PlansGrow, Executing, Wanted
<1>4. HasPreset(current[r]) /\ Authority(current[r]) = Authority(authority[r])
  BY <1>1 DEF SameAuthority
<1>5. Desired(current[r]) = Desired(authority[r])
  BY <1>4 DEF Authority
<1>6. Authority(current[r]).targets[at[r]] = Authority(authority[r]).targets[at[r]]
  BY <1>4
<1>7. Enabled(current[r], at[r]) = Enabled(authority[r], at[r])
  BY <1>3, <1>5, <1>6 DEF Authority, Enabled
<1>8. Desired(current[r])[at[r]]
          \in IF at[r] \in Value THEN Data ELSE Visibility
  BY <1>3, <1>4, <1>5
  DEF IInv, TypeOK, IsConfiguration, IsDraft, IsDesired, HasPreset, Desired
<1>9. planned[r][at[r]] = shown[r][at[r]]
  BY <1>1 DEF Fresh
<1>10. /\ planned[r][at[r]] \notin {"error", "strange", "missing", "unavailable", "conflict"}
       /\ planned[r][at[r]] # Desired(current[r])[at[r]]
  BY <1>1 DEF Fresh, PlannedStatus, PlanStatus
<1>11. planned[r][at[r]] \in State(at[r]) \union Unread
  BY <1>2, <1>9 DEF IInv, TypeOK, IsPlan
<1>12. planned[r][at[r]] \in State(at[r]) \ Unread
  BY <1>10, <1>11 DEF Unread
<1>13. Desired(current[r])[at[r]] \in State(at[r])
  BY <1>8 DEF State, BranchState
<1>14. ASSUME at[r] \in Branch
       PROVE  /\ planned[r][at[r]] \in Visibility
              /\ planned[r][at[r]] = Opposite(Desired(current[r])[at[r]])
  <2>1. at[r] \notin Value
    BY <1>14, TargetAssumption
  <2>2. planned[r][at[r]] \in Visibility /\ Desired(current[r])[at[r]] \in Visibility
    BY <1>8, <1>10, <1>12, <2>1 DEF State, BranchState, Visibility
  <2> QED BY <1>10, <2>2 DEF Visibility, Opposite
<1> QED
  BY <1>1, <1>2, <1>3, <1>4, <1>5, <1>7, <1>9, <1>12, <1>13, <1>14

---------------------------------------------------------------------------
(* The steps of a confirmation, action by action. *)

LEMMA PreviewKeeps ==
    ASSUME IInv, NEW q \in Request, Preview(q), UNCHANGED edits
    PROVE  IInv'
<1> USE DEF Preview, Goto, Spend, Fault
<1>1. TypeOK'
  <2>1. HasPreset(configuration) => DOMAIN Desired(configuration) \subseteq Target
    BY DEF IInv, TypeOK, IsConfiguration, IsDraft, IsDesired, HasPreset, Desired
  <2>2. todo' \in [Request -> SUBSET Target]
    BY <2>1 DEF IInv, TypeOK
  <2> QED BY <2>2 DEF IInv, TypeOK, edits, outcomes, ghosts
<1>2. ASSUME NEW r \in Request
      PROVE  Holds(r)'
  <2>1. CASE r = q
    <3>1. PlansGrow(r)'
      BY <2>1 DEF IInv, TypeOK, PlansGrow, Executing, Wanted, plans
    <3>2. ExecutesWhatIsFresh(r)'
      BY <2>1 DEF IInv, TypeOK, Executing, ExecutesWhatIsFresh, plans, ghosts
    <3>3. ReadingsHold(r)'
      BY <2>1, TargetAssumption DEF IInv, TypeOK, PlansGrow, ReadingsHold,
         Inspecting, Target, plans, ghosts
    <3> QED BY <3>1, <3>2, <3>3 DEF Holds
  <2>2. CASE r # q
    <3>1. Undisturbed(r)
      BY <2>2 DEF IInv, TypeOK, Undisturbed, ghosts, plans
    <3> QED BY <3>1, Bystander
  <2> QED BY <2>1, <2>2
<1> QED BY <1>1, <1>2 DEF IInv, Holds

LEMMA CreateIntentKeeps ==
    ASSUME IInv, NEW q \in Request, CreateIntent(q), UNCHANGED edits
    PROVE  IInv'
<1> USE DEF CreateIntent, Goto, Spend, Fault
<1>1. TypeOK'
  BY DEF IInv, TypeOK, plans, edits, outcomes, ghosts
<1>2. ASSUME NEW r \in Request
      PROVE  Holds(r)'
  <2>1. CASE r = q
    <3>1. PlansGrow(r)'
      BY <2>1 DEF IInv, TypeOK, PlansGrow, Executing, Wanted, plans
    <3>2. ExecutesWhatIsFresh(r)'
      BY <2>1 DEF IInv, TypeOK, Executing, ExecutesWhatIsFresh, plans, ghosts
    <3>3. ReadingsHold(r)'
      BY <2>1, TargetAssumption DEF IInv, TypeOK, PlansGrow, ReadingsHold,
         Inspecting, Target, plans, ghosts
    <3> QED BY <3>1, <3>2, <3>3 DEF Holds
  <2>2. CASE r # q
    <3>1. Undisturbed(r)
      BY <2>2 DEF IInv, TypeOK, Undisturbed, ghosts, plans
    <3> QED BY <3>1, Bystander
  <2> QED BY <2>1, <2>2
<1> QED BY <1>1, <1>2 DEF IInv, Holds

LEMMA ConfirmKeeps ==
    ASSUME IInv, NEW q \in Request, Confirm(q), UNCHANGED edits
    PROVE  IInv'
<1> USE DEF Confirm, Goto, Spend, Fault
<1>1. TypeOK'
  <2>1. HasPreset(configuration) => DOMAIN Desired(configuration) \subseteq Target
    BY DEF IInv, TypeOK, IsConfiguration, IsDraft, IsDesired, HasPreset, Desired
  <2>2. todo' \in [Request -> SUBSET Target]
    BY <2>1 DEF IInv, TypeOK
  <2> QED BY <2>2 DEF IInv, TypeOK, edits, outcomes, ghosts
<1>2. ASSUME NEW r \in Request
      PROVE  Holds(r)'
  <2>1. CASE r = q
    <3>1. PlansGrow(r)'
      BY <2>1 DEF IInv, TypeOK, PlansGrow, Executing, Wanted, plans
    <3>2. ExecutesWhatIsFresh(r)'
      BY <2>1 DEF IInv, TypeOK, Executing, ExecutesWhatIsFresh, plans, ghosts
    <3>3. ReadingsHold(r)'
      BY <2>1, TargetAssumption DEF IInv, TypeOK, PlansGrow, ReadingsHold,
         Inspecting, Target, plans, ghosts
    <3> QED BY <3>1, <3>2, <3>3 DEF Holds
  <2>2. CASE r # q
    <3>1. Undisturbed(r)
      BY <2>2 DEF IInv, TypeOK, Undisturbed, ghosts, plans
    <3> QED BY <3>1, Bystander
  <2> QED BY <2>1, <2>2
<1> QED BY <1>1, <1>2 DEF IInv, Holds

LEMMA CheckAuthorityKeeps ==
    ASSUME IInv, NEW q \in Request, CheckAuthority(q), UNCHANGED edits
    PROVE  IInv'
<1> USE DEF CheckAuthority, Goto, Spend, Fault
<1>1. TypeOK'
  <2>1. todo' \in [Request -> SUBSET Target]
    BY DEF IInv, TypeOK, IsPlan
  <2> QED BY <2>1 DEF IInv, TypeOK, plans, edits, ghosts
<1>2. ASSUME NEW r \in Request
      PROVE  Holds(r)'
  <2>1. CASE r = q
    <3>1. PlansGrow(r)'
      BY <2>1 DEF IInv, TypeOK, PlansGrow, Executing, Wanted, plans
    <3>2. ExecutesWhatIsFresh(r)'
      BY <2>1 DEF IInv, TypeOK, Executing, ExecutesWhatIsFresh, plans, ghosts,
         SameAuthority
    <3>3. ReadingsHold(r)'
      BY <2>1, TargetAssumption DEF IInv, TypeOK, PlansGrow, ReadingsHold,
         Inspecting, Target, plans, ghosts
    <3> QED BY <3>1, <3>2, <3>3 DEF Holds
  <2>2. CASE r # q
    <3>1. Undisturbed(r)
      BY <2>2 DEF IInv, TypeOK, Undisturbed, ghosts, plans
    <3> QED BY <3>1, Bystander
  <2> QED BY <2>1, <2>2
<1> QED BY <1>1, <1>2 DEF IInv, Holds

LEMMA SkipEntryKeeps ==
    ASSUME IInv, NEW q \in Request, SkipEntry(q), UNCHANGED edits
    PROVE  IInv'
<1> USE DEF SkipEntry, Goto, Spend, Fault, Finish
<1>1. TypeOK'
  BY DEF IInv, TypeOK, plans, edits, outcomes, ghosts
<1>2. ASSUME NEW r \in Request
      PROVE  Holds(r)'
  <2>1. CASE r = q
    <3>1. PlansGrow(r)'
      BY <2>1 DEF IInv, TypeOK, PlansGrow, Executing, Wanted, plans
    <3>2. ExecutesWhatIsFresh(r)'
      BY <2>1 DEF IInv, TypeOK, Executing, ExecutesWhatIsFresh, plans, ghosts,
         SameAuthority
    <3>3. ReadingsHold(r)'
      BY <2>1, TargetAssumption DEF IInv, TypeOK, PlansGrow, ReadingsHold,
         Inspecting, Target, plans, ghosts
    <3> QED BY <3>1, <3>2, <3>3 DEF Holds
  <2>2. CASE r # q
    <3>1. Undisturbed(r)
      BY <2>2 DEF IInv, TypeOK, Undisturbed, ghosts, plans
    <3> QED BY <3>1, Bystander
  <2> QED BY <2>1, <2>2
<1> QED BY <1>1, <1>2 DEF IInv, Holds

LEMMA ExecuteEntryKeeps ==
    ASSUME IInv, NEW q \in Request, ExecuteEntry(q), UNCHANGED edits
    PROVE  IInv'
<1> USE DEF ExecuteEntry, Goto, Spend, Fault
<1>1. TypeOK'
  <2>1. \A e \in Eligible(q) : e \in Target
    BY DEF IInv, TypeOK, IsPlan, Eligible
  <2> QED BY <2>1 DEF IInv, TypeOK, plans, edits, outcomes, ghosts
<1>2. ASSUME NEW r \in Request
      PROVE  Holds(r)'
  <2>1. CASE r = q
    <3>1. PlansGrow(r)'
      BY <2>1 DEF IInv, TypeOK, PlansGrow, Executing, Wanted, Upcoming, plans
    <3>2. ExecutesWhatIsFresh(r)'
      <4>1. \A e \in Eligible(q) : e \in Value \/ e \in Branch
        BY DEF IInv, TypeOK, IsPlan, Eligible, Target
      <4> QED
        BY <2>1, <4>1 DEF IInv, TypeOK, Executing, ExecutesWhatIsFresh, plans,
           ghosts, SameAuthority, Eligible, ShownStatus, Fresh, PlannedStatus
    <3>3. ReadingsHold(r)'
      BY <2>1, TargetAssumption DEF IInv, TypeOK, PlansGrow, ReadingsHold,
         Inspecting, Target, plans, ghosts
    <3> QED BY <3>1, <3>2, <3>3 DEF Holds
  <2>2. CASE r # q
    <3>1. Undisturbed(r)
      BY <2>2 DEF IInv, TypeOK, Undisturbed, ghosts, plans
    <3> QED BY <3>1, Bystander
  <2> QED BY <2>1, <2>2
<1> QED BY <1>1, <1>2 DEF IInv, Holds

LEMMA LogKeeps ==
    ASSUME IInv, NEW q \in Request, Log(q), UNCHANGED edits
    PROVE  IInv'
<1> USE DEF Log, Goto, Spend, Fault
<1>1. TypeOK'
  BY DEF IInv, TypeOK, plans, edits, outcomes, ghosts
<1>2. ASSUME NEW r \in Request
      PROVE  Holds(r)'
  <2>1. CASE r = q
    <3>1. PlansGrow(r)'
      BY <2>1 DEF IInv, TypeOK, PlansGrow, Executing, Wanted, plans
    <3>2. ExecutesWhatIsFresh(r)'
      BY <2>1 DEF IInv, TypeOK, Executing, ExecutesWhatIsFresh, plans, ghosts,
         SameAuthority
    <3>3. ReadingsHold(r)'
      BY <2>1, TargetAssumption DEF IInv, TypeOK, PlansGrow, ReadingsHold,
         Inspecting, Target, plans, ghosts
    <3> QED BY <3>1, <3>2, <3>3 DEF Holds
  <2>2. CASE r # q
    <3>1. Undisturbed(r)
      BY <2>2 DEF IInv, TypeOK, Undisturbed, ghosts, plans
    <3> QED BY <3>1, Bystander
  <2> QED BY <2>1, <2>2
<1> QED BY <1>1, <1>2 DEF IInv, Holds

---------------------------------------------------------------------------
(* Reading. *)

(* A reading ends: with what the target is now, unless somebody has touched  *)
(* it since the reading began, or with nothing.                              *)
EndsReading(q, e, reading) ==
    /\ pc[q] \in Inspecting
    /\ e \in Upcoming(q) /\ e \in Target
    /\ reading \in State(e) \union Unread
    /\ reading \in Unread \/ e \in touched'[q] \/ reading = registry[e]
    /\ Conclude(q, e, reading)
    /\ original' = [original EXCEPT ![q] = "unread"]
    /\ touched' \in [Request -> SUBSET Target]
    /\ touched[q] \ {e} \subseteq touched'[q]
    /\ \A r \in Request \ {q} : touched'[r] = touched[r]
    /\ UNCHANGED <<registry, configuration, authority, current, log, wrote>>

(* The first of the two calls that read a branch. *)
StartsBranch(q, e) ==
    /\ pc[q] \in Inspecting
    /\ e \in Upcoming(q) /\ e \in Branch /\ e \in Target
    /\ original[q] = "unread"
    /\ original' = [original EXCEPT ![q] =
                      IF registry[e] \in {"visible", "conflict"}
                      THEN "present" ELSE "absent"]
    /\ at' = [at EXCEPT ![q] = e]
    /\ touched' = [touched EXCEPT ![q] = @ \ {e}]
    /\ UNCHANGED <<registry, configuration, pc, todo, plans, outcomes, wrote>>

LEMMA ReadValueReads ==
    ASSUME IInv, NEW q \in Request, ReadValue(q)
    PROVE  \E e, reading : EndsReading(q, e, reading)
<1> USE DEF ReadValue, StartReading, Fault, Spend
<1>1. PICK e \in Upcoming(q) \cap Value :
          /\ \E reading \in {registry[e]} \union Unread : Conclude(q, e, reading)
          /\ touched' = [touched EXCEPT ![q] = @ \ {e}]
  OBVIOUS
<1>2. PICK reading \in {registry[e]} \union Unread : Conclude(q, e, reading)
  BY <1>1
<1>3. e \in Target /\ reading \in State(e) \union Unread
  BY DEF IInv, TypeOK, Target
<1>4. original' = [original EXCEPT ![q] = "unread"]
  <2>1. original[q] = "unread"
    BY TargetAssumption DEF IInv, ReadingsHold, Upcoming, Target
  <2> QED BY <2>1 DEF IInv, TypeOK
<1>5. /\ touched' \in [Request -> SUBSET Target]
      /\ touched[q] \ {e} \subseteq touched'[q]
      /\ \A r \in Request \ {q} : touched'[r] = touched[r]
  BY <1>1 DEF IInv, TypeOK
<1> QED BY <1>2, <1>3, <1>4, <1>5 DEF EndsReading

LEMMA ReadVisibleReads ==
    ASSUME IInv, NEW q \in Request, ReadVisible(q)
    PROVE  \/ \E e, reading : EndsReading(q, e, reading)
           \/ \E e : StartsBranch(q, e)
<1> USE DEF ReadVisible, StartReading, Fault, Spend
<1>1. PICK e \in Upcoming(q) \cap Branch :
          /\ \/ /\ original' = [original EXCEPT ![q] =
                                IF registry[e] \in {"visible", "conflict"}
                                THEN "present" ELSE "absent"]
                /\ at' = [at EXCEPT ![q] = e]
                /\ UNCHANGED <<pc, todo, shown, planned, status, rollback, budget>>
             \/ /\ \E reading \in Unread : Conclude(q, e, reading)
                /\ UNCHANGED original
          /\ touched' = [touched EXCEPT ![q] = @ \ {e}]
  OBVIOUS
<1>2. e \in Target
  BY DEF Target
<1>3. /\ touched' \in [Request -> SUBSET Target]
      /\ touched[q] \ {e} \subseteq touched'[q]
      /\ \A r \in Request \ {q} : touched'[r] = touched[r]
  BY <1>1 DEF IInv, TypeOK
<1>4. CASE \E reading \in Unread : Conclude(q, e, reading) /\ UNCHANGED original
  <2>1. original' = [original EXCEPT ![q] = "unread"]
    BY <1>4 DEF IInv, TypeOK
  <2> QED BY <1>2, <1>3, <1>4, <2>1 DEF EndsReading
<1>5. CASE /\ original' = [original EXCEPT ![q] =
                              IF registry[e] \in {"visible", "conflict"}
                              THEN "present" ELSE "absent"]
           /\ at' = [at EXCEPT ![q] = e]
           /\ UNCHANGED <<pc, todo, shown, planned, status, rollback, budget>>
  BY <1>1, <1>2, <1>5 DEF StartsBranch, plans, outcomes
<1> QED BY <1>1, <1>4, <1>5

LEMMA ReadHiddenReads ==
    ASSUME IInv, NEW q \in Request, ReadHidden(q)
    PROVE  \E e, reading : EndsReading(q, e, reading)
<1> DEFINE e == at[q]
           hidden == registry[e] \in {"hidden", "conflict"}
           found == CASE original[q] = "present" /\ hidden -> "conflict"
                      [] original[q] = "present" /\ ~hidden -> "visible"
                      [] original[q] = "absent" /\ hidden -> "hidden"
                      [] original[q] = "absent" /\ ~hidden -> "missing"
<1>1. \E reading \in {found} \union Unread : Conclude(q, e, reading)
  BY DEF ReadHidden, Fault
<1>2. e \in Branch /\ e \in Target /\ e \in Upcoming(q) /\ pc[q] \in Inspecting
  BY TargetAssumption DEF ReadHidden, IInv, ReadingsHold, Upcoming, Target
<1>3. registry[e] \in {"visible", "hidden", "conflict", "missing"}
  BY <1>2, TargetAssumption DEF IInv, TypeOK, State, BranchState, Visibility, Target
<1>4. original[q] \in {"present", "absent"}
  BY DEF ReadHidden, IInv, TypeOK
<1>5. e \in touched[q] \/ found = registry[e]
  <2>1. e \in touched[q] \/ (original[q] = "present"
                              <=> registry[e] \in {"visible", "conflict"})
    BY DEF ReadHidden, IInv, ReadingsHold
  <2> QED BY <1>3, <1>4, <2>1
<1>6. found \in State(e)
  BY <1>2, <1>4, TargetAssumption DEF State, BranchState, Visibility
<1>7. /\ original' = [original EXCEPT ![q] = "unread"]
      /\ touched' = touched
      /\ UNCHANGED <<registry, configuration, authority, current, log, wrote>>
  BY DEF ReadHidden, ghosts
<1>8. touched' \in [Request -> SUBSET Target]
  BY <1>7 DEF IInv, TypeOK
<1> HIDE DEF found, e, hidden
<1> QED BY <1>1, <1>2, <1>5, <1>6, <1>7, <1>8 DEF EndsReading

LEMMA Readings ==
    ASSUME IInv, NEW q \in Request, Read(q)
    PROVE  \/ \E e, reading : EndsReading(q, e, reading)
           \/ \E e : StartsBranch(q, e)
<1> QED BY ReadValueReads, ReadVisibleReads, ReadHiddenReads DEF Read

(* A reading goes into a plan, or decides what becomes of an entry. *)
LEMMA Concluded ==
    ASSUME IInv, NEW q \in Request, NEW e, NEW reading,
           EndsReading(q, e, reading), UNCHANGED edits
    PROVE  IInv'
<1> USE DEF EndsReading
<1> USE DEF Conclude, Planned, Verified, Inspected, Reverified, Finish, With, Goto
<1>1. TypeOK'
  <2>1. \A r \in Request : IsPlan(shown'[r]) /\ IsPlan(planned'[r])
    BY DEF IInv, TypeOK, IsPlan
  <2>2. DOMAIN shown' = Request /\ DOMAIN planned' = Request
    BY DEF IInv, TypeOK
  <2>3. DOMAIN pc' = Request
    BY DEF IInv, TypeOK
  <2>4. todo' \in [Request -> SUBSET Target]
    BY DEF IInv, TypeOK
  <2>5. at' \in [Request -> Target \union {"none"}]
    BY DEF IInv, TypeOK
  <2>6. original' \in [Request -> {"unread", "present", "absent"}]
    BY DEF IInv, TypeOK
  <2> QED BY <2>1, <2>2, <2>3, <2>4, <2>5, <2>6 DEF IInv, TypeOK, edits
<1>2. ASSUME NEW r \in Request
      PROVE  Holds(r)'
  <2>1. CASE r = q
    <3>1. CASE pc[q] \in {"previewing", "planning"}
      <4>0. e \in todo[q]
        BY <3>1, TargetAssumption DEF IInv, PlansGrow, Upcoming, TypeOK, Target
      <4>1. PlansGrow(r)'
        BY <2>1, <3>1, <4>0 DEF IInv, TypeOK, PlansGrow, Executing, Wanted
      <4>2. ExecutesWhatIsFresh(r)'
        BY <2>1, <3>1 DEF IInv, TypeOK, Executing, ExecutesWhatIsFresh
      <4>3. ReadingsHold(r)'
        BY <2>1, <3>1 DEF IInv, TypeOK, PlansGrow, ReadingsHold, Inspecting
      <4> QED BY <4>1, <4>2, <4>3 DEF Holds
    <3>2. CASE pc[q] \in {"verifying", "inspecting", "reverifying"}
      <4>0. e = at[q] /\ e \in wrote[q]
        BY <3>2, TargetAssumption
        DEF IInv, TypeOK, ExecutesWhatIsFresh, Executing, Eligible, IsPlan, Upcoming
      <4>1. PlansGrow(r)'
        BY <2>1, <3>2 DEF IInv, TypeOK, PlansGrow, Executing, Wanted
      <4>2. ExecutesWhatIsFresh(r)'
        BY <2>1, <3>2, <4>0 DEF IInv, TypeOK, Executing, ExecutesWhatIsFresh,
           SameAuthority, Eligible, ShownStatus, Fresh, PlannedStatus, Target
      <4>3. ReadingsHold(r)'
        BY <2>1, <3>2, <4>0 DEF IInv, TypeOK, ReadingsHold, Inspecting
      <4> QED BY <4>1, <4>2, <4>3 DEF Holds
    <3> QED BY <3>1, <3>2 DEF Inspecting
  <2>2. CASE r # q
    <3>1. Undisturbed(r)
      BY <2>2 DEF IInv, TypeOK, Undisturbed
    <3> QED BY <3>1, Bystander
  <2> QED BY <2>1, <2>2
<1> QED BY <1>1, <1>2 DEF IInv, Holds

LEMMA BranchStarted ==
    ASSUME IInv, NEW q \in Request, NEW e, StartsBranch(q, e), UNCHANGED edits
    PROVE  IInv'
<1> USE DEF StartsBranch, plans, outcomes
<1>1. TypeOK'
  BY DEF IInv, TypeOK, edits
<1>2. ASSUME NEW r \in Request
      PROVE  Holds(r)'
  <2>1. CASE r = q
    <3>1. PlansGrow(r)'
      BY <2>1 DEF IInv, TypeOK, PlansGrow, Executing, Wanted, Upcoming, Inspecting
    <3>2. pc[q] \in Executing => e = at[q] /\ e \in wrote[q]
      BY TargetAssumption
      DEF IInv, TypeOK, ExecutesWhatIsFresh, Executing, Inspecting, Eligible,
          IsPlan, Upcoming
    <3>3. ExecutesWhatIsFresh(r)'
      BY <2>1, <3>2 DEF IInv, TypeOK, Executing, Inspecting, ExecutesWhatIsFresh,
         SameAuthority, Eligible, ShownStatus, Fresh, PlannedStatus
    <3>4. pc[q] \in {"previewing", "planning"} => e \notin DOMAIN planned[q]
      BY DEF IInv, TypeOK, PlansGrow, Upcoming
    <3>5. ReadingsHold(r)'
      BY <2>1, <3>2, <3>4
      DEF IInv, TypeOK, ReadingsHold, Inspecting, Executing
    <3> QED BY <3>1, <3>3, <3>5 DEF Holds
  <2>2. CASE r # q
    <3>1. Undisturbed(r)
      BY <2>2 DEF IInv, TypeOK, Undisturbed
    <3> QED BY <3>1, Bystander
  <2> QED BY <2>1, <2>2
<1> QED BY <1>1, <1>2 DEF IInv, Holds

LEMMA ReadKeeps ==
    ASSUME IInv, NEW q \in Request, Read(q), UNCHANGED edits
    PROVE  IInv'
<1> QED BY Readings, Concluded, BranchStarted

---------------------------------------------------------------------------
(* Writing. *)

LEMMA FindValueKeeps ==
    ASSUME IInv, NEW q \in Request, FindValue(q), UNCHANGED edits
    PROVE  IInv'
<1> USE DEF FindValue, Raise, Return, Finish, Goto, Spend, Fault
<1>1. TypeOK'
  BY DEF IInv, TypeOK, plans, edits, outcomes, ghosts
<1>2. ASSUME NEW r \in Request
      PROVE  Holds(r)'
  <2>1. CASE r = q
    <3>1. PlansGrow(r)'
      BY <2>1 DEF IInv, TypeOK, PlansGrow, Executing, Wanted, plans
    <3>2. ExecutesWhatIsFresh(r)'
      BY <2>1 DEF IInv, TypeOK, Executing, ExecutesWhatIsFresh, SameAuthority,
         Eligible, ShownStatus, Fresh, PlannedStatus, plans, ghosts
    <3>3. ReadingsHold(r)'
      BY <2>1 DEF IInv, TypeOK, ReadingsHold, Inspecting, plans, ghosts
    <3> QED BY <3>1, <3>2, <3>3 DEF Holds
  <2>2. CASE r # q
    <3>1. Undisturbed(r)
      BY <2>2 DEF IInv, TypeOK, Undisturbed, plans, ghosts
    <3> QED BY <3>1, Bystander
  <2> QED BY <2>1, <2>2
<1> QED BY <1>1, <1>2 DEF IInv, Holds

(* What SetValue and RenameBranch have in common: the entry at hand gets a   *)
(* state that it was to have or had before, or the call raises.              *)
Changing == {"setting", "resetting", "renaming", "renaming_back"}

EntryChanges(q) ==
    /\ \E x \in State(at[q]) : Change(q, at[q], x)
    /\ Return(q, IF pc[q] \in {"setting", "renaming"}
                 THEN "verifying" ELSE "reverifying")

EntryRaises(q) == Raise(q, at[q]) /\ UNCHANGED <<registry, ghosts>>

Writes(q) ==
    /\ pc[q] \in Changing
    /\ EntryChanges(q) \/ EntryRaises(q)
    /\ UNCHANGED <<configuration, original, plans, log>>

LEMMA SetValueWrites ==
    ASSUME IInv, NEW q \in Request, SetValue(q)
    PROVE  Writes(q)
<1>1. pc[q] \in {"setting", "resetting"}
  BY DEF SetValue
<1>2. /\ Desired(current[q])[at[q]] \in State(at[q])
      /\ planned[q][at[q]] \in State(at[q])
  BY <1>1, EntryAtHand DEF Executing
<1> QED BY <1>1, <1>2 DEF SetValue, Writes, EntryChanges, EntryRaises, Changing

LEMMA RenameBranchWrites ==
    ASSUME IInv, NEW q \in Request, RenameBranch(q)
    PROVE  Writes(q)
<1>1. pc[q] \in {"renaming", "renaming_back"}
  BY DEF RenameBranch
<1>2. /\ Desired(current[q])[at[q]] \in State(at[q])
      /\ Opposite(Desired(current[q])[at[q]]) \in State(at[q])
  <2>1. at[q] \in Branch
    BY <1>1 DEF IInv, ExecutesWhatIsFresh
  <2> QED BY <1>1, <2>1, EntryAtHand DEF Executing
<1> QED
  BY <1>1, <1>2 DEF RenameBranch, Writes, EntryChanges, EntryRaises, Changing

LEMMA Written ==
    ASSUME IInv, NEW q \in Request, Writes(q), UNCHANGED edits
    PROVE  IInv'
<1> USE DEF Writes, Changing
<1>1. at[q] \in Target
  BY EntryAtHand DEF Executing
<1>2. CASE EntryRaises(q)
  <2> USE <1>2 DEF EntryRaises, Raise, Finish, Goto
  <2>1. TypeOK'
    BY DEF IInv, TypeOK, plans, edits, ghosts
  <2>2. ASSUME NEW r \in Request
        PROVE  Holds(r)'
    <3>1. CASE r = q
      <4>1. PlansGrow(r)'
        BY <3>1 DEF IInv, TypeOK, PlansGrow, Executing, Wanted, plans
      <4>2. ExecutesWhatIsFresh(r)'
        BY <3>1 DEF IInv, TypeOK, Executing, ExecutesWhatIsFresh, SameAuthority,
           Eligible, ShownStatus, Fresh, PlannedStatus, plans, ghosts
      <4>3. ReadingsHold(r)'
        BY <3>1 DEF IInv, TypeOK, ReadingsHold, Inspecting, plans, ghosts
      <4> QED BY <4>1, <4>2, <4>3 DEF Holds
    <3>2. CASE r # q
      <4>1. Undisturbed(r)
        BY <3>2 DEF IInv, TypeOK, Undisturbed, plans, ghosts
      <4> QED BY <4>1, Bystander
    <3> QED BY <3>1, <3>2
  <2> QED BY <2>1, <2>2 DEF IInv, Holds
<1>3. CASE EntryChanges(q)
  <2> USE <1>3 DEF EntryChanges, Change, Return, Goto
  <2>1. TypeOK'
    <3>1. DOMAIN registry' = Target /\ \A e \in Target : registry'[e] \in State(e)
      BY DEF IInv, TypeOK
    <3>2. wrote' \in [Request -> SUBSET Target] /\ touched' \in [Request -> SUBSET Target]
      BY <1>1 DEF IInv, TypeOK
    <3> QED BY <3>1, <3>2 DEF IInv, TypeOK, plans, edits
  <2>2. ASSUME NEW r \in Request
        PROVE  Holds(r)'
    <3>1. CASE r = q
      <4>1. PlansGrow(r)'
        BY <3>1 DEF IInv, TypeOK, PlansGrow, Executing, Wanted, plans
      <4>2. ExecutesWhatIsFresh(r)'
        BY <3>1 DEF IInv, TypeOK, Executing, ExecutesWhatIsFresh, SameAuthority,
           Eligible, ShownStatus, Fresh, PlannedStatus, plans
      <4>3. ReadingsHold(r)'
        BY <3>1 DEF IInv, TypeOK, IsPlan, ReadingsHold, Inspecting, plans
      <4> QED BY <4>1, <4>2, <4>3 DEF Holds
    <3>2. CASE r # q
      <4>1. Undisturbed(r)
        BY <3>2 DEF IInv, TypeOK, Undisturbed, plans
      <4> QED BY <4>1, Bystander
    <3> QED BY <3>1, <3>2
  <2> QED BY <2>1, <2>2 DEF IInv, Holds
<1> QED BY <1>2, <1>3

LEMMA WriteKeeps ==
    ASSUME IInv, NEW q \in Request, Write(q), UNCHANGED edits
    PROVE  IInv'
<1> QED
  BY FindValueKeeps, SetValueWrites, RenameBranchWrites, Written DEF Write

---------------------------------------------------------------------------
(* Others. *)

LEMMA OtherProgramKeeps ==
    ASSUME IInv, OtherProgram, UNCHANGED edits
    PROVE  IInv'
<1> USE DEF OtherProgram, Spend
<1>1. TypeOK'
  <2>1. DOMAIN registry' = Target /\ \A e \in Target : registry'[e] \in State(e)
    BY DEF IInv, TypeOK
  <2>2. touched' \in [Request -> SUBSET Target]
    BY DEF IInv, TypeOK
  <2> QED BY <2>1, <2>2 DEF IInv, TypeOK, plans, edits
<1>2. ASSUME NEW r \in Request
      PROVE  Holds(r)'
  <2>1. Undisturbed(r)
    BY DEF IInv, TypeOK, Undisturbed, plans
  <2> QED BY <2>1, Bystander
<1> QED BY <1>1, <1>2 DEF IInv, Holds

(* Steps that leave the confirmations alone. *)
LEMMA Elsewhere ==
    ASSUME IInv, UNCHANGED execution, IsConfiguration(configuration'),
           DOMAIN editing' = Editor, DOMAIN form' = Editor,
           DOMAIN settings' = Editor,
           \A u \in Editor :
              /\ IsDraft(settings'[u])
              /\ editing'[u] # "idle" => form'[u] \in Form
    PROVE  IInv'
<1>1. TypeOK'
  BY DEF IInv, TypeOK, execution, plans, ghosts
<1>2. ASSUME NEW r \in Request
      PROVE  Holds(r)'
  <2>1. Undisturbed(r)
    BY DEF IInv, TypeOK, Undisturbed, execution, plans, ghosts
  <2> QED BY <2>1, Bystander
<1> QED BY <1>1, <1>2 DEF IInv, Holds

LEMMA SaveConfigurationKeeps ==
    ASSUME IInv, SaveConfiguration, UNCHANGED edits
    PROVE  IInv'
<1>1. IsConfiguration(configuration')
  BY ConfigurationAssumption DEF SaveConfiguration
<1>2. UNCHANGED execution
  BY DEF SaveConfiguration, execution
<1> QED BY <1>1, <1>2, Elsewhere DEF IInv, TypeOK, edits

(* An item that is put into a draft leaves it a draft. *)
LEMMA ReplaceDrafts ==
    ASSUME IInv, NEW u \in Editor, editing[u] # "idle", NEW id, NEW item,
           form[u].kind = "targets" => id \in Target /\ item \in BOOLEAN,
           form[u].kind = "presets" => id \in Preset /\ IsDesired(item),
           Replace(u, id, item)
    PROVE  /\ DOMAIN editing' = Editor /\ DOMAIN settings' = Editor
           /\ \A v \in Editor : IsDraft(settings'[v])
           /\ \A v \in Editor : editing'[v] # "idle" => editing[v] # "idle" \/ v = u
<1> DEFINE items == With(Without(Items(u), form[u].original), id, item)
<1>1. form[u].kind \in {"targets", "presets"}
  BY FormAssumption DEF IInv, TypeOK
<1>2. IsDraft(settings[u]) /\ DOMAIN settings = Editor /\ DOMAIN editing = Editor
  BY DEF IInv, TypeOK
<1>3. IsDraft([settings[u] EXCEPT ![form[u].kind] = items])
  <2>1. CASE form[u].kind = "targets"
    BY <1>2, <2>1 DEF IsDraft, With, Without, Items
  <2>2. CASE form[u].kind = "presets"
    BY <1>2, <2>2 DEF IsDraft, With, Without, Items
  <2> QED BY <1>1, <2>1, <2>2
<1>4. CASE UNCHANGED settings
  BY <1>2, <1>4 DEF IInv, TypeOK, Replace, At, Answer
<1>5. CASE Put(u, items)
  BY <1>2, <1>3, <1>5 DEF IInv, TypeOK, Replace, Put, At, Answer
<1> QED BY <1>4, <1>5 DEF Replace

LEMMA EditItemKeeps ==
    ASSUME IInv, NEW u \in Editor, EditItem(u)
    PROVE  IInv'
<1>1. CASE ReadSettings(u)
  <2>1. \A v \in Editor : IsDraft(settings'[v])
    BY <1>1 DEF IInv, TypeOK, IsConfiguration, ReadSettings
  <2> QED BY <1>1, <2>1, Elsewhere DEF IInv, TypeOK, ReadSettings, At
<1>2. CASE EditFails(u)
  BY <1>2, Elsewhere DEF IInv, TypeOK, EditFails, Answer
<1>3. CASE DeleteItem(u)
  <2>1. form[u].kind \in {"targets", "presets"} /\ IsDraft(settings[u])
    BY <1>3, FormAssumption DEF IInv, TypeOK, DeleteItem
  <2>2. IsDraft([settings[u] EXCEPT ![form[u].kind] =
                    Without(Items(u), form[u].original)])
    <3>1. CASE form[u].kind = "targets"
      BY <2>1, <3>1 DEF IsDraft, Without, Items
    <3>2. CASE form[u].kind = "presets"
      BY <2>1, <3>2 DEF IsDraft, Without, Items
    <3> QED BY <2>1, <3>1, <3>2
  <2>3. \A v \in Editor : IsDraft(settings'[v])
    BY <1>3, <2>2 DEF IInv, TypeOK, DeleteItem, Put
  <2>4. DOMAIN settings' = Editor
    BY <1>3 DEF IInv, TypeOK, DeleteItem, Put
  <2> QED
    BY <1>3, <2>3, <2>4, Elsewhere DEF IInv, TypeOK, DeleteItem, At, Answer
<1>4. CASE SaveTarget(u)
  <2>1. form[u] \in Form
    BY <1>4 DEF IInv, TypeOK, SaveTarget
  <2>2. form[u].id \in Target /\ form[u].item \in BOOLEAN
    BY <1>4, <2>1, FormAssumption DEF SaveTarget
  <2>3. /\ Replace(u, form[u].id, form[u].item) /\ form[u].kind = "targets"
        /\ editing[u] # "idle"
    BY <1>4 DEF SaveTarget
  <2>4. /\ DOMAIN editing' = Editor /\ DOMAIN settings' = Editor
        /\ \A v \in Editor : IsDraft(settings'[v])
        /\ \A v \in Editor : editing'[v] # "idle" => editing[v] # "idle" \/ v = u
    BY <2>2, <2>3, ReplaceDrafts
  <2> QED BY <1>4, <2>1, <2>4, Elsewhere DEF IInv, TypeOK, SaveTarget
<1>5. CASE SavePreset(u)
  <2> DEFINE filled == DOMAIN form[u].item \intersect DOMAIN configuration.targets
             filling == [e \in filled |-> form[u].item[e]]
  <2>1. form[u] \in Form /\ form[u].kind = "presets" /\ editing[u] # "idle"
    BY <1>5 DEF IInv, TypeOK, SavePreset
  <2>2. IsDesired(filling)
    BY <2>1, FormAssumption DEF IsDesired
  <2>3. CASE Answer(u, "rejected") /\ UNCHANGED settings
    BY <1>5, <2>1, <2>3, Elsewhere DEF IInv, TypeOK, SavePreset, Answer
  <2>4. CASE \E id \in PresetIds(u) : Replace(u, id, filling)
    <3>1. PICK id \in PresetIds(u) : Replace(u, id, filling)
      BY <2>4
    <3>2. CASE id \in Preset
      <4>1. /\ DOMAIN editing' = Editor /\ DOMAIN settings' = Editor
            /\ \A v \in Editor : IsDraft(settings'[v])
            /\ \A v \in Editor :
                  editing'[v] # "idle" => editing[v] # "idle" \/ v = u
        <5> HIDE DEF filling
        <5> QED BY <2>1, <2>2, <3>1, <3>2, ReplaceDrafts
      <4> QED BY <1>5, <2>1, <4>1, Elsewhere DEF IInv, TypeOK, SavePreset
    <3>3. CASE id \notin Preset
      <4>1. id = form[u].original /\ id # "none"
        BY <2>1, <3>3, FormAssumption DEF PresetIds
      <4>2. DOMAIN Items(u) \subseteq Preset
        BY <2>1 DEF IInv, TypeOK, IsDraft, Items
      <4>3. Answer(u, "rejected") /\ UNCHANGED settings
        BY <3>1, <3>3, <4>1, <4>2 DEF Replace
      <4> QED BY <1>5, <2>1, <4>3, Elsewhere DEF IInv, TypeOK, SavePreset, Answer
    <3> QED BY <3>2, <3>3
  <2> QED BY <1>5, <2>3, <2>4 DEF SavePreset
<1>6. CASE SaveSettings(u)
  <2>1. IsConfiguration(configuration')
    BY <1>6 DEF IInv, TypeOK, IsConfiguration, Valid, SaveSettings
  <2> QED BY <1>6, <2>1, Elsewhere DEF IInv, TypeOK, SaveSettings, Answer
<1> QED BY <1>1, <1>2, <1>3, <1>4, <1>5, <1>6 DEF EditItem

---------------------------------------------------------------------------
(* The theorems. *)

LEMMA NextKeeps == IInv /\ [Next]_<<vars, edits>> => IInv'
<1> SUFFICES ASSUME IInv, [Next]_<<vars, edits>>
             PROVE  IInv'
  OBVIOUS
<1>1. CASE \E r \in Request : (Preview(r) \/ Confirm(r) \/ Serve(r)) /\ UNCHANGED edits
  <2>1. PICK q \in Request :
            (Preview(q) \/ Confirm(q) \/ Serve(q)) /\ UNCHANGED edits
    BY <1>1
  <2>2. CASE Read(q)
    BY <2>1, <2>2, ReadKeeps
  <2>3. CASE Write(q)
    BY <2>1, <2>3, WriteKeeps
  <2> QED
    BY <2>1, <2>2, <2>3, PreviewKeeps, CreateIntentKeeps, ConfirmKeeps,
       CheckAuthorityKeeps, SkipEntryKeeps, ExecuteEntryKeeps, LogKeeps DEF Serve
<1>2. CASE OtherProgram /\ UNCHANGED edits
  BY <1>2, OtherProgramKeeps
<1>3. CASE SaveConfiguration /\ UNCHANGED edits
  BY <1>3, SaveConfigurationKeeps
<1>4. CASE \E u \in Editor : EditItem(u)
  BY <1>4, EditItemKeeps
<1>5. CASE UNCHANGED <<vars, edits>>
  BY <1>5, Elsewhere DEF IInv, TypeOK, vars, execution, edits
<1> QED BY <1>1, <1>2, <1>3, <1>4, <1>5 DEF Next

(* Every entry that a confirmation executes was shown as a change and was    *)
(* read again as it was shown, and a reading that nobody has touched since   *)
(* holds: the readings, the plans and the executor of the Registry plugin.   *)
THEOREM ReadingsAreKept == Spec => []IInv
<1> QED BY StartsRight, NextKeeps, PTL DEF Spec

(* A configuration that is saved, as a whole or after an edit of one item,   *)
(* is one that can be read again, however the edits overlap: save_settings   *)
(* and _validate_collections.                                                *)
THEOREM EditsKeepItUsable == Spec => []StaysUsable
<1>1. Init => StaysUsable
  BY ValidAssumption DEF Init, ExecutionInit, StaysUsable
<1>2. StaysUsable /\ [Next]_<<vars, edits>> => StaysUsable'
  <2> SUFFICES ASSUME StaysUsable, [Next]_<<vars, edits>>
               PROVE  Valid(configuration')
    BY DEF StaysUsable, Valid
  <2> USE DEF StaysUsable
  <2>1. CASE UNCHANGED configuration
    BY <2>1
  <2>2. CASE SaveConfiguration
    BY <2>2, ValidAssumption DEF SaveConfiguration
  <2>3. CASE \E u \in Editor : SaveSettings(u)
    BY <2>3 DEF SaveSettings
  <2>4. ASSUME NEW r \in Request, Preview(r) \/ Confirm(r) \/ Serve(r)
        PROVE  UNCHANGED configuration
    BY <2>4 DEF Preview, Confirm, Serve, Read, ReadValue, ReadVisible, ReadHidden,
       CreateIntent, CheckAuthority, SkipEntry, ExecuteEntry, Write, FindValue,
       SetValue, RenameBranch, Log
  <2>5. ASSUME NEW u \in Editor, EditItem(u), ~SaveSettings(u)
        PROVE  UNCHANGED configuration
    BY <2>5 DEF EditItem, ReadSettings, DeleteItem, SaveTarget, SavePreset, EditFails
  <2> QED
    BY <2>1, <2>2, <2>3, <2>4, <2>5 DEF Next, vars, OtherProgram
<1> QED BY <1>1, <1>2, PTL DEF Spec

(* The only steps of a confirmation that change the Registry are those that  *)
(* write the entry at hand.                                                  *)
LEMMA OnlyWritesWrite ==
    ASSUME IInv, [Next]_<<vars, edits>>, NEW r \in Request, NEW e \in Target,
           WritesStep(r, e)
    PROVE  SetValue(r) \/ RenameBranch(r)
<1> USE DEF WritesStep
<1>1. ASSUME NEW q \in Request, Preview(q) \/ Confirm(q) \/ Serve(q)
      PROVE  q = r
  <2>1. \A x \in Request \ {q} : pc'[x] = pc[x]
    BY <1>1 DEF IInv, TypeOK, Preview, Confirm, Serve, Read, ReadValue,
       ReadVisible, ReadHidden, CreateIntent, CheckAuthority, SkipEntry,
       ExecuteEntry, Write, FindValue, SetValue, RenameBranch, Log, Conclude,
       Planned, Verified, Inspected, Reverified, Finish, Raise, Return, Goto
  <2> QED BY <2>1
<1>2. ASSUME Preview(r) \/ Confirm(r) \/ Serve(r)
      PROVE  SetValue(r) \/ RenameBranch(r)
  BY <1>2 DEF Preview, Confirm, Serve, Read, ReadValue, ReadVisible, ReadHidden,
     CreateIntent, CheckAuthority, SkipEntry, ExecuteEntry, Write, FindValue, Log
<1>3. ~OtherProgram /\ ~SaveConfiguration
  BY DEF OtherProgram, SaveConfiguration
<1>4. \A u \in Editor : ~EditItem(u)
  BY DEF EditItem, ReadSettings, DeleteItem, SaveTarget, SavePreset, SaveSettings,
     EditFails, execution
<1>5. ~UNCHANGED <<vars, edits>>
  BY DEF vars
<1> QED BY <1>1, <1>2, <1>3, <1>4, <1>5 DEF Next

(* A confirmation writes only what its page has shown, over what the page    *)
(* has found, as far as the reader can know: the checks of the executor      *)
(* before each write, and its rollback.                                      *)
THEOREM WritesWhatWasShownHolds == Spec => WritesWhatWasShown
<1>1. ASSUME IInv, [Next]_<<vars, edits>>, NEW r \in Request, NEW e \in Target,
             WritesStep(r, e)
      PROVE  /\ e \in Eligible(r)
             /\ Enabled(authority[r], e)
             /\ registry'[e] \in {Desired(authority[r])[e], shown[r][e]}
             /\ registry[e] = shown[r][e] \/ e \in touched[r] \union wrote[r]
  <2>1. SetValue(r) \/ RenameBranch(r)
    BY <1>1, OnlyWritesWrite
  <2>2. pc[r] \in Executing /\ e = at[r]
    BY <1>1, <2>1 DEF WritesStep, SetValue, RenameBranch, Executing
  <2>3. /\ e \in Eligible(r) /\ Fresh(r, e)
        /\ Desired(current[r]) = Desired(authority[r])
        /\ Enabled(current[r], e) = Enabled(authority[r], e)
        /\ planned[r][e] = shown[r][e]
        /\ planned[r][e] \in State(e) \ Unread
        /\ e \in Branch => planned[r][e] = Opposite(Desired(current[r])[e])
    BY <1>1, <2>2, EntryAtHand
  <2>4. registry'[e] \in {Desired(authority[r])[e], shown[r][e]}
    <3>1. CASE SetValue(r)
      BY <1>1, <2>2, <2>3, <3>1
      DEF WritesStep, SetValue, Change, IInv, TypeOK
    <3>2. CASE RenameBranch(r)
      <4>1. e \in Branch \/ pc[r] # "renaming_back"
        BY <1>1, <2>2 DEF IInv, ExecutesWhatIsFresh
      <4> QED
        BY <1>1, <2>2, <2>3, <3>2, <4>1
        DEF WritesStep, RenameBranch, Change, IInv, TypeOK
    <3> QED BY <2>1, <3>1, <3>2
  <2>5. registry[e] = shown[r][e] \/ e \in touched[r] \union wrote[r]
    <3>1. e \in DOMAIN planned[r]
      BY <1>1, <2>2, <2>3, TargetAssumption
      DEF IInv, TypeOK, PlansGrow, Eligible, IsPlan
    <3> QED BY <1>1, <2>3, <3>1 DEF IInv, ReadingsHold
  <2> QED BY <2>3, <2>4, <2>5 DEF Fresh
<1>2. IInv /\ [Next]_<<vars, edits>> =>
        [\A r \in Request : \A e \in Target :
            WritesStep(r, e) =>
                /\ e \in Eligible(r)
                /\ Enabled(authority[r], e)
                /\ registry'[e] \in {Desired(authority[r])[e], shown[r][e]}
                /\ registry[e] = shown[r][e] \/ e \in touched[r] \union wrote[r]]_vars
  BY <1>1
<1> QED BY <1>2, ReadingsAreKept, PTL DEF Spec, WritesWhatWasShown

---------------------------------------------------------------------------
(* What a confirmation of a preset reports: whatever interleaves and fails, *)
(* the results of its entries and its entry in the operation log are true.  *)

(* Where a request is before it executes, and while and after it does. *)
Running == Executing \union {"deciding"}
Ended == {"finished", "done"}
Planning == {"previewing", "offered", "planning"}
Before == Planning \union {"idle", "nothing"}

(* Every entry shown is either to be decided or has a result; only what has  *)
(* a result, or is at hand, has been written.                                *)
Ledger(r) ==
    /\ pc[r] \in Planning \union Running => HasPreset(authority[r])
    /\ pc[r] = "previewing" => DOMAIN shown[r] \union todo[r] = Wanted(r)
    /\ pc[r] \in {"offered", "planning"} \union Running => DOMAIN shown[r] = Wanted(r)
    /\ pc[r] = "planning" /\ HasPreset(current[r]) =>
          DOMAIN planned[r] \union todo[r] = DOMAIN Desired(current[r])
    /\ pc[r] \in Before => DOMAIN status[r] = {} /\ wrote[r] = {}
    /\ pc[r] \in Running =>
          /\ DOMAIN status[r] \union todo[r] = DOMAIN shown[r]
          /\ DOMAIN status[r] \intersect todo[r] = {}
    /\ pc[r] \in Ended => DOMAIN status[r] = DOMAIN shown[r]
    /\ pc[r] = "deciding" => at[r] = "none"
    /\ pc[r] \in Executing => at[r] \in todo[r]
    /\ pc[r] \in {"writing", "setting", "renaming"} => at[r] \notin wrote[r]
    /\ DOMAIN status[r] \subseteq DOMAIN shown[r]
    /\ DOMAIN rollback[r] = DOMAIN status[r]
    /\ wrote[r] \subseteq DOMAIN status[r] \union (IF pc[r] \in Executing
                                                   THEN {at[r]} ELSE {})

(* A result is true of a target for as long as nobody else touches it. *)
IsTrue(r, e) ==
    CASE status[r][e] = "succeeded" -> registry[e] = Desired(authority[r])[e]
      [] status[r][e] = "failed" ->
            rollback[r][e] # "failed" => registry[e] = shown[r][e]
      [] OTHER -> e \notin wrote[r]

Reported(r) ==
    /\ \A e \in DOMAIN status[r] \ touched[r] : IsTrue(r, e)
    /\ \A e \in DOMAIN status[r] \intersect Eligible(r) :
          status[r][e] \in {"succeeded", "failed", "stale", "blocked"}

Logged(r) ==
    pc[r] = "done" =>
        \/ log[r].status = "lost"
        \/ log[r].status = LoggedStatus(r) /\ log[r].rollback = LoggedRollback(r)

RInv ==
    /\ IInv
    /\ DOMAIN status = Request /\ DOMAIN rollback = Request /\ DOMAIN log = Request
    /\ \A r \in Request :
          /\ DOMAIN log[r] = {"status", "rollback"}
          /\ Ledger(r) /\ Reported(r) /\ Logged(r)

Same(f, r) == f'[r] = f[r]

---------------------------------------------------------------------------

LEMMA StartsTrue == Init => RInv
<1> SUFFICES ASSUME Init
             PROVE  RInv
  OBVIOUS
<1>1. IInv
  BY StartsRight
<1>2. ASSUME NEW r \in Request
      PROVE  /\ DOMAIN log[r] = {"status", "rollback"}
             /\ Ledger(r) /\ Reported(r) /\ Logged(r)
  BY DEF Init, ExecutionInit, Ledger, Reported, Logged, Empty, Before, Planning,
     Running, Executing, Ended
<1> QED BY <1>1, <1>2 DEF RInv, Init, ExecutionInit

(* A request whose outcomes nobody changes keeps its books. *)
SameOutcomes(r) ==
    status'[r] = status[r] /\ rollback'[r] = rollback[r] /\ log'[r] = log[r]

Honest(r) == Ledger(r) /\ Reported(r) /\ Logged(r)

LEMMA Untold ==
    ASSUME RInv, NEW r \in Request, Undisturbed(r), SameOutcomes(r)
    PROVE  Honest(r)'
<1> USE DEF RInv, Undisturbed, SameOutcomes
<1>1. Ledger(r)'
  BY DEF Ledger, Wanted, Before, Planning, Running, Executing, Ended
<1>2. Reported(r)'
  <2>1. DOMAIN status[r] \subseteq Target
    BY DEF Ledger, Reported, IInv, TypeOK, IsPlan
  <2> QED BY <2>1 DEF Reported, IsTrue, Eligible, ShownStatus
<1>3. Logged(r)'
  <2>1. /\ Got(r, "failed")' = Got(r, "failed")
        /\ Got(r, "succeeded")' = Got(r, "succeeded")
        /\ Got(r, "stale")' = Got(r, "stale")
        /\ Got(r, "blocked")' = Got(r, "blocked")
    BY DEF Got
  <2>2. /\ RolledBack(r, "failed")' = RolledBack(r, "failed")
        /\ RolledBack(r, "succeeded")' = RolledBack(r, "succeeded")
    BY DEF RolledBack
  <2>3. LoggedStatus(r)' = LoggedStatus(r)
    BY <2>1 DEF LoggedStatus
  <2>4. LoggedRollback(r)' = LoggedRollback(r)
    BY <2>2 DEF LoggedRollback
  <2> QED BY <2>3, <2>4 DEF Logged
<1> QED BY <1>1, <1>2, <1>3 DEF Honest

(* What is known while entries are decided and executed. *)
LEMMA WhileRunning ==
    ASSUME RInv, NEW r \in Request, pc[r] \in Running
    PROVE  /\ HasPreset(authority[r]) /\ HasPreset(current[r])
           /\ Desired(current[r]) = Desired(authority[r])
           /\ wrote[r] \subseteq DOMAIN status[r] \union
                                 (IF pc[r] \in Executing THEN {at[r]} ELSE {})
           /\ DOMAIN status[r] \intersect todo[r] = {}
           /\ pc[r] \in Executing => at[r] \in todo[r] /\ at[r] \in Eligible(r)
<1>1. SameAuthority(r)
  BY DEF RInv, IInv, ExecutesWhatIsFresh, Running
<1>2. HasPreset(authority[r])
  BY DEF RInv, Ledger
<1>3. Desired(current[r]) = Desired(authority[r])
  BY <1>1 DEF SameAuthority, Authority
<1> QED
  BY <1>1, <1>2, <1>3 DEF RInv, IInv, ExecutesWhatIsFresh, Ledger, SameAuthority

(* An entry gets its result. *)
LEMMA Finished ==
    ASSUME RInv, NEW q \in Request, pc[q] \in Running,
           NEW e \in todo[q], NEW s, NEW b, Finish(q, e, s, b),
           wrote[q] \subseteq DOMAIN status[q] \union {e},
           UNCHANGED <<registry, authority, current, shown, planned, log, wrote>>,
           touched[q] \ {e} \subseteq touched'[q],
           e \in touched'[q] \/
               CASE s = "succeeded" -> registry[e] = Desired(authority[q])[e]
                 [] s = "failed" -> b # "failed" => registry[e] = shown[q][e]
                 [] OTHER -> e \notin wrote[q],
           e \in Eligible(q) => s \in {"succeeded", "failed", "stale", "blocked"}
    PROVE  Honest(q)'
<1> USE DEF Finish, Goto
<1>1. /\ pc'[q] = "deciding" /\ at'[q] = "none" /\ todo'[q] = todo[q] \ {e}
      /\ status'[q] = With(status[q], e, s) /\ rollback'[q] = With(rollback[q], e, b)
  BY DEF RInv, IInv, TypeOK
<1>2. /\ e \notin DOMAIN status[q]
      /\ DOMAIN status'[q] = DOMAIN status[q] \union {e}
      /\ DOMAIN rollback'[q] = DOMAIN rollback[q] \union {e}
  BY <1>1 DEF RInv, Ledger, With
<1>3. Ledger(q)'
  <2> HIDE DEF Finish
  <2>1. /\ HasPreset(authority[q]) /\ DOMAIN shown[q] = Wanted(q)
        /\ DOMAIN status[q] \union todo[q] = DOMAIN shown[q]
        /\ DOMAIN status[q] \intersect todo[q] = {}
        /\ DOMAIN rollback[q] = DOMAIN status[q]
    BY DEF RInv, Ledger
  <2> QED
    BY <1>1, <1>2, <2>1 DEF Ledger, Wanted, Before, Planning, Running, Executing,
       Ended
<1>4. Reported(q)'
  <2>1. ASSUME NEW d \in DOMAIN status'[q] \ touched'[q]
        PROVE  IsTrue(q, d)'
    <3>1. CASE d = e
      BY <1>1, <3>1 DEF With, IsTrue
    <3>2. CASE d # e
      BY <1>1, <1>2, <2>1, <3>2 DEF RInv, Ledger, Reported, IsTrue, With
    <3> QED BY <3>1, <3>2
  <2>2. Eligible(q)' = Eligible(q)
    BY DEF Eligible, ShownStatus
  <2> QED BY <1>1, <2>1, <2>2 DEF RInv, Reported, With
<1>5. Logged(q)'
  BY <1>1 DEF Logged
<1> QED BY <1>3, <1>4, <1>5 DEF Honest

(* The entry at hand is worked on. *)
LEMMA Progressed ==
    ASSUME RInv, NEW q \in Request, pc[q] \in Executing, pc'[q] \in Executing,
           pc'[q] \in {"writing", "setting", "renaming"} =>
               pc[q] \in {"writing", "setting", "renaming"} /\ wrote'[q] = wrote[q],
           Same(at, q), Same(todo, q), Same(authority, q), Same(current, q),
           Same(shown, q), Same(planned, q), SameOutcomes(q),
           \A e \in Target \ {at[q]} : registry'[e] = registry[e],
           wrote[q] \subseteq wrote'[q], wrote'[q] \subseteq wrote[q] \union {at[q]},
           touched[q] \ {at[q]} \subseteq touched'[q]
    PROVE  Honest(q)'
<1> USE DEF Same, SameOutcomes
<1>1. Ledger(q)'
  BY DEF RInv, Ledger, Wanted, Before, Planning, Running, Executing, Ended
<1>2. at[q] \notin DOMAIN status[q]
  BY WhileRunning DEF Running
<1> DOMAIN status[q] \subseteq Target
  BY DEF RInv, Ledger, IInv, TypeOK, IsPlan
<1>3. Reported(q)'
  BY <1>2 DEF RInv, Reported, IsTrue, Eligible, ShownStatus
<1>4. Logged(q)'
  BY DEF Logged, Executing
<1> QED BY <1>1, <1>3, <1>4 DEF Honest

---------------------------------------------------------------------------
(* The steps of a request. *)

LEMMA RouteIsHonest ==
    ASSUME RInv, NEW q \in Request, Preview(q) \/ CreateIntent(q) \/ Confirm(q)
    PROVE  Honest(q)'
<1>1. /\ UNCHANGED <<registry, outcomes, ghosts, shown, planned, at>>
      /\ pc[q] \in Before
  BY DEF Preview, CreateIntent, Confirm, Before, Planning, plans
<1>2. DOMAIN status[q] = {} /\ DOMAIN rollback[q] = {} /\ wrote[q] = {}
  BY <1>1 DEF RInv, Ledger
<1>3. Ledger(q)'
  <2>1. /\ DOMAIN status'[q] = {} /\ DOMAIN rollback'[q] = {} /\ wrote'[q] = {}
        /\ shown'[q] = shown[q] /\ planned'[q] = planned[q]
    BY <1>1, <1>2 DEF outcomes, ghosts
  <2>2. CASE Preview(q)
    <3>1. pc[q] = "idle" /\ DOMAIN shown[q] = {}
      BY <2>2 DEF RInv, IInv, PlansGrow, Preview
    <3>2. /\ authority'[q] = configuration
          /\ \/ /\ HasPreset(configuration) /\ pc'[q] = "previewing"
                /\ todo'[q] = DOMAIN Desired(configuration)
             \/ pc'[q] = "nothing"
      BY <2>2 DEF RInv, IInv, TypeOK, Preview, Goto
    <3> QED
      BY <2>1, <3>1, <3>2 DEF Ledger, Wanted, Before, Planning, Running, Executing,
         Ended
  <2>3. CASE CreateIntent(q)
    <3>1. /\ todo[q] = {} /\ pc'[q] \in {"nothing", "offered"}
          /\ authority'[q] = authority[q] /\ pc[q] = "previewing"
      BY <2>3 DEF RInv, IInv, TypeOK, CreateIntent, Goto, plans
    <3>2. HasPreset(authority[q]) /\ DOMAIN shown[q] = Wanted(q)
      BY <3>1 DEF RInv, Ledger, Planning
    <3> QED
      BY <2>1, <3>1, <3>2 DEF Ledger, Wanted, Before, Planning, Running, Executing,
         Ended
  <2>4. CASE Confirm(q)
    <3>1. /\ pc[q] = "offered" /\ authority'[q] = authority[q]
          /\ current'[q] = configuration
          /\ \/ /\ pc'[q] = "planning"
                /\ HasPreset(configuration) =>
                      todo'[q] = DOMAIN Desired(configuration)
             \/ pc'[q] = "refused"
      BY <2>4 DEF RInv, IInv, TypeOK, Confirm, Goto
    <3>2. /\ HasPreset(authority[q]) /\ DOMAIN shown[q] = Wanted(q)
          /\ DOMAIN planned[q] = {}
      BY <3>1 DEF RInv, IInv, PlansGrow, Ledger, Planning
    <3> QED
      BY <2>1, <3>1, <3>2 DEF Ledger, Wanted, Before, Planning, Running, Executing,
         Ended
  <2> QED BY <2>2, <2>3, <2>4
<1>4. Reported(q)'
  BY <1>1, <1>2 DEF Reported, outcomes
<1>5. pc'[q] # "done"
  BY DEF RInv, IInv, TypeOK, Preview, CreateIntent, Confirm, Goto
<1> QED BY <1>3, <1>4, <1>5 DEF Honest, Logged

LEMMA CheckAuthorityIsHonest ==
    ASSUME RInv, NEW q \in Request, CheckAuthority(q)
    PROVE  Honest(q)'
<1> USE DEF CheckAuthority, Goto
<1>1. /\ DOMAIN status[q] = {} /\ DOMAIN rollback[q] = {} /\ wrote[q] = {}
      /\ HasPreset(authority[q]) /\ DOMAIN shown[q] = Wanted(q) /\ at[q] = "none"
  BY DEF RInv, IInv, TypeOK, PlansGrow, Ledger, Before, Planning
<1>2. wrote'[q] = {} /\ at'[q] = "none" /\ UNCHANGED plans
  BY <1>1 DEF ghosts
<1>3. CASE SameAuthority(q)
  <2>1. DOMAIN planned[q] = DOMAIN shown[q]
    BY <1>1, <1>3 DEF RInv, Ledger, SameAuthority, Authority, Wanted
  <2>2. /\ pc'[q] = "deciding" /\ todo'[q] = DOMAIN planned[q]
        /\ status'[q] = status[q] /\ rollback'[q] = rollback[q]
    BY <1>3 DEF RInv, IInv, TypeOK
  <2>3. Ledger(q)'
    BY <1>1, <1>2, <2>1, <2>2 DEF Ledger, Wanted, plans, Before, Planning, Running,
       Executing, Ended
  <2> QED BY <1>1, <2>2, <2>3 DEF Honest, Reported, Logged
<1>4. CASE ~SameAuthority(q)
  <2>1. /\ pc'[q] = "finished"
        /\ status'[q] = [e \in DOMAIN shown[q] |-> "stale"]
        /\ rollback'[q] = [e \in DOMAIN shown[q] |-> "not_required"]
    BY <1>4 DEF RInv, IInv, TypeOK
  <2>2. Ledger(q)'
    BY <1>1, <1>2, <2>1 DEF Ledger, Wanted, plans, Before, Planning, Running,
       Executing, Ended
  <2>3. Reported(q)'
    BY <1>2, <2>1 DEF Reported, IsTrue
  <2> QED BY <2>1, <2>2, <2>3 DEF Honest, Logged
<1> QED BY <1>3, <1>4

LEMMA SkipEntryIsHonest ==
    ASSUME RInv, NEW q \in Request, SkipEntry(q)
    PROVE  Honest(q)'
<1>1. PICK e \in Upcoming(q), s \in {"blocked", "no_change", "skipped", "stale"} :
          /\ Finish(q, e, s, "not_required")
          /\ e \in Eligible(q) => s \in {"blocked", "stale"}
  BY DEF SkipEntry
<1>2. pc[q] = "deciding" /\ UNCHANGED <<registry, plans, log, ghosts>>
  BY DEF SkipEntry
<1>3. e \in todo[q]
  BY <1>2 DEF RInv, Ledger, Upcoming
<1>4. wrote[q] \subseteq DOMAIN status[q] /\ e \notin DOMAIN status[q]
  BY <1>2, <1>3, WhileRunning DEF Running, Executing
<1> QED
  BY <1>1, <1>2, <1>3, <1>4, Finished DEF Running, plans, ghosts

LEMMA ExecuteEntryIsHonest ==
    ASSUME RInv, NEW q \in Request, ExecuteEntry(q)
    PROVE  Honest(q)'
<1>1. PICK e \in Upcoming(q) :
          /\ at' = [at EXCEPT ![q] = e]
          /\ Goto(q, IF e \in Value THEN "writing" ELSE "renaming")
  BY DEF ExecuteEntry
<1>2. /\ pc[q] = "deciding"
      /\ UNCHANGED <<registry, todo, plans, outcomes, ghosts>>
  BY DEF ExecuteEntry
<1>3. e \in todo[q]
  BY <1>2 DEF RInv, Ledger, Upcoming
<1>4. wrote[q] \subseteq DOMAIN status[q] /\ e \notin DOMAIN status[q]
  BY <1>2, <1>3, WhileRunning DEF Running, Executing
<1>5. at'[q] = e /\ pc'[q] \in {"writing", "renaming"}
  BY <1>1 DEF RInv, IInv, TypeOK, Goto
<1>6. Ledger(q)'
  BY <1>2, <1>3, <1>4, <1>5 DEF RInv, Ledger, Wanted, Before, Planning, Running,
     Executing, Ended, plans, outcomes, ghosts
<1>7. Reported(q)'
  BY <1>2 DEF RInv, Reported, IsTrue, Eligible, ShownStatus, plans, outcomes, ghosts
<1> QED BY <1>5, <1>6, <1>7 DEF Honest, Logged

LEMMA LogIsHonest ==
    ASSUME RInv, NEW q \in Request, Log(q)
    PROVE  Honest(q)'
<1>1. /\ UNCHANGED <<registry, todo, at, plans, status, rollback, ghosts>>
      /\ \/ pc[q] = "deciding" /\ todo[q] = {} /\ pc'[q] = "done"
         \/ pc[q] = "finished" /\ pc'[q] = "done"
         \/ pc[q] = "refused" /\ pc'[q] = "warned"
  BY DEF RInv, IInv, TypeOK, Log, Goto
<1>2. Ledger(q)'
  BY <1>1 DEF RInv, Ledger, Wanted, Before, Planning, Running, Executing, Ended,
     plans, ghosts
<1>3. Reported(q)'
  BY <1>1 DEF RInv, Reported, IsTrue, Eligible, ShownStatus, plans, ghosts
<1>4. Logged(q)'
  <2>1. LoggedStatus(q)' = LoggedStatus(q) /\ LoggedRollback(q)' = LoggedRollback(q)
    BY <1>1 DEF LoggedStatus, LoggedRollback, Got, RolledBack
  <2>2. \/ log'[q].status = "lost"
        \/ /\ log'[q].status = LoggedStatus(q)
           /\ log'[q].rollback = LoggedRollback(q)
    BY DEF RInv, Log
  <2> QED BY <2>1, <2>2 DEF Logged
<1> QED BY <1>2, <1>3, <1>4 DEF Honest

LEMMA ReadingIsHonest ==
    ASSUME RInv, NEW q \in Request, NEW e, NEW reading, EndsReading(q, e, reading)
    PROVE  Honest(q)'
<1> USE DEF EndsReading
<1>1. CASE Planned(q, e, reading)
  <2>1. /\ pc[q] \in {"previewing", "planning"}
        /\ pc'[q] = pc[q] /\ todo'[q] = todo[q] \ {e} /\ at'[q] = "none"
        /\ status'[q] = status[q] /\ rollback'[q] = rollback[q]
        /\ authority'[q] = authority[q] /\ current'[q] = current[q]
        /\ wrote'[q] = wrote[q]
    BY <1>1 DEF RInv, IInv, TypeOK, Planned
  <2>2. /\ pc[q] = "previewing" =>
              DOMAIN shown'[q] = DOMAIN shown[q] \union {e} /\ planned'[q] = planned[q]
        /\ pc[q] = "planning" =>
              DOMAIN planned'[q] = DOMAIN planned[q] \union {e} /\ shown'[q] = shown[q]
    BY <1>1 DEF RInv, IInv, TypeOK, Planned, With
  <2> HIDE DEF EndsReading
  <2>3. /\ DOMAIN status[q] = {} /\ DOMAIN rollback[q] = {} /\ wrote[q] = {}
        /\ HasPreset(authority[q])
        /\ pc[q] = "previewing" => DOMAIN shown[q] \union todo[q] = Wanted(q)
        /\ pc[q] = "planning" => DOMAIN shown[q] = Wanted(q)
        /\ pc[q] = "planning" /\ HasPreset(current[q]) =>
              DOMAIN planned[q] \union todo[q] = DOMAIN Desired(current[q])
    BY <2>1 DEF RInv, Ledger, Before, Planning
  <2>4. e \in todo[q]
    <3>1. at[q] \in todo[q] \union {"none"}
      BY <2>1 DEF RInv, IInv, PlansGrow
    <3> QED BY <3>1 DEF EndsReading, Upcoming
  <2>5. Ledger(q)'
    BY <2>1, <2>2, <2>3, <2>4 DEF Ledger, Wanted, Before, Planning, Running,
       Executing, Ended
  <2> QED BY <2>1, <2>3, <2>5 DEF Honest, Reported, Logged
<1>2. CASE ~Planned(q, e, reading)
  <2>1. pc[q] \in {"verifying", "inspecting", "reverifying"}
    BY <1>2 DEF Conclude, Verified, Inspected, Reverified
  <2>2. e = at[q] /\ e \in todo[q]
    BY <2>1, TargetAssumption, WhileRunning DEF RInv, IInv, TypeOK, Running,
       Executing, Upcoming
  <2>3. /\ Desired(current[q]) = Desired(authority[q])
        /\ wrote[q] \subseteq DOMAIN status[q] \union {e}
        /\ planned[q][e] = shown[q][e]
        /\ planned[q][e] \notin Unread /\ Desired(current[q])[e] \notin Unread
    <3>1. pc[q] \in Executing /\ pc[q] \in Running
      BY <2>1 DEF Executing, Running
    <3>2. Desired(current[q])[e] \in IF e \in Value THEN Data ELSE Visibility
      BY <2>2, <3>1, EntryAtHand DEF RInv, IInv, TypeOK, IsConfiguration, IsDraft,
         IsDesired, HasPreset, Desired
    <3>3. Desired(current[q])[e] \notin Unread
      BY <3>2, DataAssumption DEF Visibility, Unread
    <3> QED BY <2>2, <3>1, <3>3, WhileRunning, EntryAtHand DEF RInv
  <2>4. CASE \E s, b : /\ Finish(q, e, s, b)
                       /\ s \in {"succeeded", "failed"}
                       /\ s = "succeeded" => reading = Desired(current[q])[e]
                       /\ s = "failed" /\ b # "failed" => reading = planned[q][e]
    <3>1. UNCHANGED <<shown, planned>>
      BY <1>2 DEF Conclude, Verified, Inspected, Reverified
    <3> QED BY <2>1, <2>2, <2>3, <2>4, <3>1, Finished DEF Running, Executing
  <2>5. CASE /\ pc'[q] \in {"restoring", "inspecting", "renaming_back"}
             /\ UNCHANGED <<todo, at, status, rollback, shown, planned>>
    <3>1. \A d \in Target \ {at[q]} : registry'[d] = registry[d]
      OBVIOUS
    <3> QED
      BY <2>1, <2>2, <2>5, <3>1, Progressed DEF Executing, Same, SameOutcomes
  <2> QED
    BY <1>2, <2>1, <2>4, <2>5 DEF Conclude, Verified, Inspected, Reverified, Goto,
       RInv, IInv, TypeOK
<1> QED BY <1>1, <1>2

(* The first of two readings of a branch says nothing yet. *)
LEMMA BranchIsHonest ==
    ASSUME RInv, NEW q \in Request, NEW e, StartsBranch(q, e)
    PROVE  Honest(q)'
<1>1. /\ pc'[q] = pc[q] /\ todo'[q] = todo[q] /\ at'[q] = e
      /\ authority'[q] = authority[q] /\ current'[q] = current[q]
      /\ shown'[q] = shown[q] /\ planned'[q] = planned[q] /\ wrote'[q] = wrote[q]
      /\ SameOutcomes(q)
      /\ touched'[q] = touched[q] \ {e}
      /\ registry' = registry
  BY DEF RInv, IInv, TypeOK, StartsBranch, SameOutcomes, plans, outcomes
<1>2. e \in Upcoming(q) /\ pc[q] \in Inspecting
  BY DEF StartsBranch
<1>3. CASE pc[q] \in {"previewing", "planning"}
  <2>1. Ledger(q)'
    BY <1>1, <1>3 DEF RInv, Ledger, Wanted, SameOutcomes, Before, Planning,
       Running, Executing, Ended
  <2>2. DOMAIN status[q] = {}
    BY <1>3 DEF RInv, Ledger, Before, Planning
  <2> QED BY <1>1, <1>3, <2>1, <2>2 DEF Honest, Reported, Logged, SameOutcomes
<1>4. CASE pc[q] \in Executing
  <2>1. at[q] # "none"
    BY <1>4, EntryAtHand, TargetAssumption DEF RInv
  <2>2. at[q] = e
    BY <1>2, <2>1 DEF Upcoming
  <2>3. \A d \in Target \ {at[q]} : registry'[d] = registry[d]
    BY <1>1
  <2> QED
    BY <1>1, <1>4, <2>2, <2>3, Progressed DEF Same
<1> QED BY <1>2, <1>3, <1>4 DEF Inspecting, Executing

(* A call that raises is rolled back, or is the end of the entry: a rename   *)
(* that raises has left the branch as it was read.                           *)
LEMMA RaiseIsHonest ==
    ASSUME RInv, NEW q \in Request, Raise(q, at[q]),
           pc[q] \in Changing \union {"writing", "restoring"},
           UNCHANGED <<registry, authority, current, shown, planned, log, ghosts>>
    PROVE  Honest(q)'
<1>1. pc[q] \in Executing /\ pc[q] \in Running
  BY DEF Executing, Running, Changing
<1>2. /\ at[q] \in todo[q] /\ at[q] \in Eligible(q) /\ at[q] \in Target
      /\ wrote[q] \subseteq DOMAIN status[q] \union {at[q]}
      /\ planned[q][at[q]] = shown[q][at[q]] /\ planned[q][at[q]] \notin Unread
  BY <1>1, WhileRunning, EntryAtHand DEF RInv
<1>3. CASE pc[q] \in {"writing", "setting"}
  <2>1. pc'[q] = "restoring" /\ UNCHANGED <<todo, at, status, rollback>>
    BY <1>3 DEF RInv, IInv, TypeOK, Raise, Goto
  <2>2. \A e \in Target \ {at[q]} : registry'[e] = registry[e]
    OBVIOUS
  <2> QED
    BY <1>1, <2>1, <2>2, Progressed DEF Executing, Same, SameOutcomes, ghosts
<1>4. CASE pc[q] = "renaming"
  <2>1. at[q] \notin wrote[q]
    BY <1>4 DEF RInv, Ledger
  <2>2. at[q] \in DOMAIN planned[q]
    BY <1>1, <1>2, TargetAssumption DEF RInv, IInv, PlansGrow
  <2>3. at[q] \in touched[q] \/ registry[at[q]] = shown[q][at[q]]
    BY <1>2, <2>1, <2>2 DEF RInv, IInv, ReadingsHold
  <2>4. Finish(q, at[q], "failed", "not_required")
    BY <1>4 DEF Raise
  <2> QED BY <1>1, <1>2, <2>3, <2>4, Finished DEF ghosts
<1>5. CASE pc[q] \notin {"writing", "setting", "renaming"}
  <2>1. Finish(q, at[q], "failed", "failed")
    BY <1>5 DEF Raise
  <2> QED BY <1>1, <1>2, <2>1, Finished DEF ghosts
<1> QED BY <1>3, <1>4, <1>5

LEMMA FindValueIsHonest ==
    ASSUME RInv, NEW q \in Request, FindValue(q)
    PROVE  Honest(q)'
<1>1. /\ pc[q] \in {"writing", "restoring"}
      /\ UNCHANGED <<registry, authority, current, shown, planned, log, ghosts>>
  BY DEF FindValue, plans
<1>2. CASE Raise(q, at[q])
  BY <1>1, <1>2, RaiseIsHonest
<1>3. CASE Return(q, IF pc[q] = "writing" THEN "setting" ELSE "resetting")
  <2>1. /\ UNCHANGED <<todo, at, status, rollback>>
        /\ pc'[q] = IF pc[q] = "writing" THEN "setting" ELSE "resetting"
    BY <1>3 DEF RInv, IInv, TypeOK, Return, Goto
  <2>2. \A e \in Target \ {at[q]} : registry'[e] = registry[e]
    BY <1>1
  <2> QED
    BY <1>1, <2>1, <2>2, Progressed DEF Executing, Same, SameOutcomes, ghosts
<1> QED BY <1>2, <1>3 DEF FindValue

LEMMA WritingIsHonest ==
    ASSUME RInv, NEW q \in Request, Writes(q)
    PROVE  Honest(q)'
<1>1. pc[q] \in Changing /\ pc[q] \in Executing /\ UNCHANGED <<plans, log>>
  BY DEF Writes, Changing, Executing
<1>2. CASE EntryRaises(q)
  BY <1>1, <1>2, RaiseIsHonest DEF EntryRaises, plans
<1>3. CASE EntryChanges(q)
  <2>1. /\ UNCHANGED <<todo, at, status, rollback>>
        /\ pc'[q] \in {"verifying", "reverifying"}
    BY <1>3 DEF RInv, IInv, TypeOK, EntryChanges, Return, Goto
  <2>2. /\ \A e \in Target \ {at[q]} : registry'[e] = registry[e]
        /\ wrote'[q] = wrote[q] \union {at[q]} /\ touched'[q] = touched[q]
    BY <1>3 DEF RInv, IInv, TypeOK, EntryChanges, Change
  <2> QED
    BY <1>1, <2>1, <2>2, Progressed DEF Executing, Same, SameOutcomes, plans
<1> QED BY <1>2, <1>3 DEF Writes

LEMMA StepIsHonest ==
    ASSUME RInv, NEW q \in Request, Preview(q) \/ Confirm(q) \/ Serve(q)
    PROVE  Honest(q)'
<1>1. CASE Read(q)
  BY <1>1, Readings, ReadingIsHonest, BranchIsHonest DEF RInv
<1>2. CASE Write(q)
  BY <1>2, FindValueIsHonest, SetValueWrites, RenameBranchWrites, WritingIsHonest
  DEF Write, RInv
<1> QED
  BY <1>1, <1>2, RouteIsHonest, CheckAuthorityIsHonest, SkipEntryIsHonest,
     ExecuteEntryIsHonest, LogIsHonest DEF Serve

(* The step of one request is not one of another. *)
LEMMA OthersAlone ==
    ASSUME RInv, NEW q \in Request, Preview(q) \/ Confirm(q) \/ Serve(q),
           NEW r \in Request \ {q}
    PROVE  Undisturbed(r) /\ SameOutcomes(r)
<1> USE DEF RInv, IInv, TypeOK, Undisturbed, SameOutcomes
<1>1. CASE Preview(q) \/ Confirm(q) \/ CreateIntent(q)
  BY <1>1 DEF Preview, Confirm, CreateIntent, Goto, plans, outcomes, ghosts
<1>2. CASE CheckAuthority(q)
  BY <1>2 DEF CheckAuthority, Goto, plans, ghosts
<1>3. CASE SkipEntry(q)
  BY <1>3 DEF SkipEntry, Finish, Goto, plans, ghosts
<1>4. CASE ExecuteEntry(q)
  BY <1>4 DEF ExecuteEntry, Goto, plans, outcomes, ghosts
<1>5. CASE Log(q)
  BY <1>5 DEF Log, Goto, plans, ghosts
<1>6. CASE FindValue(q)
  BY <1>6 DEF FindValue, Raise, Return, Finish, Goto, plans, ghosts
<1>7. CASE Writes(q)
  <2>1. CASE EntryRaises(q)
    BY <1>7, <2>1 DEF Writes, EntryRaises, Raise, Finish, Goto, plans, ghosts
  <2>2. CASE EntryChanges(q)
    BY <1>7, <2>2 DEF Writes, EntryChanges, Change, Return, Goto, plans
  <2> QED BY <1>7, <2>1, <2>2 DEF Writes
<1>8. ASSUME NEW e, NEW reading, EndsReading(q, e, reading)
      PROVE  Undisturbed(r) /\ SameOutcomes(r)
  BY <1>8 DEF EndsReading, Conclude, Planned, Verified, Inspected, Reverified,
     Finish, Goto
<1>9. ASSUME NEW e, StartsBranch(q, e)
      PROVE  Undisturbed(r) /\ SameOutcomes(r)
  BY <1>9 DEF StartsBranch, plans, outcomes
<1>10. CASE Read(q)
  <2> HIDE DEF IInv, TypeOK, Undisturbed, SameOutcomes
  <2> QED BY <1>8, <1>9, <1>10, Readings
<1>11. CASE Write(q)
  <2> HIDE DEF IInv, TypeOK, Undisturbed, SameOutcomes
  <2> QED BY <1>6, <1>7, <1>11, SetValueWrites, RenameBranchWrites DEF Write
<1> HIDE DEF RInv, IInv, TypeOK, Undisturbed, SameOutcomes
<1> QED
  BY <1>1, <1>2, <1>3, <1>4, <1>5, <1>10, <1>11 DEF Serve

(* The tables of outcomes have an entry for each request. *)
LEMMA TablesStay ==
    ASSUME RInv, [Next]_<<vars, edits>>
    PROVE  /\ DOMAIN status' = Request /\ DOMAIN rollback' = Request
           /\ DOMAIN log' = Request
           /\ \A r \in Request : DOMAIN log'[r] = {"status", "rollback"}
<1> USE DEF RInv
<1>1. \/ UNCHANGED log
      \/ \E q \in Request :
            \/ log' = [log EXCEPT ![q] = [status |-> LoggedStatus(q),
                                          rollback |-> LoggedRollback(q)]]
            \/ log' = [log EXCEPT ![q].status = "lost"]
  BY DEF Next, Preview, Confirm, Serve, Read, ReadValue, ReadVisible, ReadHidden,
     CreateIntent, CheckAuthority, SkipEntry, ExecuteEntry, Write, FindValue,
     SetValue, RenameBranch, Log, OtherProgram, SaveConfiguration, EditItem,
     ReadSettings, DeleteItem, SaveTarget, SavePreset, SaveSettings, EditFails,
     outcomes, execution, vars
<1>2. DOMAIN log' = Request /\ \A r \in Request : DOMAIN log'[r] = {"status", "rollback"}
  BY <1>1
<1> DEFINE Tables == DOMAIN status' = DOMAIN status /\ DOMAIN rollback' = DOMAIN rollback
<1>3. ASSUME NEW q \in Request, NEW e, NEW s, NEW b, Finish(q, e, s, b)
      PROVE  Tables
  BY <1>3 DEF Finish
<1>4. ASSUME NEW q \in Request, NEW e, NEW reading, Conclude(q, e, reading)
      PROVE  Tables
  <2> HIDE DEF Tables
  <2>1. UNCHANGED <<status, rollback>> => Tables
    BY DEF Tables
  <2> QED
    BY <1>3, <1>4, <2>1 DEF Conclude, Planned, Verified, Inspected, Reverified
<1>5. ASSUME NEW q \in Request, Raise(q, at[q])
      PROVE  Tables
  <2> HIDE DEF Tables
  <2>1. UNCHANGED <<status, rollback>> => Tables
    BY DEF Tables
  <2> QED BY <1>3, <1>5, <2>1 DEF Raise
<1>6. UNCHANGED <<status, rollback>> => Tables
  OBVIOUS
<1> HIDE DEF Tables
<1>7. ASSUME NEW q \in Request, Read(q)
      PROVE  Tables
  BY <1>4, <1>6, <1>7 DEF Read, ReadValue, ReadVisible, ReadHidden
<1>8. ASSUME NEW q \in Request, Write(q)
      PROVE  Tables
  BY <1>5, <1>6, <1>8 DEF Write, FindValue, SetValue, RenameBranch, Return
<1>9. ASSUME NEW q \in Request, CheckAuthority(q)
      PROVE  Tables
  BY <1>9 DEF CheckAuthority, Tables
<1>10. ASSUME NEW q \in Request,
              \/ Preview(q) \/ Confirm(q) \/ CreateIntent(q) \/ SkipEntry(q)
              \/ ExecuteEntry(q) \/ Log(q)
       PROVE  Tables
  BY <1>3, <1>6, <1>10
  DEF Preview, Confirm, CreateIntent, SkipEntry, ExecuteEntry, Log, outcomes
<1>11. ASSUME NEW u \in Editor, EditItem(u)
       PROVE  Tables
  BY <1>6, <1>11 DEF EditItem, ReadSettings, DeleteItem, SaveTarget, SavePreset,
     SaveSettings, EditFails, execution, outcomes
<1>12. OtherProgram \/ SaveConfiguration \/ UNCHANGED <<vars, edits>> => Tables
  BY <1>6 DEF OtherProgram, SaveConfiguration, vars, outcomes
<1>13. Tables
  BY <1>7, <1>8, <1>9, <1>10, <1>11, <1>12 DEF Next, Serve
<1> QED BY <1>2, <1>13 DEF Tables

LEMMA NextIsHonest == RInv /\ [Next]_<<vars, edits>> => RInv'
<1> SUFFICES ASSUME RInv, [Next]_<<vars, edits>>
             PROVE  RInv'
  OBVIOUS
<1>1. IInv'
  BY NextKeeps DEF RInv
<1>2. ASSUME NEW r \in Request
      PROVE  Honest(r)'
  <2>1. CASE \E q \in Request : Preview(q) \/ Confirm(q) \/ Serve(q)
    <3>1. PICK q \in Request : Preview(q) \/ Confirm(q) \/ Serve(q)
      BY <2>1
    <3>2. CASE r = q
      BY <3>1, <3>2, StepIsHonest
    <3>3. CASE r # q
      <4>1. Undisturbed(r) /\ SameOutcomes(r)
        BY <3>1, <3>3, OthersAlone
      <4> QED BY <4>1, Untold
    <3> QED BY <3>2, <3>3
  <2>2. CASE OtherProgram
    <3>1. Undisturbed(r) /\ SameOutcomes(r)
      BY <2>2 DEF RInv, IInv, TypeOK, Undisturbed, SameOutcomes, OtherProgram, plans,
         outcomes
    <3> QED BY <3>1, Untold
  <2>3. CASE UNCHANGED execution
    <3>1. Undisturbed(r) /\ SameOutcomes(r)
      BY <2>3 DEF Undisturbed, SameOutcomes, execution, plans, outcomes, ghosts
    <3> QED BY <3>1, Untold
  <2>4. ASSUME NEW u \in Editor, EditItem(u)
        PROVE  UNCHANGED execution
    BY <2>4 DEF EditItem, ReadSettings, DeleteItem, SaveTarget, SavePreset,
       SaveSettings, EditFails
  <2>5. SaveConfiguration \/ UNCHANGED <<vars, edits>> => UNCHANGED execution
    BY DEF SaveConfiguration, vars, execution
  <2> QED BY <2>1, <2>2, <2>3, <2>4, <2>5 DEF Next
<1> QED BY <1>1, <1>2, TablesStay DEF RInv, Honest

---------------------------------------------------------------------------
(* The theorems. *)

(* What a confirmation keeps of each entry, from its first write on, is what *)
(* its result and its log entry then say: RegistryExecutor and the routes    *)
(* that log it.                                                              *)
THEOREM BooksAreKept == Spec => []RInv
<1> QED BY StartsTrue, NextIsHonest, PTL DEF Spec

(* Whatever fails and whoever interferes, every entry that was shown has a   *)
(* result, and it is true of each target nobody else has touched: the        *)
(* verification of writes and of rollbacks.                                  *)
THEOREM ResultsAreTrueHolds == Spec => []ResultsAreTrue
<1>1. RInv => ResultsAreTrue
  BY DEF RInv, Ledger, Reported, IsTrue, Ended, ResultsAreTrue
<1> QED BY <1>1, BooksAreKept, PTL

(* The entry in the operation log sums the results up truthfully: a success  *)
(* means that all that was shown is done, and anything else without a failed *)
(* rollback and without a success that nothing is changed.                   *)
THEOREM LogIsTrueHolds == Spec => []LogIsTrue
<1>1. ASSUME RInv, NEW r \in Request, pc[r] = "done"
      PROVE  /\ log[r].status = "success" =>
                    \A e \in Eligible(r) \ touched[r] :
                        registry[e] = Desired(authority[r])[e]
             /\ log[r].status \in {"failed", "blocked", "no_changes"}
                /\ log[r].rollback # "partial" =>
                    \A e \in wrote[r] \ touched[r] : registry[e] = shown[r][e]
  <2>1. /\ DOMAIN status[r] = DOMAIN shown[r] /\ DOMAIN rollback[r] = DOMAIN status[r]
        /\ wrote[r] \subseteq DOMAIN status[r]
    BY <1>1 DEF RInv, Ledger, Ended, Executing
  <2>2. /\ \A e \in DOMAIN status[r] \ touched[r] : IsTrue(r, e)
        /\ \A e \in Eligible(r) :
              status[r][e] \in {"succeeded", "failed", "stale", "blocked"}
    BY <1>1, <2>1 DEF RInv, Reported, Eligible
  <2>3. Eligible(r) \subseteq DOMAIN status[r]
    BY <2>1 DEF Eligible
  <2>4. ASSUME log[r].status = "success", NEW e \in Eligible(r) \ touched[r]
        PROVE  registry[e] = Desired(authority[r])[e]
    <3>1. LoggedStatus(r) = "success"
      BY <1>1, <2>4 DEF RInv, Logged
    <3>2. ~Got(r, "failed") /\ ~Got(r, "stale") /\ ~Got(r, "blocked")
      BY <3>1 DEF LoggedStatus
    <3>3. status[r][e] = "succeeded"
      BY <2>2, <2>3, <3>2 DEF Got
    <3> QED BY <2>2, <2>3, <3>3 DEF IsTrue
  <2>5. ASSUME log[r].status \in {"failed", "blocked", "no_changes"},
               log[r].rollback # "partial", NEW e \in wrote[r] \ touched[r]
        PROVE  registry[e] = shown[r][e]
    <3>1. LoggedStatus(r) \in {"failed", "blocked", "no_changes"}
          /\ LoggedRollback(r) # "partial"
      BY <1>1, <2>5 DEF RInv, Logged
    <3>2. ~Got(r, "succeeded") /\ ~RolledBack(r, "failed")
      BY <3>1 DEF LoggedStatus, LoggedRollback
    <3>3. e \in DOMAIN status[r] /\ status[r][e] # "succeeded" /\ rollback[r][e] # "failed"
      BY <2>1, <3>2 DEF Got, RolledBack
    <3> QED BY <2>2, <3>3 DEF IsTrue
  <2> QED BY <2>4, <2>5
<1>2. RInv => LogIsTrue
  BY <1>1 DEF LogIsTrue
<1> QED BY <1>2, BooksAreKept, PTL

===========================================================================

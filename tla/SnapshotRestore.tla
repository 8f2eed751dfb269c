-------------------------- MODULE SnapshotRestore --------------------------
(***************************************************************************)
(* Restoring a snapshot.  The planner captures the present as a snapshot   *)
(* would, plugin by plugin, takes the difference to the saved one, and     *)
(* asks the plugin of each resource that differs what restoring it would   *)
(* take.  After the confirmation all of it is done again, and then entry   *)
(* by entry what is still as shown is executed.                            *)
(***************************************************************************)
EXTENDS Environment

(* The plugins that capture, in the order of the plugin manager. *)
Capturing == <<"license", "logs", "registry">>

(* What a plugin captures of what it has inspected: a license file without  *)
(* its place, a Registry target with it.                                    *)
Captured(c, insp) ==
    [x \in DOMAIN insp |->
        [place |-> IF x \in File THEN None ELSE c.place, look |-> insp[x]]]

(* Seeded fault: resources that are only in the snapshot are left out. *)
DifferenceOfPresent(present, saved) ==
    [x \in DOMAIN present |->
        IF x \notin DOMAIN saved THEN "removed"
        ELSE IF present[x] = saved[x] THEN "unchanged" ELSE "changed"]

(* SnapshotDiffer: every resource of either side, and how they compare. *)
Difference(present, saved) ==
    [x \in DOMAIN present \union DOMAIN saved |->
        CASE x \notin DOMAIN present -> "added"
          [] x \notin DOMAIN saved -> "removed"
          [] x \in DOMAIN present \intersect DOMAIN saved ->
                IF present[x] = saved[x] THEN "unchanged" ELSE "changed"]

(* Where a resource of the snapshot is to be restored by configuration c,   *)
(* if it still is a resource that can be.                                   *)
Restorable(c, x, saved) ==
    /\ Enabled(c)
    /\ x \in c.listed
    /\ x \in Target => saved.place = c.place
    /\ saved.look.status \in Holding

(* What restoring x would take, by the snapshot, the present and c. *)
Required(c, x, present, saved) ==
    IF x \notin DOMAIN saved \/ x \notin DOMAIN present THEN "blocked"
    ELSE IF ~Restorable(c, x, saved[x]) THEN "blocked"
    ELSE Planned([y \in {x} |-> present[x].look], x, saved[x].look.status)

(* An error of the plan of a Registry entry blocks it, like the others. *)
EntryStatus(c, x, present, saved) ==
    IF Difference(present, saved)[x] = "unchanged" THEN "no_change"
    ELSE IF x \in Source THEN "unsupported"
    ELSE IF Required(c, x, present, saved) = "error" THEN "blocked"
    ELSE Required(c, x, present, saved)

RestoreEntry(c, x, present, saved) ==
    [status      |-> EntryStatus(c, x, present, saved),
     desired     |-> IF x \in DOMAIN saved THEN saved[x].look.status ELSE None,
     place       |-> PlaceOf(c),
     fingerprint |-> IF x \in DOMAIN present
                     THEN [place |-> IF x \in File THEN PlaceOf(c) ELSE None,
                           look |-> present[x].look]
                     ELSE [place |-> None, look |-> None]]

---------------------------------------------------------------------------
(* Planning: for the page, and again after the confirmation. *)

(* The plan under way holds the saved snapshot as "profile", and what has   *)
(* been captured so far as "authority".                                     *)
PreviewRestore(s) ==
    /\ pc[s] = "idle"
    /\ snapshot # None
    /\ fresh' = [fresh EXCEPT ![s] = [NoPlan EXCEPT !.profile = snapshot]]
    /\ Goto(s, "capturing")
    /\ UNCHANGED <<world, budget, stage, shown, held, left, result, logged,
                   wrote, disturbed>>

(* One plugin after the other; what a plugin that raises holds is left out. *)
Capture(s) ==
    LET p == Capturing[stage[s]]
        c == config[p]
    IN  /\ pc[s] \in {"capturing", "recapturing"}
        /\ stage[s] <= Len(Capturing)
        /\ \/ \E insp \in Inspections(c) :
                /\ InspectedAs(c, insp)
                /\ fresh' = [fresh EXCEPT ![s].authority = Over(Captured(c, insp), @)]
           \/ Fault /\ UNCHANGED fresh
        /\ stage' = [stage EXCEPT ![s] = @ + 1]
        /\ UNCHANGED <<world, pc, shown, held, left, result, logged, wrote,
                       disturbed>>

(* The plan from all that was captured; a resource whose plugin raises has  *)
(* an error.                                                                *)
Plans(s) ==
    LET present == fresh[s].authority
        saved == fresh[s].profile
        all == DOMAIN Difference(present, saved)
        plan == [x \in all |-> RestoreEntry(config[PluginOf(x)], x, present, saved)]
    IN  {plan} \union
        {[plan EXCEPT ![x].status = "error"] :
            x \in {x \in all \ Source : plan[x].status # "no_change"}}

PlannedAs(s, plan) ==
    IF \A x \in DOMAIN plan : plan[x].status # "error" THEN NoFault ELSE Fault

(* It is offered for confirmation if there is something to execute. *)
ShowRestorePlan(s) ==
    /\ pc[s] = "capturing"
    /\ stage[s] > Len(Capturing)
    /\ \E plan \in Plans(s) :
        /\ PlannedAs(s, plan)
        /\ shown' = [shown EXCEPT ![s] =
                       [NoPlan EXCEPT !.profile = fresh[s].profile,
                                      !.entries = Only("snapshot", plan)]]
        /\ Goto(s, IF \E x \in DOMAIN plan : plan[x].status = "change"
                   THEN "shown" ELSE "answered")
    /\ fresh' = [fresh EXCEPT ![s] = NoPlan]
    /\ stage' = [stage EXCEPT ![s] = 1]
    /\ UNCHANGED <<world, held, left, result, logged, wrote, disturbed>>

---------------------------------------------------------------------------
(* Executing. *)

(* The snapshot is read again: it may be deleted, or unreadable. *)
ConfirmRestore(s) ==
    /\ pc[s] = "shown"
    /\ IF snapshot # None
       THEN /\ fresh' = [fresh EXCEPT ![s] = [NoPlan EXCEPT !.profile = snapshot]]
            /\ Goto(s, "recapturing")
       ELSE Goto(s, "answered") /\ UNCHANGED fresh
    /\ UNCHANGED <<world, budget, stage, shown, held, left, result, logged,
                   wrote, disturbed>>

ConfirmRestoreRaises(s) ==
    /\ pc[s] = "shown"
    /\ Fault
    /\ Goto(s, "answered")
    /\ UNCHANGED <<world, stage, shown, fresh, held, left, result, logged, wrote,
                   disturbed>>

ReplanRestore(s) ==
    /\ pc[s] = "recapturing"
    /\ stage[s] > Len(Capturing)
    /\ \E plan \in Plans(s) :
        /\ PlannedAs(s, plan)
        /\ fresh' = [fresh EXCEPT ![s].entries = Only("snapshot", plan)]
        /\ left' = [left EXCEPT ![s] = SetToSeq(DOMAIN plan)]
    /\ Goto(s, "entries")
    /\ UNCHANGED <<world, stage, shown, held, result, logged, wrote, disturbed>>

(* What becomes of the entry for x of the new plan. *)
Decision(s, x) ==
    LET entries == shown[s].entries["snapshot"]
        now == fresh[s].entries["snapshot"][x]
    IN  IF x \notin DOMAIN entries THEN "stale"
        ELSE IF entries[x].status = "change"
        THEN IF now.status = "change" /\ now.fingerprint = entries[x].fingerprint
             THEN "execute" ELSE "stale"
        ELSE IF entries[x].status # now.status THEN "stale"
        ELSE IF now.status = "unsupported" THEN "unsupported" ELSE "skipped"

EntryDone(s, x, status) ==
    /\ result' = [result EXCEPT ![s] = Over(Only(x, status), @)]
    /\ left' = [left EXCEPT ![s] = Tail(@)]
    /\ Goto(s, "entries")

(* The configuration is read again for an entry that is to be executed, and *)
(* an error of any kind fails it alone.                                     *)
DecideEntry(s) ==
    LET x == Head(left[s])
        decision == Decision(s, x)
    IN  /\ pc[s] = "entries"
        /\ left[s] # <<>>
        /\ IF decision # "execute"
           THEN EntryDone(s, x, decision) /\ NoFault /\ UNCHANGED held
           ELSE \/ EntryDone(s, x, "failed") /\ Fault /\ UNCHANGED held
                \/ /\ NoFault
                   /\ held' = [held EXCEPT ![s] = config[PluginOf(x)]]
                   /\ Goto(s, "restoring")
                   /\ UNCHANGED <<result, left>>
        /\ UNCHANGED <<world, stage, shown, fresh, logged, wrote, disturbed>>

(* A refusal: a license file that is not configured any more, or is blocked *)
(* now, fails; a Registry target that is not is stale.                      *)
RefuseEntry(s) ==
    LET x == Head(left[s])
        c == held[s]
        saved == shown[s].profile[x]
        gone == IF x \in File THEN ~Enabled(c) \/ (c # None /\ x \notin c.listed)
                              ELSE ~Restorable(c, x, saved)
    IN  /\ pc[s] = "restoring"
        /\ \/ /\ gone
              /\ NoFault
              /\ EntryDone(s, x, IF x \in File THEN "failed" ELSE "stale")
           \/ /\ ~gone
              /\ \E insp \in Inspections(c) :
                    /\ InspectedAs(c, insp)
                    /\ Fingerprint(c, insp, x) # shown[s].entries["snapshot"][x].fingerprint
                    /\ EntryDone(s, x,
                         IF x \in File /\ insp[x].status \in {"conflict", "error"}
                         THEN "failed" ELSE "stale")
        /\ UNCHANGED <<world, stage, shown, fresh, held, logged, wrote, disturbed>>

(* The resource is inspected once more, and changed. *)
ExecuteEntry(s) ==
    LET x == Head(left[s])
        c == held[s]
        entry == shown[s].entries["snapshot"][x]
    IN  /\ pc[s] = "restoring"
        /\ Enabled(c) /\ x \in c.listed
        /\ x \in Target => Restorable(c, x, shown[s].profile[x])
        /\ Fingerprint(c, Looked(c), x) = entry.fingerprint
        /\ Change(s, c.place, x, entry.fingerprint.look, entry.desired)
        /\ left' = [left EXCEPT ![s] = Tail(@)]
        /\ Goto(s, "entries")
        /\ UNCHANGED <<config, profile, snapshot, stage, shown, fresh, held, logged>>

Counted(s, statuses) == \E x \in DOMAIN result[s] : result[s][x] \in statuses

RestoreStatus(s) ==
    CASE Counted(s, {"success"}) /\ Counted(s, {"failed", "stale"}) -> "partial"
      [] Counted(s, {"success"}) /\ ~Counted(s, {"failed", "stale"}) -> "success"
      [] ~Counted(s, {"success"}) /\ Counted(s, {"stale"}) -> "rejected"
      [] ~Counted(s, {"success", "stale"}) /\ Counted(s, {"failed"}) -> "failed"
      [] OTHER -> "no_changes"

(* What was shown and is gone from the new plan is stale. *)
EndRestore(s) ==
    /\ pc[s] = "entries"
    /\ left[s] = <<>>
    /\ result' = [result EXCEPT ![s] =
                    Over(@, [x \in DOMAIN shown[s].entries["snapshot"] |-> "stale"])]
    /\ Goto(s, "logging")
    /\ UNCHANGED <<world, budget, stage, shown, fresh, held, left, logged, wrote,
                   disturbed>>

LogRestore(s) ==
    /\ pc[s] = "logging"
    /\ \/ NoFault /\ logged' = [logged EXCEPT ![s] = RestoreStatus(s)]
       \/ Fault /\ logged' = [logged EXCEPT ![s] = "unsaved"]
    /\ Goto(s, "answered")
    /\ fresh' = [fresh EXCEPT ![s] = NoPlan]
    /\ held' = [held EXCEPT ![s] = None]
    /\ UNCHANGED <<world, stage, shown, left, result, wrote, disturbed>>

RestoreSnapshot(s) ==
    \/ Capture(s) \/ ShowRestorePlan(s)
    \/ ReplanRestore(s)
    \/ DecideEntry(s) \/ RefuseEntry(s) \/ ExecuteEntry(s)
    \/ EndRestore(s) \/ LogRestore(s)

===========================================================================

------------------------- MODULE EnvironmentChanges -------------------------
(***************************************************************************)
(* Environment Profiles and Snapshot Restores at work on one machine, next *)
(* to each other, to other programs and to an administrator.               *)
(***************************************************************************)
EXTENDS EnvironmentProfiles, SnapshotRestore

Init == EnvironmentInit

Next ==
    \/ \E a \in Applier :
        PreviewProfile(a) \/ ConfirmProfile(a) \/ ConfirmProfileRaises(a)
        \/ ApplyProfile(a)
    \/ \E s \in Restorer :
        PreviewRestore(s) \/ ConfirmRestore(s) \/ ConfirmRestoreRaises(s)
        \/ RestoreSnapshot(s)
    \/ OtherProgram \/ SaveConfiguration \/ EditProfile \/ DeleteSnapshot

Spec == Init /\ [][Next]_vars

(* A request that has begun is served to its end; no page must be opened or *)
(* confirmed.                                                               *)
FairSpec ==
    /\ Spec
    /\ \A a \in Applier : WF_vars(ApplyProfile(a))
    /\ \A s \in Restorer : WF_vars(RestoreSnapshot(s))

---------------------------------------------------------------------------
(* What was shown of x to request r. *)
EntriesShown(r) ==
    UNION {{<<x, shown[r].entries[p][x]>> : x \in DOMAIN shown[r].entries[p]} :
           p \in DOMAIN shown[r].entries}

EntryShown(r, x) == (CHOOSE pair \in EntriesShown(r) : pair[1] = x)[2]

Results(r, status) == {x \in DOMAIN result[r] : result[r][x] = status}

Refused == {"stale", "blocked", "no_change", "skipped", "unsupported"}

(* What request r makes of the resource at hand is what was shown of it. *)
WrittenAsShown(r) ==
    LET x == Head(left[r])
        entry == EntryShown(r, x)
        new == look'[entry.place][x]
    IN  /\ entry.status = "change"
        /\ look' = [look EXCEPT ![entry.place][x] = new]
        /\ new.status \in {entry.desired, Stuck(x, entry.desired),
                           entry.fingerprint.look.status}
        /\ look[entry.place][x] # entry.fingerprint.look => x \in disturbed[r]

(* A request changes one resource at a time, where and as its page has shown *)
(* it: to the shown state, or back from it.  If it is in another state than  *)
(* the page has shown, somebody else has changed it since: the plan for one  *)
(* section never runs on what an earlier section has made of a resource      *)
(* (executor.execute, execute_environment_profile, execute_restore).         *)
WritesWhatWasShown ==
    [][\A r \in Request :
        look' # look /\ <<pc[r], left[r]>>' # <<pc[r], left[r]>> => WrittenAsShown(r)]_vars

(* A result of success stands for a change that was made and is still there,  *)
(* unless somebody else has changed the resource; a refusal of any kind       *)
(* stands for none (_profile_license_result, status_map, _execute_entry).     *)
ResultsAreTrue ==
    \A r \in Request : \A x \in DOMAIN result[r] :
        LET entry == EntryShown(r, x)
        IN  /\ result[r][x] \in Refused => x \notin wrote[r]
            /\ result[r][x] = "success" =>
                /\ x \in wrote[r]
                /\ x \in disturbed[r]
                    \/ look[entry.place][x].status = entry.desired

(* Who else may make stale what request r has shown of x. *)
Reasons(r, x) == {x, PluginOf(x)} \union (IF r \in Applier THEN {"profile"} ELSE {})

(* The Registry targets that a plan has not been able to read. *)
ErrorsOf(plan) ==
    IF "registry" \in DOMAIN plan.entries
    THEN {y \in DOMAIN plan.entries["registry"] :
            plan.entries["registry"][y].status = "error"}
    ELSE {}

(* Targets of the preset of r that were shown with an error, or that somebody *)
(* else has made unreadable before they were planned again.                   *)
Spoilers(r) == ErrorsOf(shown[r]) \union (ErrorsOf(fresh[r]) \intersect disturbed[r])

(* A step calls a change that was shown stale only for a reason outside the   *)
(* request: the resource or its plugin's configuration was changed since its  *)
(* page, the profile was edited, or a call has failed.  That an earlier       *)
(* section of the same profile, or an earlier entry of the same restore, has  *)
(* done its work never makes a later one stale, and neither does another      *)
(* entry of the section: with the one exception that a preset with a target   *)
(* that cannot be planned, because it is disabled, or holds what the reader   *)
(* has no name for, is stale as a whole (the authority_fingerprint per        *)
(* provider, the error test over all entries of a section in execute, the     *)
(* expected_fingerprint per entry).                                           *)
StaleForAReason ==
    [][\A r \in Request : \A pair \in EntriesShown(r) :
         LET x == pair[1]
         IN  /\ ~budget'.failed
             /\ pair[2].status = "change"
             /\ x \in Results(r, "stale")' \ Results(r, "stale")
             => \/ Reasons(r, x) \intersect disturbed[r] # {}
                \/ x \in Target /\ Spoilers(r) # {}]_vars

(* The Operation Log says "success" only if nothing failed and something was  *)
(* done, "partial" only if both, and what claims that nothing was changed is  *)
(* true, but for what was left changed by a rollback that failed              *)
(* (_operation_status of both executors).                                     *)
LogIsTrue ==
    \A r \in Request :
        /\ logged[r] \in {"success", "partial"} => Results(r, "success") # {}
        /\ logged[r] = "success" => wrote[r] = Results(r, "success")
        /\ logged[r] = "no_changes" => wrote[r] = {}
        /\ logged[r] \in {"rejected", "failed"} =>
            wrote[r] \subseteq Results(r, "failed")

(* What a snapshot has of each resource is answered for, even if the plugin   *)
(* that captures it raises or does not know it any more; what was shown as a  *)
(* change is not passed over in silence (SnapshotDiffer.diff, which has the   *)
(* resources of both sides, and _execute_entry).                              *)
NothingIsForgotten ==
    \A s \in Restorer : logged[s] # "none" =>
        \A x \in DOMAIN shown[s].profile :
            /\ x \in DOMAIN result[s]
            /\ result[s][x] \in {"skipped", "unsupported"} =>
                EntryShown(s, x).status # "change"

(* Every request that has begun is answered, unless it waits to be confirmed. *)
Answered ==
    \A r \in Request :
        pc[r] \notin {"idle", "shown", "answered"} ~> pc[r] \in {"shown", "answered"}

(* docs/reports/week-03.md:115-117: when one part succeeded and another did   *)
(* not, the user gets an honest partial result.                               *)
PartsAreTold ==
    \A a \in Applier : logged[a] = "success" =>
        \A pair \in EntriesShown(a) :
            pair[2].status # "no_change" => result[a][pair[1]] = "success"

===========================================================================

----------------------- MODULE LicenseManager_proofs -----------------------
(***************************************************************************)
(* Proofs about LicenseManager, for any number of files, requests and      *)
(* contents, any saved configuration, any failing calls and any deaths.    *)
(***************************************************************************)
EXTENDS LicenseManager, FiniteSetTheorems, TLAPS

(* A rollback only comes to files the moves have completed. *)
RestoredOK ==
    \A r \in Request :
        /\ restored[r] \subseteq completed[r]
        /\ pc[r] \in {"undoing", "undoUnlinking"} => todo[r] \subseteq completed[r]

IType == TypeOK /\ RestoredOK

LEMMA FileFinite ==
    ASSUME NEW S \in SUBSET File
    PROVE  IsFiniteSet(S) /\ Cardinality(S) \in Nat
  <1>1. IsFiniteSet(File)
    BY FS_Interval, NumFilesAssumption DEF File
  <1>2. IsFiniteSet(S)
    BY <1>1, FS_Subset
  <1> QED  BY <1>2, FS_CardinalityType

LEMMA Reports ==
    ASSUME NEW status \in {"none", "success", "no_changes", "failed",
                           "partial", "blocked", "rejected"},
           NEW rollback \in {"not_required", "not_attempted", "complete",
                             "partial"},
           NEW changed \in Nat, NEW backup \in BOOLEAN, NEW stale \in BOOLEAN
    PROVE  Report(status, rollback, changed, backup, stale) \in Outcome
  BY DEF Report, Outcome

LEMMA RollbackReportType ==
    ASSUME TypeOK, RestoredOK, NEW r \in Request
    PROVE  RollbackReport(r) \in Outcome
  <1>1. /\ completed[r] \in SUBSET File
        /\ restored[r] \subseteq completed[r]
        /\ partial[r] \in BOOLEAN
    BY DEF TypeOK, RestoredOK
  <1>2. /\ Cardinality(completed[r]) \in Nat
        /\ Cardinality(restored[r]) \in Nat
        /\ Cardinality(restored[r]) <= Cardinality(completed[r])
    BY <1>1, FileFinite, FS_Subset
  <1>3. Cardinality(completed[r]) - Cardinality(restored[r])
          + (IF partial[r] THEN 1 ELSE 0) \in Nat
    BY <1>1, <1>2
  <1> QED  BY <1>3, Reports DEF RollbackReport

LEMMA NestedUpdate ==
    ASSUME NEW D, NEW E, NEW R, NEW g \in [D -> [E -> R]],
           NEW x \in D, NEW y \in E, NEW v \in R
    PROVE  [g EXCEPT ![x][y] = v] \in [D -> [E -> R]]
  OBVIOUS

LEMMA FaultType ==
    ASSUME TypeOK, Fault \/ NoFault
    PROVE  faults' \in 0..MaxFaults
  BY BoundAssumption DEF TypeOK, Fault, NoFault

(* Finishing a request with a well-formed report disturbs nothing else. *)
LEMMA FinishType ==
    ASSUME TypeOK, NEW r \in Request, NEW report \in Outcome, Finish(r, report)
    PROVE  /\ outcome' \in [Request -> Outcome]
           /\ pc' = [pc EXCEPT ![r] = "logging"]
           /\ pc' \in [Request -> PC]
  BY DEF Finish, Goto, TypeOK, PC

LEMMA TypeInit == Init => IType
  <1> SUFFICES ASSUME Init PROVE IType
    OBVIOUS
  <1>1. NoOutcome \in Outcome
    BY Reports DEF NoOutcome
  <1>2. NoInspection \in Inspection
    BY DEF NoInspection, Inspection, Probe
  <1>3. TypeOK
    <2>1. /\ faults \in 0..MaxFaults
          /\ crashes \in 0..MaxCrashes
      BY BoundAssumption DEF Init
    <2>4. action \in [Request -> {"hide-licenses", "restore-licenses"}]
      BY ActionAssumption DEF Init
    <2>5. pc \in [Request -> PC]
      BY DEF Init, PC
    <2>2. copies \in [Request -> [File -> Slot]]
      BY DEF Init, Slot
    <2>3. scope \in [Request -> [enabled : BOOLEAN, files : SUBSET File]]
      BY DEF Init
    <2> QED  BY <1>1, <1>2, <2>1, <2>2, <2>3, <2>4, <2>5 DEF Init, TypeOK
  <1>4. RestoredOK
    BY DEF Init, RestoredOK
  <1> QED  BY <1>3, <1>4 DEF IType

LEMMA TypeStep == IType /\ [Next]_vars => IType'
  <1> SUFFICES ASSUME IType, [Next]_vars PROVE IType'
    OBVIOUS
  <1> USE BoundAssumption DEF IType, TypeOK, RestoredOK, boundVars, backupVars,
          moveVars, readVars, answerVars, PC, Goto
  <1>1. ASSUME NEW r \in Request, Preview(r) PROVE IType'
    BY <1>1, ConfigAssumption DEF Preview
  <1>2. ASSUME NEW r \in Request, Confirm(r) PROVE IType'
    <2>1. config \in [enabled : BOOLEAN, files : SUBSET File]
      BY ConfigAssumption
    <2>2. CASE config.enabled
      BY <1>2, <2>1, <2>2 DEF Confirm
    <2>3. CASE ~config.enabled
      <3> DEFINE report == Report("blocked", "not_attempted", 0, FALSE, FALSE)
      <3>1. report \in Outcome
        BY Reports
      <3>2. Finish(r, report)
        BY <1>2, <2>3 DEF Confirm
      <3> HIDE DEF report
      <3> QED  BY <1>2, <2>1, <3>1, <3>2, FinishType DEF Confirm
    <2> QED  BY <2>2, <2>3
  <1>3. ASSUME NEW r \in Request, ProbeName(r) PROVE IType'
    <2>1. seen' \in [Request -> Inspection]
      <3>1. PICK f \in File, s \in Side :
               \/ seen' = [seen EXCEPT ![r][f][s] = dir[f][s]]
               \/ seen' = [seen EXCEPT ![r][f][s] = Unreadable]
        BY <1>3 DEF ProbeName
      <3>2. dir[f][s] \in Probe /\ Unreadable \in Probe
        BY DEF Probe
      <3>4. PICK v \in Probe : seen' = [seen EXCEPT ![r][f][s] = v]
        BY <3>1, <3>2
      <3>3. [seen[r] EXCEPT ![f][s] = v] \in Inspection
        BY NestedUpdate DEF Inspection
      <3> QED  BY <3>3, <3>4
    <2> QED  BY <1>3, <2>1, FaultType DEF ProbeName
  <1>4. ASSUME NEW r \in Request, PreviewShown(r) PROVE IType'
    BY <1>4, FaultType DEF PreviewShown, NoInspection, Inspection, Probe
  <1>5. ASSUME NEW r \in Request, InspectDirectoryFails(r) PROVE IType'
    <2> DEFINE report == Report("blocked", "not_attempted", 0, FALSE, FALSE)
    <2>1. report \in Outcome
      BY Reports
    <2>2. Finish(r, report)
      BY <1>5 DEF InspectDirectoryFails
    <2> HIDE DEF report
    <2> QED  BY <1>5, <2>1, <2>2, FinishType, FaultType
             DEF InspectDirectoryFails
  <1>6. ASSUME NEW r \in Request, NEW confirmed \in BOOLEAN, Decide(r, confirmed)
        PROVE IType'
    <2>1. Refusal(r) \in Outcome
      BY Reports DEF Refusal
    <2>2. Changes(action[r], seen[r]) \in SUBSET File
      BY DEF Changes
    <2>3. CASE Accepted(r, confirmed)
      <3>1. PICK S \in SUBSET File : /\ plan' = [plan EXCEPT ![r] = S]
                                     /\ todo' = [todo EXCEPT ![r] = S]
        BY <1>6, <2>2, <2>3 DEF Decide
      <3>2. /\ plan' \in [Request -> SUBSET File]
            /\ todo' \in [Request -> SUBSET File]
        BY <3>1
      <3>3. /\ pc' = [pc EXCEPT ![r] = "copying"]
            /\ UNCHANGED <<dir, config, boundVars, readVars, completed, restored,
                           partial, effect, backupVars, logged, outcome>>
        BY <1>6, <2>3 DEF Decide
      <3>4. RestoredOK'
        BY <3>1, <3>3
      <3> QED  BY <3>2, <3>3, <3>4
    <2>4. CASE ~Accepted(r, confirmed)
      <3>1. Finish(r, Refusal(r))
        BY <1>6, <2>4 DEF Decide
      <3> QED  BY <1>6, <2>1, <2>4, <3>1, FinishType DEF Decide
    <2> QED  BY <2>3, <2>4
  <1>7. ASSUME NEW r \in Request, CopyFile(r) PROVE IType'
    <2>1. \A f \in File : SourceOf(r, f) \in Slot
      BY DEF SourceOf, SourceSide, Side
    <2> QED  BY <1>7, <2>1 DEF CopyFile
  <1>8. ASSUME NEW r \in Request, WriteManifest(r) PROVE IType'
    BY <1>8 DEF WriteManifest
  <1>9. ASSUME NEW r \in Request, BackupFails(r) PROVE IType'
    <2> DEFINE report == Report("failed", "not_attempted", 0, FALSE, FALSE)
    <2>1. report \in Outcome
      BY Reports
    <2>2. Finish(r, report)
      BY <1>9 DEF BackupFails
    <2>3. copies' \in [Request -> [File -> Slot]]
      BY <1>9 DEF BackupFails, Slot
    <2>4. faults' \in 0..MaxFaults
      BY <1>9, FaultType DEF BackupFails
    <2>5. UNCHANGED <<dir, config, crashes, readVars, moveVars, manifest, logged>>
      BY <1>9 DEF BackupFails
    <2> HIDE DEF report
    <2> QED  BY <2>1, <2>2, <2>3, <2>4, <2>5, FinishType
  <1>10. ASSUME NEW r \in Request, Link(r) PROVE IType'
    <2>1. \A f \in File : SourceOf(r, f) \in Slot
      BY DEF SourceOf, SourceSide, Side
    <2>2. dir' \in [File -> [Side -> Slot]]
      BY <1>10, <2>1, NestedUpdate DEF Link, TargetSide, SourceSide, Other, Side
    <2> QED  BY <1>10, <2>2 DEF Link
  <1>11. ASSUME NEW r \in Request, LinkFails(r) PROVE IType'
    BY <1>11, FaultType DEF LinkFails, Rollback
  <1>12. ASSUME NEW r \in Request, Unlink(r) PROVE IType'
    <2>1. dir' \in [File -> [Side -> Slot]]
      BY <1>12, NestedUpdate DEF Unlink, SourceSide, Side, Slot
    <2> QED  BY <1>12, <2>1 DEF Unlink
  <1>13. ASSUME NEW r \in Request, UnlinkFails(r) PROVE IType'
    BY <1>13, FaultType DEF UnlinkFails, Rollback
  <1>14. ASSUME NEW r \in Request, Succeed(r) PROVE IType'
    <2>1. Cardinality(completed[r]) \in Nat
      BY FileFinite
    <2> QED  BY <1>14, <2>1, Reports DEF Succeed, Finish
  <1>15. ASSUME NEW r \in Request, Undo(r) PROVE IType'
    <2>1. \A f \in File : TargetOf(r, f) \in Slot
      BY DEF TargetOf, TargetSide, SourceSide, Other, Side
    <2>2. dir' \in [File -> [Side -> Slot]]
      BY <1>15, <2>1, NestedUpdate DEF Undo, SourceSide, Side
    <2> QED  BY <1>15, <2>2 DEF Undo
  <1>16. ASSUME NEW r \in Request, UndoUnlink(r) PROVE IType'
    <2>1. dir' \in [File -> [Side -> Slot]]
      BY <1>16, NestedUpdate
         DEF UndoUnlink, TargetSide, SourceSide, Other, Side, Slot
    <2>2. TypeOK'
      BY <1>16, <2>1 DEF UndoUnlink
    <2>3. RestoredOK'
      BY <1>16 DEF UndoUnlink, IsLast
    <2> QED  BY <2>2, <2>3
  <1>17. ASSUME NEW r \in Request, UndoFails(r) PROVE IType'
    BY <1>17, FaultType DEF UndoFails, IsLast
  <1>18. ASSUME NEW r \in Request, RollbackEnds(r) PROVE IType'
    <2>1. RollbackReport(r) \in Outcome
      BY RollbackReportType
    <2> QED  BY <1>18, <2>1 DEF RollbackEnds, Finish
  <1>19. ASSUME NEW r \in Request, AppendLog(r) PROVE IType'
    BY <1>19, FaultType DEF AppendLog
  <1>20. CASE Crash
    BY <1>20 DEF Crash
  <1>21. CASE SaveConfiguration
    BY <1>21 DEF SaveConfiguration
  <1>22. CASE Appear
    BY <1>22 DEF Appear, Slot
  <1>23. CASE UNCHANGED vars
    BY <1>23 DEF vars
  <1> QED
    BY <1>1, <1>2, <1>3, <1>4, <1>5, <1>6, <1>7, <1>8, <1>9, <1>10, <1>11,
       <1>12, <1>13, <1>14, <1>15, <1>16, <1>17, <1>18, <1>19, <1>20, <1>21,
       <1>22, <1>23 DEF Next, Work

LEMMA Typing == Spec => []IType
  <1> QED  BY TypeInit, TypeStep, PTL DEF Spec

(* Type correctness: the two passes over the plan, the rollback and every    *)
(* report stay within their types; the changed count of a rollback is never  *)
(* negative.                                                                 *)
THEOREM TypeCorrect == Spec => []TypeOK
  <1>1. IType => TypeOK
    BY DEF IType
  <1> QED  BY <1>1, Typing, PTL

---------------------------------------------------------------------------
(* Every step, seen from the directory.                                      *)

LEMMA Unique ==
    ASSUME NEW S \in SUBSET File, NEW f \in File, NEW g \in File
    PROVE  /\ IsFirst(f, S) /\ IsFirst(g, S) => f = g
           /\ IsLast(f, S) /\ IsLast(g, S) => f = g
  BY NumFilesAssumption DEF File, IsFirst, IsLast

LEMMA Sides ==
    ASSUME TypeOK, NEW r \in Request
    PROVE  /\ SourceSide(action[r]) \in Side
           /\ TargetSide(action[r]) \in Side
           /\ SourceSide(action[r]) # TargetSide(action[r])
           /\ TargetSide(action[r]) = Other(SourceSide(action[r]))
           /\ SourceSide(action[r]) = Other(TargetSide(action[r]))
           /\ Side = {SourceSide(action[r]), TargetSide(action[r])}
  BY DEF TypeOK, TargetSide, SourceSide, Other, Side

(* A step that touches neither the directory nor the two kinds of unlink     *)
(* leaves the holders as they are.                                           *)
LEMMA HoldersUndisturbed ==
    ASSUME TypeOK, OneHolder, UNCHANGED dir, NEW r \in Request,
           NEW label \in PC \ {"unlinking", "undoUnlinking"}, Goto(r, label),
           \A q \in Request \ {r} : todo'[q] = todo[q]
    PROVE  OneHolder'
  <1>1. \A q \in Request, f \in File : Holds(q, f)' => Holds(q, f)
    BY DEF TypeOK, Holds, Goto
  <1> QED  BY <1>1 DEF OneHolder

LEMMA HoldersStep == TypeOK /\ TypeOK' /\ OneHolder /\ [Next]_vars => OneHolder'
  <1> SUFFICES ASSUME TypeOK, TypeOK', OneHolder, [Next]_vars PROVE OneHolder'
    OBVIOUS
  <1> USE DEF boundVars, backupVars, moveVars, readVars, answerVars
  <1>1. ASSUME NEW r \in Request, Preview(r) PROVE OneHolder'
    BY <1>1, HoldersUndisturbed DEF Preview, PC
  <1>2. ASSUME NEW r \in Request, Confirm(r) PROVE OneHolder'
    BY <1>2, HoldersUndisturbed DEF Confirm, Finish, PC
  <1>3. ASSUME NEW r \in Request, ProbeName(r) PROVE OneHolder'
    BY <1>3 DEF ProbeName, OneHolder, Holds
  <1>4. ASSUME NEW r \in Request, PreviewShown(r) PROVE OneHolder'
    BY <1>4, HoldersUndisturbed DEF PreviewShown, PC
  <1>5. ASSUME NEW r \in Request, InspectDirectoryFails(r) PROVE OneHolder'
    BY <1>5, HoldersUndisturbed DEF InspectDirectoryFails, Finish, PC
  <1>6. ASSUME NEW r \in Request, NEW confirmed \in BOOLEAN, Decide(r, confirmed)
        PROVE OneHolder'
    BY <1>6, HoldersUndisturbed DEF Decide, Finish, PC, TypeOK
  <1>7. ASSUME NEW r \in Request, CopyFile(r) PROVE OneHolder'
    BY <1>7, HoldersUndisturbed DEF CopyFile, PC, TypeOK
  <1>8. ASSUME NEW r \in Request, WriteManifest(r) PROVE OneHolder'
    BY <1>8, HoldersUndisturbed DEF WriteManifest, PC, TypeOK
  <1>9. ASSUME NEW r \in Request, BackupFails(r) PROVE OneHolder'
    BY <1>9, HoldersUndisturbed DEF BackupFails, Finish, PC
  <1>10. ASSUME NEW r \in Request, Link(r) PROVE OneHolder'
    <2>1. PICK f \in File :
            /\ IsFirst(f, todo[r])
            /\ SourceOf(r, f) # Absent
            /\ TargetOf(r, f) = Absent
            /\ dir' = [dir EXCEPT ![f][TargetSide(action[r])] = SourceOf(r, f)]
      BY <1>10 DEF Link
    <2>2. /\ pc' = [pc EXCEPT ![r] = "unlinking"]
          /\ todo' = todo
      BY <1>10 DEF Link, Goto
    <2>3. /\ dir'[f]["orig"] = SourceOf(r, f)
          /\ dir'[f]["hidden"] = SourceOf(r, f)
          /\ SourceOf(r, f) \in Content
          /\ \A g \in File \ {f} : dir'[g] = dir[g]
      BY <2>1, Sides DEF TypeOK, Side, SourceOf, Slot
    <2>4. \A q \in Request \ {r} : ~Holds(q, f)
      BY <2>1, Sides, SlotAssumption DEF OneHolder, TargetOf, SourceOf, Side, Slot
    <2>5. \A g \in File : Holds(r, g)' <=> g = f
      BY <2>1, <2>2, Unique DEF Holds, TypeOK
    <2>6. \A q \in Request \ {r}, g \in File : Holds(q, g)' <=> Holds(q, g)
      BY <2>2 DEF Holds, TypeOK
    <2> QED  BY <2>3, <2>4, <2>5, <2>6 DEF OneHolder
  <1>11. ASSUME NEW r \in Request, LinkFails(r) PROVE OneHolder'
    BY <1>11, HoldersUndisturbed DEF LinkFails, Rollback, PC, TypeOK
  <1>12. ASSUME NEW r \in Request, Unlink(r) PROVE OneHolder'
    <2>1. PICK f \in File :
            /\ IsFirst(f, todo[r])
            /\ dir' = [dir EXCEPT ![f][SourceSide(action[r])] = Absent]
            /\ todo' = [todo EXCEPT ![r] = @ \ {f}]
      BY <1>12 DEF Unlink
    <2>2. pc[r] = "unlinking" /\ pc' = [pc EXCEPT ![r] = "linking"]
      BY <1>12 DEF Unlink, Goto
    <2>3. \A q \in Request, g \in File : Holds(q, g)' => q # r /\ Holds(q, g)
      BY <2>1, <2>2 DEF Holds, TypeOK
    <2>4. Holds(r, f)
      BY <2>1, <2>2 DEF Holds
    <2>5. \A g \in File \ {f} : dir'[g] = dir[g]
      BY <2>1 DEF TypeOK
    <2> QED  BY <2>3, <2>4, <2>5 DEF OneHolder
  <1>13. ASSUME NEW r \in Request, UnlinkFails(r) PROVE OneHolder'
    BY <1>13, HoldersUndisturbed DEF UnlinkFails, Rollback, PC, TypeOK
  <1>14. ASSUME NEW r \in Request, Succeed(r) PROVE OneHolder'
    BY <1>14, HoldersUndisturbed DEF Succeed, Finish, PC
  <1>15. ASSUME NEW r \in Request, Undo(r) PROVE OneHolder'
    <2>1. PICK f \in File :
            /\ IsLast(f, todo[r])
            /\ TargetOf(r, f) # Absent
            /\ SourceOf(r, f) = Absent
            /\ dir' = [dir EXCEPT ![f][SourceSide(action[r])] = TargetOf(r, f)]
      BY <1>15 DEF Undo
    <2>2. /\ pc' = [pc EXCEPT ![r] = "undoUnlinking"]
          /\ todo' = todo
      BY <1>15 DEF Undo, Goto
    <2>3. /\ dir'[f]["orig"] = TargetOf(r, f)
          /\ dir'[f]["hidden"] = TargetOf(r, f)
          /\ TargetOf(r, f) \in Content
          /\ \A g \in File \ {f} : dir'[g] = dir[g]
      BY <2>1, Sides DEF TypeOK, Side, TargetOf, Slot
    <2>4. \A q \in Request \ {r} : ~Holds(q, f)
      BY <2>1, Sides, SlotAssumption DEF OneHolder, TargetOf, SourceOf, Side, Slot
    <2>5. \A g \in File : Holds(r, g)' <=> g = f
      BY <2>1, <2>2, Unique DEF Holds, TypeOK
    <2>6. \A q \in Request \ {r}, g \in File : Holds(q, g)' <=> Holds(q, g)
      BY <2>2 DEF Holds, TypeOK
    <2> QED  BY <2>3, <2>4, <2>5, <2>6 DEF OneHolder
  <1>16. ASSUME NEW r \in Request, UndoUnlink(r) PROVE OneHolder'
    <2>1. PICK f \in File :
            /\ IsLast(f, todo[r])
            /\ dir' = [dir EXCEPT ![f][TargetSide(action[r])] = Absent]
            /\ todo' = [todo EXCEPT ![r] = @ \ {f}]
      BY <1>16 DEF UndoUnlink
    <2>2. pc[r] = "undoUnlinking" /\ pc' = [pc EXCEPT ![r] = "undoing"]
      BY <1>16 DEF UndoUnlink, Goto
    <2>3. \A q \in Request, g \in File : Holds(q, g)' => q # r /\ Holds(q, g)
      BY <2>1, <2>2 DEF Holds, TypeOK
    <2>4. Holds(r, f)
      BY <2>1, <2>2 DEF Holds
    <2>5. \A g \in File \ {f} : dir'[g] = dir[g]
      BY <2>1 DEF TypeOK
    <2> QED  BY <2>3, <2>4, <2>5 DEF OneHolder
  <1>17. ASSUME NEW r \in Request, UndoFails(r) PROVE OneHolder'
    BY <1>17, HoldersUndisturbed DEF UndoFails, PC, TypeOK
  <1>18. ASSUME NEW r \in Request, RollbackEnds(r) PROVE OneHolder'
    BY <1>18, HoldersUndisturbed DEF RollbackEnds, Finish, PC
  <1>19. ASSUME NEW r \in Request, AppendLog(r) PROVE OneHolder'
    BY <1>19, HoldersUndisturbed DEF AppendLog, PC
  <1>20. CASE Crash
    BY <1>20 DEF Crash, OneHolder, Holds, TypeOK
  <1>21. CASE SaveConfiguration
    BY <1>21 DEF SaveConfiguration, OneHolder, Holds
  <1>22. CASE Appear
    <2>1. PICK f \in File, s \in Side, c \in Content :
            dir[f][s] = Absent /\ dir' = [dir EXCEPT ![f][s] = c]
      BY <1>22 DEF Appear
    <2>2. \A q \in Request, g \in File : Holds(q, g)' <=> Holds(q, g)
      BY <1>22 DEF Appear, Holds
    <2>3. \A q \in Request : ~Holds(q, f)
      BY <2>1, SlotAssumption DEF OneHolder, Side
    <2>4. \A g \in File \ {f} : dir'[g] = dir[g]
      BY <2>1 DEF TypeOK
    <2> QED  BY <2>2, <2>3, <2>4 DEF OneHolder
  <1>23. CASE UNCHANGED vars
    BY <1>23 DEF vars, OneHolder, Holds
  <1> QED
    BY <1>1, <1>2, <1>3, <1>4, <1>5, <1>6, <1>7, <1>8, <1>9, <1>10, <1>11,
       <1>12, <1>13, <1>14, <1>15, <1>16, <1>17, <1>18, <1>19, <1>20, <1>21,
       <1>22, <1>23 DEF Next, Work

(* Every action is a step of LicenseDirectory or does not touch it.  An      *)
(* unlink drops one of two equal names because its request is the holder.    *)
LEMMA DirectoryStep ==
    TypeOK /\ OneHolder /\ [Next]_vars => [Directory!Next]_dir
  <1> SUFFICES ASSUME TypeOK, OneHolder, [Next]_vars
               PROVE  [Directory!Next]_dir
    OBVIOUS
  <1> USE DEF Directory!Next, Directory!Side
  <1>0. \A r \in Request :
          /\ Directory!Other(SourceSide(action[r])) = TargetSide(action[r])
          /\ Directory!Other(TargetSide(action[r])) = SourceSide(action[r])
    BY Sides DEF Directory!Other, Other
  <1>1. ASSUME NEW r \in Request, Link(r) PROVE Directory!Next
    <2>1. PICK f \in File :
            /\ SourceOf(r, f) # Absent
            /\ TargetOf(r, f) = Absent
            /\ dir' = [dir EXCEPT ![f][TargetSide(action[r])] = SourceOf(r, f)]
      BY <1>1 DEF Link
    <2>2. SourceOf(r, f) \in Content
      BY <2>1, Sides DEF SourceOf, TypeOK, Slot
    <2>3. Directory!Duplicate(f, TargetSide(action[r]), SourceOf(r, f))
      BY <1>0, <2>1 DEF Directory!Duplicate, SourceOf, TargetOf
    <2> QED  BY <2>2, <2>3, Sides DEF Side
  <1>2. ASSUME NEW r \in Request, Undo(r) PROVE Directory!Next
    <2>1. PICK f \in File :
            /\ TargetOf(r, f) # Absent
            /\ SourceOf(r, f) = Absent
            /\ dir' = [dir EXCEPT ![f][SourceSide(action[r])] = TargetOf(r, f)]
      BY <1>2 DEF Undo
    <2>2. TargetOf(r, f) \in Content
      BY <2>1, Sides DEF TargetOf, TypeOK, Slot
    <2>3. Directory!Duplicate(f, SourceSide(action[r]), TargetOf(r, f))
      BY <1>0, <2>1 DEF Directory!Duplicate, SourceOf, TargetOf
    <2> QED  BY <2>2, <2>3, Sides DEF Side
  <1>3. ASSUME NEW r \in Request, Unlink(r) PROVE Directory!Next
    <2>1. PICK f \in File :
            /\ IsFirst(f, todo[r])
            /\ dir' = [dir EXCEPT ![f][SourceSide(action[r])] = Absent]
      BY <1>3 DEF Unlink
    <2>2. dir[f]["orig"] = dir[f]["hidden"]
      BY <1>3, <2>1 DEF Unlink, OneHolder, Holds
    <2>3. Directory!Drop(f, SourceSide(action[r]))
      BY <1>0, <2>1, <2>2, Sides DEF Directory!Drop, Side
    <2> QED  BY <2>3, Sides DEF Side
  <1>4. ASSUME NEW r \in Request, UndoUnlink(r) PROVE Directory!Next
    <2>1. PICK f \in File :
            /\ IsLast(f, todo[r])
            /\ dir' = [dir EXCEPT ![f][TargetSide(action[r])] = Absent]
      BY <1>4 DEF UndoUnlink
    <2>2. dir[f]["orig"] = dir[f]["hidden"]
      BY <1>4, <2>1 DEF UndoUnlink, OneHolder, Holds
    <2>3. Directory!Drop(f, TargetSide(action[r]))
      BY <1>0, <2>1, <2>2, Sides DEF Directory!Drop, Side
    <2> QED  BY <2>3, Sides DEF Side
  <1>5. ASSUME Appear PROVE Directory!Next
    BY <1>5 DEF Appear, Directory!Appear, Side
  <1>6. ASSUME NEW r \in Request,
               \/ Preview(r) \/ Confirm(r) \/ ProbeName(r) \/ PreviewShown(r)
               \/ InspectDirectoryFails(r)
               \/ \E confirmed \in BOOLEAN : Decide(r, confirmed)
               \/ CopyFile(r) \/ WriteManifest(r) \/ BackupFails(r)
               \/ LinkFails(r) \/ UnlinkFails(r) \/ Succeed(r) \/ UndoFails(r)
               \/ RollbackEnds(r) \/ AppendLog(r)
        PROVE  UNCHANGED dir
    BY <1>6 DEF Preview, Confirm, ProbeName, PreviewShown,
       InspectDirectoryFails, Decide, CopyFile, WriteManifest, BackupFails,
       LinkFails, UnlinkFails, Succeed, UndoFails, RollbackEnds, AppendLog
  <1>7. ASSUME Crash \/ SaveConfiguration \/ UNCHANGED vars PROVE UNCHANGED dir
    BY <1>7 DEF Crash, SaveConfiguration, vars
  <1> QED  BY <1>1, <1>2, <1>3, <1>4, <1>5, <1>6, <1>7 DEF Next, Work

(* So no content ever leaves its file.                                       *)
LEMMA KeptGrows ==
    ASSUME TypeOK, OneHolder, [Next]_vars
    PROVE  \A f \in File : Kept(f) \subseteq Kept(f)'
  <1>1. [Directory!Next]_dir
    BY DirectoryStep
  <1>2. CASE UNCHANGED dir
    BY <1>2 DEF Kept
  <1>3. CASE Directory!Next
    <2>1. PICK f \in File, s \in Side :
            \/ \E c \in Content : \/ Directory!Appear(f, s, c)
                                  \/ Directory!Duplicate(f, s, c)
            \/ Directory!Drop(f, s)
      BY <1>3 DEF Directory!Next, Directory!Side, Side
    <2>2. \A g \in File \ {f} : dir'[g] = dir[g]
      BY <2>1 DEF Directory!Appear, Directory!Duplicate, Directory!Drop, TypeOK
    <2>3. Kept(f) \subseteq Kept(f)'
      BY <2>1 DEF Directory!Appear, Directory!Duplicate, Directory!Drop,
         Directory!Other, Kept, Side, TypeOK
    <2> QED  BY <2>2, <2>3 DEF Kept
  <1> QED  BY <1>1, <1>2, <1>3

LEMMA HoldersInit == Init => OneHolder
  BY DEF Init, OneHolder, Holds

LEMMA Holding == Spec => [](TypeOK /\ OneHolder)
  <1>1. IType => TypeOK
    BY DEF IType
  <1> QED  BY <1>1, Typing, HoldersInit, HoldersStep, PTL DEF Spec

(* License Manager implements LicenseDirectory: whatever requests, failures, *)
(* deaths and appearing files interleave, os.link followed by unlink never   *)
(* overwrites a license and never drops the last name of one.                *)
THEOREM Refinement == Spec => ImplementsDirectory
  <1>1. Init => Directory!Init
    BY DEF Init, Directory!Init, Directory!TypeOK, Directory!Slot,
       Directory!Side, Side, Slot
  <1> QED  BY <1>1, DirectoryStep, Holding, PTL
           DEF Spec, ImplementsDirectory, Directory!Spec

(* So no request, failure or death ever loses a license: what a file holds   *)
(* under one of its names, it holds under one of them from then on.          *)
THEOREM NoLoss == Spec => Directory!NothingIsLost
  <1>1. TypeOK /\ OneHolder /\ [Next]_vars
          => [\A f \in File : Directory!Kept(f) \subseteq Directory!Kept(f)']_dir
    BY KeptGrows DEF Kept, Side, Directory!Kept, Directory!Side
  <1> QED  BY <1>1, Holding, Typing, PTL DEF Spec, Directory!NothingIsLost

---------------------------------------------------------------------------
(* What a request read, showed or copied stays under a name of its file.     *)

LEMMA ReadStep ==
    TypeOK /\ TypeOK' /\ OneHolder /\ NothingReadIsGone /\ [Next]_vars
        => NothingReadIsGone'
  <1> SUFFICES ASSUME TypeOK, TypeOK', OneHolder, NothingReadIsGone, [Next]_vars
               PROVE  NothingReadIsGone'
    OBVIOUS
  <1> USE DEF boundVars, backupVars, moveVars, readVars, answerVars
  <1>1. \A f \in File : Kept(f) \subseteq Kept(f)'
    BY KeptGrows
  <1>2. ASSUME UNCHANGED <<seen, shown, copies>> PROVE NothingReadIsGone'
    BY <1>1, <1>2 DEF NothingReadIsGone
  <1>3. ASSUME NEW r \in Request, ProbeName(r) PROVE NothingReadIsGone'
    <2>1. PICK f \in File, s \in Side :
            \/ seen' = [seen EXCEPT ![r][f][s] = dir[f][s]]
            \/ seen' = [seen EXCEPT ![r][f][s] = Unreadable]
      BY <1>3 DEF ProbeName
    <2>2. UNCHANGED <<dir, shown, copies>>
      BY <1>3 DEF ProbeName
    <2>3. \A q \in Request, g \in File, u \in Side :
            seen'[q][g][u] \in {seen[q][g][u], dir[g][u], Unreadable}
      <3>1. PICK v \in {dir[f][s], Unreadable} :
               seen' = [seen EXCEPT ![r][f][s] = v]
        BY <2>1
      <3>2. /\ \A q \in Request \ {r} : seen'[q] = seen[q]
            /\ seen'[r] = [seen[r] EXCEPT ![f][s] = v]
        BY <3>1 DEF TypeOK
      <3>3. seen[r] \in [File -> [Side -> Probe]]
        BY DEF TypeOK, Inspection
      <3>4. \A g \in File, u \in Side :
              seen'[r][g][u] = IF g = f /\ u = s THEN v ELSE seen[r][g][u]
        BY <3>2, <3>3
      <3> QED  BY <3>1, <3>2, <3>4
    <2>4. \A g \in File, u \in Side : dir[g][u] \in Content => dir[g][u] \in Kept(g)
      BY SlotAssumption DEF Kept
    <2>5. Unreadable \notin Content
      BY SlotAssumption DEF Slot
    <2>6. \A g \in File : Kept(g)' = Kept(g)
      BY <2>2 DEF Kept
    <2> QED  BY <2>2, <2>3, <2>4, <2>5, <2>6 DEF NothingReadIsGone
  <1>4. ASSUME NEW r \in Request, PreviewShown(r) PROVE NothingReadIsGone'
    <2>1. \A q \in Request, g \in File, u \in Side :
            /\ shown'[q][g][u] \in {shown[q][g][u], seen[q][g][u]}
            /\ seen'[q][g][u] \in {seen[q][g][u], Unread}
      BY <1>4 DEF PreviewShown, TypeOK, Inspection, NoInspection
    <2>2. Unread \notin Content
      BY SlotAssumption DEF Slot
    <2>3. UNCHANGED copies
      BY <1>4 DEF PreviewShown
    <2> QED  BY <1>1, <2>1, <2>2, <2>3 DEF NothingReadIsGone
  <1>5. ASSUME NEW r \in Request, CopyFile(r) PROVE NothingReadIsGone'
    <2>1. \A q \in Request, g \in File :
            copies'[q][g] \in {copies[q][g]} \union {dir[g][u] : u \in Side}
      BY <1>5, Sides DEF CopyFile, TypeOK, SourceOf
    <2>2. \A g \in File, u \in Side : dir[g][u] \in Content => dir[g][u] \in Kept(g)
      BY SlotAssumption DEF Kept
    <2>3. UNCHANGED <<seen, shown>>
      BY <1>5 DEF CopyFile
    <2> QED  BY <1>1, <2>1, <2>2, <2>3 DEF NothingReadIsGone
  <1>6. ASSUME NEW r \in Request, BackupFails(r) PROVE NothingReadIsGone'
    <2>0. PICK kept \in SUBSET plan[r] :
            copies' = [copies EXCEPT ![r] =
                         [f \in File |-> IF f \in kept THEN @[f] ELSE Absent]]
      BY <1>6 DEF BackupFails
    <2>1. \A q \in Request, g \in File : copies'[q][g] \in {copies[q][g], Absent}
      BY <2>0 DEF TypeOK
    <2>2. UNCHANGED <<seen, shown>>
      BY <1>6 DEF BackupFails
    <2> QED  BY <1>1, <2>1, <2>2, SlotAssumption DEF NothingReadIsGone
  <1>7. ASSUME NEW r \in Request,
               \/ Preview(r) \/ Confirm(r) \/ InspectDirectoryFails(r)
               \/ \E confirmed \in BOOLEAN : Decide(r, confirmed)
               \/ WriteManifest(r) \/ Link(r) \/ LinkFails(r) \/ Unlink(r)
               \/ UnlinkFails(r) \/ Succeed(r) \/ Undo(r) \/ UndoUnlink(r)
               \/ UndoFails(r) \/ RollbackEnds(r) \/ AppendLog(r)
        PROVE  UNCHANGED <<seen, shown, copies>>
    BY <1>7 DEF Preview, Confirm, InspectDirectoryFails, Decide, WriteManifest,
       Link, LinkFails, Unlink, UnlinkFails, Succeed, Undo, UndoUnlink,
       UndoFails, RollbackEnds, AppendLog
  <1>8. ASSUME Crash \/ SaveConfiguration \/ Appear \/ UNCHANGED vars
        PROVE  UNCHANGED <<seen, shown, copies>>
    BY <1>8 DEF Crash, SaveConfiguration, Appear, vars
  <1> QED  BY <1>2, <1>3, <1>4, <1>5, <1>6, <1>7, <1>8 DEF Next, Work

---------------------------------------------------------------------------
(* A request stays within its plan and its backup.                           *)

(* Before the move, the target name is free, so the source name holds the    *)
(* only content of the file: what was copied and what was shown.             *)
LEMMA MovesTheShownContent ==
    ASSUME TypeOK, NothingReadIsGone, NEW r \in Request, NEW f \in File,
           f \in Changes(action[r], shown[r]),
           copies[r][f] # Absent,
           TargetOf(r, f) = Absent
    PROVE  /\ copies[r][f] = SourceOf(r, f)
           /\ copies[r][f] = shown[r][f][SourceSide(action[r])]
  <1>1. shown[r][f][SourceSide(action[r])] \in Content
    BY DEF Changes, Status, SourceSide, TypeOK
  <1>2. copies[r][f] \in Content
    BY DEF TypeOK, Slot
  <1>3. Kept(f) \subseteq {SourceOf(r, f)}
    BY Sides DEF Kept, SourceOf, TargetOf
  <1>4. /\ copies[r][f] \in Kept(f)
        /\ shown[r][f][SourceSide(action[r])] \in Kept(f)
    BY <1>1, <1>2, Sides DEF NothingReadIsGone
  <1> QED  BY <1>3, <1>4

(* A step of one request leaves the books of the others alone.               *)
Elsewhere(r) ==
    \A q \in Request \ {r} :
        /\ pc'[q] = pc[q] /\ action'[q] = action[q] /\ shown'[q] = shown[q]
        /\ plan'[q] = plan[q] /\ todo'[q] = todo[q]
        /\ completed'[q] = completed[q] /\ restored'[q] = restored[q]
        /\ partial'[q] = partial[q] /\ effect'[q] = effect[q]
        /\ copies'[q] = copies[q] /\ manifest'[q] = manifest[q]
        /\ outcome'[q] = outcome[q]

Local(r) == Within(r) /\ Balanced(r) /\ Honest(r)

LEMMA OthersUntouched ==
    ASSUME TypeOK, NEW r \in Request, Preview(r) \/ Confirm(r) \/ Work(r)
    PROVE  Elsewhere(r)
  <1> USE DEF TypeOK, Goto, Elsewhere, boundVars, backupVars, moveVars, readVars,
          answerVars
  <1>1. CASE Preview(r)
    BY <1>1 DEF Preview
  <1>2. CASE Confirm(r)
    BY <1>2 DEF Confirm, Finish
  <1>3. CASE ProbeName(r)
    BY <1>3 DEF ProbeName
  <1>4. CASE PreviewShown(r)
    BY <1>4 DEF PreviewShown
  <1>5. CASE InspectDirectoryFails(r)
    BY <1>5 DEF InspectDirectoryFails, Finish
  <1>6. ASSUME NEW confirmed \in BOOLEAN, Decide(r, confirmed)
        PROVE Elsewhere(r)
    BY <1>6 DEF Decide, Finish
  <1>7. CASE CopyFile(r)
    BY <1>7 DEF CopyFile
  <1>8. CASE WriteManifest(r)
    BY <1>8 DEF WriteManifest
  <1>9. CASE BackupFails(r)
    BY <1>9 DEF BackupFails, Finish
  <1>10. CASE Link(r)
    BY <1>10 DEF Link
  <1>11. CASE LinkFails(r)
    BY <1>11 DEF LinkFails, Rollback
  <1>12. CASE Unlink(r)
    BY <1>12 DEF Unlink
  <1>13. CASE UnlinkFails(r)
    BY <1>13 DEF UnlinkFails, Rollback
  <1>14. CASE Succeed(r)
    BY <1>14 DEF Succeed, Finish
  <1>15. CASE Undo(r)
    BY <1>15 DEF Undo
  <1>16. CASE UndoUnlink(r)
    BY <1>16 DEF UndoUnlink
  <1>17. CASE UndoFails(r)
    BY <1>17 DEF UndoFails
  <1>18. CASE RollbackEnds(r)
    BY <1>18 DEF RollbackEnds, Finish
  <1>19. CASE AppendLog(r)
    BY <1>19 DEF AppendLog
  <1> QED
    BY <1>1, <1>2, <1>3, <1>4, <1>5, <1>6, <1>7, <1>8, <1>9, <1>10,
       <1>11, <1>12, <1>13, <1>14, <1>15, <1>16, <1>17, <1>18, <1>19 DEF Work

LEMMA LocalElsewhere ==
    ASSUME NEW r \in Request, NEW q \in Request \ {r}, Elsewhere(r), Local(q)
    PROVE  Local(q)'
  <1>1. Changes(action[q], shown[q])' = Changes(action[q], shown[q])
    BY DEF Elsewhere, Changes
  <1>2. Within(q)'
    BY <1>1 DEF Elsewhere, Local, Within
  <1>3. Balanced(q)'
    BY DEF Elsewhere, Local, Balanced
  <1>4. Honest(q)'
    BY DEF Elsewhere, Local, Honest
  <1> QED  BY <1>2, <1>3, <1>4 DEF Local

(* A report of a request that has changed nothing, or has changed its plan.  *)
LEMMA FinishHonest ==
    ASSUME TypeOK, NEW r \in Request, NEW report \in Outcome, Finish(r, report),
           UNCHANGED <<effect, plan>>,
           report.changed = Cardinality(effect[r]),
           report.status = "success" => effect[r] = plan[r],
           report.status = "partial" <=> report.rollback = "partial",
           report.rollback = "partial" => effect[r] # {},
           report.status \notin {"success", "partial"} => effect[r] = {}
    PROVE  Honest(r)'
  <1>1. outcome'[r] = report
    BY DEF Finish, TypeOK
  <1> QED  BY <1>1 DEF Honest

(* The rollback's arithmetic counts exactly the files it leaves changed.     *)
LEMMA RollbackCounts ==
    ASSUME TypeOK, NEW r \in Request, pc[r] = "undoing", todo[r] = {},
           Within(r), Balanced(r)
    PROVE  /\ RollbackReport(r).changed = Cardinality(effect[r])
           /\ RollbackReport(r).status \in {"failed", "partial"}
           /\ RollbackReport(r).status = "partial"
                <=> RollbackReport(r).rollback = "partial"
           /\ RollbackReport(r).rollback = "partial" <=> effect[r] # {}
  <1> DEFINE left == completed[r] \ restored[r]
  <1>1. /\ completed[r] \in SUBSET File
        /\ restored[r] \in SUBSET completed[r]
        /\ effect[r] \in SUBSET File
        /\ partial[r] \in BOOLEAN
    BY DEF TypeOK, Within
  <1>2. /\ IsFiniteSet(completed[r]) /\ Cardinality(completed[r]) \in Nat
        /\ IsFiniteSet(restored[r]) /\ Cardinality(restored[r]) \in Nat
    BY <1>1, FileFinite, FS_Subset, FS_CardinalityType
  <1>3. /\ IsFiniteSet(left)
        /\ Cardinality(left) = Cardinality(completed[r]) - Cardinality(restored[r])
    <2>1. completed[r] \cap restored[r] = restored[r]
      BY <1>1
    <2>2. /\ IsFiniteSet(completed[r] \ restored[r])
          /\ Cardinality(completed[r] \ restored[r])
               = Cardinality(completed[r]) - Cardinality(completed[r] \cap restored[r])
      BY <1>2, FS_Difference
    <2> QED  BY <2>1, <2>2
  <1>4. Cardinality(restored[r]) = Cardinality(completed[r]) <=> left = {}
    <2>1. Cardinality(restored[r]) = Cardinality(completed[r])
            => restored[r] = completed[r]
      BY <1>1, <1>2, FS_Subset
    <2> QED  BY <1>1, <2>1
  <1>5. CASE ~partial[r]
    <2>1. effect[r] = left
      BY <1>5 DEF Balanced, Undoing
    <2>2. Cardinality(effect[r])
            = Cardinality(completed[r]) - Cardinality(restored[r]) + 0
      BY <1>2, <1>3, <2>1
    <2> QED  BY <1>2, <1>4, <1>5, <2>1, <2>2 DEF RollbackReport, Report
  <1>6. CASE partial[r]
    <2>1. PICK f \in File : effect[r] \ completed[r] = {f}
      BY <1>6 DEF Balanced, Undoing
    <2>2. effect[r] = left \union {f} /\ f \notin left
      BY <2>1 DEF Balanced, Undoing
    <2>3. Cardinality(effect[r])
            = Cardinality(completed[r]) - Cardinality(restored[r]) + 1
      BY <1>3, <2>2, FS_AddElement
    <2> QED  BY <1>2, <1>6, <2>2, <2>3 DEF RollbackReport, Report
  <1> QED  BY <1>1, <1>5, <1>6

LEMMA LocalStep ==
    ASSUME TypeOK, TypeOK', NothingReadIsGone, NEW r \in Request, Local(r),
           Preview(r) \/ Confirm(r) \/ Work(r)
    PROVE  Local(r)'
  <1> USE DEF boundVars, backupVars, moveVars, readVars, answerVars,
          Deciding, BackingUp, Undoing, Moving, Goto
  <1>1. Within(r) /\ Balanced(r) /\ Honest(r)
    BY DEF Local
  <1>2. Cardinality({}) = 0
    BY FS_EmptySet
  \* a request that has reported stays as it is but for its log entry
  <1>3. ASSUME pc'[r] \notin {"logging", "done"} PROVE Honest(r)'
    BY <1>3 DEF Honest
  <1>4. ASSUME NEW report \in Outcome, Finish(r, report),
               UNCHANGED <<action, shown, moveVars, manifest, copies>>
        PROVE  Within(r)' /\ Balanced(r)'
    <2>1. pc'[r] = "logging"
      BY <1>4 DEF Finish, TypeOK
    <2>2. Changes(action[r], shown[r])' = Changes(action[r], shown[r])
      BY <1>4 DEF Changes
    <2> QED  BY <1>1, <1>4, <2>1, <2>2 DEF Within, Balanced
  <1>5. ASSUME pc'[r] \in Deciding, Within(r), pc[r] \in Deciding,
               UNCHANGED <<moveVars, backupVars>>
        PROVE  Local(r)'
    <2>1. Within(r)'
      BY <1>5 DEF Within
    <2>2. Balanced(r)'
      BY <1>5 DEF Balanced
    <2> QED  BY <1>3, <1>5, <2>1, <2>2 DEF Local
  <1>6. CASE Preview(r)
    BY <1>1, <1>5, <1>6 DEF Preview, TypeOK
  <1>7. CASE ProbeName(r)
    BY <1>1, <1>5, <1>7 DEF ProbeName, TypeOK
  <1>8. CASE PreviewShown(r)
    BY <1>1, <1>5, <1>8 DEF PreviewShown, TypeOK
  <1>9. CASE Confirm(r) \/ InspectDirectoryFails(r)
    <2> DEFINE report == Report("blocked", "not_attempted", 0, FALSE, FALSE)
    <2>1. CASE Finish(r, report) /\ UNCHANGED <<action, shown, moveVars, backupVars>>
      <3>1. report \in Outcome
        BY Reports
      <3>2. effect[r] = {}
        BY <1>1, <1>9 DEF Within, Confirm, InspectDirectoryFails
      <3>3. Honest(r)'
        BY <1>2, <2>1, <3>1, <3>2, FinishHonest DEF Report
      <3> HIDE DEF report
      <3> QED  BY <1>4, <2>1, <3>1, <3>3 DEF Local
    <2>2. CASE ~Finish(r, report)
      BY <1>1, <1>5, <1>9, <2>2 DEF Confirm, InspectDirectoryFails, TypeOK
    <2> QED  BY <1>9, <2>1, <2>2 DEF Confirm, InspectDirectoryFails
  <1>10. CASE \E confirmed \in BOOLEAN : Decide(r, confirmed)
    <2>0. PICK confirmed \in BOOLEAN : Decide(r, confirmed)
      BY <1>10
    <2>1. /\ plan[r] = {} /\ effect[r] = {} /\ completed[r] = {} /\ todo[r] = {}
          /\ restored[r] = {} /\ ~manifest[r] /\ ~partial[r]
      BY <1>1, <2>0 DEF Within, Decide
    <2>2. CASE Accepted(r, confirmed)
      <3>1. /\ pc'[r] = "copying"
            /\ plan'[r] = Changes(action[r], shown[r])
            /\ todo'[r] = plan'[r]
            /\ UNCHANGED <<action, shown, completed, restored, partial, effect,
                           backupVars>>
        BY <2>0, <2>2 DEF Decide, Accepted, TypeOK
      <3>2. Changes(action[r], shown[r])' = Changes(action[r], shown[r])
        BY <3>1 DEF Changes
      <3>3. Within(r)'
        BY <2>1, <3>1, <3>2 DEF Within
      <3>4. Balanced(r)' /\ Honest(r)'
        BY <3>1 DEF Balanced, Honest
      <3> QED  BY <3>3, <3>4 DEF Local
    <2>3. CASE ~Accepted(r, confirmed)
      <3>1. /\ Refusal(r).changed = 0
            /\ Refusal(r).status \notin {"success", "partial"}
            /\ Refusal(r).rollback # "partial"
            /\ Refusal(r) \in Outcome
        BY Reports DEF Refusal, Report
      <3>2. /\ Finish(r, Refusal(r))
            /\ UNCHANGED <<action, shown, moveVars, backupVars>>
        BY <2>0, <2>3 DEF Decide
      <3>3. Honest(r)'
        BY <1>2, <2>1, <3>1, <3>2, FinishHonest
      <3> QED  BY <1>4, <3>1, <3>2, <3>3 DEF Local
    <2> QED  BY <2>2, <2>3
  <1>11. ASSUME UNCHANGED <<action, shown>>
         PROVE  Changes(action[r], shown[r])' = Changes(action[r], shown[r])
    BY <1>11 DEF Changes
  <1>12. CASE CopyFile(r)
    <2>1. PICK f \in File :
            /\ IsFirst(f, todo[r])
            /\ SourceOf(r, f) # Absent
            /\ copies' = [copies EXCEPT ![r][f] = SourceOf(r, f)]
            /\ todo' = [todo EXCEPT ![r] = @ \ {f}]
            /\ pc' = [pc EXCEPT ![r] = IF todo[r] = {f} THEN "manifest" ELSE "copying"]
      BY <1>12 DEF CopyFile
    <2>2. /\ copies'[r][f] # Absent
          /\ \A g \in File \ {f} : copies'[r][g] = copies[r][g]
          /\ todo'[r] = todo[r] \ {f}
          /\ pc'[r] = "manifest" => todo'[r] = {}
          /\ pc'[r] \in BackingUp
      BY <2>1 DEF TypeOK
    <2>3. pc[r] = "copying"
            /\ UNCHANGED <<action, shown, plan, completed, restored, partial,
                           effect, manifest>>
      BY <1>12 DEF CopyFile
    <2>4. Within(r)'
      BY <1>1, <1>11, <2>2, <2>3 DEF Within, TypeOK
    <2>5. Balanced(r)' /\ Honest(r)'
      BY <2>2 DEF Balanced, Honest
    <2> QED  BY <2>4, <2>5 DEF Local
  <1>13. CASE WriteManifest(r)
    <2>1. /\ pc[r] = "manifest" /\ pc'[r] = "linking"
          /\ manifest'[r] = TRUE /\ todo'[r] = plan[r]
          /\ UNCHANGED <<action, shown, plan, completed, restored, partial,
                         effect, copies>>
      BY <1>13 DEF WriteManifest, TypeOK
    <2>2. Within(r)'
      BY <1>1, <1>11, <2>1 DEF Within
    <2>3. Balanced(r)' /\ Honest(r)'
      BY <1>1, <2>1 DEF Within, Balanced, Honest
    <2> QED  BY <2>2, <2>3 DEF Local
  <1>14. CASE BackupFails(r)
    <2> DEFINE report == Report("failed", "not_attempted", 0, FALSE, FALSE)
    <2>1. Finish(r, report) /\ UNCHANGED <<action, shown, moveVars, manifest>>
      BY <1>14 DEF BackupFails
    <2>2. report \in Outcome
      BY Reports
    <2>3. effect[r] = {} /\ ~manifest[r]
      BY <1>1, <1>14 DEF Within, BackupFails
    <2>4. Honest(r)'
      BY <1>2, <2>1, <2>2, <2>3, FinishHonest DEF Report
    <2>5. pc'[r] = "logging"
      BY <2>1 DEF Finish, TypeOK
    <2>6. Within(r)' /\ Balanced(r)'
      BY <1>1, <1>11, <2>1, <2>3, <2>5 DEF Within, Balanced
    <2> QED  BY <2>4, <2>6 DEF Local
  <1>15. CASE Link(r)
    <2>1. PICK f \in File :
            /\ IsFirst(f, todo[r])
            /\ TargetOf(r, f) = Absent
            /\ effect' = [effect EXCEPT ![r] = @ \union {f}]
      BY <1>15 DEF Link
    <2>2. /\ pc[r] = "linking" /\ pc'[r] = "unlinking"
          /\ effect'[r] = effect[r] \union {f}
          /\ UNCHANGED <<action, shown, plan, todo, completed, restored, partial,
                         backupVars>>
      BY <1>15, <2>1 DEF Link, TypeOK
    <2>3. f \in plan[r] /\ manifest[r] /\ copies[r][f] # Absent
            /\ f \in Changes(action[r], shown[r])
      BY <1>1, <2>1, <2>2 DEF Within, IsFirst
    <2>4. copies[r][f] = shown[r][f][SourceSide(action[r])]
      BY <2>1, <2>3, MovesTheShownContent
    <2>5. Within(r)'
      BY <1>1, <1>11, <2>2, <2>3, <2>4 DEF Within
    <2>6. Balanced(r)' /\ Honest(r)'
      BY <1>1, <2>1, <2>2 DEF Balanced, Honest
    <2> QED  BY <2>5, <2>6 DEF Local
  <1>16. CASE LinkFails(r)
    <2>1. /\ pc[r] = "linking" /\ pc'[r] = "undoing"
          /\ partial'[r] = FALSE /\ todo'[r] = completed[r]
          /\ UNCHANGED <<action, shown, plan, completed, restored, effect,
                         backupVars>>
      BY <1>16 DEF LinkFails, Rollback, TypeOK
    <2>2. Within(r)'
      BY <1>1, <1>11, <2>1 DEF Within
    <2>3. Balanced(r)' /\ Honest(r)'
      BY <1>1, <2>1 DEF Balanced, Honest
    <2> QED  BY <2>2, <2>3 DEF Local
  <1>17. CASE Unlink(r)
    <2>1. PICK f \in File :
            /\ IsFirst(f, todo[r])
            /\ todo' = [todo EXCEPT ![r] = @ \ {f}]
            /\ completed' = [completed EXCEPT ![r] = @ \union {f}]
      BY <1>17 DEF Unlink
    <2>2. /\ pc[r] = "unlinking" /\ pc'[r] = "linking"
          /\ todo'[r] = todo[r] \ {f}
          /\ completed'[r] = completed[r] \union {f}
          /\ UNCHANGED <<action, shown, plan, restored, partial, effect,
                         backupVars>>
      BY <1>17, <2>1 DEF Unlink, TypeOK
    <2>3. effect[r] = completed[r] \union {f}
      BY <1>1, <2>1, <2>2, Unique DEF Balanced, TypeOK
    <2>4. Within(r)'
      BY <1>1, <1>11, <2>1, <2>2 DEF Within, IsFirst
    <2>5. Balanced(r)' /\ Honest(r)'
      BY <1>1, <2>1, <2>2, <2>3 DEF Balanced, Honest, IsFirst
    <2> QED  BY <2>4, <2>5 DEF Local
  <1>18. CASE UnlinkFails(r)
    <2>1. /\ pc[r] = "unlinking" /\ pc'[r] = "undoing"
          /\ partial'[r] = TRUE /\ todo'[r] = completed[r]
          /\ UNCHANGED <<action, shown, plan, completed, restored, effect,
                         backupVars>>
      BY <1>18 DEF UnlinkFails, Rollback, TypeOK
    <2>2. PICK f \in File : IsFirst(f, todo[r]) /\ effect[r] = completed[r] \union {f}
      BY <1>1, <2>1 DEF Balanced
    <2>3. effect[r] \ completed[r] = {f}
      BY <1>1, <2>1, <2>2 DEF Balanced, IsFirst
    <2>4. Within(r)'
      BY <1>1, <1>11, <2>1 DEF Within
    <2>5. Balanced(r)' /\ Honest(r)'
      BY <1>1, <2>1, <2>3 DEF Balanced, Honest
    <2> QED  BY <2>4, <2>5 DEF Local
  <1>19. CASE Succeed(r)
    <2> DEFINE report == Report("success", "not_required",
                                Cardinality(completed[r]), TRUE, FALSE)
    <2>1. /\ Finish(r, report)
          /\ UNCHANGED <<action, shown, moveVars, backupVars>>
      BY <1>19 DEF Succeed
    <2>2. report \in Outcome
      BY Reports, FileFinite DEF TypeOK
    <2>3. effect[r] = completed[r] /\ effect[r] = plan[r]
      BY <1>1, <1>19 DEF Succeed, Balanced
    <2>4. Honest(r)'
      BY <2>1, <2>2, <2>3, FinishHonest DEF Report
    <2> HIDE DEF report
    <2> QED  BY <1>4, <2>1, <2>2, <2>4 DEF Local
  <1>20. CASE Undo(r)
    <2>1. /\ pc[r] = "undoing" /\ pc'[r] = "undoUnlinking"
          /\ UNCHANGED <<action, shown, moveVars, backupVars>>
      BY <1>20 DEF Undo, TypeOK
    <2>2. Within(r)'
      BY <1>1, <1>11, <2>1 DEF Within
    <2>3. Balanced(r)' /\ Honest(r)'
      BY <1>1, <2>1 DEF Balanced, Honest
    <2> QED  BY <2>2, <2>3 DEF Local
  <1>21. CASE UndoUnlink(r)
    <2>1. PICK f \in File :
            /\ IsLast(f, todo[r])
            /\ todo' = [todo EXCEPT ![r] = @ \ {f}]
            /\ restored' = [restored EXCEPT ![r] = @ \union {f}]
            /\ effect' = [effect EXCEPT ![r] = @ \ {f}]
      BY <1>21 DEF UndoUnlink
    <2>2. /\ pc[r] = "undoUnlinking" /\ pc'[r] = "undoing"
          /\ todo'[r] = todo[r] \ {f}
          /\ restored'[r] = restored[r] \union {f}
          /\ effect'[r] = effect[r] \ {f}
          /\ UNCHANGED <<action, shown, plan, completed, partial, backupVars>>
      BY <1>21, <2>1 DEF UndoUnlink, TypeOK
    <2>3. f \in todo[r] /\ f \in completed[r] \ restored[r]
      BY <1>1, <2>1, <2>2 DEF Balanced, IsLast
    <2>4. Within(r)'
      BY <1>1, <1>11, <2>2, <2>3 DEF Within
    <2>5. Balanced(r)' /\ Honest(r)'
      BY <1>1, <2>2, <2>3 DEF Balanced, Honest
    <2> QED  BY <2>4, <2>5 DEF Local
  <1>22. CASE UndoFails(r)
    <2>1. PICK f \in File : todo' = [todo EXCEPT ![r] = @ \ {f}]
      BY <1>22 DEF UndoFails
    <2>2. /\ pc[r] \in Undoing /\ pc'[r] = "undoing"
          /\ todo'[r] \subseteq todo[r]
          /\ UNCHANGED <<action, shown, plan, completed, restored, partial,
                         effect, backupVars>>
      BY <1>22, <2>1 DEF UndoFails, TypeOK
    <2>3. Within(r)'
      BY <1>1, <1>11, <2>2 DEF Within
    <2>4. Balanced(r)' /\ Honest(r)'
      BY <1>1, <2>2 DEF Balanced, Honest
    <2> QED  BY <2>3, <2>4 DEF Local
  <1>23. CASE RollbackEnds(r)
    <2>1. /\ Finish(r, RollbackReport(r))
          /\ UNCHANGED <<action, shown, moveVars, backupVars>>
          /\ pc[r] = "undoing" /\ todo[r] = {}
      BY <1>23 DEF RollbackEnds
    <2>2. RollbackReport(r) \in Outcome
      BY <2>1 DEF Finish, TypeOK
    <2>3. Honest(r)'
      BY <1>1, <2>1, <2>2, RollbackCounts, FinishHonest
    <2> QED  BY <1>4, <2>1, <2>2, <2>3 DEF Local
  <1>24. CASE AppendLog(r)
    <2>1. /\ pc[r] = "logging" /\ pc'[r] = "done"
          /\ UNCHANGED <<action, shown, moveVars, backupVars, outcome>>
      BY <1>24 DEF AppendLog, TypeOK
    <2>2. Within(r)'
      BY <1>1, <1>11, <2>1 DEF Within
    <2>3. Balanced(r)' /\ Honest(r)'
      BY <1>1, <2>1 DEF Balanced, Honest
    <2> QED  BY <2>2, <2>3 DEF Local
  <1> QED
    BY <1>6, <1>7, <1>8, <1>9, <1>10, <1>12, <1>13, <1>14, <1>15, <1>16, <1>17,
       <1>18, <1>19, <1>20, <1>21, <1>22, <1>23, <1>24 DEF Work

---------------------------------------------------------------------------
(* No silent conflict.                                                       *)

LEMMA ConflictOrigin ==
    ASSUME TypeOK, TypeOK', [Next]_vars, NEW f \in File, Conflict(f)', ~Conflict(f)
    PROVE  \E r \in Request : Link(r) \/ Undo(r)
  <1> USE DEF boundVars, backupVars, moveVars, readVars, answerVars
  <1>1. ASSUME UNCHANGED dir PROVE FALSE
    BY <1>1 DEF Conflict
  <1>2. ASSUME NEW g \in File, NEW s \in Side, dir' = [dir EXCEPT ![g][s] = Absent]
        PROVE  FALSE
    BY <1>2 DEF Conflict, TypeOK, Side
  <1>3. ASSUME NEW r \in Request, Unlink(r) \/ UndoUnlink(r) PROVE FALSE
    BY <1>2, <1>3, Sides DEF Unlink, UndoUnlink
  <1>4. ASSUME Appear PROVE FALSE
    <2>1. PICK g \in File, s \in Side, c \in Content :
            /\ \A h \in File, u \in Side : dir[h][u] # c
            /\ dir' = [dir EXCEPT ![g][s] = c]
      BY <1>4 DEF Appear
    <2> QED  BY <2>1 DEF Conflict, TypeOK, Side
  <1>5. ASSUME NEW r \in Request,
               \/ Preview(r) \/ Confirm(r) \/ ProbeName(r) \/ PreviewShown(r)
               \/ InspectDirectoryFails(r)
               \/ \E confirmed \in BOOLEAN : Decide(r, confirmed)
               \/ CopyFile(r) \/ WriteManifest(r) \/ BackupFails(r)
               \/ LinkFails(r) \/ UnlinkFails(r) \/ Succeed(r) \/ UndoFails(r)
               \/ RollbackEnds(r) \/ AppendLog(r)
        PROVE  UNCHANGED dir
    BY <1>5 DEF Preview, Confirm, ProbeName, PreviewShown,
       InspectDirectoryFails, Decide, CopyFile, WriteManifest, BackupFails,
       LinkFails, UnlinkFails, Succeed, UndoFails, RollbackEnds, AppendLog
  <1>6. ASSUME Crash \/ SaveConfiguration \/ UNCHANGED vars PROVE UNCHANGED dir
    BY <1>6 DEF Crash, SaveConfiguration, vars
  <1> QED  BY <1>1, <1>3, <1>4, <1>5, <1>6 DEF Next, Work

(* Whoever answers for a conflict goes on doing so, or resolves it.          *)
LEMMA StillAnswers ==
    ASSUME TypeOK, TypeOK', OneHolder, NEW r \in Request, Local(r), Local(r)',
           NEW f \in File, AnswersFor(r, f), Conflict(f)',
           Preview(r) \/ Confirm(r) \/ Work(r)
    PROVE  AnswersFor(r, f)'
  <1> USE DEF boundVars, backupVars, moveVars, readVars, answerVars, Goto
  <1>1. \/ pc[r] = "unlinking" /\ IsFirst(f, todo[r])
        \/ pc[r] \in {"undoing", "undoUnlinking", "logging", "done", "dead"}
    BY DEF AnswersFor, Holds
  <1>2. CASE Unlink(r)
    <2>1. PICK g \in File :
            /\ IsFirst(g, todo[r])
            /\ dir' = [dir EXCEPT ![g][SourceSide(action[r])] = Absent]
      BY <1>2 DEF Unlink
    <2>2. g = f
      BY <1>1, <1>2, <2>1, Unique DEF Unlink, TypeOK
    <2> QED  BY <2>1, <2>2, Sides DEF Conflict, TypeOK, Side
  <1>3. CASE UnlinkFails(r)
    BY <1>3 DEF UnlinkFails, Rollback, AnswersFor, TypeOK
  <1>4. CASE Undo(r)
    BY <1>4 DEF Undo, AnswersFor, TypeOK
  <1>5. CASE UndoUnlink(r)
    <2>1. PICK g \in File :
            /\ dir' = [dir EXCEPT ![g][TargetSide(action[r])] = Absent]
            /\ effect' = [effect EXCEPT ![r] = @ \ {g}]
      BY <1>5 DEF UndoUnlink
    <2>2. g # f
      BY <2>1, Sides DEF Conflict, TypeOK, Side
    <2>3. pc'[r] = "undoing"
      BY <1>5 DEF UndoUnlink, TypeOK
    <2> QED  BY <2>1, <2>2, <2>3 DEF AnswersFor, TypeOK
  <1>6. CASE UndoFails(r)
    BY <1>6 DEF UndoFails, AnswersFor, TypeOK
  <1>7. CASE RollbackEnds(r)
    <2>1. /\ pc'[r] = "logging"
          /\ effect' = effect
      BY <1>7 DEF RollbackEnds, Finish, TypeOK
    <2>2. outcome'[r] = RollbackReport(r) /\ pc[r] = "undoing" /\ todo[r] = {}
      BY <1>7 DEF RollbackEnds, Finish, TypeOK
    <2>3. f \in effect[r]
      BY DEF AnswersFor
    <2>4. outcome'[r].status = "partial"
      BY <2>2, <2>3, RollbackCounts DEF Local
    <2> QED  BY <2>1, <2>3, <2>4 DEF AnswersFor
  <1>8. CASE AppendLog(r)
    BY <1>8 DEF AppendLog, AnswersFor, Holds, TypeOK
  <1>9. ASSUME \/ Preview(r) \/ Confirm(r) \/ ProbeName(r) \/ PreviewShown(r)
               \/ InspectDirectoryFails(r)
               \/ \E confirmed \in BOOLEAN : Decide(r, confirmed)
               \/ CopyFile(r) \/ WriteManifest(r) \/ BackupFails(r)
               \/ Link(r) \/ LinkFails(r) \/ Succeed(r)
        PROVE FALSE
    BY <1>1, <1>9 DEF Preview, Confirm, ProbeName, PreviewShown,
       InspectDirectoryFails, Decide, CopyFile, WriteManifest, BackupFails,
       Link, LinkFails, Succeed
  <1> QED  BY <1>2, <1>3, <1>4, <1>5, <1>6, <1>7, <1>8, <1>9 DEF Work

LEMMA ConflictStep ==
    ASSUME TypeOK, TypeOK', OneHolder, \A r \in Request : Local(r),
           \A r \in Request : Local(r)', ConflictsAreReported, [Next]_vars
    PROVE  ConflictsAreReported'
  <1> SUFFICES ASSUME NEW f \in File, Conflict(f)'
               PROVE  \E r \in Request : AnswersFor(r, f)'
    BY DEF ConflictsAreReported
  <1> USE DEF boundVars, backupVars, moveVars, readVars, answerVars, Goto
  <1>1. CASE Conflict(f)
    <2>1. PICK r \in Request : AnswersFor(r, f)
      BY <1>1 DEF ConflictsAreReported
    <2>2. CASE Preview(r) \/ Confirm(r) \/ Work(r)
      BY <2>1, <2>2, StillAnswers
    <2>3. ASSUME NEW q \in Request \ {r}, Preview(q) \/ Confirm(q) \/ Work(q)
          PROVE  AnswersFor(r, f)'
      <3>1. Elsewhere(q)
        BY <2>3, OthersUntouched
      <3> QED  BY <2>1, <3>1 DEF Elsewhere, AnswersFor, Holds
    <2>4. CASE Crash
      <3>1. pc'[r] \in {pc[r], "dead"} /\ UNCHANGED <<todo, effect, outcome>>
        BY <2>4 DEF Crash, TypeOK
      <3>2. CASE pc'[r] = "dead"
        BY <2>1, <3>1, <3>2 DEF AnswersFor
      <3>3. CASE pc'[r] = pc[r]
        BY <2>1, <3>1, <3>3 DEF AnswersFor, Holds
      <3> QED  BY <3>1, <3>2, <3>3
    <2>5. CASE SaveConfiguration \/ Appear \/ UNCHANGED vars
      <3>1. UNCHANGED <<pc, todo, effect, outcome>>
        BY <2>5 DEF SaveConfiguration, Appear, vars
      <3> QED  BY <2>1, <3>1 DEF AnswersFor, Holds
    <2> QED  BY <2>2, <2>3, <2>4, <2>5 DEF Next
  <1>2. CASE ~Conflict(f)
    <2>1. PICK r \in Request : Link(r) \/ Undo(r)
      BY <1>2, ConflictOrigin
    <2>2. CASE Link(r)
      <3>1. PICK g \in File :
              /\ IsFirst(g, todo[r])
              /\ dir' = [dir EXCEPT ![g][TargetSide(action[r])] = SourceOf(r, g)]
              /\ effect' = [effect EXCEPT ![r] = @ \union {g}]
        BY <2>2 DEF Link
      <3>2. g = f
        BY <1>2, <3>1 DEF Conflict, TypeOK
      <3>3. pc'[r] = "unlinking" /\ todo' = todo
        BY <2>2 DEF Link, TypeOK
      <3> QED  BY <3>1, <3>2, <3>3 DEF AnswersFor, Holds, TypeOK
    <2>3. CASE Undo(r)
      <3>1. PICK g \in File :
              /\ IsLast(g, todo[r])
              /\ dir' = [dir EXCEPT ![g][SourceSide(action[r])] = TargetOf(r, g)]
        BY <2>3 DEF Undo
      <3>2. g = f
        BY <1>2, <3>1 DEF Conflict, TypeOK
      <3>3. /\ pc[r] = "undoing" /\ pc'[r] = "undoUnlinking"
            /\ effect' = effect
        BY <2>3 DEF Undo, TypeOK
      <3>4. f \in effect[r]
        BY <3>1, <3>2, <3>3 DEF Local, Balanced, Undoing, IsLast
      <3> QED  BY <3>3, <3>4 DEF AnswersFor
    <2> QED  BY <2>1, <2>2, <2>3
  <1> QED  BY <1>1, <1>2

---------------------------------------------------------------------------
(* The inductive invariant, and what follows from it.                        *)

LEMMA InvInit == Init => IInv
  <1> SUFFICES ASSUME Init PROVE IInv
    OBVIOUS
  <1>1. TypeOK
    BY TypeInit DEF IType
  <1>2. NothingReadIsGone
    BY SlotAssumption DEF Init, NothingReadIsGone, NoInspection, Slot
  <1>3. WithinThePlan /\ BooksBalance /\ HonestReport
    BY DEF Init, WithinThePlan, Within, BooksBalance, Balanced, HonestReport,
       Honest, BackingUp, Undoing, Moving
  <1>4. ConflictsAreReported
    <2> SUFFICES ASSUME NEW f \in File PROVE ~Conflict(f)
      BY DEF ConflictsAreReported
    <2>1. /\ dir[f]["orig"] \in Slot
          /\ \A s, t \in Side : dir[f][s] \in Content /\ dir[f][s] = dir[f][t] => s = t
      BY DEF Init, Side
    <2> QED  BY <2>1 DEF Conflict, Slot, Side
  <1> QED  BY <1>1, <1>2, <1>3, <1>4, HoldersInit DEF IInv

LEMMA InvStep == TypeOK' /\ IInv /\ [Next]_vars => IInv'
  <1> SUFFICES ASSUME TypeOK', IInv, [Next]_vars PROVE IInv'
    OBVIOUS
  <1> USE DEF boundVars, backupVars, moveVars, readVars, answerVars
  <1>1. /\ TypeOK /\ OneHolder /\ NothingReadIsGone /\ ConflictsAreReported
        /\ \A r \in Request : Local(r)
    BY DEF IInv, WithinThePlan, BooksBalance, HonestReport, Local
  <1>2. \A r \in Request : Local(r)'
    <2>1. ASSUME NEW r \in Request, NEW q \in Request,
                 Preview(q) \/ Confirm(q) \/ Work(q)
          PROVE  Local(r)'
      <3>1. CASE q = r
        BY <1>1, <2>1, <3>1, LocalStep
      <3>2. CASE q # r
        BY <1>1, <2>1, <3>2, OthersUntouched, LocalElsewhere
      <3> QED  BY <3>1, <3>2
    <2>2. ASSUME NEW r \in Request, Crash PROVE Local(r)'
      <3>1. /\ pc'[r] \in {pc[r], "dead"}
            /\ UNCHANGED <<action, shown, moveVars, backupVars, outcome>>
        BY <1>1, <2>2 DEF Crash, TypeOK
      <3>2. Changes(action[r], shown[r])' = Changes(action[r], shown[r])
        BY <3>1 DEF Changes
      <3> QED  BY <1>1, <3>1, <3>2 DEF Local, Within, Balanced, Honest, Deciding,
               BackingUp, Moving, Undoing
    <2>3. ASSUME NEW r \in Request, SaveConfiguration \/ Appear \/ UNCHANGED vars
          PROVE  Local(r)'
      <3>1. UNCHANGED <<pc, action, shown, moveVars, backupVars, outcome>>
        BY <2>3 DEF SaveConfiguration, Appear, vars
      <3>2. Changes(action[r], shown[r])' = Changes(action[r], shown[r])
        BY <3>1 DEF Changes
      <3> QED  BY <1>1, <3>1, <3>2 DEF Local, Within, Balanced, Honest
    <2> QED  BY <2>1, <2>2, <2>3 DEF Next
  <1>3. OneHolder' /\ NothingReadIsGone'
    BY <1>1, HoldersStep, ReadStep
  <1>4. ConflictsAreReported'
    BY <1>1, <1>2, ConflictStep
  <1> QED
    BY <1>2, <1>3, <1>4 DEF IInv, WithinThePlan, BooksBalance, HonestReport, Local

(* The invariant the others rest on: between link and unlink a file has one  *)
(* owner; nothing read is gone; every request keeps within its plan and its  *)
(* books balance.                                                            *)
THEOREM Invariance == Spec => []IInv
  <1>1. IType => TypeOK
    BY DEF IType
  <1> QED  BY <1>1, Typing, InvInit, InvStep, PTL DEF Spec

(* A license is moved only under a complete backup of the content moved.     *)
THEOREM Backup == Spec => []BackupCoversMoves
  <1>1. IInv => BackupCoversMoves
    <2> SUFFICES ASSUME IInv, NEW r \in Request, NEW f \in effect[r]
                 PROVE  manifest[r] /\ copies[r][f] \in Kept(f)
      BY DEF BackupCoversMoves
    <2>1. f \in File /\ f \in plan[r] /\ manifest[r]
      BY DEF IInv, TypeOK, WithinThePlan, Within
    <2>2. copies[r][f] \in Content
      BY <2>1 DEF IInv, TypeOK, WithinThePlan, Within, Slot
    <2> QED  BY <2>1, <2>2 DEF IInv, NothingReadIsGone
  <1> QED  BY <1>1, Invariance, PTL

(* What a request moves is what the page it confirms showed, though nothing  *)
(* is locked between the comparison of the fingerprints and the move.        *)
THEOREM ShownIsMoved == Spec => []MovesWhatWasShown
  <1>1. IInv => MovesWhatWasShown
    BY DEF IInv, WithinThePlan, Within, MovesWhatWasShown
  <1> QED  BY <1>1, Invariance, PTL

(* No partial backup has a manifest.                                         *)
THEOREM CompleteManifest == Spec => []ManifestIsComplete
  <1>1. IInv => ManifestIsComplete
    BY DEF IInv, WithinThePlan, Within, ManifestIsComplete
  <1> QED  BY <1>1, Invariance, PTL

(* The changed count, the status and the rollback status of every report are *)
(* those of the directory.                                                   *)
THEOREM Honesty == Spec => []HonestReport
  <1>1. IInv => HonestReport
    BY DEF IInv
  <1> QED  BY <1>1, Invariance, PTL

(* Every conflict a request leaves behind has a request that reports it.     *)
THEOREM NoSilentConflict == Spec => []ConflictsAreReported
  <1>1. IInv => ConflictsAreReported
    BY DEF IInv
  <1> QED  BY <1>1, Invariance, PTL

(* Nobody asks for a restoration: the double submit of one confirmation, or  *)
(* any number of requests to hide.                                           *)
NothingRestores == \A r \in Request : action[r] = "hide-licenses"

(* A file some request has hidden keeps its hidden name, which no second     *)
(* request can take.                                                         *)
HiddenOnce ==
    NothingRestores =>
        /\ \A r \in Request : \A f \in effect[r] : dir[f]["hidden"] # Absent
        /\ \A r, q \in Request : r # q => effect[r] \cap effect[q] = {}

LEMMA HiddenOnceStep == IInv /\ HiddenOnce /\ [Next]_vars => HiddenOnce'
  <1> SUFFICES ASSUME IInv, HiddenOnce, [Next]_vars, NothingRestores'
               PROVE  /\ \A r \in Request : \A f \in effect'[r] :
                            dir'[f]["hidden"] # Absent
                      /\ \A r, q \in Request :
                            r # q => effect'[r] \cap effect'[q] = {}
    BY DEF HiddenOnce
  <1> USE DEF boundVars, backupVars, moveVars, readVars, answerVars
  <1>1. TypeOK /\ \A r \in Request : Within(r) /\ Balanced(r)
    BY DEF IInv, WithinThePlan, BooksBalance
  <1>2. UNCHANGED action
    <2>1. ASSUME NEW r \in Request, Preview(r) \/ Confirm(r) \/ Work(r)
          PROVE  UNCHANGED action
      BY <2>1 DEF Work, Preview, Confirm, ProbeName, PreviewShown,
         InspectDirectoryFails, Decide, CopyFile, WriteManifest, BackupFails,
         Link, LinkFails, Unlink, UnlinkFails, Succeed, Undo, UndoUnlink,
         UndoFails, RollbackEnds, AppendLog
    <2>2. Crash \/ SaveConfiguration \/ Appear \/ UNCHANGED vars => UNCHANGED action
      BY DEF Crash, SaveConfiguration, Appear, vars
    <2> QED  BY <2>1, <2>2 DEF Next
  <1>3. NothingRestores /\ \A r \in Request :
            SourceSide(action[r]) = "orig" /\ TargetSide(action[r]) = "hidden"
    BY <1>2 DEF NothingRestores, SourceSide, TargetSide, Other
  <1>4. /\ \A r \in Request : \A f \in effect[r] :
              f \in File /\ dir[f]["hidden"] # Absent
        /\ \A r, q \in Request : r # q => effect[r] \cap effect[q] = {}
    BY <1>1, <1>3 DEF HiddenOnce, TypeOK
  <1>5. ASSUME NEW r \in Request, Link(r) PROVE HiddenOnce'
    <2>1. PICK f \in File :
            /\ SourceOf(r, f) # Absent
            /\ TargetOf(r, f) = Absent
            /\ dir' = [dir EXCEPT ![f]["hidden"] = SourceOf(r, f)]
            /\ effect' = [effect EXCEPT ![r] = @ \union {f}]
      BY <1>3, <1>5 DEF Link
    <2>2. \A q \in Request : f \notin effect[q]
      BY <1>3, <1>4, <2>1 DEF TargetOf
    <2>3. /\ dir'[f]["hidden"] # Absent
          /\ \A g \in File \ {f} : dir'[g] = dir[g]
      BY <1>1, <2>1 DEF TypeOK, Side
    <2>4. \A q \in Request :
            effect'[q] = IF q = r THEN effect[r] \union {f} ELSE effect[q]
      BY <1>1, <2>1 DEF TypeOK
    <2> QED  BY <1>4, <2>2, <2>3, <2>4 DEF HiddenOnce
  <1>6. ASSUME NEW r \in Request, Unlink(r) \/ Undo(r) PROVE HiddenOnce'
    <2>1. PICK f \in File, slot \in Slot : dir' = [dir EXCEPT ![f]["orig"] = slot]
      <3>1. CASE Unlink(r)
        BY <1>3, <3>1 DEF Unlink, Slot
      <3>2. CASE Undo(r)
        <4>1. \A f \in File : TargetOf(r, f) \in Slot
          BY <1>1, <1>3 DEF TargetOf, TypeOK, Side
        <4> QED  BY <1>3, <3>2, <4>1 DEF Undo
      <3> QED  BY <1>6, <3>1, <3>2
    <2>2. \A g \in File : dir'[g]["hidden"] = dir[g]["hidden"]
      BY <1>1, <2>1 DEF TypeOK, Side
    <2>3. UNCHANGED effect
      BY <1>6 DEF Unlink, Undo
    <2> QED  BY <1>4, <2>2, <2>3 DEF HiddenOnce
  <1>7. ASSUME NEW r \in Request, UndoUnlink(r) PROVE HiddenOnce'
    <2>1. PICK f \in File :
            /\ IsLast(f, todo[r])
            /\ dir' = [dir EXCEPT ![f]["hidden"] = Absent]
            /\ effect' = [effect EXCEPT ![r] = @ \ {f}]
      BY <1>3, <1>7 DEF UndoUnlink
    <2>2. f \in effect[r]
      BY <1>1, <1>7, <2>1 DEF Balanced, Undoing, UndoUnlink, IsLast
    <2>3. \A q \in Request :
            effect'[q] = IF q = r THEN effect[r] \ {f} ELSE effect[q]
      BY <1>1, <2>1 DEF TypeOK
    <2>4. \A q \in Request : f \notin effect'[q]
      BY <1>4, <2>2, <2>3
    <2>5. \A g \in File \ {f} : dir'[g] = dir[g]
      BY <1>1, <2>1 DEF TypeOK
    <2> QED  BY <1>4, <2>3, <2>4, <2>5 DEF HiddenOnce
  <1>8. ASSUME Appear PROVE HiddenOnce'
    <2>1. PICK f \in File, s \in Side, c \in Content :
            dir' = [dir EXCEPT ![f][s] = c]
      BY <1>8 DEF Appear
    <2>2. \A g \in File : dir'[g]["hidden"] \in {dir[g]["hidden"], c}
      BY <1>1, <2>1 DEF TypeOK, Side
    <2>3. UNCHANGED effect
      BY <1>8 DEF Appear
    <2> QED  BY <1>4, <2>2, <2>3, SlotAssumption DEF HiddenOnce
  <1>9. ASSUME UNCHANGED <<dir, effect>> PROVE HiddenOnce'
    BY <1>4, <1>9 DEF HiddenOnce
  <1>10. ASSUME NEW r \in Request,
               \/ Preview(r) \/ Confirm(r) \/ ProbeName(r) \/ PreviewShown(r)
               \/ InspectDirectoryFails(r)
               \/ \E confirmed \in BOOLEAN : Decide(r, confirmed)
               \/ CopyFile(r) \/ WriteManifest(r) \/ BackupFails(r)
               \/ LinkFails(r) \/ UnlinkFails(r) \/ Succeed(r) \/ UndoFails(r)
               \/ RollbackEnds(r) \/ AppendLog(r)
        PROVE  UNCHANGED <<dir, effect>>
    BY <1>10 DEF Preview, Confirm, ProbeName, PreviewShown,
       InspectDirectoryFails, Decide, CopyFile, WriteManifest, BackupFails,
       LinkFails, UnlinkFails, Succeed, UndoFails, RollbackEnds, AppendLog
  <1>11. Crash \/ SaveConfiguration \/ UNCHANGED vars => UNCHANGED <<dir, effect>>
    BY DEF Crash, SaveConfiguration, vars
  <1>12. HiddenOnce'
    BY <1>5, <1>6, <1>7, <1>8, <1>9, <1>10, <1>11 DEF Next, Work
  <1> QED  BY <1>12 DEF HiddenOnce

(* A double submit: of confirmations that hide, however they interleave, fail *)
(* or die, no file is moved by two, as long as nothing restores in between;   *)
(* the later one finds the hidden name taken, and a rollback gives back only  *)
(* what its own request moved.                                                *)
THEOREM DoubleSubmit == Spec => [](NothingRestores => MovesOnce)
  <1>1. Init => HiddenOnce
    BY DEF Init, HiddenOnce
  <1>2. HiddenOnce => (NothingRestores => MovesOnce)
    BY DEF HiddenOnce, MovesOnce
  <1> QED  BY <1>1, <1>2, HiddenOnceStep, Invariance, PTL DEF Spec

(* Of two requests, two that hide are all there are.                         *)
THEOREM TwoSubmits ==
    ASSUME NEW CONSTANT first, NEW CONSTANT second, Request = {first, second}
    PROVE  Spec => []MovesOnce
  <1>1. (NothingRestores => MovesOnce) => MovesOnce
    BY DEF NothingRestores, MovesOnce
  <1> QED  BY <1>1, DoubleSubmit, PTL

===========================================================================

# Verification of QA Deck

QA Deck is a local Flask application. It keeps a catalogue of *Products* under
test and changes their environment on request: it hides and restores license
files, applies Windows Registry presets, collects logs, stores and restores
snapshots and applies Environment Profiles. `src/run.py` starts Flask's
threaded server, so every HTTP request is a thread, and nothing but four
in-memory stores holds a lock.

This directory holds TLA+ models of the parts where a mistake costs data, the
TLC runs that check them on small instances, and TLAPS proofs of their main
properties for every size. Paths below are relative to `src/src/qa_deck/`.

## The system

| Part | State | Operations | Talks to |
|---|---|---|---|
| License Manager (`plugins/builtin/license_manager/service.py`) | the license directory, the backup directory | inspect, build_plan, execute | configuration repository, Operation Log |
| JSON storage (`storage/json_file.py` and five repositories) | one JSON list per file | add, update, upsert, remove, delete, delete_for_product, append | all routes and services |
| Product deletion (`product_deletion.py`) | four of the files | delete, with rollback | four repositories |
| Intent and result stores (in `execution.py` of the Registry plugin, `environment_profiles.py`, `snapshot/restore.py`, `product_setup.py`) | two bounded dictionaries in memory | create_intent, take_intent, save_result, get_result | the confirmation routes |
| Windows Registry (`plugins/builtin/windows_registry/`) | the Registry | plan, execute values and branches | its intent store, Operation Log |
| Environment Profiles (`environment_profiles.py`, the plugins' Profile capabilities) | profiles in a repository | plan and execute sections through plugins | License Manager, Registry, its intent store |
| Snapshots (`snapshot/`, the plugins' Snapshot capabilities) | snapshots in a repository | build, compare, restore | plugins, its intent store |
| Product Setup (`product_setup.py`) | products and configurations | export, validate, import with cleanup | repositories, its intent store |
| Log Collector (`plugins/builtin/log_collector/collection.py`) | an archive in a temporary directory | inspect, collect | the log files, the response that sends the archive |
| Web routes (`web/routes.py`) | none | one function per page | everything above |

What makes it hard:

* **Nothing is locked.** A repository reads a whole list, computes another one
  and replaces the file. A License Manager request inspects, compares, copies
  and moves by separate system calls. Other requests run in between.
* **Every step may fail, and the process may die between two.** The code has
  four rollbacks (moves of license files, writes of Registry targets, deletion
  of a product, import of a product) whose own steps may fail.
* **A request works on many things, and others work on them too.** Profiles and
  restores plan everything first and change one resource after the other; a
  collection reads logs that their product is writing.
* **A confirmation is another request than the page it confirms.** What was
  shown may be stale, submitted twice, sent to another page's URL, or forgotten
  after a restart.

What makes each part correct:

* License Manager: no license is ever overwritten or lost; what is moved was
  shown and is backed up; the report tells what happened; every request ends.
* Storage: a list is replaced as a whole or not at all; keys stay unique; a
  damaged file is kept for the user to repair; the log only grows.
* Deletion: a product goes with all its rows or stays with all of them, the
  answer says which, and other products are not touched.
* Registry presets: what is written was shown, from the configuration it was
  shown with; results and log are true whatever fails; every confirmation is
  answered.
* Import: what is said of each product is true, and what could not be completed
  is taken out or reported.
* Profiles and restores: only what was shown is changed, every entry is told of
  with what became of it, and a refusal has a reason outside the request.
* Log collection: every archived copy is of one version of its file, within the
  limits, and nothing is left out in silence.
* Registry editing: however edits overlap, the stored configuration stays valid
  (an invalid one no page could read again).
* Intent stores: a confirmed plan runs once at most, on the page it was shown
  on; only the limit, a restart or an earlier use takes a confirmation away.

`PROJECT.json` lists the hazards at the lines where they bite, with the
properties that cover them.

## Modules

### LicenseDirectory and LicenseManager

`LicenseDirectory` is the abstract promise: each license file has an original
and a `.hidden` name; a free name may get a content from outside, a free name
may become a second name of the content next to it, and a name may go while the
other one holds the same content. `NothingIsLost` follows, for `LicenseManager`
too (theorem `NoLoss`).

`LicenseManager` is `service.py` and the four routes in front of it, one action
per system call:

| Code | Action |
|---|---|
| `_preview_license_action`, `inspect`, `_probe` | `Preview`, `ProbeName` (one stat of one name), `PreviewShown` |
| `_confirm_license_action`, `execute` up to the backup | `Confirm`, `ProbeName`, `InspectDirectoryFails`, `Decide` (blocking error, fingerprint, no changes, not confirmed, in this order) |
| `_create_backup`, `_cleanup_partial_backup` | `CopyFile`, `WriteManifest`, `BackupFails` |
| `move_without_overwrite` in the loop of moves | `Link`, `LinkFails`, `Unlink`, `UnlinkFails`, `Succeed` |
| the rollback | `Undo`, `UndoUnlink`, `UndoFails`, `RollbackEnds` |
| `_finish` | `AppendLog` |
| the server, the administrator, the product | `Crash`, `SaveConfiguration`, `Appear` |

A content is one identity per (bytes, size, mtime), which is what the
fingerprint tells apart, and `Init` gives distinct files distinct contents. The
fingerprint itself is the inspection it is a hash of. `os.link` fails on a
taken target; `unlink` removes a name. A name that the model drops holds what
was linked a moment ago: nobody but these requests drops names, and nobody
overwrites one. An external program that deletes or overwrites license files
while QA Deck moves them is outside the model, and so outside the theorems.

### Repositories, AtomicStore and JsonStore

`Repositories` has what each method of the five repositories makes of the list
it has read: when it raises, when it writes, and the list it leaves. A row keeps
what the methods compare (id, product, body). `JsonStore` runs these methods in
threads with the steps of `json_file.py`: `Read`/`ReadRaises`, `WriteTemp` (the
complete and synced temporary file), `Replace` (`os.replace`), their failures,
and `Crash`. `AtomicStore` is what callers expect of a repository; `JsonStore`
implements it when calls come one at a time. `Modes` says whether calls may
overlap; the variable `serial` is the choice a behaviour has made of it.

Left out: the order of rows in a list, and temporary files that stay on disk
(their random names are never read).

### ProductDeletion, ProductImport and ProductRequests

`ProductDeletion` composes the four repositories with
`ProductDeletionService.delete` and with requests that save a row: `LookUp` is
`_product_or_404`, `ReadForSaving` and `StoreRow` the method of the repository.
A method is a reading and a replacing step; `JsonStore` justifies that (what lies
between them changes no file). Rows are put back in the order profiles,
snapshots, configurations; the order within one file is left open.

`ProductImport` is the confirmed import of a Product Setup package or bundle:

| Code | Action |
|---|---|
| the route, `execute_import` | `BeginImport` |
| `review_import` against the list of products | `ReviewImport`, `CanImport` |
| `_persist_import_product` | `StartPackage`, `ReadForImport` and `WriteForImport` for each call, `ImportFails`, `PackageCreated` |
| its cleanup | `ReadForCleanup`, `WriteForCleanup`, `CleanupFails`, `PackageFailed` |

A package is its product's id, a name and the sections of its plugins with the
status that the plugin's own check gives them. The id is made when the file is
uploaded; one upload may be confirmed more than once with other names, so an
import may meet the id, and what a failed import of it has left behind.

`ProductRequests` runs deletions, saving requests and imports next to each
other, with failures and deaths; the properties of all of them are checked
there.

### IntentStore

One model of the four stores, which differ in two things: Product Setup has no
subject in its URL and answers a refusal with an error page (`RefuseImport`),
the others save a result that says so. Tokens and results are numbered in the
order they are made, which is the insertion order of the dictionaries; a
number is never reused, as a random token is not. Each method runs under the
store's lock, so it is one action.

### RegistryExecution and RegistryEditing

`RegistryExecution` is `plan_preset`, the executor, and the native calls of
reader and writer, behind the routes that preview and apply a preset. Each
request previews once and is confirmed at most once (tokens are in
`IntentStore`).

| Code | Action |
|---|---|
| `preview_windows_registry_preset`, `create_intent` | `Preview`, `CreateIntent` |
| `inspect_value`, `inspect_branch` (two look-ups) | `ReadValue`, `ReadVisible`, `ReadHidden`; `Conclude` says what the reading is for |
| `execute_windows_registry_preset` | `Confirm`, `Log` |
| `execute`: authority, then entry by entry | `CheckAuthority`, `SkipEntry`, `ExecuteEntry` |
| `set_value` (look-up, then write), `rename_branch` | `FindValue`, `SetValue`, `RenameBranch` |
| `_execute_value`, `_execute_branch` and their rollbacks | the values of `pc` between those calls: `Verified`, `Inspected`, `Reverified`, `Raise` |
| other programs, the user | `OtherProgram`, `SaveConfiguration` (all of it, as typed) |
| `_edit_registry_target`, `edit_registry_preset` | `ReadSettings`, `DeleteItem`, `SaveTarget`, `SavePreset` (the second reading), `SaveSettings`, `EditFails` |

A configuration is which targets there are, which are enabled, and what each
preset wants of the targets it names; a target's id stands for its place too.
`RegistryEditing` adds the requests that edit one target or preset, and has the
`Next` and `Spec` of all of them. A fingerprint is the reading it is a hash of, the
authority fingerprint (`Authority`) the preset and the targets it names. A missing
key and a missing value are one state, as both block an entry; a value may also be
strange, of a representation that `inspect_value` has no name for, which is an error of
its entry. The order of the entries of a preset is left open, values before branches.
Ghosts: `wrote`, what a request has written, and `touched`, what others have
changed since it last began to read a target; the properties claim nothing about
what others have touched since then. That window is real: all targets are read
before the first is written, and the rollback of a value does not look at all,
so an execution may overwrite a change made meanwhile.

Left out: data that the Registry gives back in another form than it was written
(to the executor this is a change by another program before its verification).
The plugin's part in Snapshot Restore and Environment Profiles is below.

### Environment, EnvironmentProfiles, SnapshotRestore and EnvironmentChanges

`Environment` is what both kinds of request work on: resources (license files,
Registry values and branches, log sources), the configurations that say where
they are, the saved profile and snapshot, and who else changes them
(`OtherProgram`, `SaveConfiguration`, `EditProfile`, `DeleteSnapshot`). A
resource is `active`, `hidden`, `missing` or in `conflict`, and a Registry value may be
`strange`, of a representation that the reader has no name for. Inspecting one plugin
is a step and so is changing one resource, done, undone after a failure, or stuck
half way (`Change`); what lies between belongs to `LicenseManager` and
`RegistryExecution`, which have every call. A `Place` is a license directory or the
key of the Registry targets, so a saved configuration may move a plugin elsewhere.

| Code | Action |
|---|---|
| `EnvironmentProfilePlanner`, for the page and after the confirmation | `PreviewProfile`, `PlanSection` (one plugin, which may raise), `ShowProfilePlan`, `Replanned` |
| the route that applies, `execute` up to the loop | `ConfirmProfile`, `ConfirmProfileRaises` |
| the loop over the sections | `SkipSection`, `EndSection` (stale, unreadable configuration, refused by the plugin), `EnterSection` |
| License Manager's `execute_environment_profile` | `CheckFile`, `MoveFile` |
| the Registry's `execute_environment_profile` | `PlanPreset`, `ApplyTarget` |
| the log entry | `ProfileStatus`, `LogProfile` |
| `SnapshotBuilder`, `SnapshotDiffer`, `SnapshotRestorePlanner` | `PreviewRestore`, `Capture` (one plugin, which may raise), `Difference`, `Plans`, `ShowRestorePlan`, `ReplanRestore` |
| the restore route | `ConfirmRestore`, `ConfirmRestoreRaises` |
| `SnapshotRestoreExecutor`, entry by entry | `DecideEntry`, `RefuseEntry`, `ExecuteEntry`, `EndRestore`, `LogRestore` |

A fingerprint is what it is a hash of: of a license file its place and state, of
a Registry target its state alone, of a section the configuration and what the
profile says. `EnvironmentChanges` runs both next to each other and holds the
properties. Ghosts: `wrote`, each change with what was found, and `disturbed`,
which resources, configurations and plans others have changed since a request
showed them.

A preset may name a target that is disabled: the configuration only checks that the
target exists, and `inspect` leaves it out. The plan of the profile then has an error
for it (`Unplannable`), as for a strange value or a failed read, and the executor,
which looks for errors over all entries of a section, calls the whole Registry section
stale, with what the page showed as changes, each time it is confirmed. Nothing has changed
in between, so `StaleForAReason` has this one exception (`Spoilers`): a preset with a
target that was shown with an error, or that somebody else has since made unreadable.

### LogCollector

`collect` from its temporary directory to the response's end, next to a product
that appends to, rotates, makes and removes logs.

| Code | Action |
|---|---|
| `collect`: configuration, temporary directory, archive | `Start` |
| `_collect_source`: a stack of directories | `NextSource`, `NextDirectory`, `Scan`, `FindDirectory`, `DirectoryEnds`, `SourceEnds`, `TooManyEntries` |
| `_consider_entry` | `SkipEntry`, `ReachLimit`, `FindFile` |
| `_stable_copy`, then the archive | `OpenFile`, `CompareFile`, `CopyChunk`, `VerifyCopy`, `StoreFile`, `SkipFile` |
| the end of `collect`, the response | `CloseArchive`, `DiscardArchive`, `LogCollection`, `SendArchive` |
| the product and others | `AppendTo`, `Rotate`, `Replace` |

A file's signature (`st_dev`, `st_ino`, `st_size`, `st_mtime_ns`) is the file and its
version: every write is taken to change it. A write within the clock's
resolution that keeps the size would not, and neither the code nor the model could
tell. Links and whatever else is not a regular file are entries that are skipped; links
are not followed, so no directory is in itself (`NoCyclesAssumption`).
A member of the archive is named by the number of its source and its path: of two
configured directories one may be in the other, and then its files are in the archive
twice.
The directories above a path never change (`TreeAssumption`), though what is at
them may. A file has one path (`SettingAssumption`): a log that is written through a hard link
elsewhere is outside the model.

### Seeded faults

Operators whose comment begins with "Seeded fault" (`LinkOver`,
`AcceptedStale`, `ProductFirst`, ...) belong to no specification. Each is a
definition as a plausible bug would leave it, and `PROJECT.json` says which
property fails when it takes the definition's place: it shows that the property
depends on the code.

## Runs

`tlc -config X.cfg M` for each; `PROJECT.json` names the module. States are
distinct states.

| Configuration | Instance | What it shows |
|---|---|---|
| `MCLicenseConcurrent` | 2 requests, 2 files, 2 contents, both actions, 1 failing call (965k states) | `ImplementsDirectory`, `BackupCoversMoves`, `MovesWhatWasShown`, `MovesOnce`, the inductive invariant |
| `MCLicenseAlone` | 1 request, 2 files, 3 contents, 2 failing calls, 1 death, 3 configurations (693k) | `HonestReport`, `ConflictsAreReported`, `ManifestIsComplete` |
| `MCLicenseAnswers` | 2 competing requests, 2 files, both actions, fairness, no failing call (385k) | `Answers` |
| `MCJsonStore` | 2 threads, 4 rows, any repository, 2 failures or deaths, overlapping calls and one at a time (459k) | `UniqueKeys`, `DamageIsKept`, the inductive invariant; one at a time, `IsAtomic` |
| `MCLogAppend` | 2 threads at once | **violated**: `AppendOnly` |
| `MCProductRequests` | 2 deletions and 1 saving request, 2 imports, or 1 deletion and 1 import; 3 failures or deaths; one at a time, and at the same time with fewer rows (2.8M) | `NoOrphans`, `AnswersAreTrue`, `OthersUntouched`, `ImportsAreTrue`, `KeysStayUnique` |
| `MCDeletionOverlap` | 2 deletions and 1 saving request at once | **violated**: `DeletionIsComplete` |
| `MCIntentStore` | 3 confirmations, 3 previews, 2 subjects, limit 2, 1 restart (2.4M) | `AtMostOnce`, `OnlyWhatWasShown`, `Bounded`, `RefusedForAReason`, `ResultIsThere`, the inductive invariant |
| `MCRegistryEditing` | 1 value and 1 branch, 5 configurations, 7 edits, at most 2 targets and 2 presets; 2 confirmations with one failing call, change or edit; 1 that meets more; a value that is missing or strange; up to 3 edits by 2 requests (399k) | `WritesWhatWasShown`, `ResultsAreTrue`, `LogIsTrue`, `StaysUsable`, `Answered` |
| `MCEnvironmentChanges` | a profile or a restore with two of: failing call, foreign change, edit; both at once; 2 files, 1 value, 1 branch, 1 log source in turn, a preset that is empty or is not there, or has a disabled target or a strange value (310k) | `WritesWhatWasShown`, `ResultsAreTrue`, `StaleForAReason`, `LogIsTrue`, `NothingIsForgotten`, `Answered` |
| `MCProfilePartial` | a profile whose preset has a value that is not there | **violated**: `PartsAreTold` |
| `MCLogCollector` | 2 sources, in one setting one in the other, a subdirectory, 3 files, limits of 2 files, 3 bytes and 3 entries, 3 failing calls or changes (298k) | `ArchiveIsIntact`, `LimitsHold`, `NothingIsSilent`, `NoLeftovers`, `Ends` |

Bounds. Two files are enough for a move that succeeded before one that fails,
so for a rollback; two requests for every race on one name; two failing calls
for a move that fails and a rollback move that fails too. Three contents let a
foreign file appear next to two known ones. A store at a limit of two is full
after two previews, and three previews make it drop one. One value and one
branch give an entry that is written before another is, and every kind of
rollback. A profile or a restore meets two surprises, which is one to make
an entry stale or fail and one for a later entry, section or the log; bundles of two
packages let one fail and the next go on. Of three failures of these requests the
third matters: an import fails, its cleanup fails, and the process dies before the
import has told so (`Untold`); then the same upload is imported again. Three logs in two sources with room for
two make each limit bite, by number and by size, and one change too many for a
file shows at each of its five looks. `MaxFaults`, `MaxCrashes`, `MaxTokens` and `MaxRestarts` are
the only counters that are capped, with the `budget` in `Setting` of three modules; the
theorems hold for every value of the constants.

Four properties of `ProductRequests` (`NoOrphans`, `AnswersAreTrue`,
`OthersUntouched`, `ImportsAreTrue`) are only claimed for requests that come one at a time: the
variable `serial` says which of the two a behaviour is. At the same time they
do not hold, because a lost update brings deleted rows back or takes others
away; the violations below show it. What holds at any time is `KeysStayUnique`:
no overlap of these requests gives a file two rows of one key.

Deadlock checking is off where the system may stop: all requests are answered,
or every name is taken and every content used.

### What the violations show

* `MCLogAppend`: `OperationLogRepository.append` reads, appends and replaces
  without a lock. Two requests that finish at the same time keep one entry. The
  module calls itself append-only.
* `MCDeletionOverlap`: a deletion is not isolated from other requests for its
  product. A configuration saved meanwhile is written after the deletion has
  emptied that file. And a delete form submitted twice: the second request takes
  out a row just before the first one would have, finds the product gone, and puts
  the row back, after the first has answered "deleted". Rows stay behind for an id
  that no product has.
* `MCProfilePartial`: the preset of a profile names a value that does not exist
  and a branch that is there. The branch is hidden; the value was shown as
  blocked, so it is skipped, and the plugin calls what it has skipped unchanged.
  The entry of the profile in the Operation Log says success, where the report of
  week 3 promises an honest partial result.

## Fairness

`FairSpec` of `LicenseManager` asks for weak fairness of `Work(r)`, the steps of
one request's thread: the operating system schedules every thread, and a system
call returns or fails. Nothing is asked of users (`Preview`, `Confirm`), of
administrators, of the product or of crashes. No step of a thread is ever
disabled by another request for good, so weak fairness is enough. In the same way
`RegistryEditing` asks for weak fairness of `Serve(r)`, and for nothing of
users, other programs or failures. `FairSpec` of `EnvironmentChanges` asks it for the
steps of each request between its page and its answer (`ApplyProfile`,
`RestoreSnapshot`), and `FairSpec` of `LogCollector` for the collection once it has
begun, including the response, which the server closes when it was read or the
client is gone. The product need not write, and may write as often as its bound
lets it. The other modules have safety properties only, and state no fairness.

## Proofs

TLAPS checks all of these from nothing but the constants' assumptions
(`NumFilesAssumption`, `ConfigAssumption`, `SlotAssumption` and so on, which TLC
evaluates in the runs).

**LicenseManager_proofs** proves `IInv` inductive and all safety properties from
it. The argument: nothing is locked, so what protects a file is
the pair of names. From its link to its unlink a request *holds* a file, both
names have the same content, and no other request can link or unlink that file:
its link fails on the taken target, and its unlink would need a hold of its own
(`OneHolder`). Hence nothing read, shown or copied ever vanishes from both names
(`NothingReadIsGone`). A source that can still be linked into a free target is
therefore the very content that was copied, and the content that was copied is
the one that was shown; so a move is a move of what was shown and backed up
(`WithinThePlan`). `BooksBalance` relates `completed`, `restored`, `todo` and
`partial` to the ghost `effect`, which records what the request did to the
directory, and gives `HonestReport` and `ConflictsAreReported`. Without
`OneHolder` none of these is inductive: a second request could take a name away
between link and unlink. `Refinement` maps every action to a step of
`LicenseDirectory` or a stutter, and `NoLoss` carries `NothingIsLost` over.
`MovesOnce` is not true of every instance: with a third request that restores in
between, two may hide one file one after the other. `DoubleSubmit` proves it
while nothing restores, for any number of requests, and `TwoSubmits` for two
requests, where two that hide are all there are. Its invariant, `HiddenOnce`,
says that what a request has hidden still has its hidden name, so a second link
finds the target taken, and that a rollback gives back only what its own request
moved.

**JsonStore_proofs** proves `UniqueKeys` and `DamageIsKept` for any number of
threads: a list about to be written has no two rows of one key, because it was
computed from one that had none; lost updates lose rows but add no clash. For behaviours with one
call at a time it proves that the store implements `AtomicStore`
(`Atomicity`), by `SerialView`: what a thread has read is still what the file
holds.

**IntentStore_proofs** proves the five properties. The strengthening is `Spent`
(what ran is popped) and `LiveOrOld`: an entry that is neither live nor popped
nor lost in a restart is at least `Limit` entries old, because only the oldest
of `Limit` live entries is dropped. That step counts: `Limit` distinct
live entries, none older than the dropped one, need `Limit` numbers.

**RegistryEditing_proofs** proves `StaysUsable` and `WritesWhatWasShown` for any
targets, presets, requests, editors and bounds. The Registry has no lock, so the
argument is about readings: `ReadingsHold` says that a target is as the
confirmation's plan has it until somebody writes it, and, between the two calls
that read a branch, that what the first one found still holds unless the branch
has been touched. `ExecutesWhatIsFresh` adds that the entry at hand was shown as a
change, was read again as it was shown, and is planned from the preview's
configuration. A write is then of the desired state, or puts back the reading,
which is the one shown. Steps of all others disturb neither (`Bystander`):
whatever they change, they touch. `StaysUsable` needs no strengthening, only that
the configurations it starts from and those saved as a whole are valid
(`ValidAssumption`).

**RegistryEditing_proofs** proves `ResultsAreTrue` and `LogIsTrue` too, on top of that.
`Ledger` keeps the books of a request: each entry shown is either still to be
decided or has a result, never both, and only entries with a result and the one at
hand have been written. So a write never invalidates a result that was given
before, and `Reported`, each result is true until others touch the target, is
inductive. The verifying readings establish it: a reading begins by forgetting what
was touched before, and ends with what the target is, unless it was touched again.
A rename that raises needs `ReadingsHold` once more: the branch has not been
written, so it is as it was shown. `LogIsTrue` then only sums up.

**ProductRequests_proofs** proves all five properties of these requests for any
requests, files, packages and number of failures. **Repositories_proofs** has what
both this and JsonStore_proofs rest on: a method that does not raise keeps keys
unique (`MethodKeepsKeys`), and the methods that a deletion and its rollback call
keep the rows of other products.

`KeysStayUnique` holds at any time. `KInv` says of every request that whatever list
it is about to write back was without a clash when it was read and that the call does
not raise for it (`Ready2Write`); that the list may be stale by then does not
matter. The others only hold of requests that come one at a time: nobody else is
under way (`OneAtATime`), so a list is what the file still holds, and what a deletion
has taken out belongs to its product (`OwnRows`); this gives `OthersUntouched`. For
the other three, `NInv` says how far a request is by comparing the files with those
it began with. Of a deletion (`DeletedSoFar`), the files before its stage lack the
product's rows, it holds exactly those, and the other files are as they were; of its
rollback (`RestoredSoFar`), what a file lacks is held, or it is incomplete and
something is lacking indeed. So the last answer is true (`AnswersAreTrue`). Of an
import (`AddedSoFar`, `ClearedSoFar`), the configurations are the old ones with those
of the plugins done so far, and what is left to do is the rest of the ready plugins;
while it cleans up, nothing of its package is there but what a call is left for, if
no call has failed. So what it tells of a package is true (`ImportsAreTrue`).
`Belongs` says that every row has its product, or was left by an import that has told
so, died before it could, or is about to tell: an import that fails takes its product
out last, which is why `Belongs` is kept when it does, and `NoOrphans` is what remains
of it when nothing is under way. The constants' assumptions are that files
start without clashes and without rows of no product (`SettingAssumption`), that what
is saved is a call of a saving route (`SavableAssumption`), and that packages list
their plugins (`BundleAssumption`); nothing is assumed of their ids and names, so a
package may be imported twice, or another one with the same id.

**LogCollector_proofs** proves `ArchiveIsIntact`, `LimitsHold`, `NothingIsSilent` and
`NoLeftovers` for any tree of directories, limits, failures and changes. A file is copied in several reads while
its product may write it, so no single step shows that the copy is of one version.
`ChunksBetween` does: every read was of a version no older than the opened one and
no newer than today's; versions only grow, so if today's is the opened one after
the last read, all reads were of it. `StillThere` carries from scanning to the
archive that what was scanned is what the path stands for until somebody touches it.
For `NothingIsSilent` the walk's own lists are the argument: of a file that has been
there all the time (`Steady`), the file or a directory above it is *ahead* of the
walk, as a source, on the stack, among the entries not looked at, or at hand, or else
the file is settled: collected, listed, or cut off by a limit (`Accounted`). Each
step takes a path from one list and puts it, or what it holds, on the next one, or
settles it; when the walk is over nothing is ahead. The tree enters by three facts on
`AncestorsOf`, which is defined as the least set closed under `ParentOf`, so that no
induction is needed.

For `LimitsHold` the room for a file is checked long before it is counted, with the size
that was scanned; `Counted` says that the room for the file at hand is still there.
That the counters are exact needs that no file takes the place of another one in the
archive, that is, that the walk comes to every path of a source once. `Apart` says so of
what is ahead: of the directories on the stack, the entries not looked at and the file at
hand, no two lie on the way to one path; and `Behind` of the archive: nothing ahead in
the source at hand lies on the way to what is stored of it. When a directory gives way to its
entries both are kept because two entries of one directory lie on the way to no common
path (`Siblings`), which is where `NoCyclesAssumption` is used. The total is a fold over
a set. `SumWith` says what one more element adds to it, for every finite set: it does not
matter which element the fold takes first (`SumWithout`). This is an induction over
data after all, one without an operator as a parameter: a least set among those for
which a statement fails exists because inclusion is well-founded on the subsets of a
finite set (`Least`).

**EnvironmentChanges_proofs** proves `WritesWhatWasShown`, `ResultsAreTrue`,
`LogIsTrue`, `NothingIsForgotten` and `StaleForAReason` for any resources, places, configurations,
profiles and snapshots, and any number of requests of both kinds. `Inv` is what a request
holds at each point of its code: its plans (`ProfileWork`, `RestoreWork`; an entry that
is shown as a change is `ChangeOf` its resource), its results (`ProfileResults`,
`RestoreResults`), and the `Books`: what it has written is among what has a result, and
what is left to do has none yet. `LogIsTrue` sums the books up. The others are
about resources that other requests and programs change too. What a request does to
its own history is separated from what others do to it: a step is `Alone`, which adds
nothing to what has disturbed its own request, and is `Noted` with every other one: what it
changes of a resource, a configuration or the profile is in their `disturbed`. Then three
invariants go through, each over the steps of its own request, with `Noted` for
all the others. `AsPlanned`: a target that is left to do is as planned when the section
began, because the targets before it are other ones; it is what a write without another
look rests on (`WritesWhatWasShown`). `Done`: what has the result success is as it was shown
to become. `Told`: what is passed over was not shown as a change, and once a restore is
logged, whatever was shown has a result.

`StaleForAReason` needs the converse: that a step never refuses what is as it was
shown. `Calm` is a resource that nothing in `Reasons` has disturbed, and as long as no
call has failed (`Unfailing`, which no step restores) four things are kept (`Sound`). `Stands`: what is calm
and has no result yet is as it was shown; a step of the request itself changes only the entry it
decides. `ProfileSound`: both plans are made from the saved configuration and the
profile unless those were changed (`MadeFrom`), so the authority that
is compared is the one that was shown, and the second plan has the same entry
for what is calm (`TargetsStand`). `Legible`: a target that has an error in the
second plan and had none in the first was changed by others, because only they make a value
strange and only an edit disables a target; so a section is stale for an error only with
`Spoilers`. `RestoreSound`: what has been captured is what the
plugins hold (`CapturedTruly`), so the same holds of the second plan of a restore
(`EntriesStand`) and of the configuration that is read again for each entry (`HeldFits`).
Then each step `Excuses` what it calls stale, because every
place in the code that does so has found the entry, its authority or its
configuration other than it was shown, which `Sound` rules out for what is
calm, or an error in the section (`ProfileExcuses`, `RestoreExcuses`, `StepExcuses`).

The constants' assumptions are that resources, sections and requests have
different names (`NamesAssumption`) and that what a behaviour begins with, and what may be
saved, has the form of a configuration, a profile or a snapshot (`SettingAssumption`).

Model-checked only: `Answers`, `Answered` and `Ends`: liveness under fairness is out of the
prover's reach.

## Not modelled

Listed with reasons in `PROJECT.json`. Reading and presentation only:
Executable Inspector, templates, scripts, `inspect_backup`, the inspection of log
sources, exports and previews of Product Setup. Filled once at start: the plugin
manager. Validation and JSON conversion of records: the domain modules and the
parsing of packages. Also left out: symlink and containment checks of paths (they
only add failures or skipped entries, which any step may have), and other programs
that overwrite license files.

## Plan

1. An abstract "changed as shown, or untouched, and said so" that the executors
   of Registry, profiles and snapshots all implement.

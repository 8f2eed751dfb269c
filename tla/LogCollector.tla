---------------------------- MODULE LogCollector ----------------------------
(***************************************************************************)
(* Collecting the logs of a product into a temporary ZIP archive.          *)
(*                                                                         *)
(* collect() walks the configured directories and copies each regular file *)
(* into the archive, within limits, while the product goes on writing,     *)
(* rotating and deleting its logs.  A file is scanned, opened, compared,   *)
(* copied and compared again, each by a call of its own.  The archive is   *)
(* sent with the response, and its directory is removed when the response  *)
(* is closed.                                                              *)
(*                                                                         *)
(* Every write is taken to change the signature of a file (st_dev, st_ino, *)
(* st_size, st_mtime_ns): here it is the file and its version.             *)
(***************************************************************************)
EXTENDS Naturals, Sequences, FiniteSets, SequencesExt, FiniteSetsExt

CONSTANTS
    Path,       \* the paths of directories and of what they may hold
    ParentOf,   \* ParentOf[p]: the directory of p, or None for a source
    Setting,    \* how it may begin: [usable, sources, disk, body, budget]
    MaxFiles,   \* LOG_COLLECTION_MAX_FILES
    MaxTotal,   \* LOG_COLLECTION_MAX_TOTAL_BYTES
    MaxEntries, \* the limit of entries looked at
    None

ASSUME TreeAssumption ==
    None \notin Path /\ ParentOf \in [Path -> Path \union {None}]

ASSUME LimitsAssumption ==
    MaxFiles \in Nat \ {0} /\ MaxTotal \in Nat \ {0} /\ MaxEntries \in Nat \ {0}

(* A file has one path: there are no hard links. *)
ASSUME SettingAssumption ==
    \A s \in Setting :
        /\ s.sources \in Seq(Path)
        /\ DOMAIN s.disk = Path
        /\ s.body \in Seq([size : Nat, version : Nat])
        /\ \A p \in Path : s.disk[p].kind = "file" => s.disk[p].file \in DOMAIN s.body
        /\ \A p, q \in Path :
            s.disk[p].kind = "file" /\ s.disk[q].kind = "file"
                /\ s.disk[p].file = s.disk[q].file => p = q

VARIABLES
    disk,       \* disk[p]: [kind, file], what is at path p
    body,       \* body[f]: [size, version] of file f, named or not
    budget,     \* what may still come: [faults, changes]
    config,     \* the saved configuration: [usable, sources]
    pc,         \* where the collection is
    source,     \* the source at hand
    pending,    \* directories found and not scanned yet
    entries,    \* what is left of the directory being scanned
    at,         \* the path at hand: of the directory, or of the file
    held,       \* the file at hand: [scanned, opened, file, chunks]
    state,      \* _CollectionState: [count, total, seen, truncated, stop]
    skipped,    \* the paths that are listed as skipped
    archive,    \* archive[<<n, p>>]: [versions, scanned, whole], what was
                \* written of p under the prefix of source n
    temporary,  \* whether the temporary directory is there
    result,     \* the status of the result
    logged,     \* the status in the Operation Log
    touched,    \* ghost: the paths changed since the collection began
    leaked      \* ghost: removing the directory, or sending it, has failed

outside == <<disk, body, config>>
walk == <<source, pending, entries, at>>
found == <<held, state, skipped, archive>>
ends == <<temporary, result, logged, leaked>>
vars == <<outside, budget, pc, walk, found, ends, touched>>

NoFile == [scanned |-> None, opened |-> None, file |-> None, chunks |-> <<>>]

Init ==
    /\ \E s \in Setting :
        /\ disk = s.disk /\ body = s.body /\ budget = s.budget
        /\ config = [usable |-> s.usable, sources |-> s.sources]
    /\ pc = "idle"
    /\ source = 1
    /\ pending = <<>>
    /\ entries = {}
    /\ at = None
    /\ held = NoFile
    /\ state = [count |-> 0, total |-> 0, seen |-> 0, truncated |-> FALSE,
                stop |-> FALSE]
    /\ skipped = {}
    /\ archive = [p \in {} |-> None]
    /\ temporary = FALSE
    /\ result = "none"
    /\ logged = "none"
    /\ touched = {}
    /\ leaked = FALSE

Fault ==
    /\ budget.faults > 0
    /\ budget' = [budget EXCEPT !.faults = @ - 1]

NoFault == UNCHANGED budget

Goto(label) == pc' = label

Skip(p) == skipped' = skipped \union {p}

---------------------------------------------------------------------------
(* The files. *)

Upwards(S) == \A p \in S : ParentOf[p] # None => ParentOf[p] \in S

(* The directories above each path. *)
AncestorsOf ==
    [p \in Path |-> {d \in Path : \A S \in SUBSET Path :
        Upwards(S) /\ (ParentOf[p] # None => ParentOf[p] \in S) => d \in S}]

(* A path is there if its directories are. *)
KindOf(p) ==
    IF \A d \in AncestorsOf[p] : disk[d].kind = "directory"
    THEN disk[p].kind ELSE "absent"

Signature(f) == [file |-> f, body |-> body[f]]

(* Links are not followed, so no directory is in itself. *)
ASSUME NoCyclesAssumption == \A p \in Path : p \notin AncestorsOf[p]

ChildrenOf(d) == {p \in Path : ParentOf[p] = d /\ KindOf(p) # "absent"}

---------------------------------------------------------------------------
(* Walking. *)

(* The configuration is validated, and the temporary directory and an empty  *)
(* archive in it are made; either may fail.                                  *)
Start ==
    /\ pc = "idle"
    /\ \/ /\ ~config.usable /\ NoFault
          /\ result' = "failed"
          /\ Goto("logging")
          /\ UNCHANGED temporary
       \/ /\ config.usable /\ NoFault
          /\ temporary' = TRUE
          /\ Goto("sources")
          /\ UNCHANGED result
       \/ config.usable /\ Fault /\ Goto("done") /\ UNCHANGED <<temporary, result>>
       \/ /\ config.usable /\ Fault
          /\ temporary' = TRUE
          /\ Goto("discarding")
          /\ UNCHANGED result
    /\ UNCHANGED <<outside, walk, found, logged, touched, leaked>>

NextSource ==
    /\ pc = "sources"
    /\ source <= Len(config.sources)
    /\ ~state.stop
    /\ LET root == config.sources[source] IN
        \/ /\ KindOf(root) = "directory" /\ NoFault
           /\ pending' = <<root>>
           /\ Goto("walking")
           /\ UNCHANGED <<source, skipped>>
        \/ /\ (KindOf(root) # "directory" /\ NoFault) \/ Fault
           /\ Skip(root)
           /\ source' = source + 1
           /\ UNCHANGED <<pc, pending>>
    /\ UNCHANGED <<outside, entries, at, held, state, archive, ends, touched>>

(* Seeded fault: a directory that cannot be scanned is tried again. *)
NextDirectoryAgain ==
    /\ pc = "walking"
    /\ pending # <<>> /\ ~state.stop
    /\ at' = Last(pending)
    /\ IF KindOf(Last(pending)) = "directory"
       THEN /\ pending' = Front(pending)
            /\ entries' = ChildrenOf(Last(pending))
            /\ Goto("scanning")
       ELSE UNCHANGED <<pending, entries, pc>>
    /\ UNCHANGED <<outside, budget, source, found, ends, touched>>

(* The directory found last is checked and its names are read, or it is      *)
(* skipped.                                                                  *)
NextDirectory ==
    /\ pc = "walking"
    /\ pending # <<>> /\ ~state.stop
    /\ pending' = Front(pending)
    /\ at' = Last(pending)
    /\ \/ /\ KindOf(Last(pending)) = "directory" /\ NoFault
          /\ entries' = ChildrenOf(Last(pending))
          /\ Goto("scanning")
          /\ UNCHANGED skipped
       \/ /\ (KindOf(Last(pending)) # "directory" /\ NoFault) \/ Fault
          /\ Skip(Last(pending))
          /\ UNCHANGED <<entries, pc>>
    /\ UNCHANGED <<outside, source, held, state, archive, ends, touched>>

SourceEnds ==
    /\ pc = "walking"
    /\ pending = <<>> \/ state.stop
    /\ source' = source + 1
    /\ Goto("sources")
    /\ UNCHANGED <<outside, budget, pending, entries, at, found, ends, touched>>

(* Seeded fault: a directory that fails half way is not mentioned. *)
DirectoryEndsSilently ==
    /\ pc = "scanning"
    /\ \/ (entries = {} \/ state.stop) /\ NoFault
       \/ entries # {} /\ ~state.stop /\ Fault
    /\ entries' = {}
    /\ Goto("walking")
    /\ UNCHANGED <<outside, source, pending, at, found, ends, touched>>

(* All entries were looked at; or reading the next one fails. *)
DirectoryEnds ==
    /\ pc = "scanning"
    /\ \/ (entries = {} \/ state.stop) /\ NoFault /\ UNCHANGED skipped
       \/ entries # {} /\ ~state.stop /\ Fault /\ Skip(at)
    /\ entries' = {}
    /\ Goto("walking")
    /\ UNCHANGED <<outside, source, pending, at, held, state, archive, ends,
                   touched>>

Truncated == [state EXCEPT !.truncated = TRUE, !.stop = TRUE]

(* One entry more than may be looked at. *)
TooManyEntries ==
    /\ pc = "scanning"
    /\ entries # {} /\ ~state.stop
    /\ state.seen >= MaxEntries
    /\ state' = Truncated
    /\ UNCHANGED <<outside, budget, pc, walk, held, skipped, archive, ends, touched>>

(* The next entry, in the order of the file system. *)
Scan(p) ==
    /\ pc = "scanning"
    /\ p \in entries /\ ~state.stop
    /\ state.seen < MaxEntries
    /\ entries' = entries \ {p}

SeenOne == [state EXCEPT !.seen = @ + 1]

(* A directory is kept for later. *)
FindDirectory ==
    \E p \in Path :
        /\ Scan(p)
        /\ KindOf(p) = "directory" /\ NoFault
        /\ pending' = Append(pending, p)
        /\ state' = SeenOne
        /\ UNCHANGED <<outside, pc, source, at, held, skipped, archive, ends, touched>>

(* What is gone, unreadable, a link or not a regular file is skipped. *)
SkipEntry ==
    \E p \in Path :
        /\ Scan(p)
        /\ (KindOf(p) \notin {"directory", "file"} /\ NoFault) \/ Fault
        /\ Skip(p)
        /\ state' = SeenOne
        /\ UNCHANGED <<outside, pc, source, pending, at, held, archive, ends, touched>>

(* Seeded fault: the limit is checked before the file is counted. *)
ExceedsByCount(size) ==
    state.count > MaxFiles \/ state.total > MaxTotal

Exceeds(size) ==
    state.count >= MaxFiles \/ state.total + size > MaxTotal

(* A file over a limit ends the collection. *)
ReachLimit ==
    \E p \in Path :
        /\ Scan(p)
        /\ KindOf(p) = "file"
        /\ Exceeds(body[disk[p].file].size)
        /\ Skip(p)
        /\ state' = [Truncated EXCEPT !.seen = @ + 1]
        /\ UNCHANGED <<outside, budget, pc, source, pending, at, held, archive,
                       ends, touched>>

FindFile ==
    \E p \in Path :
        /\ Scan(p)
        /\ KindOf(p) = "file"
        /\ ~Exceeds(body[disk[p].file].size)
        /\ held' = [NoFile EXCEPT !.scanned = Signature(disk[p].file)]
        /\ at' = p
        /\ state' = SeenOne
        /\ Goto("opening")
        /\ UNCHANGED <<outside, budget, source, pending, skipped, archive, ends,
                       touched>>

---------------------------------------------------------------------------
(* Copying. *)

(* The file at hand fails in any way: it is listed, and the next has its     *)
(* turn.                                                                     *)
SkipFile ==
    /\ Skip(at)
    /\ held' = NoFile
    /\ at' = ParentOf[at]
    /\ Goto("scanning")

(* It is opened by its name, whatever has that name by then. *)
OpenFile ==
    /\ pc = "opening"
    /\ \/ /\ KindOf(at) = "file" /\ NoFault
          /\ held' = [held EXCEPT !.file = disk[at].file,
                                  !.opened = Signature(disk[at].file)]
          /\ Goto("comparing")
          /\ UNCHANGED <<skipped, at>>
       \/ KindOf(at) # "file" /\ NoFault /\ SkipFile
       \/ Fault /\ SkipFile
    /\ UNCHANGED <<outside, source, pending, entries, state, archive, ends, touched>>

(* What was scanned, what was opened and what is there now are one file. *)
CompareFile ==
    /\ pc = "comparing"
    /\ IF /\ KindOf(at) = "file"
          /\ held.scanned = Signature(disk[at].file)
          /\ held.opened = Signature(disk[at].file)
       THEN Goto("copying") /\ UNCHANGED <<skipped, held, at>>
       ELSE SkipFile
    /\ UNCHANGED <<outside, budget, source, pending, entries, state, archive, ends,
                   touched>>

(* It is copied to staging in more than one read. *)
CopyChunk ==
    /\ pc = "copying"
    /\ \/ /\ NoFault
          /\ held' = [held EXCEPT !.chunks = Append(@, body[held.file].version)]
          /\ IF Len(held.chunks) = 0 THEN UNCHANGED pc ELSE Goto("verifying")
          /\ UNCHANGED <<skipped, at>>
       \/ Fault /\ SkipFile
    /\ UNCHANGED <<outside, source, pending, entries, state, archive, ends, touched>>

(* Seeded fault: the copy is not compared. *)
VerifyCopyNot ==
    /\ pc = "verifying"
    /\ Goto("storing")
    /\ UNCHANGED <<outside, budget, walk, found, ends, touched>>

VerifyCopy ==
    /\ pc = "verifying"
    /\ IF held.opened = Signature(held.file)
       THEN Goto("storing") /\ UNCHANGED <<skipped, held, at>>
       ELSE SkipFile
    /\ UNCHANGED <<outside, budget, source, pending, entries, state, archive, ends,
                   touched>>

Stored(whole) ==
    archive' = [m \in DOMAIN archive \union {<<source, at>>} |->
                  IF m \in DOMAIN archive THEN archive[m]
                  ELSE [versions |-> Range(held.chunks), scanned |-> held.scanned,
                        whole |-> whole]]

(* It goes from staging into the archive; if that fails, a part of it may    *)
(* be there already, and it is not counted.                                  *)
StoreFile ==
    /\ pc = "storing"
    /\ \/ /\ NoFault
          /\ Stored(TRUE)
          /\ state' = [state EXCEPT !.count = @ + 1,
                                    !.total = @ + held.scanned.body.size]
          /\ held' = NoFile
          /\ at' = ParentOf[at]
          /\ Goto("scanning")
          /\ UNCHANGED skipped
       \/ Fault /\ Stored(FALSE) /\ SkipFile /\ UNCHANGED state
    /\ UNCHANGED <<outside, source, pending, entries, ends, touched>>

---------------------------------------------------------------------------
(* Ending. *)

(* shutil.rmtree(ignore_errors=True) *)
RemoveDirectory ==
    \/ NoFault /\ temporary' = FALSE /\ UNCHANGED leaked
    \/ Fault /\ leaked' = TRUE /\ UNCHANGED temporary

(* Seeded fault: the directory of a failed collection stays. *)
CloseArchiveOnly ==
    /\ pc = "sources"
    /\ source > Len(config.sources) \/ state.stop
    /\ result' = IF state.count = 0 THEN "failed"
                 ELSE IF skipped # {} \/ state.truncated THEN "partial" ELSE "success"
    /\ Goto("logging")
    /\ UNCHANGED <<outside, budget, walk, found, temporary, logged, leaked, touched>>

(* The archive gets its manifest and is closed; without a file, or if that   *)
(* fails, it is thrown away.                                                 *)
CloseArchive ==
    /\ pc = "sources"
    /\ source > Len(config.sources) \/ state.stop
    /\ \/ /\ state.count > 0 /\ NoFault
          /\ result' = IF skipped # {} \/ state.truncated THEN "partial"
                                                          ELSE "success"
          /\ UNCHANGED <<temporary, leaked>>
          /\ Goto("logging")
       \/ /\ state.count > 0 /\ Fault
          /\ Goto("discarding")
          /\ UNCHANGED <<result, temporary, leaked>>
       \/ /\ state.count = 0
          /\ result' = "failed"
          /\ RemoveDirectory
          /\ Goto("logging")
    /\ UNCHANGED <<outside, walk, found, logged, touched>>

DiscardArchive ==
    /\ pc = "discarding"
    /\ result' = "failed"
    /\ RemoveDirectory
    /\ Goto("logging")
    /\ UNCHANGED <<outside, walk, found, logged, touched>>

LogCollection ==
    /\ pc = "logging"
    /\ \/ NoFault /\ logged' = result
       \/ Fault /\ logged' = "unsaved"
    /\ Goto(IF result = "failed" THEN "done" ELSE "sending")
    /\ UNCHANGED <<outside, walk, found, temporary, result, leaked, touched>>

(* The response is read to its end, or closed before; or it is never made.   *)
SendArchive ==
    /\ pc = "sending"
    /\ \/ RemoveDirectory
       \/ Fault /\ leaked' = TRUE /\ UNCHANGED temporary
    /\ Goto("done")
    /\ UNCHANGED <<outside, walk, found, result, logged, touched>>

Collect ==
    \/ Start
    \/ NextSource \/ NextDirectory \/ SourceEnds
    \/ DirectoryEnds \/ TooManyEntries \/ FindDirectory \/ SkipEntry
    \/ ReachLimit \/ FindFile
    \/ OpenFile \/ CompareFile \/ CopyChunk \/ VerifyCopy \/ StoreFile
    \/ CloseArchive \/ DiscardArchive \/ LogCollection \/ SendArchive

---------------------------------------------------------------------------
(* The product, and whoever else uses its directories. *)

Change(p) ==
    /\ budget.changes > 0
    /\ budget' = [budget EXCEPT !.changes = @ - 1]
    /\ touched' = touched \union {p}
    /\ UNCHANGED <<config, pc, walk, found, ends>>

AppendTo(p) ==
    /\ Change(p)
    /\ KindOf(p) = "file"
    /\ body' = [body EXCEPT ![disk[p].file].size = @ + 1,
                            ![disk[p].file].version = @ + 1]
    /\ UNCHANGED disk

(* A log is rotated, or made: the name stands for a new file. *)
Rotate(p) ==
    /\ Change(p)
    /\ KindOf(p) \in {"file", "absent"}
    /\ \A d \in AncestorsOf[p] : disk[d].kind = "directory"
    /\ body' = Append(body, [size |-> 1, version |-> 0])
    /\ disk' = [disk EXCEPT ![p] = [kind |-> "file", file |-> Len(body) + 1]]

(* It is removed, or something else takes its place. *)
Replace(p) ==
    /\ Change(p)
    /\ KindOf(p) # "absent"
    /\ \E kind \in {"absent", "other"} :
        disk' = [disk EXCEPT ![p] = [kind |-> kind, file |-> None]]
    /\ UNCHANGED body

Others ==
    \E p \in Path :
        \/ ParentOf[p] # None /\ (AppendTo(p) \/ Rotate(p))
        \/ Replace(p)

Next == Collect \/ Others

Spec == Init /\ [][Next]_vars

(* A request that has begun is served to its end, and the server closes its  *)
(* response; nobody has to write logs.                                       *)
FairSpec == Spec /\ WF_vars(pc # "idle" /\ Collect)

---------------------------------------------------------------------------
Collected == {m \in DOMAIN archive : archive[m].whole}

Untouched(p) == ({p} \union AncestorsOf[p]) \intersect touched = {}

InSource(p) == \E n \in DOMAIN config.sources :
    config.sources[n] \in {p} \union AncestorsOf[p]

(* Every file that counts as collected is a copy of one version of it, the   *)
(* one that was scanned, however it was written or rotated meanwhile; of any *)
(* other there is at most a part, and the manifest lists it (_stable_copy).  *)
ArchiveIsIntact ==
    \A m \in DOMAIN archive :
        /\ archive[m].whole => archive[m].versions = {archive[m].scanned.body.version}
        /\ archive[m].whole \/ m[2] \in skipped
        /\ archive[m].whole /\ Untouched(m[2]) =>
            archive[m].scanned = Signature(disk[m[2]].file)

Sizes == [m \in DOMAIN archive |-> archive[m].scanned.body.size]

(* However the logs grow while they are read, neither more files nor more    *)
(* bytes than allowed are collected, and what the manifest and the log say   *)
(* of both is exact, also if one source is in another and what it holds is   *)
(* in the archive twice (_consider_entry).                                   *)
LimitsHold ==
    /\ state.count = Cardinality(Collected) /\ state.count <= MaxFiles
    /\ state.total = SumFunctionOnSet(Sizes, Collected) /\ state.total <= MaxTotal
    /\ state.seen <= MaxEntries

(* A file that was there all the time is in the archive, or the result says  *)
(* why it may not be: it or a directory of it is listed, or a limit was      *)
(* reached.  So a result of success leaves nothing out (_collect_source).    *)
NothingIsSilent ==
    result \in {"success", "partial"} =>
        \A p \in Path : Untouched(p) /\ InSource(p) /\ KindOf(p) = "file" =>
            \/ p \notin skipped /\ \E m \in Collected : m[2] = p
            \/ ({p} \union AncestorsOf[p]) \intersect skipped # {} /\ result = "partial"
            \/ state.truncated /\ result = "partial"

(* When the request is done, no temporary directory is left, unless removing *)
(* or sending it has failed; while the archive is sent, it is there          *)
(* (collect, _CleanupIterable).                                              *)
NoLeftovers ==
    /\ pc = "done" /\ temporary => leaked
    /\ pc = "sending" => temporary

(* A collection comes to its end, however long logs are written. *)
Ends == pc # "idle" ~> pc = "done"

===========================================================================

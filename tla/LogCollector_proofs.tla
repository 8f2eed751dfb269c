------------------------ MODULE LogCollector_proofs ------------------------
(***************************************************************************)
(* Proofs about collecting logs, for any directories, limits and changes   *)
(* of the logs: what is collected of a file is one version of it, it is    *)
(* within the limits, nothing is left out in silence, and no temporary     *)
(* directory is left unnoticed.                                            *)
(***************************************************************************)
EXTENDS LogCollector, FiniteSetTheorems, TLAPS

IsFile(p) == disk[p].kind = "file"

(* Each file has one path, and its versions only grow. *)
DiskOK ==
    /\ DOMAIN disk = Path
    /\ body \in Seq([size : Nat, version : Nat])
    /\ \A p \in Path : IsFile(p) => disk[p].file \in DOMAIN body
    /\ \A p, q \in Path :
        IsFile(p) /\ IsFile(q) /\ disk[p].file = disk[q].file => p = q

(* What was scanned at p is what is there, until somebody touches it. *)
StillThere(p, scanned) ==
    p \notin touched => IsFile(p) /\ scanned = Signature(disk[p].file)

(* Every read so far was of a version between the opened one and today's.   *)
ChunksBetween ==
    /\ held.chunks \in Seq(Nat)
    /\ \A n \in DOMAIN held.chunks :
        /\ held.opened.body.version <= held.chunks[n]
        /\ held.chunks[n] <= body[held.file].version

(* The file at hand, step by step. *)
HeldOK ==
    /\ pc \in {"opening", "comparing", "copying", "verifying", "storing"} =>
          at \in Path
    /\ pc \in {"opening", "comparing"} => held.chunks = <<>>
    /\ pc \in {"comparing", "copying", "verifying"} =>
          /\ held.file \in DOMAIN body
          /\ held.opened.file = held.file
          /\ held.opened.body.version \in Nat
          /\ held.opened.body.version <= body[held.file].version
    /\ pc \in {"copying", "verifying"} => held.scanned = held.opened /\ ChunksBetween
    /\ pc = "verifying" => held.chunks # <<>>
    /\ pc = "storing" => Range(held.chunks) = {held.scanned.body.version}
    /\ pc \in {"copying", "verifying", "storing"} => StillThere(at, held.scanned)

ArchiveOK ==
    \A m \in DOMAIN archive :
        /\ m[2] \in Path
        /\ archive[m].whole =>
              /\ archive[m].versions = {archive[m].scanned.body.version}
              /\ StillThere(m[2], archive[m].scanned)
        /\ archive[m].whole \/ m[2] \in skipped

AInv == DiskOK /\ HeldOK /\ ArchiveOK

(* The temporary directory is there from its making to its removal. *)
TInv ==
    /\ pc = "idle" => ~temporary
    /\ pc \in {"sources", "walking", "scanning", "opening", "comparing", "copying",
               "verifying", "storing", "sending"} => temporary
    /\ pc = "logging" => IF result = "failed" THEN temporary => leaked ELSE temporary
    /\ pc = "done" /\ temporary => leaked

---------------------------------------------------------------------------
(* When a collection is done, no temporary directory is left, unless         *)
(* removing or sending it has failed, and it is there while it is sent       *)
(* (NoLeftovers; collect, _CleanupIterable): every way out of the collection *)
(* goes through one of the steps that remove it.                             *)
THEOREM NoLeftoversHolds == Spec => []NoLeftovers
<1>1. Init => TInv
  BY DEF Init, TInv
<1>2. TInv /\ [Next]_vars => TInv'
  <2> SUFFICES ASSUME TInv, [Next]_vars
               PROVE  TInv'
    OBVIOUS
  <2> USE DEF TInv, Goto, NoFault, Fault
  <2>1. CASE Start
    BY <2>1 DEF Start, ends
  <2>2. CASE NextSource \/ NextDirectory \/ SourceEnds
    BY <2>2 DEF NextSource, NextDirectory, SourceEnds, ends
  <2>3. CASE DirectoryEnds \/ TooManyEntries \/ FindDirectory \/ SkipEntry
    BY <2>3 DEF DirectoryEnds, TooManyEntries, FindDirectory, SkipEntry, Scan, ends
  <2>4. CASE ReachLimit \/ FindFile
    BY <2>4 DEF ReachLimit, FindFile, Scan, ends
  <2>5. CASE OpenFile \/ CompareFile \/ CopyChunk \/ VerifyCopy \/ StoreFile
    BY <2>5 DEF OpenFile, CompareFile, CopyChunk, VerifyCopy, StoreFile, SkipFile,
                ends
  <2>6. CASE CloseArchive
    <3>1. temporary
      BY <2>6 DEF CloseArchive
    <3>2. \/ pc' = "logging" /\ result' # "failed" /\ temporary' = temporary
          \/ pc' = "discarding"
          \/ pc' = "logging" /\ result' = "failed" /\ RemoveDirectory
      BY <2>6 DEF CloseArchive
    <3> QED BY <3>1, <3>2 DEF RemoveDirectory
  <2>7. CASE DiscardArchive
    BY <2>7 DEF DiscardArchive, RemoveDirectory
  <2>8. CASE LogCollection
    BY <2>8 DEF LogCollection
  <2>9. CASE SendArchive
    BY <2>9 DEF SendArchive, RemoveDirectory
  <2>10. CASE Others
    BY <2>10 DEF Others, AppendTo, Rotate, Replace, Change, ends
  <2>11. CASE UNCHANGED vars
    BY <2>11 DEF vars, ends
  <2> QED
    BY <2>1, <2>2, <2>3, <2>4, <2>5, <2>6, <2>7, <2>8, <2>9, <2>10, <2>11
       DEF Next, Collect
<1>3. TInv => NoLeftovers
  BY DEF TInv, NoLeftovers
<1> QED BY <1>1, <1>2, <1>3, PTL DEF Spec

---------------------------------------------------------------------------
LEMMA IsSeq ==
    ASSUME NEW S, NEW n \in Nat, NEW s \in [1..n -> S]
    PROVE  s \in Seq(S)
OBVIOUS

LEMMA ElementsOf ==
    ASSUME NEW S, NEW s \in Seq(S)
    PROVE  /\ Len(s) \in Nat /\ DOMAIN s = 1..Len(s)
           /\ \A n \in DOMAIN s : s[n] \in S
           /\ s # <<>> => 1 \in DOMAIN s
OBVIOUS

(* Every file has a size and a version. *)
LEMMA BodiesAre ==
    ASSUME DiskOK
    PROVE  /\ Len(body) \in Nat /\ DOMAIN body = 1..Len(body)
           /\ \A f \in DOMAIN body :
                /\ body[f] \in [size : Nat, version : Nat]
                /\ body[f].version \in Nat
<1>1. \A f \in DOMAIN body : body[f] \in [size : Nat, version : Nat]
  BY ElementsOf DEF DiskOK
<1> QED BY <1>1, ElementsOf DEF DiskOK

LEMMA StartsIntact == Init => AInv
<1> SUFFICES ASSUME Init
             PROVE  AInv
  OBVIOUS
<1>1. DiskOK
  BY SettingAssumption DEF Init, DiskOK, IsFile
<1>2. HeldOK /\ ArchiveOK
  BY DEF Init, HeldOK, ArchiveOK
<1> QED BY <1>1, <1>2 DEF AInv

(* The steps that have a file at hand afterwards. *)
AtHand == {"opening", "comparing", "copying", "verifying", "storing"}

(* What a step that changes no file leaves to show. *)
LEMMA FilesStay ==
    ASSUME AInv, UNCHANGED <<disk, body, touched, archive>>, skipped \subseteq skipped'
    PROVE  /\ DiskOK' /\ ArchiveOK'
           /\ pc' \notin AtHand => HeldOK'
<1>1. DiskOK'
  BY DEF AInv, DiskOK, IsFile
<1>2. ArchiveOK'
  BY DEF AInv, ArchiveOK, StillThere, IsFile, Signature
<1>3. pc' \notin AtHand => HeldOK'
  BY DEF HeldOK, AtHand
<1> QED BY <1>1, <1>2, <1>3

LEMMA WalkingKeeps ==
    ASSUME AInv,
           \/ Start \/ NextSource \/ NextDirectory \/ SourceEnds \/ DirectoryEnds
           \/ TooManyEntries \/ FindDirectory \/ SkipEntry \/ ReachLimit
           \/ CloseArchive \/ DiscardArchive \/ LogCollection \/ SendArchive
    PROVE  AInv'
<1> USE DEF Goto, Skip, outside, found
<1>1. CASE Start \/ NextSource \/ NextDirectory \/ SourceEnds
  <2>1. /\ UNCHANGED <<disk, body, touched, archive>> /\ skipped \subseteq skipped'
        /\ pc' \notin AtHand
    BY <1>1 DEF Start, NextSource, NextDirectory, SourceEnds, AtHand
  <2> QED BY <2>1, FilesStay DEF AInv
<1>2. CASE DirectoryEnds \/ TooManyEntries
  <2>1. /\ UNCHANGED <<disk, body, touched, archive>> /\ skipped \subseteq skipped'
        /\ pc' \notin AtHand
    BY <1>2 DEF DirectoryEnds, TooManyEntries, AtHand
  <2> QED BY <2>1, FilesStay DEF AInv
<1>3. CASE FindDirectory \/ SkipEntry \/ ReachLimit
  <2>1. /\ UNCHANGED <<disk, body, touched, archive>> /\ skipped \subseteq skipped'
        /\ pc' \notin AtHand
    BY <1>3 DEF FindDirectory, SkipEntry, ReachLimit, Scan, AtHand
  <2> QED BY <2>1, FilesStay DEF AInv
<1>4. CASE CloseArchive \/ DiscardArchive \/ LogCollection \/ SendArchive
  <2>1. /\ UNCHANGED <<disk, body, touched, archive>> /\ skipped \subseteq skipped'
        /\ pc' \notin AtHand
    BY <1>4 DEF CloseArchive, DiscardArchive, LogCollection, SendArchive, AtHand
  <2> QED BY <2>1, FilesStay DEF AInv
<1> QED BY <1>1, <1>2, <1>3, <1>4

LEMMA SkipKeeps ==
    ASSUME AInv, SkipFile, UNCHANGED <<disk, body, touched, archive>>
    PROVE  AInv'
<1>1. skipped \subseteq skipped' /\ pc' \notin AtHand
  BY DEF SkipFile, Skip, Goto, AtHand
<1> QED BY <1>1, FilesStay DEF AInv

---------------------------------------------------------------------------
LEMMA FindKeeps ==
    ASSUME AInv, FindFile
    PROVE  AInv'
<1>1. PICK p \in Path : at' = p /\ held' = [NoFile EXCEPT
                                    !.scanned = Signature(disk[p].file)]
  BY DEF FindFile
<1>2. /\ UNCHANGED <<disk, body, touched, archive, skipped>> /\ pc' = "opening"
  BY DEF FindFile, Goto, outside
<1>3. HeldOK'
  BY <1>1, <1>2 DEF HeldOK, NoFile
<1> QED BY <1>2, <1>3, FilesStay DEF AInv

LEMMA OpenKeeps ==
    ASSUME AInv, OpenFile
    PROVE  AInv'
<1>0. UNCHANGED <<disk, body, touched, archive>>
  BY DEF OpenFile, outside
<1>1. CASE SkipFile
  BY <1>0, <1>1, SkipKeeps
<1>2. CASE ~SkipFile
  <2>1. /\ pc = "opening" /\ KindOf(at) = "file"
        /\ held' = [held EXCEPT !.file = disk[at].file,
                                !.opened = Signature(disk[at].file)]
        /\ pc' = "comparing" /\ UNCHANGED <<skipped, at>>
    BY <1>2 DEF OpenFile, Goto
  <2>2. at \in Path /\ held.chunks = <<>> /\ IsFile(at)
    BY <2>1 DEF AInv, HeldOK, KindOf, IsFile
  <2>3. disk[at].file \in DOMAIN body /\ body[disk[at].file].version \in Nat
    BY <2>2, BodiesAre DEF AInv, DiskOK
  <2>4. HeldOK'
    BY <1>0, <2>1, <2>2, <2>3 DEF HeldOK, Signature
  <2> QED BY <1>0, <2>1, <2>4, FilesStay DEF AInv
<1> QED BY <1>1, <1>2

LEMMA CompareKeeps ==
    ASSUME AInv, CompareFile
    PROVE  AInv'
<1>0. UNCHANGED <<disk, body, touched, archive>>
  BY DEF CompareFile, outside
<1>1. CASE SkipFile
  BY <1>0, <1>1, SkipKeeps
<1>2. CASE ~SkipFile
  <2>1. /\ pc = "comparing" /\ KindOf(at) = "file"
        /\ held.scanned = Signature(disk[at].file)
        /\ held.opened = Signature(disk[at].file)
        /\ pc' = "copying" /\ UNCHANGED <<skipped, held, at>>
    BY <1>2 DEF CompareFile, Goto
  <2>2. IsFile(at)
    BY <2>1 DEF KindOf, IsFile
  <2>3. StillThere(at, held.scanned)'
    BY <1>0, <2>1, <2>2 DEF StillThere, IsFile, Signature
  <2>4. ChunksBetween'
    <3>1. held'.chunks = <<>>
      BY <2>1 DEF AInv, HeldOK
    <3>2. <<>> \in Seq(Nat) /\ DOMAIN <<>> = {}
      OBVIOUS
    <3> QED BY <3>1, <3>2 DEF ChunksBetween
  <2>5. HeldOK'
    BY <1>0, <2>1, <2>3, <2>4 DEF AInv, HeldOK
  <2> QED BY <1>0, <2>1, <2>5, FilesStay DEF AInv
<1> QED BY <1>1, <1>2

LEMMA CopyKeeps ==
    ASSUME AInv, CopyChunk
    PROVE  AInv'
<1>0. UNCHANGED <<disk, body, touched, archive>>
  BY DEF CopyChunk, outside
<1>1. CASE SkipFile
  BY <1>0, <1>1, SkipKeeps
<1>2. CASE ~SkipFile
  <2>1. /\ pc = "copying" /\ UNCHANGED <<skipped, at>>
        /\ held' = [held EXCEPT !.chunks = Append(@, body[held.file].version)]
        /\ pc' = pc \/ pc' = "verifying"
    BY <1>2 DEF CopyChunk, Goto
  <2> DEFINE v == body[held.file].version
  <2>2. v \in Nat /\ held.opened.body.version <= v /\ held.chunks \in Seq(Nat)
    BY <2>1, BodiesAre DEF AInv, HeldOK, ChunksBetween
  <2>3. /\ held'.file = held.file /\ held'.opened = held.opened
        /\ held'.scanned = held.scanned
    BY <2>1
  <2>4. held'.chunks = Append(held.chunks, v)
    BY <2>1
  <2>5. ChunksBetween'
    <3>1. ChunksBetween
      BY <2>1 DEF AInv, HeldOK
    <3> QED BY <1>0, <2>2, <2>3, <2>4, <3>1 DEF ChunksBetween
  <2>6. held'.chunks # <<>>
    <3>1. Len(held'.chunks) = Len(held.chunks) + 1 /\ Len(held.chunks) \in Nat
      BY <2>2, <2>4
    <3> QED BY <3>1
  <2>7. StillThere(at, held.scanned)'
    BY <1>0, <2>1, <2>3 DEF AInv, HeldOK, StillThere, IsFile, Signature
  <2>8. HeldOK'
    BY <1>0, <2>1, <2>3, <2>5, <2>6, <2>7 DEF AInv, HeldOK
  <2> QED BY <1>0, <2>1, <2>8, FilesStay DEF AInv
<1> QED BY <1>1, <1>2

(* No version but the one that was opened can have been read. *)
LEMMA VerifyKeeps ==
    ASSUME AInv, VerifyCopy
    PROVE  AInv'
<1>0. UNCHANGED <<disk, body, touched, archive>>
  BY DEF VerifyCopy, outside
<1>1. CASE SkipFile
  BY <1>0, <1>1, SkipKeeps
<1>2. CASE ~SkipFile
  <2>1. /\ pc = "verifying" /\ held.opened = Signature(held.file)
        /\ pc' = "storing" /\ UNCHANGED <<skipped, held, at>>
    BY <1>2 DEF VerifyCopy, Goto
  <2> DEFINE v == held.opened.body.version
  <2>2. v = body[held.file].version /\ v \in Nat
    BY <2>1 DEF Signature, AInv, HeldOK
  <2>3. /\ held.scanned = held.opened /\ held.chunks # <<>> /\ ChunksBetween
    BY <2>1 DEF AInv, HeldOK
  <2>4. \A n \in DOMAIN held.chunks : held.chunks[n] = v
    BY <2>2, <2>3 DEF ChunksBetween
  <2>5. 1 \in DOMAIN held.chunks
    BY <2>3, ElementsOf DEF ChunksBetween
  <2>6. Range(held.chunks) = {held.scanned.body.version}
    BY <2>3, <2>4, <2>5 DEF Range
  <2>7. StillThere(at, held.scanned)'
    BY <1>0, <2>1 DEF AInv, HeldOK, StillThere, IsFile, Signature
  <2>8. HeldOK'
    BY <1>0, <2>1, <2>6, <2>7 DEF AInv, HeldOK
  <2> QED BY <1>0, <2>1, <2>8, FilesStay DEF AInv
<1> QED BY <1>1, <1>2

LEMMA StoreKeeps ==
    ASSUME AInv, StoreFile
    PROVE  AInv'
<1>0. /\ UNCHANGED <<disk, body, touched>> /\ pc = "storing" /\ pc' = "scanning"
      /\ skipped \subseteq skipped'
  BY DEF StoreFile, outside, SkipFile, Skip, Goto
<1>1. DiskOK' /\ HeldOK'
  BY <1>0 DEF AInv, DiskOK, IsFile, HeldOK
<1>2. PICK whole \in BOOLEAN : Stored(whole) /\ (whole \/ at \in skipped')
  BY DEF StoreFile, SkipFile, Skip
<1> DEFINE new == [versions |-> Range(held.chunks), scanned |-> held.scanned,
                   whole |-> whole]
           member == <<source, at>>
<1>3. /\ DOMAIN archive' = DOMAIN archive \union {member} /\ member[2] = at
      /\ \A m \in DOMAIN archive : archive'[m] = archive[m]
      /\ member \notin DOMAIN archive => archive'[member] = new
  BY <1>2 DEF Stored
<1>4. /\ at \in Path /\ StillThere(at, held.scanned)
      /\ Range(held.chunks) = {held.scanned.body.version}
  BY <1>0 DEF AInv, HeldOK
<1>5. \A p, scanned : StillThere(p, scanned) => StillThere(p, scanned)'
  BY <1>0 DEF StillThere, IsFile, Signature
<1> HIDE DEF member
<1>6. ASSUME NEW m, m \in DOMAIN archive'
      PROVE  (/\ m[2] \in Path
              /\ archive[m].whole =>
                  /\ archive[m].versions = {archive[m].scanned.body.version}
                  /\ StillThere(m[2], archive[m].scanned)
              /\ archive[m].whole \/ m[2] \in skipped)'
  <2>1. CASE m \in DOMAIN archive
    BY <1>0, <1>3, <1>5, <2>1 DEF AInv, ArchiveOK
  <2>2. CASE m \notin DOMAIN archive
    <3>1. m = member /\ m[2] = at /\ archive'[m] = new
      BY <1>3, <1>6, <2>2
    <3> QED BY <1>2, <1>4, <1>5, <3>1
  <2> QED BY <2>1, <2>2
<1>8. ArchiveOK'
  BY <1>6 DEF ArchiveOK
<1> QED BY <1>1, <1>8 DEF AInv

---------------------------------------------------------------------------
(* The logs change. *)
LEMMA ChangesKeep ==
    ASSUME AInv, NEW q \in Path, Change(q), DiskOK',
           \A f \in DOMAIN body : /\ f \in DOMAIN body'
                                  /\ body[f].version <= body'[f].version,
           \A p \in Path \ {q} : IsFile(p) =>
               disk'[p] = disk[p] /\ body'[disk[p].file] = body[disk[p].file]
    PROVE  AInv'
<1>0. UNCHANGED <<pc, at, held, skipped, archive>> /\ touched' = touched \union {q}
  BY DEF Change, walk, found
<1>1. \A p \in Path : \A scanned : StillThere(p, scanned) => StillThere(p, scanned)'
  BY <1>0 DEF StillThere, IsFile, Signature
<1>2. ArchiveOK'
  BY <1>0, <1>1 DEF AInv, ArchiveOK
<1>3. /\ DiskOK
      /\ \A f \in DOMAIN body : body[f].version \in Nat /\ body'[f].version \in Nat
  <2>1. DiskOK /\ DOMAIN body \subseteq DOMAIN body'
    BY DEF AInv
  <2>2. \A f \in DOMAIN body' : body'[f] \in [size : Nat, version : Nat]
    BY ElementsOf DEF DiskOK
  <2> QED BY <2>1, <2>2, BodiesAre
<1>4. ASSUME pc \in {"comparing", "copying", "verifying"}
      PROVE  /\ held.file \in DOMAIN body'
             /\ held.opened.body.version <= body'[held.file].version
  BY <1>3, <1>4 DEF AInv, HeldOK
<1>5. ASSUME pc \in {"copying", "verifying"}
      PROVE  ChunksBetween'
  <2>1. ChunksBetween /\ held.file \in DOMAIN body
    BY <1>5 DEF AInv, HeldOK
  <2>2. \A n \in DOMAIN held.chunks : held.chunks[n] \in Nat
    BY <2>1 DEF ChunksBetween
  <2> QED BY <1>0, <1>3, <2>1, <2>2 DEF ChunksBetween
<1>6. HeldOK'
  BY <1>0, <1>1, <1>4, <1>5 DEF AInv, HeldOK
<1> QED BY <1>2, <1>6 DEF AInv

LEMMA OthersKeep ==
    ASSUME AInv, NEW q \in Path, AppendTo(q) \/ Rotate(q) \/ Replace(q)
    PROVE  AInv'
<1> DiskOK
  BY DEF AInv
<1>1. CASE AppendTo(q)
  <2> DEFINE f == disk[q].file
  <2>1. /\ IsFile(q) /\ f \in DOMAIN body /\ disk' = disk
        /\ body' = [body EXCEPT ![f].size = @ + 1, ![f].version = @ + 1]
    BY <1>1 DEF AppendTo, KindOf, IsFile, DiskOK
  <2>2. body[f] \in [size : Nat, version : Nat]
    BY <2>1, BodiesAre
  <2>3. body'[f] = [size |-> body[f].size + 1, version |-> body[f].version + 1]
    BY <2>1, <2>2
  <2>4. /\ DOMAIN body' = DOMAIN body
        /\ \A g \in DOMAIN body : g # f => body'[g] = body[g]
    BY <2>1
  <2>5. body' \in Seq([size : Nat, version : Nat])
    <3>1. \A g \in DOMAIN body' : body'[g] \in [size : Nat, version : Nat]
      BY <2>2, <2>3, <2>4, BodiesAre
    <3>2. body' = [g \in DOMAIN body |-> body'[g]]
      BY <2>1 DEF DiskOK
    <3>3. DOMAIN body = 1..Len(body) /\ Len(body) \in Nat
      BY BodiesAre
    <3>4. body' \in [1..Len(body) -> [size : Nat, version : Nat]]
      BY <2>4, <3>1, <3>2, <3>3
    <3> QED BY <3>3, <3>4, IsSeq
  <2>6. DiskOK'
    BY <2>1, <2>4, <2>5 DEF DiskOK, IsFile
  <2>7. \A g \in DOMAIN body : /\ g \in DOMAIN body'
                               /\ body[g].version <= body'[g].version
    BY <2>2, <2>3, <2>4, BodiesAre
  <2>8. \A p \in Path \ {q} : IsFile(p) =>
            disk'[p] = disk[p] /\ body'[disk[p].file] = body[disk[p].file]
    BY <2>1, <2>4 DEF DiskOK
  <2>9. Change(q)
    BY <1>1 DEF AppendTo
  <2> HIDE DEF f
  <2> QED BY <2>6, <2>7, <2>8, <2>9, ChangesKeep
<1>2. CASE Rotate(q)
  <2>1. /\ body' = Append(body, [size |-> 1, version |-> 0])
        /\ disk' = [disk EXCEPT ![q] = [kind |-> "file", file |-> Len(body) + 1]]
    BY <1>2 DEF Rotate
  <2>2. body \in Seq([size : Nat, version : Nat]) /\ Len(body) \in Nat
    BY DEF DiskOK
  <2>3. /\ body' \in Seq([size : Nat, version : Nat])
        /\ \A g \in DOMAIN body : g \in DOMAIN body' /\ body'[g] = body[g]
        /\ Len(body) + 1 \in DOMAIN body' /\ Len(body) + 1 \notin DOMAIN body
    BY <2>1, <2>2
  <2>4. DOMAIN disk' = Path
    BY <2>1 DEF DiskOK
  <2>5. /\ disk'[q].kind = "file" /\ disk'[q].file = Len(body) + 1
        /\ \A p \in Path \ {q} : disk'[p] = disk[p]
    BY <2>1 DEF DiskOK
  <2>6. DiskOK'
    <3>1. \A p \in Path : disk'[p].kind = "file" => disk'[p].file \in DOMAIN body'
      BY <2>3, <2>5 DEF DiskOK, IsFile
    <3>2. \A p \in Path \ {q} : disk'[p].kind = "file" => disk'[p].file # disk'[q].file
      <4>1. \A p \in Path : disk[p].kind = "file" => disk[p].file \in DOMAIN body
        BY DEF DiskOK, IsFile
      <4> QED BY <2>3, <2>5, <4>1
    <3>3. \A p, r \in Path :
            disk'[p].kind = "file" /\ disk'[r].kind = "file"
                /\ disk'[p].file = disk'[r].file => p = r
      <4>1. ASSUME NEW p \in Path \ {q}, NEW r \in Path \ {q},
                   disk'[p].kind = "file", disk'[r].kind = "file",
                   disk'[p].file = disk'[r].file
            PROVE  p = r
        BY <2>5, <4>1 DEF DiskOK, IsFile
      <4> QED BY <3>2, <4>1
    <3> QED BY <2>3, <2>4, <3>1, <3>3 DEF DiskOK, IsFile
  <2>7. \A g \in DOMAIN body : /\ g \in DOMAIN body'
                               /\ body[g].version <= body'[g].version
    BY <2>2, <2>3, BodiesAre
  <2>8. \A p \in Path \ {q} : IsFile(p) =>
            disk'[p] = disk[p] /\ body'[disk[p].file] = body[disk[p].file]
    BY <2>3, <2>5 DEF DiskOK
  <2>9. Change(q)
    BY <1>2 DEF Rotate
  <2> QED BY <2>6, <2>7, <2>8, <2>9, ChangesKeep
<1>3. CASE Replace(q)
  <2>1. PICK kind \in {"absent", "other"} :
            disk' = [disk EXCEPT ![q] = [kind |-> kind, file |-> None]]
    BY <1>3 DEF Replace
  <2>2. body' = body /\ Change(q)
    BY <1>3 DEF Replace
  <2>3. /\ DOMAIN disk' = Path /\ disk'[q].kind # "file"
        /\ \A p \in Path \ {q} : disk'[p] = disk[p]
    BY <2>1 DEF DiskOK
  <2>4. DiskOK'
    BY <2>2, <2>3 DEF DiskOK, IsFile
  <2>5. \A g \in DOMAIN body : body[g].version <= body[g].version
    BY BodiesAre
  <2> QED BY <2>2, <2>3, <2>4, <2>5, ChangesKeep
<1> QED BY <1>1, <1>2, <1>3

LEMMA IntactStep == AInv /\ [Next]_vars => AInv'
<1> SUFFICES ASSUME AInv, [Next]_vars
             PROVE  AInv'
  OBVIOUS
<1>1. CASE Collect
  BY <1>1, WalkingKeeps, FindKeeps, OpenKeeps, CompareKeeps, CopyKeeps,
     VerifyKeeps, StoreKeeps DEF Collect
<1>2. CASE Others
  BY <1>2, OthersKeep DEF Others
<1>3. CASE UNCHANGED vars
  BY <1>3 DEF vars, outside, walk, found, AInv, DiskOK, HeldOK, ArchiveOK,
              StillThere, ChunksBetween, IsFile, Signature
<1> QED BY <1>1, <1>2, <1>3 DEF Next

(* Every file that counts as collected is a copy of one version of it, the   *)
(* one that was scanned (ArchiveIsIntact; _stable_copy, _consider_entry).    *)
(* Versions only grow, so one that is the same before the first read and     *)
(* after the last was the same at every read between.                        *)
THEOREM ArchiveIsIntactHolds == Spec => []ArchiveIsIntact
<1>1. Init => AInv
  BY StartsIntact
<1>2. AInv /\ [Next]_vars => AInv'
  BY IntactStep
<1>3. AInv => ArchiveIsIntact
  BY DEF AInv, ArchiveOK, ArchiveIsIntact, Untouched, StillThere
<1> QED BY <1>1, <1>2, <1>3, PTL DEF Spec
---------------------------------------------------------------------------
(* The tree of directories. *)

Way(p) == {p} \union AncestorsOf[p]

(* The directories above a directory above p are above p. *)
LEMMA AboveTheAbove ==
    ASSUME NEW p \in Path, NEW d \in AncestorsOf[p]
    PROVE  d \in Path /\ AncestorsOf[d] \subseteq AncestorsOf[p]
<1>1. d \in Path
  BY DEF AncestorsOf
<1>2. ASSUME NEW e \in AncestorsOf[d], NEW S \in SUBSET Path, Upwards(S),
             ParentOf[p] # None => ParentOf[p] \in S
      PROVE  e \in S
  <2>1. d \in S
    BY <1>2 DEF AncestorsOf
  <2>2. ParentOf[d] # None => ParentOf[d] \in S
    BY <1>2, <2>1 DEF Upwards
  <2> QED BY <1>1, <1>2, <2>2 DEF AncestorsOf
<1> QED BY <1>1, <1>2 DEF AncestorsOf

(* The directory of whatever is on the way to p is above p. *)
LEMMA WayUp ==
    ASSUME NEW p \in Path, NEW c \in Way(p)
    PROVE  c \in Path /\ (ParentOf[c] # None => ParentOf[c] \in AncestorsOf[p])
<1>1. c \in Path
  BY AboveTheAbove DEF Way
<1>2. ASSUME ParentOf[c] # None, NEW T \in SUBSET Path, Upwards(T),
             ParentOf[p] # None => ParentOf[p] \in T
      PROVE  ParentOf[c] \in T
  <2>1. c = p \/ c \in T
    BY <1>2 DEF Way, AncestorsOf
  <2> QED BY <1>2, <2>1 DEF Upwards
<1> QED BY <1>1, <1>2, TreeAssumption DEF AncestorsOf

(* A directory above p is the directory of p, or of one above p. *)
LEMMA WayDown ==
    ASSUME NEW p \in Path, NEW d \in AncestorsOf[p]
    PROVE  \E c \in Way(p) : c \in Path /\ ParentOf[c] = d
<1> SUFFICES ASSUME \A c \in Way(p) \intersect Path : ParentOf[c] # d
             PROVE  FALSE
  BY DEF Way
<1> DEFINE S == AncestorsOf[p] \ {d}
<1>1. S \in SUBSET Path
  BY AboveTheAbove
<1>2. \A c \in Way(p) : c \in Path /\ (ParentOf[c] # None => ParentOf[c] \in AncestorsOf[p])
  BY WayUp
<1>3. Upwards(S)
  BY <1>2 DEF Upwards, Way
<1>4. ParentOf[p] # None => ParentOf[p] \in S
  BY <1>2 DEF Way
<1>5. d \in S
  BY <1>1, <1>3, <1>4 DEF AncestorsOf
<1> QED BY <1>5

(* A file that has been there all the time. *)
Steady(p) == Untouched(p) /\ InSource(p) /\ KindOf(p) = "file"

LEMMA SteadyWay ==
    ASSUME NEW p \in Path, Steady(p), NEW d \in Way(p)
    PROVE  /\ d \notin touched
           /\ IF d = p THEN IsFile(d) /\ KindOf(d) = "file"
                       ELSE ~IsFile(d) /\ KindOf(d) = "directory"
<1>1. d \notin touched
  BY DEF Steady, Untouched, Way
<1>2. /\ \A e \in AncestorsOf[p] : disk[e].kind = "directory"
      /\ disk[p].kind = "file"
  BY DEF Steady, KindOf
<1>3. CASE d = p
  BY <1>1, <1>2, <1>3 DEF Steady, IsFile
<1>4. CASE d # p
  <2>1. d \in AncestorsOf[p] /\ AncestorsOf[d] \subseteq AncestorsOf[p]
    BY <1>4, AboveTheAbove DEF Way
  <2> QED BY <1>1, <1>2, <1>4, <2>1 DEF KindOf, IsFile
<1> QED BY <1>3, <1>4

Walking == {"walking", "scanning"} \union AtHand

(* What the collection still comes to. *)
Ahead(d) ==
    \/ \E n \in DOMAIN config.sources :
        /\ config.sources[n] = d
        /\ n > source \/ (n = source /\ pc \in {"idle", "sources"})
    \/ pc \in Walking /\ \E n \in DOMAIN pending : pending[n] = d
    \/ pc \in {"scanning"} \union AtHand /\ d \in entries
    \/ pc \in AtHand /\ d = at

(* It is collected, or the result says why it is not. *)
Settled(p) ==
    \/ \E m \in Collected : m[2] = p
    \/ Way(p) \intersect skipped # {}
    \/ state.truncated

Accounted(p) == Steady(p) => Settled(p) \/ \E d \in Way(p) : Ahead(d)

WalkOK ==
    /\ config.sources \in Seq(Path)
    /\ source \in Nat \ {0}
    /\ pending \in Seq(Path)
    /\ pc \in {"scanning"} \union AtHand =>
        entries \subseteq Path /\ at \in Path
    /\ pc = "scanning" => \A e \in entries : ParentOf[e] = at
    /\ pc \in AtHand =>
        ParentOf[at] \in Path /\ \A e \in entries : ParentOf[e] = ParentOf[at]
    /\ DOMAIN state = {"count", "total", "seen", "truncated", "stop"}
    /\ state.stop => state.truncated

Unfinished == {"idle", "sources", "discarding"} \union Walking

SInv ==
    /\ WalkOK
    /\ pc \in Unfinished => result = "none"
    /\ pc \in Unfinished \ {"discarding"} => \A p \in Path : Accounted(p)
    /\ result \in {"success", "partial"} => \A p \in Path : Steady(p) => Settled(p)
    /\ result = "success" => skipped = {} /\ ~state.truncated

LEMMA FrontIs ==
    ASSUME NEW S, NEW s \in Seq(S), s # <<>>
    PROVE  /\ Front(s) \in Seq(S) /\ Last(s) \in S
           /\ \A n \in DOMAIN s :
                s[n] = Last(s) \/ \E m \in DOMAIN Front(s) : Front(s)[m] = s[n]
<1> DEFINE f == SubSeq(s, 1, Len(s) - 1)
<1>1. Len(s) \in Nat \ {0} /\ DOMAIN s = 1..Len(s)
  OBVIOUS
<1>2. /\ f \in Seq(S) /\ DOMAIN f = 1..(Len(s) - 1)
      /\ \A n \in 1..(Len(s) - 1) : f[n] = s[n]
  BY <1>1
<1>3. \A n \in DOMAIN s : n = Len(s) \/ n \in DOMAIN f
  BY <1>1, <1>2
<1>4. Front(s) = f /\ Last(s) = s[Len(s)]
  BY DEF Front, Last
<1>5. Last(s) \in S
  BY <1>1, <1>4
<1> HIDE DEF f
<1> QED BY <1>1, <1>2, <1>3, <1>4, <1>5

LEMMA AppendIs ==
    ASSUME NEW S, NEW s \in Seq(S), NEW x \in S
    PROVE  /\ Append(s, x) \in Seq(S)
           /\ \E m \in DOMAIN Append(s, x) : Append(s, x)[m] = x
           /\ \A n \in DOMAIN s : n \in DOMAIN Append(s, x) /\ Append(s, x)[n] = s[n]
<1>1. Append(s, x) \in Seq(S) /\ DOMAIN Append(s, x) = 1..(Len(s) + 1)
  OBVIOUS
<1>2. Append(s, x)[Len(s) + 1] = x /\ Len(s) + 1 \in DOMAIN Append(s, x)
  OBVIOUS
<1> QED BY <1>1, <1>2

(* A file that is settled stays so while no path changes. *)
LEMMA AccountedStays ==
    ASSUME NEW p \in Path, Accounted(p), UNCHANGED <<disk, body, config, touched>>,
           skipped \subseteq skipped', Collected \subseteq Collected',
           state.truncated => state'.truncated,
           ASSUME Steady(p), NEW d \in Way(p), Ahead(d), ~Settled(p)'
           PROVE  \E e \in Way(p) : Ahead(e)'
    PROVE  Accounted(p)'
<1> SUFFICES ASSUME Steady(p)', ~Settled(p)'
             PROVE  \E e \in Way(p) : Ahead(e)'
  BY DEF Accounted, Way
<1>1. Steady(p)
  BY DEF Steady, Untouched, InSource, KindOf
<1>2. ~Settled(p)
  BY DEF Settled
<1> QED BY <1>1, <1>2 DEF Accounted

LEMMA CollectedStays ==
    ASSUME UNCHANGED archive
    PROVE  Collected' = Collected
BY DEF Collected

LEMMA StartAccounts ==
    ASSUME SInv, Start
    PROVE  SInv'
<1>1. /\ pc = "idle" /\ UNCHANGED <<outside, walk, found, touched>>
      /\ pc' \in {"sources", "discarding", "logging", "done"}
      /\ result' = result \/ (result' = "failed" /\ pc' = "logging")
  BY DEF Start, Goto, Unfinished, Walking, AtHand
<1>2. result = "none"
  BY <1>1 DEF SInv, Unfinished
<1>3. WalkOK'
  <2>1. WalkOK
    BY DEF SInv
  <2>2. UNCHANGED <<config, source, pending, entries, at, state>>
    BY <1>1 DEF outside, walk, found
  <2> QED BY <1>1, <2>1, <2>2 DEF WalkOK, AtHand
<1>4. ASSUME pc' = "sources", NEW p \in Path
      PROVE  Accounted(p)'
  <2>1. Accounted(p)
    BY <1>1 DEF SInv, Unfinished
  <2>2. \A d : Ahead(d) => Ahead(d)'
    BY <1>1, <1>4 DEF Ahead, Walking, AtHand, outside, walk
  <2> QED BY <1>1, <2>1, <2>2, AccountedStays, CollectedStays DEF outside, found
<1> QED BY <1>1, <1>2, <1>3, <1>4 DEF SInv, Unfinished, Walking, AtHand

LEMMA NextSourceAccounts ==
    ASSUME SInv, NextSource
    PROVE  SInv'
<1> DEFINE root == config.sources[source]
<1>0. /\ pc = "sources" /\ source <= Len(config.sources)
      /\ UNCHANGED <<outside, entries, at, held, state, archive, ends, touched>>
      /\ \/ pending' = <<root>> /\ pc' = "walking" /\ UNCHANGED <<source, skipped>>
         \/ Skip(root) /\ source' = source + 1 /\ UNCHANGED <<pc, pending>>
  BY DEF NextSource, Goto
<1>1. result = "none" /\ WalkOK /\ \A p \in Path : Accounted(p)
  BY <1>0 DEF SInv, Unfinished
<1>2. source \in Nat /\ \A n \in DOMAIN config.sources :
          config.sources[n] \in Path /\ n \in Nat
  BY <1>1, ElementsOf DEF WalkOK
<1>3. WalkOK'
  <2>1. CASE pending' = <<root>> /\ pc' = "walking" /\ UNCHANGED <<source, skipped>>
    <3>1. root \in Path
      <4>1. source \in DOMAIN config.sources
        BY <1>0, <1>1, ElementsOf DEF WalkOK
      <4> QED BY <1>2, <4>1
    <3> QED BY <1>0, <1>1, <2>1, <3>1 DEF WalkOK, AtHand, outside
  <2>2. CASE Skip(root) /\ source' = source + 1 /\ UNCHANGED <<pc, pending>>
    BY <1>0, <1>1, <2>2 DEF WalkOK, AtHand, outside
  <2> QED BY <1>0, <2>1, <2>2
<1>4. ASSUME NEW p \in Path
      PROVE  Accounted(p)'
  <2>1. skipped \subseteq skipped' /\ UNCHANGED <<disk, body, config, touched, state>>
    BY <1>0 DEF Skip, outside
  <2>2. ASSUME NEW d \in Way(p), Ahead(d), ~Settled(p)'
        PROVE  Ahead(d)'
    <3>1. PICK n \in DOMAIN config.sources : config.sources[n] = d /\ n >= source
      BY <1>0, <1>2, <2>2 DEF Ahead, Walking, AtHand
    <3>2. CASE pending' = <<root>> /\ pc' = "walking" /\ UNCHANGED <<source, skipped>>
      <4>1. CASE n = source
        <5>1. 1 \in DOMAIN pending' /\ pending'[1] = d
          BY <3>1, <3>2, <4>1
        <5> QED BY <3>2, <5>1 DEF Ahead, Walking
      <4>2. CASE n > source
        BY <2>1, <3>1, <3>2, <4>2 DEF Ahead
      <4> QED BY <1>2, <3>1, <4>1, <4>2
    <3>3. CASE Skip(root) /\ source' = source + 1 /\ UNCHANGED <<pc, pending>>
      <4>1. n # source
        BY <2>2, <3>1, <3>3 DEF Skip, Settled, Way
      <4>2. n > source' \/ n = source'
        BY <1>2, <3>1, <3>3, <4>1
      <4> QED BY <1>0, <2>1, <3>1, <3>3, <4>2 DEF Ahead
    <3> QED BY <1>0, <3>2, <3>3
  <2> QED BY <1>0, <1>1, <2>1, <2>2, AccountedStays, CollectedStays
<1>5. result' = "none"
  BY <1>0, <1>1 DEF ends
<1> QED BY <1>0, <1>3, <1>4, <1>5 DEF SInv

LEMMA NextDirectoryAccounts ==
    ASSUME SInv, NextDirectory
    PROVE  SInv'
<1> DEFINE d == Last(pending)
<1>0. /\ pc = "walking" /\ pending # <<>>
      /\ UNCHANGED <<disk, body, config, source, held, state, archive, result, touched>>
      /\ pending' = Front(pending) /\ at' = d
      /\ \/ KindOf(d) = "directory" /\ entries' = ChildrenOf(d) /\ pc' = "scanning"
              /\ UNCHANGED skipped
         \/ Skip(d) /\ UNCHANGED <<entries, pc>>
  BY DEF NextDirectory, Goto, outside, ends
<1>1. result = "none" /\ WalkOK /\ \A p \in Path : Accounted(p)
  BY <1>0 DEF SInv, Unfinished, Walking
<1>2. /\ pending' \in Seq(Path) /\ d \in Path
      /\ \A n \in DOMAIN pending :
            pending[n] = d \/ \E m \in DOMAIN pending' : pending'[m] = pending[n]
  BY <1>0, <1>1, FrontIs DEF WalkOK
<1> HIDE DEF d
<1>3. WalkOK'
  <2>1. CASE KindOf(d) = "directory" /\ entries' = ChildrenOf(d) /\ pc' = "scanning"
    BY <1>0, <1>1, <1>2, <2>1 DEF WalkOK, AtHand, ChildrenOf
  <2>2. CASE UNCHANGED <<entries, pc>>
    BY <1>0, <1>1, <1>2, <2>2 DEF WalkOK, AtHand
  <2> QED BY <1>0, <2>1, <2>2
<1>4. ASSUME NEW p \in Path
      PROVE  Accounted(p)'
  <2>1. skipped \subseteq skipped'
    BY <1>0 DEF Skip
  <2>2. ASSUME Steady(p), NEW c \in Way(p), Ahead(c), ~Settled(p)'
        PROVE  \E e \in Way(p) : Ahead(e)'
    <3>1. CASE \E n \in DOMAIN config.sources : config.sources[n] = c /\ n > source
      BY <1>0, <3>1 DEF Ahead
    <3>2. CASE \E m \in DOMAIN pending' : pending'[m] = c
      BY <1>0, <3>2 DEF Ahead, Walking
    <3>3. CASE c = d
      <4>1. /\ KindOf(d) = "directory" /\ entries' = ChildrenOf(d)
            /\ pc' = "scanning"
        BY <1>0, <2>2, <3>3 DEF Skip, Settled
      <4>2. c # p /\ c \in AncestorsOf[p]
        BY <2>2, <3>3, <4>1, SteadyWay DEF Way
      <4>3. PICK e \in Way(p) : e \in Path /\ ParentOf[e] = d
        BY <3>3, <4>2, WayDown
      <4>4. e \in entries'
        BY <2>2, <4>1, <4>3, SteadyWay DEF ChildrenOf
      <4> QED BY <4>1, <4>3, <4>4 DEF Ahead
    <3> QED BY <1>0, <1>2, <2>2, <3>1, <3>2, <3>3 DEF Ahead, Walking, AtHand
  <2> QED BY <1>0, <1>1, <2>1, <2>2, AccountedStays, CollectedStays
<1>5. result' = "none"
  BY <1>0, <1>1
<1> QED BY <1>3, <1>4, <1>5 DEF SInv

LEMMA SourceEndsAccounts ==
    ASSUME SInv, SourceEnds
    PROVE  SInv'
<1>0. /\ pc = "walking" /\ pc' = "sources" /\ source' = source + 1
      /\ pending = <<>> \/ state.stop
      /\ UNCHANGED <<disk, body, config, pending, entries, at, state, skipped,
                     archive, result, touched>>
  BY DEF SourceEnds, Goto, outside, found, ends
<1>1. result = "none" /\ WalkOK /\ \A p \in Path : Accounted(p)
  BY <1>0 DEF SInv, Unfinished, Walking
<1>2. WalkOK'
  BY <1>0, <1>1 DEF WalkOK, AtHand
<1>3. ASSUME NEW p \in Path
      PROVE  Accounted(p)'
  <2>1. ASSUME NEW d \in Way(p), Ahead(d), ~Settled(p)'
        PROVE  Ahead(d)'
    <3>1. pending = <<>>
      BY <1>0, <1>1, <2>1 DEF Settled, WalkOK
    <3>2. PICK n \in DOMAIN config.sources : config.sources[n] = d /\ n > source
      BY <1>0, <2>1, <3>1 DEF Ahead, AtHand
    <3>3. n \in Nat /\ source \in Nat
      BY <1>1, <3>2, ElementsOf DEF WalkOK
    <3>4. n > source' \/ n = source'
      BY <1>0, <3>2, <3>3
    <3> QED BY <1>0, <3>2, <3>4 DEF Ahead
  <2> QED BY <1>0, <1>1, <2>1, AccountedStays, CollectedStays
<1>4. result' = "none"
  BY <1>0, <1>1
<1> QED BY <1>2, <1>3, <1>4 DEF SInv

(* The steps inside a directory. *)
LEMMA ScanningAccounts ==
    ASSUME SInv,
           DirectoryEnds \/ TooManyEntries \/ FindDirectory \/ SkipEntry
               \/ ReachLimit \/ FindFile
    PROVE  SInv'
<1>0. /\ pc = "scanning" /\ skipped \subseteq skipped'
      /\ UNCHANGED <<disk, body, config, source, archive, result, touched>>
  BY DEF DirectoryEnds, TooManyEntries, FindDirectory, SkipEntry, ReachLimit,
         FindFile, Scan, Skip, outside, walk, ends
<1>1. result = "none" /\ WalkOK /\ \A p \in Path : Accounted(p)
  BY <1>0 DEF SInv, Unfinished, Walking
<1>2. \/ state' = state
      \/ state' = SeenOne
      \/ state'.truncated
  BY <1>1 DEF WalkOK, DirectoryEnds, TooManyEntries, FindDirectory, SkipEntry, ReachLimit,
         FindFile, Truncated
<1>3. state.truncated => state'.truncated
  BY <1>1, <1>2 DEF SeenOne, WalkOK
<1>4. /\ state'.stop => state'.truncated
      /\ DOMAIN state' = DOMAIN state
  <2>1. state' = SeenOne => state'.stop = state.stop /\ state'.truncated = state.truncated
    BY <1>1 DEF SeenOne, WalkOK
  <2>2. DOMAIN state' = DOMAIN state
    BY DEF DirectoryEnds, TooManyEntries, FindDirectory, SkipEntry, ReachLimit,
           FindFile, Truncated, SeenOne
  <2> QED BY <1>1, <1>2, <2>1, <2>2 DEF WalkOK
<1>5. PICK x : /\ x \in entries \/ x = at
               /\ \/ DirectoryEnds /\ x = at
                  \/ TooManyEntries
                  \/ ReachLimit
                  \/ /\ x \in entries /\ entries' = entries \ {x}
                     /\ UNCHANGED at /\ pc' = pc
                     /\ KindOf(x) = "directory" /\ pending' = Append(pending, x)
                  \/ /\ x \in entries /\ entries' = entries \ {x}
                     /\ UNCHANGED <<at, pending>> /\ pc' = pc /\ x \in skipped'
                  \/ /\ x \in entries /\ entries' = entries \ {x}
                     /\ at' = x /\ pc' = "opening" /\ UNCHANGED pending
  BY DEF FindDirectory, SkipEntry, FindFile, Scan, Skip, Goto
<1>6. x \in Path /\ entries \subseteq Path /\ at \in Path
      /\ \A e \in entries : ParentOf[e] = at
  BY <1>0, <1>1, <1>5 DEF WalkOK
<1>7. CASE DirectoryEnds
  <2>1. /\ entries' = {} /\ pc' = "walking" /\ UNCHANGED <<pending, at, state>>
        /\ entries = {} \/ state.stop \/ at \in skipped'
    BY <1>7 DEF DirectoryEnds, Goto, Skip
  <2>2. WalkOK'
    BY <1>0, <1>1, <2>1 DEF WalkOK, AtHand
  <2>3. ASSUME NEW p \in Path
        PROVE  Accounted(p)'
    <3>1. ASSUME NEW d \in Way(p), Ahead(d), ~Settled(p)'
          PROVE  Ahead(d)'
      <4>1. ASSUME d \in entries
            PROVE  FALSE
        <5>1. at \in skipped'
          BY <1>1, <2>1, <3>1, <4>1 DEF Settled, WalkOK
        <5>2. ParentOf[d] = at /\ at # None
          BY <1>6, <4>1, TreeAssumption
        <5>3. at \in Way(p)
          BY <5>2, WayUp DEF Way
        <5> QED BY <3>1, <5>1, <5>3 DEF Settled, Way
      <4> QED BY <1>0, <2>1, <3>1, <4>1 DEF Ahead, Walking, AtHand
    <3> QED BY <1>0, <1>1, <1>3, <3>1, AccountedStays, CollectedStays
  <2> QED BY <1>0, <1>1, <2>2, <2>3 DEF SInv
<1>8. CASE TooManyEntries \/ ReachLimit
  <2>1. /\ state'.truncated /\ pc' = "scanning"
        /\ entries' \subseteq entries /\ UNCHANGED <<pending, at>>
    BY <1>0, <1>1, <1>8 DEF TooManyEntries, ReachLimit, Scan, Truncated, walk, WalkOK
  <2>2. WalkOK'
    BY <1>0, <1>1, <1>4, <2>1 DEF WalkOK, AtHand
  <2>3. \A p \in Path : Accounted(p)'
    BY <2>1 DEF Accounted, Settled
  <2> QED BY <1>0, <1>1, <2>1, <2>2, <2>3 DEF SInv
<1>9. CASE /\ x \in entries /\ entries' = entries \ {x}
           /\ UNCHANGED at /\ pc' = pc
           /\ KindOf(x) = "directory" /\ pending' = Append(pending, x)
  <2>1. /\ pending' \in Seq(Path)
        /\ \E m \in DOMAIN pending' : pending'[m] = x
        /\ \A n \in DOMAIN pending : n \in DOMAIN pending' /\ pending'[n] = pending[n]
    <3>1. pending \in Seq(Path) /\ x \in Path /\ pending' = Append(pending, x)
      BY <1>1, <1>6, <1>9 DEF WalkOK
    <3> HIDE <1>9
    <3> QED BY <3>1, AppendIs
  <2>2. WalkOK'
    <3>1. /\ pc' = "scanning" /\ entries' \subseteq entries /\ at' = at
          /\ pending' \in Seq(Path)
      BY <1>0, <1>9, <2>1
    <3> QED BY <1>0, <1>1, <1>4, <3>1 DEF WalkOK, AtHand
  <2>3. ASSUME NEW p \in Path
        PROVE  Accounted(p)'
    <3>1. \A d : Ahead(d) => Ahead(d)'
      BY <1>0, <1>9, <2>1 DEF Ahead, Walking, AtHand
    <3> QED BY <1>0, <1>1, <1>3, <3>1, AccountedStays, CollectedStays
  <2> QED BY <1>0, <1>1, <2>2, <2>3 DEF SInv
<1>10. CASE /\ x \in entries /\ entries' = entries \ {x}
            /\ UNCHANGED <<at, pending>> /\ pc' = pc /\ x \in skipped'
  <2>1. pc' = "scanning" /\ entries' \subseteq entries /\ at' = at /\ pending' = pending
    BY <1>0, <1>10
  <2>2. WalkOK'
    BY <1>0, <1>1, <1>4, <2>1 DEF WalkOK, AtHand
  <2>3. ASSUME NEW p \in Path
        PROVE  Accounted(p)'
    <3>1. ASSUME NEW d \in Way(p), Ahead(d), ~Settled(p)'
          PROVE  Ahead(d)'
      <4>1. d # x
        BY <1>10, <3>1 DEF Settled, Way
      <4> QED BY <1>0, <1>10, <3>1, <4>1 DEF Ahead, Walking, AtHand
    <3> QED BY <1>0, <1>1, <1>3, <3>1, AccountedStays, CollectedStays
  <2> QED BY <1>0, <1>1, <2>2, <2>3 DEF SInv
<1>11. CASE /\ x \in entries /\ entries' = entries \ {x}
            /\ at' = x /\ pc' = "opening" /\ UNCHANGED pending
  <2>2. WalkOK'
    BY <1>0, <1>1, <1>4, <1>6, <1>11 DEF WalkOK, AtHand
  <2>3. ASSUME NEW p \in Path
        PROVE  Accounted(p)'
    <3>1. \A d : Ahead(d) => Ahead(d)'
      BY <1>0, <1>11 DEF Ahead, Walking, AtHand
    <3> QED BY <1>0, <1>1, <1>3, <3>1, AccountedStays, CollectedStays
  <2>4. pc' \in Unfinished \ {"discarding"}
    BY <1>11 DEF Unfinished, Walking, AtHand
  <2> QED BY <1>0, <1>1, <2>2, <2>3, <2>4 DEF SInv
<1> QED BY <1>5, <1>7, <1>8, <1>9, <1>10, <1>11

---------------------------------------------------------------------------
(* The steps with a file at hand: it stays at hand, or is listed, or stored. *)
LEMMA HandAccounts ==
    ASSUME AInv, SInv, pc \in AtHand,
           OpenFile \/ CompareFile \/ CopyChunk \/ VerifyCopy \/ StoreFile
    PROVE  SInv'
<1>0. /\ skipped \subseteq skipped'
      /\ UNCHANGED <<disk, body, config, source, pending, entries, result, touched>>
  BY DEF OpenFile, CompareFile, CopyChunk, VerifyCopy, StoreFile, SkipFile, Skip,
         outside, walk, found, ends
<1>1. result = "none" /\ WalkOK /\ \A p \in Path : Accounted(p)
  BY DEF SInv, Unfinished, Walking, AtHand
<1>2. /\ at \in Path /\ ParentOf[at] \in Path /\ entries \subseteq Path
      /\ \A e \in entries : ParentOf[e] = ParentOf[at]
  BY <1>1 DEF WalkOK
<1>3. /\ DOMAIN state' = DOMAIN state
      /\ state'.stop = state.stop /\ state'.truncated = state.truncated
  <2>1. state' = state \/ state' = [state EXCEPT !.count = @ + 1,
                                      !.total = @ + held.scanned.body.size]
    BY DEF OpenFile, CompareFile, CopyChunk, VerifyCopy, StoreFile, found
  <2> QED BY <1>1, <2>1 DEF WalkOK
<1>4. Collected \subseteq Collected'
  <2>1. CASE UNCHANGED archive
    BY <2>1, CollectedStays
  <2>2. ASSUME NEW whole \in BOOLEAN, Stored(whole)
        PROVE  Collected \subseteq Collected'
    BY <2>2 DEF Stored, Collected
  <2> QED BY <2>1, <2>2 DEF OpenFile, CompareFile, CopyChunk, VerifyCopy,
                            StoreFile, found
<1>5. CASE pc' \in AtHand /\ at' = at
  <2>1. WalkOK'
    BY <1>0, <1>1, <1>2, <1>3, <1>5 DEF WalkOK, AtHand
  <2>2. ASSUME NEW p \in Path
        PROVE  Accounted(p)'
    <3>1. \A d : Ahead(d) => Ahead(d)'
      BY <1>0, <1>5 DEF Ahead, Walking, AtHand
    <3> QED BY <1>0, <1>1, <1>3, <1>4, <3>1, AccountedStays
  <2>3. pc' \in Unfinished \ {"discarding"}
    BY <1>5 DEF Unfinished, Walking, AtHand
  <2> QED BY <1>0, <1>1, <2>1, <2>2, <2>3 DEF SInv
<1>6. CASE pc' = "scanning" /\ at' = ParentOf[at]
  <2>1. WalkOK'
    BY <1>0, <1>1, <1>2, <1>3, <1>6 DEF WalkOK, AtHand
  <2>2. at \in skipped' \/ (pc = "storing" /\ Stored(TRUE))
    BY <1>2, <1>6 DEF OpenFile, CompareFile, CopyChunk, VerifyCopy, StoreFile,
          SkipFile, Skip, Goto, AtHand
  <2>3. ASSUME NEW p \in Path
        PROVE  Accounted(p)'
    <3>1. ASSUME Steady(p), NEW d \in Way(p), Ahead(d), ~Settled(p)'
          PROVE  Ahead(d)'
      <4>1. d # at
        <5>1. SUFFICES ASSUME d = at PROVE FALSE
          OBVIOUS
        <5>2. pc = "storing" /\ Stored(TRUE) /\ at \notin skipped'
          BY <2>2, <3>1, <5>1 DEF Settled, Way
        <5>3. IsFile(at)
          <6>1. StillThere(at, held.scanned) /\ at \notin touched
            BY <3>1, <5>1, <5>2, SteadyWay DEF AInv, HeldOK
          <6> QED BY <6>1 DEF StillThere
        <5>4. at = p
          BY <3>1, <5>1, <5>3, SteadyWay
        <5> DEFINE member == <<source, at>>
        <5>5. member[2] = at
          OBVIOUS
        <5>6. /\ member \in DOMAIN archive'
              /\ member \in DOMAIN archive => archive'[member] = archive[member]
              /\ member \notin DOMAIN archive => archive'[member].whole
          BY <5>2 DEF Stored
        <5> HIDE DEF member
        <5>7. archive'[member].whole
          <6>1. CASE member \in DOMAIN archive
            BY <1>0, <5>2, <5>5, <5>6, <6>1 DEF AInv, ArchiveOK
          <6> QED BY <5>6, <6>1
        <5> QED BY <3>1, <5>4, <5>5, <5>6, <5>7 DEF Settled, Collected
      <4> QED BY <1>0, <1>6, <3>1, <4>1 DEF Ahead, Walking, AtHand
    <3> QED BY <1>0, <1>1, <1>3, <1>4, <3>1, AccountedStays
  <2> QED BY <1>0, <1>1, <1>6, <2>1, <2>3 DEF SInv
<1>7. (pc' \in AtHand /\ at' = at) \/ (pc' = "scanning" /\ at' = ParentOf[at])
  BY DEF OpenFile, CompareFile, CopyChunk, VerifyCopy, StoreFile, SkipFile,
         Goto, AtHand, walk
<1> QED BY <1>5, <1>6, <1>7

(* Nothing is ahead any more. *)
LEMMA CloseAccounts ==
    ASSUME SInv, CloseArchive
    PROVE  SInv'
<1>0. /\ pc = "sources"
      /\ source > Len(config.sources) \/ state.stop
      /\ UNCHANGED <<outside, walk, found, touched>>
      /\ \/ result' = "failed" /\ pc' = "logging"
         \/ result' = result /\ pc' = "discarding"
         \/ /\ result' = IF skipped # {} \/ state.truncated THEN "partial" ELSE "success"
            /\ pc' = "logging"
  BY DEF CloseArchive, Goto
<1>1. result = "none" /\ WalkOK /\ \A p \in Path : Accounted(p)
  BY <1>0 DEF SInv, Unfinished, Walking
<1>2. UNCHANGED <<disk, body, config, source, pending, entries, at, state, skipped,
                  archive, touched>>
  BY <1>0 DEF outside, walk, found
<1>3. WalkOK'
  BY <1>0, <1>1, <1>2 DEF WalkOK, AtHand
<1>4. ASSUME NEW p \in Path, Steady(p)'
      PROVE  Settled(p)'
  <2>1. Steady(p) /\ (Settled(p) => Settled(p)')
    BY <1>2, <1>4 DEF Steady, Untouched, InSource, KindOf, Settled, Collected
  <2>2. CASE state.stop
    BY <1>1, <1>2, <2>2 DEF WalkOK, Settled
  <2>3. ASSUME source > Len(config.sources), NEW d, Ahead(d)
        PROVE  FALSE
    <3>1. PICK n \in DOMAIN config.sources : n > source \/ n = source
      BY <1>0, <2>3 DEF Ahead, Walking, AtHand
    <3>2. n \in Nat /\ n <= Len(config.sources) /\ source \in Nat
      BY <1>1, <3>1, ElementsOf DEF WalkOK
    <3> QED BY <1>1, <2>3, <3>1, <3>2, ElementsOf DEF WalkOK
  <2> QED BY <1>0, <1>1, <2>1, <2>2, <2>3 DEF Accounted
<1>5. pc' \notin Unfinished \ {"discarding"}
  BY <1>0 DEF Unfinished, Walking, AtHand
<1>6. result' = "success" => skipped' = {} /\ ~state'.truncated
  BY <1>0, <1>1, <1>2
<1>7. pc' \in Unfinished => result' = "none"
  BY <1>0, <1>1 DEF Unfinished, Walking, AtHand
<1> QED BY <1>3, <1>4, <1>5, <1>6, <1>7 DEF SInv

(* The steps after the walk keep what it has found. *)
LEMMA EndAccounts ==
    ASSUME SInv, DiscardArchive \/ LogCollection \/ SendArchive
    PROVE  SInv'
<1>0. /\ pc' \in {"logging", "sending", "done"}
      /\ UNCHANGED <<outside, walk, found, touched>>
      /\ result' = "failed" \/ result' = result
  BY DEF DiscardArchive, LogCollection, SendArchive, Goto
<1>1. UNCHANGED <<disk, body, config, source, pending, entries, at, state, skipped,
                  archive, touched>>
  BY <1>0 DEF outside, walk, found
<1>2. WalkOK'
  BY <1>0, <1>1 DEF SInv, WalkOK, AtHand
<1>3. pc' \notin Unfinished
  BY <1>0 DEF Unfinished, Walking, AtHand
<1>4. ASSUME NEW p \in Path, Steady(p)', result' \in {"success", "partial"}
      PROVE  Settled(p)'
  <2>1. Steady(p) /\ (Settled(p) => Settled(p)')
    BY <1>1, <1>4 DEF Steady, Untouched, InSource, KindOf, Settled, Collected
  <2> QED BY <1>0, <1>4, <2>1 DEF SInv
<1>5. result' = "success" => skipped' = {} /\ ~state'.truncated
  BY <1>0, <1>1 DEF SInv
<1> QED BY <1>2, <1>3, <1>4, <1>5 DEF SInv

(* Whoever changes the logs changes what is steady, and nothing else here. *)
LEMMA OthersAccount ==
    ASSUME SInv, DiskOK, NEW q \in Path, AppendTo(q) \/ Rotate(q) \/ Replace(q)
    PROVE  SInv'
<1>0. /\ UNCHANGED <<config, pc, walk, found, ends>> /\ touched' = touched \union {q}
      /\ \A p \in Path \ {q} : disk'[p] = disk[p]
  BY DEF AppendTo, Rotate, Replace, Change, DiskOK
<1>1. UNCHANGED <<config, pc, source, pending, entries, at, state, skipped, archive,
                  result>>
  BY <1>0 DEF walk, found, ends
<1>2. WalkOK'
  BY <1>1 DEF SInv, WalkOK
<1>3. ASSUME NEW p \in Path, Steady(p)'
      PROVE  Steady(p) /\ (Settled(p) => Settled(p)')
             /\ \A d : Ahead(d) => Ahead(d)'
  <2>1. q \notin Way(p) /\ Way(p) \subseteq Path
    BY <1>0, <1>3, WayUp DEF Steady, Untouched, Way
  <2>2. \A d \in Way(p) : disk'[d] = disk[d]
    BY <1>0, <2>1
  <2>3. KindOf(p)' = KindOf(p)
    BY <2>2 DEF KindOf, Way
  <2>4. Steady(p)
    BY <1>0, <1>1, <1>3, <2>3 DEF Steady, Untouched, InSource
  <2>5. Settled(p) => Settled(p)'
    BY <1>1 DEF Settled, Collected
  <2>6. \A d : Ahead(d) => Ahead(d)'
    BY <1>1 DEF Ahead
  <2> QED BY <2>4, <2>5, <2>6
<1>4. ASSUME NEW p \in Path, Accounted(p)
      PROVE  Accounted(p)'
  BY <1>3, <1>4 DEF Accounted, Way
<1>5. ASSUME result' \in {"success", "partial"}, NEW p \in Path, Steady(p)'
      PROVE  Settled(p)'
  BY <1>1, <1>3, <1>5 DEF SInv
<1>6. pc' \in Unfinished \ {"discarding"} => \A p \in Path : Accounted(p)'
  BY <1>1, <1>4 DEF SInv
<1>7. /\ pc' \in Unfinished => result' = "none"
      /\ result' = "success" => skipped' = {} /\ ~state'.truncated
  BY <1>1 DEF SInv
<1> QED BY <1>2, <1>5, <1>6, <1>7 DEF SInv

LEMMA StartsAccounted == Init => SInv
<1> SUFFICES ASSUME Init
             PROVE  SInv
  OBVIOUS
<1>1. WalkOK
  BY SettingAssumption DEF Init, WalkOK, AtHand
<1>2. ASSUME NEW p \in Path, Steady(p)
      PROVE  \E d \in Way(p) : Ahead(d)
  <2>1. PICK n \in DOMAIN config.sources : config.sources[n] \in Way(p)
    BY <1>2 DEF Steady, InSource, Way
  <2>2. n \in Nat /\ n >= 1 /\ source = 1 /\ pc = "idle"
    BY <1>1, <2>1, ElementsOf DEF WalkOK, Init
  <2>3. n > source \/ n = source
    BY <2>2
  <2> QED BY <2>1, <2>2, <2>3 DEF Ahead
<1> QED BY <1>1, <1>2 DEF SInv, Init, Accounted

LEMMA SilentStep ==
    ASSUME AInv, SInv, [Next]_vars
    PROVE  AInv' /\ SInv'
<1>1. AInv'
  BY IntactStep
<1>2. CASE Start \/ NextSource \/ NextDirectory \/ SourceEnds
  BY <1>1, <1>2, StartAccounts, NextSourceAccounts, NextDirectoryAccounts,
     SourceEndsAccounts
<1>3. CASE DirectoryEnds \/ TooManyEntries \/ FindDirectory \/ SkipEntry
             \/ ReachLimit \/ FindFile
  BY <1>1, <1>3, ScanningAccounts
<1>4. CASE OpenFile \/ CompareFile \/ CopyChunk \/ VerifyCopy \/ StoreFile
  <2>1. pc \in AtHand
    BY <1>4 DEF OpenFile, CompareFile, CopyChunk, VerifyCopy, StoreFile, AtHand
  <2> QED BY <1>1, <1>4, <2>1, HandAccounts
<1>5. CASE CloseArchive \/ DiscardArchive \/ LogCollection \/ SendArchive
  BY <1>1, <1>5, CloseAccounts, EndAccounts
<1>6. CASE Others
  BY <1>1, <1>6, OthersAccount DEF Others, AInv
<1>7. CASE UNCHANGED vars
  <2>1. UNCHANGED <<disk, config, pc, source, pending, entries, at, state, skipped,
                    archive, result, touched>>
    BY <1>7 DEF vars, outside, walk, found, ends
  <2>2. WalkOK'
    BY <2>1 DEF SInv, WalkOK
  <2>3. ASSUME NEW p \in Path
        PROVE  /\ Steady(p)' => Steady(p)
               /\ Settled(p) => Settled(p)'
               /\ \A d : Ahead(d) => Ahead(d)'
    BY <2>1 DEF Steady, Untouched, InSource, KindOf, Settled, Collected, Ahead
  <2>4. \A p \in Path : Accounted(p) => Accounted(p)'
    BY <2>3 DEF Accounted, Way
  <2> QED BY <1>1, <2>1, <2>2, <2>3, <2>4 DEF SInv
<1> QED BY <1>2, <1>3, <1>4, <1>5, <1>6, <1>7 DEF Next, Collect

(* What was there all the time is in the archive, or the result says why it  *)
(* may not be (NothingIsSilent; _collect_source, _consider_entry): whatever  *)
(* the walk takes from its lists it passes on, lists as skipped, or collects,*)
(* and a walk that stops early has reached a limit.                          *)
THEOREM NothingIsSilentHolds == Spec => []NothingIsSilent
<1>1. Init => AInv /\ SInv
  BY StartsIntact, StartsAccounted
<1>2. AInv /\ SInv /\ [Next]_vars => AInv' /\ SInv'
  BY SilentStep
<1>3. SInv => NothingIsSilent
  <2> SUFFICES ASSUME SInv, result \in {"success", "partial"}, NEW p \in Path, Steady(p)
               PROVE  \/ p \notin skipped /\ \E m \in Collected : m[2] = p
                      \/ /\ ({p} \union AncestorsOf[p]) \intersect skipped # {}
                         /\ result = "partial"
                      \/ state.truncated /\ result = "partial"
    BY DEF NothingIsSilent, Steady
  <2>1. Settled(p) /\ (result = "success" => skipped = {} /\ ~state.truncated)
    BY DEF SInv
  <2> QED BY <2>1 DEF Settled, Way
<1> QED BY <1>1, <1>2, <1>3, PTL DEF Spec

---------------------------------------------------------------------------
(* Sums.  The induction over finite sets is over their order by inclusion.   *)

First(s) == CHOOSE x \in s : TRUE

(* h has the sum of f over each subset of S. *)
Adds(h, f, S) ==
    /\ h[{}] = 0
    /\ \A s \in SUBSET S : s # {} => h[s] = f[First(s)] + h[s \ {First(s)}]

Sums(h, f, S) == h \in [SUBSET S -> Nat] /\ Adds(h, f, S)

(* No set of sets is without a least one, if they are finite. *)
LEMMA Least ==
    ASSUME NEW S, IsFiniteSet(S), NEW T \in SUBSET SUBSET S, T # {}
    PROVE  \E s \in T : \A u \in T : u \subseteq s => u = s
<1>1. IsWellFoundedOn(StrictSubsetOrdering(S), FiniteSubsetsOf(S))
  BY FS_StrictSubsetOrderingWellFounded
<1>2. T \subseteq FiniteSubsetsOf(S)
  BY FS_Subset DEF FiniteSubsetsOf
<1>3. PICK s \in T : \A u \in T : <<u, s>> \notin StrictSubsetOrdering(S)
  BY <1>1, <1>2, WFMin
<1> QED BY <1>3 DEF StrictSubsetOrdering

LEMMA FirstOf == \A s : s # {} => First(s) \in s
  BY DEF First

LEMMA SumsAgree ==
    ASSUME NEW S, IsFiniteSet(S), NEW f, NEW R, NEW h, NEW g, Adds(h, f, S), Adds(g, f, R)
    PROVE  \A s \in SUBSET S : s \in SUBSET R => h[s] = g[s]
<1> DEFINE T == {s \in SUBSET S : s \in SUBSET R /\ h[s] # g[s]}
<1>1. ASSUME T # {} PROVE FALSE
  <2>0. T \in SUBSET SUBSET S
    OBVIOUS
  <2>1. PICK s \in T : \A u \in T : u \subseteq s => u = s
    <3> HIDE DEF T
    <3> QED BY <1>1, <2>0, Least
  <2>2. s # {}
    BY <2>1 DEF Sums, Adds
  <2>3. First(s) \in s
    BY <2>2, FirstOf
  <2>4. s \ {First(s)} \notin T
    BY <2>1, <2>3
  <2>5. h[s \ {First(s)}] = g[s \ {First(s)}]
    BY <2>4
  <2> QED BY <2>1, <2>2, <2>5 DEF Sums, Adds
<1> QED BY <1>1

LEMMA SumOnPart ==
    ASSUME NEW S, NEW f, NEW h, Sums(h, f, S), NEW R \in SUBSET S
    PROVE  Sums([s \in SUBSET R |-> h[s]], f, R)
<1>1. \A s \in SUBSET R : s # {} => s \ {First(s)} \in SUBSET R
  OBVIOUS
<1> QED BY <1>1 DEF Sums, Adds

LEMMA SumsExist ==
    ASSUME NEW S, IsFiniteSet(S), NEW f, \A y \in S : f[y] \in Nat
    PROVE  \E h : Sums(h, f, S)
<1> DEFINE T == {s \in SUBSET S : ~ \E h : Sums(h, f, s)}
<1>1. ASSUME T # {} PROVE FALSE
  <2>0. T \in SUBSET SUBSET S
    OBVIOUS
  <2>1. PICK s \in T : \A u \in T : u \subseteq s => u = s
    <3> HIDE DEF T
    <3> QED BY <1>1, <2>0, Least
  <2>2. s # {}
    <3>1. Sums([u \in SUBSET {} |-> 0], f, {})
      BY DEF Sums, Adds
    <3> QED BY <2>1, <3>1
  <2> DEFINE x == First(s)
             sum(u) == CHOOSE h : Sums(h, f, u)
             h == [u \in SUBSET s |-> IF u = s THEN f[x] + sum(s \ {x})[s \ {x}]
                                      ELSE sum(u)[u]]
  <2>3. x \in s
    BY <2>2, FirstOf
  <2>4. ASSUME NEW u \in SUBSET s, u # s PROVE Sums(sum(u), f, u)
    BY <2>1, <2>4
  <2>5. \A u \in SUBSET s : IsFiniteSet(u)
    BY FS_Subset
  <2>6. ASSUME NEW u \in SUBSET s, u # s, NEW v \in SUBSET u
        PROVE  sum(v)[v] = sum(u)[v]
    <3>1. v # s
      BY <2>6
    <3>2. Sums(sum(v), f, v) /\ Sums(sum(u), f, u) /\ IsFiniteSet(v)
      BY <2>4, <2>5, <2>6, <3>1
    <3> HIDE DEF sum
    <3> QED BY <3>2, SumsAgree DEF Sums
  <2> HIDE DEF sum
  <2>7. \A u \in SUBSET s : u # s => sum(u)[u] \in Nat
    BY <2>4 DEF Sums, Adds
  <2>8. f[x] \in Nat /\ s \ {x} \in SUBSET s /\ s \ {x} # s
    BY <2>3
  <2>9. h \in [SUBSET s -> Nat]
    BY <2>7, <2>8
  <2>10. h[{}] = 0
    BY <2>2, <2>4 DEF Sums, Adds
  <2>11. ASSUME NEW u \in SUBSET s, u # {}
         PROVE  h[u] = f[First(u)] + h[u \ {First(u)}]
    <3>1. First(u) \in u
      BY <2>11, FirstOf
    <3>2. u \ {First(u)} \in SUBSET u /\ u \ {First(u)} # s /\ u \ {First(u)} \in SUBSET s
      BY <3>1
    <3>3. h[u \ {First(u)}] = sum(u \ {First(u)})[u \ {First(u)}]
      BY <3>2
    <3>4. CASE u = s
      BY <3>3, <3>4
    <3>5. CASE u # s
      <4>1. h[u] = sum(u)[u]
        BY <3>5
      <4>2. sum(u)[u] = f[First(u)] + sum(u)[u \ {First(u)}]
        BY <2>4, <2>11, <3>5 DEF Sums, Adds
      <4>3. sum(u \ {First(u)})[u \ {First(u)}] = sum(u)[u \ {First(u)}]
        BY <2>6, <3>2, <3>5
      <4> QED BY <3>3, <4>1, <4>2, <4>3
    <3> QED BY <3>4, <3>5
  <2> HIDE DEF h, x
  <2>12. Sums(h, f, s)
    BY <2>9, <2>10, <2>11 DEF Sums, Adds
  <2> QED BY <2>1, <2>12
<1>2. S \notin T
  BY <1>1
<1> QED BY <1>2

(* It does not matter which element is taken first. *)
LEMMA SumWithout ==
    ASSUME NEW S, IsFiniteSet(S), NEW f, \A y \in S : f[y] \in Nat, NEW h, Sums(h, f, S)
    PROVE  \A s \in SUBSET S : \A x \in s : h[s] = f[x] + h[s \ {x}]
<1> DEFINE T == {s \in SUBSET S : \E x \in s : h[s] # f[x] + h[s \ {x}]}
<1>1. ASSUME T # {} PROVE FALSE
  <2>0. T \in SUBSET SUBSET S
    OBVIOUS
  <2>1. PICK s \in T : \A u \in T : u \subseteq s => u = s
    <3> HIDE DEF T
    <3> QED BY <1>1, <2>0, Least
  <2>2. PICK x \in s : h[s] # f[x] + h[s \ {x}]
    BY <2>1
  <2> DEFINE c == First(s)
             u == s \ {c}
             v == s \ {x}
             w == s \ {c, x}
  <2>3. c \in s /\ s \in SUBSET S
    BY <2>1, <2>2, FirstOf
  <2>4. h[s] = f[c] + h[u]
    BY <2>2, <2>3 DEF Sums, Adds
  <2>5. c # x
    BY <2>2, <2>4
  <2>6. /\ x \in u /\ u \in SUBSET S /\ u \notin T /\ u \ {x} = w
        /\ c \in v /\ v \in SUBSET S /\ v \notin T /\ v \ {c} = w
    BY <2>1, <2>2, <2>3, <2>5
  <2>7. h[u] = f[x] + h[w] /\ h[v] = f[c] + h[w]
    BY <2>6
  <2>8. f[c] \in Nat /\ f[x] \in Nat /\ h[w] \in Nat
    BY <2>3, <2>6 DEF Sums
  <2> HIDE DEF c, u, v, w
  <2>9. h[s] = f[x] + h[v]
    BY <2>4, <2>7, <2>8
  <2> QED BY <2>2, <2>9 DEF v
<1> QED BY <1>1

(* What the fold of the community modules has. *)
LEMMA SumIs ==
    ASSUME NEW S, IsFiniteSet(S), NEW f, NEW h, Sums(h, f, S)
    PROVE  SumFunctionOnSet(f, S) = h[S]
<1> DEFINE Equation(g) == g = [s \in SUBSET S |->
                    IF s = {} THEN 0
                    ELSE f[CHOOSE x \in s : TRUE] + g[s \ {CHOOSE x \in s : TRUE}]]
<1>1. Equation(h)
  <2>1. h = [s \in SUBSET S |-> h[s]]
    BY DEF Sums
  <2>2. ASSUME NEW s \in SUBSET S
        PROVE  h[s] = IF s = {} THEN 0 ELSE f[First(s)] + h[s \ {First(s)}]
    BY DEF Sums, Adds
  <2> QED BY <2>1, <2>2 DEF First
<1>2. PICK iter : Equation(iter) /\ SumFunctionOnSet(f, S) = iter[S]
  <2>1. Equation(CHOOSE g : Equation(g))
    BY <1>1
  <2>2. SumFunctionOnSet(f, S) = (CHOOSE g : Equation(g))[S]
    BY DEF SumFunctionOnSet, FoldFunctionOnSet, MapThenFoldSet
  <2> QED BY <2>1, <2>2
<1>3. Adds(iter, f, S)
  <2>1. iter[{}] = 0
    BY <1>2
  <2>2. \A s \in SUBSET S : s # {} => iter[s] = f[First(s)] + iter[s \ {First(s)}]
    BY <1>2 DEF First
  <2> QED BY <2>1, <2>2 DEF Adds
<1> QED BY <1>2, <1>3, SumsAgree DEF Sums

LEMMA SumOfNone == ASSUME NEW f PROVE SumFunctionOnSet(f, {}) = 0
<1>1. Sums([s \in SUBSET {} |-> 0], f, {})
  BY DEF Sums, Adds
<1> QED BY <1>1, SumIs, FS_EmptySet

LEMMA SumWith ==
    ASSUME NEW S, IsFiniteSet(S), NEW f, \A y \in S : f[y] \in Nat,
           NEW x, x \notin S, NEW g, g[x] \in Nat, \A y \in S : g[y] = f[y]
    PROVE  SumFunctionOnSet(g, S \union {x}) = SumFunctionOnSet(f, S) + g[x]
<1> DEFINE R == S \union {x}
<1>0. \A y \in R : g[y] \in Nat
  OBVIOUS
<1>1. IsFiniteSet(R)
  BY FS_AddElement
<1>2. PICK h : Sums(h, g, R)
  BY <1>0, <1>1, SumsExist
<1>3. PICK k : Sums(k, f, S)
  BY SumsExist
<1>4. Adds(k, g, S)
  <2>1. \A s \in SUBSET S : s # {} => First(s) \in S
    BY FirstOf
  <2> QED BY <1>3, <2>1 DEF Sums, Adds
<1>5. k[S] = h[S]
  BY <1>2, <1>4, SumsAgree DEF Sums
<1>6. R \ {x} = S /\ x \in R
  OBVIOUS
<1>7. h[R] = g[x] + h[S]
  <2> HIDE DEF R
  <2> QED BY <1>0, <1>1, <1>2, <1>6, SumWithout
<1>8. SumFunctionOnSet(g, R) = h[R] /\ SumFunctionOnSet(f, S) = k[S]
  BY <1>1, <1>2, <1>3, SumIs
<1>9. g[x] \in Nat /\ h[S] \in Nat
  BY <1>2 DEF Sums
<1> QED BY <1>5, <1>7, <1>8, <1>9

---------------------------------------------------------------------------
(* The walk comes to every path of a source once. *)

(* The path of the file at hand, if there is one. *)
Hand == IF pc \in AtHand THEN {at} ELSE {}

(* What is left to do in different directories lies apart. *)
Apart ==
    /\ pc \notin {"scanning"} \union AtHand => entries = {}
    /\ Hand \intersect entries = {}
    /\ \A p \in Path :
        /\ \A i, j \in DOMAIN pending :
            pending[i] \in Way(p) /\ pending[j] \in Way(p) => i = j
        /\ \A i \in DOMAIN pending : pending[i] \in Way(p) =>
            Way(p) \intersect (entries \union Hand) = {}

(* What is in the archive is not ahead any more. *)
Behind ==
    /\ pc = "idle" => DOMAIN archive = {}
    /\ pc = "sources" => \A m \in DOMAIN archive : m[1] \in 1..(source - 1)
    /\ pc \in Walking => \A m \in DOMAIN archive :
        /\ m[1] \in 1..source
        /\ m[1] = source =>
            /\ \A i \in DOMAIN pending : pending[i] \notin Way(m[2])
            /\ Way(m[2]) \intersect (entries \union Hand) = {}

(* The counters are what was collected, and there is room for the file at    *)
(* hand.                                                                     *)
Counted ==
    /\ LimitsHold
    /\ IsFiniteSet(Collected)
    /\ \A m \in Collected : Sizes[m] \in Nat
    /\ state.total \in Nat /\ state.seen \in Nat
    /\ pc \in AtHand => /\ "scanned" \in DOMAIN held
                        /\ held.scanned.body.size \in Nat
                        /\ ~Exceeds(held.scanned.body.size)

CInv == Apart /\ Behind /\ Counted

---------------------------------------------------------------------------
(* Two directories that hold one path, one is in the other. *)

LEMMA ParentsWay ==
    ASSUME NEW p \in Path, NEW d \in AncestorsOf[p]
    PROVE  ParentOf[p] \in Path /\ d \in Way(ParentOf[p])
<1>1. ParentOf[p] # None
  <2>1. ASSUME ParentOf[p] = None PROVE FALSE
    <3>1. Upwards({})
      BY DEF Upwards
    <3> QED BY <2>1, <3>1 DEF AncestorsOf
  <2> QED BY <2>1
<1>2. ParentOf[p] \in Path
  BY <1>1, TreeAssumption
<1> DEFINE S == Way(ParentOf[p])
<1>3. S \in SUBSET Path /\ ParentOf[p] \in S
  BY <1>2, WayUp DEF Way
<1>4. Upwards(S)
  <2>1. \A c \in S : ParentOf[c] # None => ParentOf[c] \in AncestorsOf[ParentOf[p]]
    BY <1>2, WayUp
  <2> QED BY <2>1 DEF Upwards, Way
<1> HIDE DEF S
<1>5. d \in S
  BY <1>3, <1>4 DEF AncestorsOf
<1> QED BY <1>2, <1>5 DEF S

LEMMA OnOneWay ==
    ASSUME NEW p \in Path, NEW b \in Way(p), NEW c \in Way(p)
    PROVE  b \in Way(c) \/ c \in Way(b)
<1> DEFINE S == {d \in AncestorsOf[p] : c \in Way(d) \/ d \in Way(c)}
<1>1. c \in Path /\ AncestorsOf[p] \in SUBSET Path
  BY WayUp, AboveTheAbove
<1>2. Upwards(S)
  <2> SUFFICES ASSUME NEW d \in S, ParentOf[d] # None PROVE ParentOf[d] \in S
    BY DEF Upwards
  <2>1. d \in Path /\ d \in AncestorsOf[p] /\ d \in Way(p)
    BY <1>1 DEF Way
  <2>2. ParentOf[d] \in AncestorsOf[p]
    BY <2>1, WayUp
  <2>3. CASE d \in Way(c)
    <3>1. ParentOf[d] \in AncestorsOf[c]
      BY <1>1, <2>3, WayUp
    <3> QED BY <2>2, <3>1 DEF Way
  <2>4. CASE c \in AncestorsOf[d]
    <3>1. c \in Way(ParentOf[d])
      BY <2>1, <2>4, ParentsWay
    <3> QED BY <2>2, <3>1
  <2>5. c \in Way(d) => c = d \/ c \in AncestorsOf[d]
    BY DEF Way
  <2>6. c = d => d \in Way(c)
    BY DEF Way
  <2> QED BY <2>3, <2>4, <2>5, <2>6
<1>3. ParentOf[p] # None => ParentOf[p] \in S
  <2> SUFFICES ASSUME ParentOf[p] # None PROVE ParentOf[p] \in S
    OBVIOUS
  <2>1. ParentOf[p] \in AncestorsOf[p]
    BY WayUp DEF Way
  <2>2. CASE c = p
    BY <2>1, <2>2 DEF Way
  <2>3. CASE c \in AncestorsOf[p]
    BY <2>1, <2>3, ParentsWay
  <2> QED BY <2>2, <2>3 DEF Way
<1>4. b = p \/ b \in S
  <2>1. S \in SUBSET Path
    BY <1>1
  <2> HIDE DEF S
  <2>2. \A d \in AncestorsOf[p] : d \in S
    BY <1>2, <1>3, <2>1 DEF AncestorsOf
  <2> QED BY <2>2 DEF Way
<1> QED BY <1>4

(* What is in one directory lies apart. *)
LEMMA Siblings ==
    ASSUME NEW p \in Path, NEW b \in Way(p), NEW c \in Way(p),
           ParentOf[b] = ParentOf[c], ParentOf[b] \in Path
    PROVE  b = c
<1>1. b \in Path /\ c \in Path
  BY WayUp
<1> DEFINE d == ParentOf[b]
<1>2. d \in AncestorsOf[b] /\ d \in AncestorsOf[c]
  BY <1>1, TreeAssumption, WayUp DEF Way
<1>3. ASSUME NEW x \in Path, NEW y \in Path, x \in AncestorsOf[y], ParentOf[y] = d,
             d \in AncestorsOf[x]
      PROVE  FALSE
  <2>1. x \in Way(d)
    BY <1>3, ParentsWay
  <2>2. x # d
    BY <1>3, NoCyclesAssumption
  <2>3. x \in AncestorsOf[d]
    BY <2>1, <2>2 DEF Way
  <2>4. x \in AncestorsOf[x]
    BY <1>3, <2>3, AboveTheAbove
  <2> QED BY <2>4, NoCyclesAssumption
<1>4. b \in Way(c) \/ c \in Way(b)
  BY OnOneWay
<1> QED BY <1>1, <1>2, <1>3, <1>4 DEF Way

(* Whatever is in a directory has it on its way. *)
LEMMA ChildsWay ==
    ASSUME NEW p \in Path, NEW c \in Way(p), ParentOf[c] \in Path
    PROVE  ParentOf[c] \in Way(p)
  BY WayUp, TreeAssumption DEF Way

---------------------------------------------------------------------------
(* How the walk goes on. *)

LEMMA ThePending ==
    ASSUME WalkOK
    PROVE  /\ Len(pending) \in Nat /\ DOMAIN pending = 1..Len(pending)
           /\ \A i \in DOMAIN pending : pending[i] \in Path
           /\ pending # <<>> =>
                /\ Len(pending) # 0 /\ Last(pending) = pending[Len(pending)]
                /\ DOMAIN Front(pending) = 1..(Len(pending) - 1)
                /\ \A i \in DOMAIN Front(pending) : Front(pending)[i] = pending[i]
           /\ \A p \in Path :
                /\ DOMAIN Append(pending, p) = 1..(Len(pending) + 1)
                /\ Append(pending, p)[Len(pending) + 1] = p
                /\ \A i \in DOMAIN pending : Append(pending, p)[i] = pending[i]
<1>1. pending \in Seq(Path)
  BY DEF WalkOK
<1> QED BY <1>1 DEF Front, Last

(* A step after which less is ahead. *)
LEMMA LessAhead ==
    ASSUME Apart, Behind, pc \in Walking, pc' \in Walking, UNCHANGED <<source, archive>>,
           DOMAIN pending' \subseteq DOMAIN pending,
           \A i \in DOMAIN pending' : pending'[i] = pending[i],
           entries' \union Hand' \subseteq entries \union Hand,
           Hand' \intersect entries' = {},
           pc' \notin {"scanning"} \union AtHand => entries' = {}
    PROVE  Apart' /\ Behind'
<1>1. Apart'
  BY DEF Apart, Way
<1>2. pc' \notin {"idle", "sources"}
  BY DEF Walking, AtHand
<1>3. Behind'
  BY <1>2 DEF Behind, Way
<1> QED BY <1>1, <1>3

(* A step outside of the walk. *)
LEMMA SameAhead ==
    ASSUME Apart, Behind, UNCHANGED <<pending, entries, source, archive>>,
           \/ pc' = pc /\ at' = at
           \/ /\ pc \notin {"scanning"} \union AtHand
              /\ pc' \notin Walking \union {"idle", "sources"}
           \/ pc = "idle" /\ pc' = "sources"
    PROVE  Apart' /\ Behind'
<1>1. CASE pc' = pc /\ at' = at
  BY <1>1 DEF Apart, Behind, Hand, Way
<1>2. CASE /\ pc \notin {"scanning"} \union AtHand
           /\ pc' \notin {"scanning"} \union AtHand
           /\ pc' \notin Walking \union {"idle"}
           /\ pc' = "sources" => pc = "idle"
  <2>1. Hand = {} /\ Hand' = {} /\ entries = {}
    BY <1>2 DEF Hand, Apart
  <2>2. Apart'
    BY <2>1 DEF Apart, Way
  <2>3. Behind'
    BY <1>2 DEF Behind
  <2> QED BY <2>2, <2>3
<1> QED BY <1>1, <1>2 DEF Walking, AtHand

LEMMA SourceApart ==
    ASSUME WalkOK, Apart, Behind, NextSource
    PROVE  Apart' /\ Behind'
<1>1. /\ pc = "sources" /\ UNCHANGED <<entries, archive>>
      /\ \/ pc' = "walking" /\ source' = source /\ \E root : pending' = <<root>>
         \/ pc' = "sources" /\ source' = source + 1 /\ pending' = pending
  BY DEF NextSource, Goto
<1>2. /\ Hand = {} /\ Hand' = {} /\ entries = {} /\ source \in Nat \ {0}
      /\ \A m \in DOMAIN archive : m[1] \in 1..(source - 1)
  BY <1>1 DEF Hand, AtHand, Apart, Behind, WalkOK
<1>3. CASE pc' = "walking" /\ source' = source /\ \E root : pending' = <<root>>
  <2>1. DOMAIN pending' = {1}
    BY <1>3
  <2>2. Apart'
    BY <1>1, <1>2, <2>1 DEF Apart
  <2>3. \A m \in DOMAIN archive : m[1] \in 1..source /\ m[1] # source
    BY <1>2
  <2>4. Behind'
    BY <1>1, <1>3, <2>3 DEF Behind
  <2> QED BY <2>2, <2>4
<1>4. CASE pc' = "sources" /\ source' = source + 1 /\ pending' = pending
  <2>1. Apart'
    BY <1>1, <1>2, <1>4 DEF Apart, Way
  <2>2. \A m \in DOMAIN archive : m[1] \in 1..(source' - 1)
    BY <1>2, <1>4
  <2>3. Behind'
    BY <1>1, <1>4, <2>2 DEF Behind, Walking, AtHand
  <2> QED BY <2>1, <2>3
<1> QED BY <1>1, <1>3, <1>4

LEMMA SourceEndApart ==
    ASSUME WalkOK, Apart, Behind, SourceEnds
    PROVE  Apart' /\ Behind'
<1>1. /\ pc = "walking" /\ pc' = "sources" /\ source' = source + 1
      /\ UNCHANGED <<pending, entries, archive>>
  BY DEF SourceEnds, Goto, found
<1>2. Hand = {} /\ Hand' = {} /\ entries = {} /\ source \in Nat \ {0}
  BY <1>1 DEF Hand, AtHand, Apart, WalkOK
<1>3. Apart'
  BY <1>1, <1>2 DEF Apart, Way
<1>4. \A m \in DOMAIN archive : m[1] \in 1..(source' - 1)
  BY <1>1, <1>2 DEF Behind, Walking
<1>5. Behind'
  BY <1>1, <1>4 DEF Behind, Walking, AtHand
<1> QED BY <1>3, <1>5

LEMMA DirectoryApart ==
    ASSUME WalkOK, ArchiveOK, Apart, Behind, NextDirectory
    PROVE  Apart' /\ Behind'
<1> DEFINE d == Last(pending)
           last == Len(pending)
<1>1. /\ pc = "walking" /\ pending # <<>> /\ pending' = Front(pending)
      /\ UNCHANGED <<source, archive>>
      /\ \/ pc' = "scanning" /\ entries' = ChildrenOf(d)
         \/ pc' = "walking" /\ entries' = entries
  BY DEF NextDirectory, Goto
<1>2. Hand = {} /\ Hand' = {} /\ entries = {} /\ pc \in Walking /\ pc' \in Walking
  BY <1>1 DEF Hand, AtHand, Apart, Walking
<1>3. /\ last \in Nat \ {0} /\ DOMAIN pending = 1..last /\ d = pending[last] /\ d \in Path
      /\ DOMAIN pending' = 1..(last - 1)
      /\ \A i \in DOMAIN pending' : pending'[i] = pending[i]
  <2>1. last \in DOMAIN pending /\ d = pending[last]
    BY <1>1, ThePending
  <2> QED BY <1>1, <2>1, ThePending
<1>4. CASE pc' = "walking" /\ entries' = entries
  <2>1. DOMAIN pending' \subseteq DOMAIN pending
    BY <1>3
  <2> HIDE DEF d, last
  <2> QED BY <1>1, <1>2, <1>3, <1>4, <2>1, LessAhead
<1>5. CASE pc' = "scanning" /\ entries' = ChildrenOf(d)
  <2> HIDE DEF d, last
  <2>1. ASSUME NEW p \in Path, NEW e \in entries', e \in Way(p)
        PROVE  d \in Way(p)
    BY <1>3, <1>5, <2>1, ChildsWay DEF ChildrenOf
  <2>2. \A i \in DOMAIN pending' : i \in DOMAIN pending /\ i # last
    BY <1>3
  <2>3. last \in DOMAIN pending
    BY <1>3
  <2>4. ASSUME NEW p \in Path
        PROVE  /\ \A i, j \in DOMAIN pending' :
                    pending'[i] \in Way(p) /\ pending'[j] \in Way(p) => i = j
               /\ \A i \in DOMAIN pending' : pending'[i] \in Way(p) =>
                    Way(p) \intersect entries' = {}
    BY <1>3, <2>1, <2>2, <2>3 DEF Apart
  <2>5. Apart'
    BY <1>2, <1>5, <2>4 DEF Apart, Way
  <2>6. ASSUME NEW m \in DOMAIN archive
        PROVE  /\ m[1] \in 1..source
               /\ m[1] = source =>
                    /\ \A i \in DOMAIN pending' : pending'[i] \notin Way(m[2])
                    /\ Way(m[2]) \intersect entries' = {}
    <3>1. m[2] \in Path
      BY DEF ArchiveOK
    <3> QED BY <1>2, <1>3, <2>1, <2>2, <2>3, <3>1 DEF Behind
  <2>7. Behind'
    BY <1>1, <1>2, <1>5, <2>6 DEF Behind, Way
  <2> QED BY <2>5, <2>7
<1> QED BY <1>1, <1>4, <1>5

LEMMA FindDirectoryApart ==
    ASSUME WalkOK, ArchiveOK, Apart, Behind, FindDirectory
    PROVE  Apart' /\ Behind'
<1>1. PICK d \in Path :
        /\ d \in entries /\ entries' = entries \ {d} /\ pending' = Append(pending, d)
        /\ pc = "scanning" /\ pc' = pc /\ UNCHANGED <<at, source, archive>>
  BY DEF FindDirectory, Scan
<1> DEFINE last == Len(pending)
<1>2. /\ last \in Nat /\ DOMAIN pending = 1..last /\ DOMAIN pending' = 1..(last + 1)
      /\ pending'[last + 1] = d /\ \A i \in DOMAIN pending : pending'[i] = pending[i]
  BY <1>1, ThePending
<1>3. /\ Hand = {} /\ Hand' = {} /\ pc \in Walking
      /\ entries \subseteq Path /\ at \in Path /\ \A e \in entries : ParentOf[e] = at
  BY <1>1 DEF Hand, AtHand, Walking, WalkOK
<1> HIDE DEF last
<1>4. ASSUME NEW p \in Path, d \in Way(p)
      PROVE  /\ Way(p) \intersect entries' = {}
             /\ \A i \in DOMAIN pending : pending[i] \notin Way(p)
  <2>1. ASSUME NEW e \in entries', e \in Way(p) PROVE FALSE
    BY <1>1, <1>3, <1>4, <2>1, Siblings
  <2> QED BY <1>1, <1>4, <2>1 DEF Apart
<1>5. \A i \in DOMAIN pending' : i = last + 1 \/ i \in DOMAIN pending
  BY <1>2
<1>6. ASSUME NEW p \in Path
      PROVE  /\ \A i, j \in DOMAIN pending' :
                  pending'[i] \in Way(p) /\ pending'[j] \in Way(p) => i = j
             /\ \A i \in DOMAIN pending' : pending'[i] \in Way(p) =>
                  Way(p) \intersect entries' = {}
  BY <1>1, <1>2, <1>4, <1>5 DEF Apart
<1>7. Apart'
  BY <1>1, <1>3, <1>6 DEF Apart, Way
<1>8. ASSUME NEW m \in DOMAIN archive
      PROVE  /\ m[1] \in 1..source
             /\ m[1] = source =>
                  /\ \A i \in DOMAIN pending' : pending'[i] \notin Way(m[2])
                  /\ Way(m[2]) \intersect entries' = {}
  BY <1>1, <1>2, <1>3, <1>5 DEF Behind
<1>9. Behind'
  BY <1>1, <1>3, <1>8 DEF Behind, Way, Walking, AtHand
<1> QED BY <1>7, <1>9

(* What is stored has not been stored before. *)
LEMMA StoreApart ==
    ASSUME WalkOK, ArchiveOK, Apart, Behind, pc \in AtHand, pc' = "scanning",
           UNCHANGED <<pending, entries, source>>, NEW whole, Stored(whole)
    PROVE  /\ Apart' /\ Behind' /\ <<source, at>> \notin DOMAIN archive
<1> DEFINE member == <<source, at>>
<1>1. /\ at \in Path /\ ParentOf[at] \in Path /\ entries \subseteq Path
      /\ \A e \in entries : ParentOf[e] = ParentOf[at]
  BY DEF WalkOK
<1>2. /\ Hand = {at} /\ Hand' = {} /\ at \in Way(at) /\ pc \in Walking
      /\ pc' \in Walking \ {"idle", "sources"} /\ source \in Nat \ {0}
  BY DEF Hand, AtHand, Way, Walking, WalkOK
<1>3. member[1] = source /\ member[2] = at
  OBVIOUS
<1>4. DOMAIN archive' = DOMAIN archive \union {member}
  BY DEF Stored
<1> HIDE DEF member
<1>5. member \notin DOMAIN archive
  BY <1>2, <1>3 DEF Behind
<1>6. Apart'
  BY <1>2 DEF Apart, Way
<1>7. /\ \A i \in DOMAIN pending : pending[i] \notin Way(at)
      /\ Way(at) \intersect entries = {}
  <2>1. \A i \in DOMAIN pending : pending[i] \notin Way(at)
    BY <1>1, <1>2 DEF Apart
  <2>2. ASSUME NEW e \in entries, e \in Way(at) PROVE FALSE
    <3>1. e = at
      BY <1>1, <1>2, <2>2, Siblings
    <3> QED BY <1>2, <3>1 DEF Apart
  <2> QED BY <2>1, <2>2
<1>8. ASSUME NEW m \in DOMAIN archive'
      PROVE  /\ m[1] \in 1..source
             /\ m[1] = source =>
                  /\ \A i \in DOMAIN pending : pending[i] \notin Way(m[2])
                  /\ Way(m[2]) \intersect entries = {}
  <2>1. CASE m \in DOMAIN archive
    BY <1>2, <2>1 DEF Behind
  <2>2. CASE m = member
    BY <1>2, <1>3, <1>7, <2>2
  <2> QED BY <1>4, <2>1, <2>2
<1>9. Behind'
  BY <1>2, <1>8 DEF Behind, Way
<1> QED BY <1>5, <1>6, <1>9 DEF member

LEMMA ScanApart ==
    ASSUME Apart, Behind,
           DirectoryEnds \/ TooManyEntries \/ SkipEntry \/ ReachLimit \/ FindFile
    PROVE  Apart' /\ Behind'
<1>1. /\ pc = "scanning" /\ pc' \in {"scanning", "walking", "opening"}
      /\ UNCHANGED <<pending, source, archive>>
      /\ entries' \subseteq entries
      /\ pc' = "walking" => entries' = {}
      /\ pc' = "opening" => at' \in entries /\ entries' = entries \ {at'}
  BY DEF DirectoryEnds, TooManyEntries, SkipEntry, ReachLimit, FindFile, Scan, Goto, walk
<1>2. /\ pc \in Walking /\ pc' \in Walking
      /\ Hand' = IF pc' = "opening" THEN {at'} ELSE {}
      /\ pc' \notin {"scanning"} \union AtHand => entries' = {}
  BY <1>1 DEF Walking, AtHand, Hand
<1> QED BY <1>1, <1>2, LessAhead

LEMMA HandApart ==
    ASSUME Apart, Behind, pc \in AtHand, UNCHANGED <<pending, entries, source, archive>>,
           pc' = "scanning" \/ (pc' \in AtHand /\ at' = at)
    PROVE  Apart' /\ Behind'
<1>1. /\ pc \in Walking /\ pc' \in Walking /\ Hand = {at} /\ Hand' \in {{}, {at}}
      /\ pc' \in {"scanning"} \union AtHand
  BY DEF Walking, AtHand, Hand
<1>2. Hand' \intersect entries' = {}
  BY <1>1 DEF Apart
<1> QED BY <1>1, <1>2, LessAhead

LEMMA HandSteps ==
    ASSUME OpenFile \/ CompareFile \/ CopyChunk \/ VerifyCopy, "scanned" \in DOMAIN held
    PROVE  /\ pc \in AtHand /\ UNCHANGED <<pending, entries, source, archive, state>>
           /\ \/ pc' = "scanning"
              \/ /\ pc' \in AtHand /\ at' = at
                 /\ held'.scanned = held.scanned /\ "scanned" \in DOMAIN held'
<1>1. CASE OpenFile
  BY <1>1 DEF OpenFile, SkipFile, Goto, AtHand
<1>2. CASE CompareFile
  BY <1>2 DEF CompareFile, SkipFile, Goto, AtHand
<1>3. CASE CopyChunk
  <2>1. /\ pc = "copying" /\ UNCHANGED <<pending, entries, source, archive, state>>
        /\ \/ pc' = "scanning"
           \/ /\ pc' \in {"copying", "verifying"} /\ at' = at
              /\ held' = [held EXCEPT !.chunks = Append(@, body[held.file].version)]
    BY <1>3 DEF CopyChunk, SkipFile, Goto
  <2> QED BY <2>1 DEF AtHand
<1>4. CASE VerifyCopy
  BY <1>4 DEF VerifyCopy, SkipFile, Goto, AtHand
<1> QED BY <1>1, <1>2, <1>3, <1>4
---------------------------------------------------------------------------
(* The counters. *)

LEMMA SumSame ==
    ASSUME NEW S, IsFiniteSet(S), NEW f, \A y \in S : f[y] \in Nat,
           NEW g, \A y \in S : g[y] = f[y]
    PROVE  SumFunctionOnSet(g, S) = SumFunctionOnSet(f, S)
<1>1. PICK h : Sums(h, f, S)
  BY SumsExist
<1>2. \A s \in SUBSET S : s # {} => First(s) \in S
  BY FirstOf
<1>3. Sums(h, g, S)
  BY <1>1, <1>2 DEF Sums, Adds
<1> QED BY <1>1, <1>3, SumIs

(* A step that stores nothing. *)
LEMMA CountedStays ==
    ASSUME Counted, UNCHANGED archive, state'.count = state.count,
           state'.total = state.total, state'.seen \in Nat, state'.seen <= MaxEntries,
           pc' \in AtHand => /\ "scanned" \in DOMAIN held'
                             /\ held'.scanned.body.size \in Nat
                             /\ ~Exceeds(held'.scanned.body.size)
    PROVE  Counted'
<1>1. Collected' = Collected /\ Sizes' = Sizes
  BY DEF Collected, Sizes
<1>2. LimitsHold'
  BY <1>1 DEF Counted, LimitsHold
<1> QED BY <1>1, <1>2 DEF Counted, Exceeds

LEMMA ScanCounts ==
    ASSUME AInv, WalkOK, Counted,
           \/ DirectoryEnds \/ TooManyEntries \/ FindDirectory \/ SkipEntry
           \/ ReachLimit \/ FindFile
    PROVE  Counted'
<1>0. state.seen \in Nat /\ state.seen <= MaxEntries /\ MaxEntries \in Nat
  BY LimitsAssumption DEF Counted, LimitsHold
<1>1. CASE DirectoryEnds \/ TooManyEntries
  <2>1. /\ pc' \notin AtHand /\ UNCHANGED archive
        /\ state' = state \/ state' = Truncated
    BY <1>1 DEF DirectoryEnds, TooManyEntries, Goto, AtHand
  <2>2. state'.count = state.count /\ state'.total = state.total /\ state'.seen = state.seen
    BY <2>1 DEF Truncated, WalkOK
  <2> QED BY <1>0, <2>1, <2>2, CountedStays
<1>2. CASE FindDirectory \/ SkipEntry \/ ReachLimit
  <2>1. /\ pc' \notin AtHand /\ UNCHANGED archive /\ state.seen < MaxEntries
        /\ state' = SeenOne \/ state' = [Truncated EXCEPT !.seen = @ + 1]
    BY <1>2 DEF FindDirectory, SkipEntry, ReachLimit, Scan, Goto, AtHand
  <2>2. /\ state'.count = state.count /\ state'.total = state.total
        /\ state'.seen = state.seen + 1
    BY <2>1 DEF Truncated, SeenOne, WalkOK
  <2> QED BY <1>0, <2>1, <2>2, CountedStays
<1>3. CASE FindFile
  <2>1. PICK p \in Path :
          /\ KindOf(p) = "file" /\ ~Exceeds(body[disk[p].file].size)
          /\ held' = [NoFile EXCEPT !.scanned = Signature(disk[p].file)]
          /\ state' = SeenOne /\ state.seen < MaxEntries /\ UNCHANGED archive
    BY <1>3 DEF FindFile, Scan
  <2>2. "scanned" \in DOMAIN held' /\ held'.scanned.body.size = body[disk[p].file].size
    BY <2>1 DEF NoFile, Signature
  <2>3. body[disk[p].file].size \in Nat
    <3>1. disk[p].file \in DOMAIN body
      BY <2>1 DEF KindOf, AInv, DiskOK, IsFile
    <3>2. body[disk[p].file] \in [size : Nat, version : Nat]
      BY <3>1, BodiesAre DEF AInv
    <3> QED BY <3>2
  <2>4. /\ state'.count = state.count /\ state'.total = state.total
        /\ state'.seen = state.seen + 1
    BY <2>1 DEF SeenOne, WalkOK
  <2> QED BY <1>0, <2>1, <2>2, <2>3, <2>4, CountedStays
<1> QED BY <1>1, <1>2, <1>3

LEMMA StoreCounts ==
    ASSUME WalkOK, Counted, StoreFile, <<source, at>> \notin DOMAIN archive
    PROVE  Counted'
<1> DEFINE member == <<source, at>>
           size == held.scanned.body.size
<1>1. /\ pc = "storing" /\ pc' = "scanning"
      /\ \/ /\ Stored(TRUE)
            /\ state' = [state EXCEPT !.count = @ + 1, !.total = @ + size]
         \/ Stored(FALSE) /\ state' = state
  BY DEF StoreFile, SkipFile, Goto
<1>2. pc \in AtHand /\ pc' \notin AtHand
  BY <1>1 DEF AtHand
<1>3. ASSUME NEW whole \in BOOLEAN, Stored(whole)
      PROVE  /\ Collected' = IF whole THEN Collected \union {member} ELSE Collected
             /\ \A m \in Collected : Sizes'[m] = Sizes[m]
             /\ Sizes'[member] = size
  <2>1. /\ DOMAIN archive' = DOMAIN archive \union {member}
        /\ \A m \in DOMAIN archive : archive'[m] = archive[m]
        /\ archive'[member] = [versions |-> Range(held.chunks), scanned |-> held.scanned,
                               whole |-> whole]
    BY <1>3 DEF Stored
  <2> HIDE DEF member
  <2>2. member \notin DOMAIN archive
    BY DEF member
  <2>3. archive'[member].whole = whole /\ archive'[member].scanned = held.scanned
    BY <2>1
  <2>4. Collected' = IF whole THEN Collected \union {member} ELSE Collected
    BY <2>1, <2>2, <2>3 DEF Collected
  <2>5. \A m \in Collected : m \in DOMAIN archive
    BY DEF Collected
  <2> QED BY <2>1, <2>3, <2>4, <2>5 DEF Sizes
<1>4. member \notin Collected
  BY DEF Collected
<1>5. /\ IsFiniteSet(Collected) /\ \A m \in Collected : Sizes[m] \in Nat
      /\ size \in Nat /\ ~Exceeds(size)
      /\ state.total \in Nat /\ state.seen \in Nat
      /\ state.count = Cardinality(Collected)
      /\ state.total = SumFunctionOnSet(Sizes, Collected)
      /\ state.count <= MaxFiles /\ state.total <= MaxTotal /\ state.seen <= MaxEntries
  BY <1>2 DEF Counted, LimitsHold
<1>6. state.count \in Nat
  BY <1>5, FS_CardinalityType
<1>7. ASSUME Stored(TRUE), state' = [state EXCEPT !.count = @ + 1, !.total = @ + size]
      PROVE  Counted'
  <2> HIDE DEF member, size
  <2>1. /\ state'.count = state.count + 1 /\ state'.total = state.total + size
        /\ state'.seen = state.seen
    BY <1>7 DEF WalkOK
  <2>2. /\ Collected' = Collected \union {member}
        /\ \A m \in Collected : Sizes'[m] = Sizes[m]
        /\ Sizes'[member] = size
    BY <1>3, <1>7
  <2>3. IsFiniteSet(Collected') /\ Cardinality(Collected') = Cardinality(Collected) + 1
    BY <1>4, <1>5, <2>2, FS_AddElement
  <2>4. \A m \in Collected' : Sizes'[m] \in Nat
    BY <1>5, <2>2
  <2>5. SumFunctionOnSet(Sizes', Collected') = SumFunctionOnSet(Sizes, Collected) + size
    <3> DEFINE before == Sizes
               after == Sizes'
               collected == Collected
    <3>1. /\ IsFiniteSet(collected) /\ \A m \in collected : before[m] \in Nat
          /\ member \notin collected /\ after[member] \in Nat
          /\ \A m \in collected : after[m] = before[m]
      BY <1>4, <1>5, <2>2
    <3> HIDE DEF before, after, collected
    <3>2. SumFunctionOnSet(after, collected \union {member})
            = SumFunctionOnSet(before, collected) + after[member]
      BY <3>1, SumWith
    <3> QED BY <2>2, <3>2 DEF before, after, collected
  <2>6. state.count + 1 <= MaxFiles /\ state.total + size <= MaxTotal
    BY <1>5, <1>6, LimitsAssumption DEF Exceeds
  <2>7. LimitsHold'
    BY <1>5, <2>1, <2>3, <2>5, <2>6 DEF LimitsHold
  <2>8. state'.total \in Nat /\ state'.seen \in Nat
    BY <1>5, <2>1
  <2> QED BY <1>2, <2>3, <2>4, <2>7, <2>8 DEF Counted
<1>8. ASSUME Stored(FALSE), state' = state
      PROVE  Counted'
  <2> HIDE DEF member, size
  <2>1. Collected' = Collected /\ \A m \in Collected : Sizes'[m] = Sizes[m]
    BY <1>3, <1>8
  <2>2. SumFunctionOnSet(Sizes', Collected) = SumFunctionOnSet(Sizes, Collected)
    BY <1>5, <2>1, SumSame
  <2>3. LimitsHold'
    BY <1>5, <1>8, <2>1, <2>2 DEF LimitsHold
  <2> QED BY <1>2, <1>5, <1>8, <2>1, <2>3 DEF Counted
<1> QED BY <1>1, <1>7, <1>8

LEMMA StartsCounted == Init => CInv
<1> SUFFICES ASSUME Init
             PROVE  CInv
  OBVIOUS
<1>1. /\ pc = "idle" /\ pending = <<>> /\ entries = {} /\ archive = [p \in {} |-> None]
      /\ state.count = 0 /\ state.total = 0 /\ state.seen = 0
  BY DEF Init
<1>2. Hand = {} /\ DOMAIN pending = {} /\ DOMAIN archive = {} /\ pc \notin AtHand
  BY <1>1 DEF Hand, AtHand
<1>3. Collected = {}
  BY <1>2 DEF Collected
<1>4. Apart /\ Behind
  BY <1>1, <1>2 DEF Apart, Behind, Walking
<1>5. Counted
  BY <1>1, <1>2, <1>3, SumOfNone, FS_EmptySet, LimitsAssumption DEF Counted, LimitsHold
<1> QED BY <1>4, <1>5 DEF CInv

LEMMA LimitsStep ==
    ASSUME AInv, SInv, CInv, [Next]_vars
    PROVE  CInv'
<1>0. /\ WalkOK /\ ArchiveOK /\ Apart /\ Behind /\ Counted
      /\ state.seen \in Nat /\ state.seen <= MaxEntries
  BY DEF AInv, SInv, CInv, Counted, LimitsHold
<1>1. ASSUME UNCHANGED <<pending, entries, source, archive, state, held>>,
             \/ pc' = pc /\ at' = at
             \/ /\ pc \notin {"scanning"} \union AtHand
                /\ pc' \notin Walking \union {"idle", "sources"}
             \/ pc = "idle" /\ pc' = "sources"
      PROVE  CInv'
  <2>1. Apart' /\ Behind'
    BY <1>0, <1>1, SameAhead
  <2>2. pc' \in AtHand => pc \in AtHand
    BY <1>1 DEF Walking, AtHand
  <2>3. pc' \in AtHand => /\ "scanned" \in DOMAIN held'
                          /\ held'.scanned.body.size \in Nat
                          /\ ~Exceeds(held'.scanned.body.size)
    BY <1>0, <1>1, <2>2 DEF Counted
  <2>4. Counted'
    BY <1>0, <1>1, <2>3, CountedStays
  <2> QED BY <2>1, <2>4 DEF CInv
<1>2. CASE Start \/ CloseArchive \/ DiscardArchive \/ LogCollection \/ SendArchive
  <2>1. /\ UNCHANGED <<pending, entries, source, archive, state, held>>
        /\ \/ pc = "idle" /\ pc' \in {"sources", "logging", "discarding", "done"}
           \/ pc = "sources" /\ pc' \in {"logging", "discarding"}
           \/ pc = "discarding" /\ pc' = "logging"
           \/ pc = "logging" /\ pc' \in {"done", "sending"}
           \/ pc = "sending" /\ pc' = "done"
    BY <1>2 DEF Start, CloseArchive, DiscardArchive, LogCollection, SendArchive, Goto,
                walk, found
  <2> QED BY <1>1, <2>1 DEF Walking, AtHand
<1>3. CASE Others \/ UNCHANGED vars
  <2>1. /\ UNCHANGED <<pending, entries, source, archive, state, held>>
        /\ pc' = pc /\ at' = at
    BY <1>3 DEF Others, AppendTo, Rotate, Replace, Change, vars, walk, found
  <2> QED BY <1>1, <2>1
<1>4. CASE NextSource \/ NextDirectory \/ SourceEnds
  <2>1. Apart' /\ Behind'
    BY <1>0, <1>4, SourceApart, DirectoryApart, SourceEndApart
  <2>2. UNCHANGED <<archive, state>> /\ pc' \notin AtHand
    BY <1>4 DEF NextSource, NextDirectory, SourceEnds, found, Goto, AtHand
  <2>3. Counted'
    BY <1>0, <2>2, CountedStays
  <2> QED BY <2>1, <2>3 DEF CInv
<1>5. CASE DirectoryEnds \/ TooManyEntries \/ FindDirectory \/ SkipEntry
             \/ ReachLimit \/ FindFile
  BY <1>0, <1>5, ScanApart, FindDirectoryApart, ScanCounts DEF CInv
<1>6. CASE OpenFile \/ CompareFile \/ CopyChunk \/ VerifyCopy
  <2>1. pc \in AtHand
    BY <1>6 DEF OpenFile, CompareFile, CopyChunk, VerifyCopy, AtHand
  <2>2. /\ "scanned" \in DOMAIN held /\ held.scanned.body.size \in Nat
        /\ ~Exceeds(held.scanned.body.size)
    BY <1>0, <2>1 DEF Counted
  <2>3. /\ UNCHANGED <<pending, entries, source, archive, state>>
        /\ \/ pc' = "scanning"
           \/ /\ pc' \in AtHand /\ at' = at
              /\ held'.scanned = held.scanned /\ "scanned" \in DOMAIN held'
    BY <1>6, <2>2, HandSteps
  <2>4. Apart' /\ Behind'
    BY <1>0, <2>1, <2>3, HandApart
  <2>5. "scanning" \notin AtHand
    BY DEF AtHand
  <2>6. Counted'
    BY <1>0, <2>2, <2>3, <2>5, CountedStays
  <2> QED BY <2>4, <2>6 DEF CInv
<1>7. CASE StoreFile
  <2>1. /\ pc \in AtHand /\ pc' = "scanning" /\ UNCHANGED <<pending, entries, source>>
        /\ Stored(TRUE) \/ Stored(FALSE)
    BY <1>7 DEF StoreFile, SkipFile, Goto, AtHand
  <2>2. Apart' /\ Behind' /\ <<source, at>> \notin DOMAIN archive
    BY <1>0, <2>1, StoreApart
  <2>3. Counted'
    BY <1>0, <1>7, <2>2, StoreCounts
  <2> QED BY <2>2, <2>3 DEF CInv
<1> QED BY <1>2, <1>3, <1>4, <1>5, <1>6, <1>7 DEF Next, Collect

(* However the logs grow while they are read, neither more files nor more    *)
(* bytes than allowed are collected, and the counters are exact (LimitsHold; *)
(* _consider_entry): the room is checked with the size that is counted, and  *)
(* the walk comes to every path of a source once, so that no member of the   *)
(* archive takes the place of another.                                       *)
THEOREM LimitsHoldHolds == Spec => []LimitsHold
<1>1. Init => AInv /\ SInv /\ CInv
  BY StartsIntact, StartsAccounted, StartsCounted
<1>2. AInv /\ SInv /\ CInv /\ [Next]_vars => AInv' /\ SInv' /\ CInv'
  BY SilentStep, LimitsStep
<1>3. CInv => LimitsHold
  BY DEF CInv, Counted
<1> QED BY <1>1, <1>2, <1>3, PTL DEF Spec

===========================================================================

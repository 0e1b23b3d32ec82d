----------------------------- MODULE Documents -----------------------------
(***************************************************************************)
(* The library of documents: folders and records of files in one JSON      *)
(* file, the files themselves beside it.  A change of the JSON is read,    *)
(* changed and renamed into place, one at a time, so it is one step; what  *)
(* happens to the files on the disk happens before or after it, and a      *)
(* restart can come in between.                                            *)
(***************************************************************************)
EXTENDS Naturals, Sequences, FiniteSets, FiniteSetsExt, Functions

CONSTANTS
  Folders,    \* ids of folders
  Root,       \* the top, no folder
  Files,      \* ids of files; the stored name is one to one with it
  Names,      \* names, told apart as sameName does
  Paths,      \* relative paths of an upload: sequences of names of folders
  MaxDepth,   \* DOCUMENTS_MAX_FOLDER_DEPTH
  MaxCrashes  \* bound on restarts; the number of folders is one as well

DocumentsAssumption ==
  /\ Root \notin Folders /\ IsFiniteSet(Folders)
  /\ Paths \subseteq Seq(Names)
  /\ MaxDepth \in Nat \ {0} /\ MaxCrashes \in Nat

VARIABLES
  folders,    \* db.folders: id -> [parent, name]
  files,      \* db.files: id -> [folder, name]
  disk,       \* disk[f]: "none", "fresh" or "old" (more than a day)
  pending,    \* requests of upload: multer has written the files, the record is to come
  trash,      \* stored names a handler is about to unlink
  known,      \* the names the nightly sweep has read, NotSweeping between sweeps
  crashes

vars == <<folders, files, disk, pending, trash, known, crashes>>

NotSweeping == {"not sweeping"}

-----------------------------------------------------------------------------
(* The helpers over the tree, for any value of db.folders and db.files. *)

\* The number of folders from the top down to d.
FolderDepth(fs, d) ==
  LET depth[x \in DOMAIN fs \cup {Root}] ==
        IF x = Root THEN 0 ELSE 1 + depth[fs[x].parent]
  IN depth[d]

\* d and the folders under it.
Descendants(fs, d) ==
  LET under[x \in DOMAIN fs \cup {Root}] ==
        CASE x = d    -> TRUE
          [] x = Root -> FALSE
          [] OTHER    -> under[fs[x].parent]
  IN {x \in DOMAIN fs : under[x]}

SubtreeHeight(fs, d) ==
  1 + Max({FolderDepth(fs, x) : x \in Descendants(fs, d)}) - FolderDepth(fs, d)

Siblings(fs, p, n) == {x \in DOMAIN fs : fs[x] = [parent |-> p, name |-> n]}

Taken(ds, p, except) == {ds[f].name : f \in {g \in DOMAIN ds \ except : ds[g].folder = p}}

\* The names uniqueFileName can give the files fs one after the other in folder p.
Placements(ds, p, fs) == Injection(fs, Names \ Taken(ds, p, fs))

\* An id nobody has (a random one).
NewFolder(fs) == CHOOSE d \in Folders : d \notin DOMAIN fs

\* db.folders with a folder more.
Added(fs, d, p, n) ==
  [x \in DOMAIN fs \cup {d} |-> IF x = d THEN [parent |-> p, name |-> n] ELSE fs[x]]

\* One folder of an upload's path: taken as it is, or made; a place that
\* is not in the tree when it would be too deep.
TooDeep(place) == place.at \notin DOMAIN place.folders \cup {Root}

StepInto(place, n) ==
  LET fs == place.folders
      there == Siblings(fs, place.at, n)
      d == NewFolder(fs)
  IN CASE TooDeep(place) -> place
       [] ~TooDeep(place) /\ there # {} -> [place EXCEPT !.at = CHOOSE x \in there : TRUE]
       [] ~TooDeep(place) /\ there = {} /\ FolderDepth(fs, place.at) >= MaxDepth ->
            [place EXCEPT !.at = NewFolder(fs)]
       [] OTHER -> [folders |-> Added(fs, d, place.at, n), at |-> d]

Walk(fs, target, path) ==
  LET place[i \in 0..Len(path)] ==
        IF i = 0 THEN [folders |-> fs, at |-> target] ELSE StepInto(place[i - 1], path[i])
  IN place[Len(path)]

-----------------------------------------------------------------------------

Init ==
  /\ folders = <<>> /\ files = <<>>
  /\ disk = [f \in Files |-> "none"]
  /\ pending = {} /\ trash = {} /\ known = NotSweeping /\ crashes = 0

DiskUnchanged == UNCHANGED <<disk, pending, trash, known, crashes>>

CreateFolder(p, n) ==
  /\ Folders \ DOMAIN folders # {}
  /\ p \in DOMAIN folders \cup {Root}
  /\ FolderDepth(folders, p) < MaxDepth
  /\ Siblings(folders, p, n) = {}
  /\ folders' = Added(folders, NewFolder(folders), p, n)
  /\ UNCHANGED files /\ DiskUnchanged

\* A folder is renamed, moved or both.  Whether the tree allows it is asked only when
\* the parent changes.
UpdateFolder(d, p, n) ==
  /\ d \in DOMAIN folders
  /\ p # folders[d].parent =>
       /\ p \in DOMAIN folders \cup {Root}
       /\ p \notin Descendants(folders, d)
       /\ FolderDepth(folders, p) + SubtreeHeight(folders, d) <= MaxDepth
  /\ Siblings(folders, p, n) \ {d} = {}
  /\ folders' = [folders EXCEPT ![d] = [parent |-> p, name |-> n]]
  /\ UNCHANGED files /\ DiskUnchanged

\* The JSON first; the files are unlinked when it is written.
DeleteFolder(d) ==
  /\ d \in DOMAIN folders
  /\ LET ids == Descendants(folders, d)
         gone == {f \in DOMAIN files : files[f].folder \in ids}
     IN /\ folders' = Restrict(folders, DOMAIN folders \ ids)
        /\ files' = Restrict(files, DOMAIN files \ gone)
        /\ trash' = trash \cup gone
  /\ UNCHANGED <<disk, pending, known, crashes>>

\* multer writes the files of a request before the handler runs.
Receive(fs) ==
  /\ fs # {} /\ \A f \in fs : disk[f] = "none" /\ f \notin DOMAIN files
  /\ fs \cap UNION pending = {} /\ fs \cap trash = {}
  /\ disk' = [f \in Files |-> IF f \in fs THEN "fresh" ELSE disk[f]]
  /\ pending' = pending \cup {fs}
  /\ UNCHANGED <<folders, files, trash, known, crashes>>

\* (One folder id stays free, for the one that would be too deep.)
\* The handler puts the files of a request under one path of the target, all of them
\* named n: all but the first get a number.
Upload(fs, target, path, n) ==
  /\ fs \in pending
  /\ target \in DOMAIN folders \cup {Root}
  /\ Cardinality(DOMAIN folders) + Len(path) < Cardinality(Folders)
  /\ LET place == Walk(folders, target, path)
         free == n \notin Taken(files, place.at, fs)
     IN /\ ~TooDeep(place)
        /\ folders' = place.folders
        /\ \E name \in Placements(files, place.at, fs) :
             /\ free => n \in Range(name)
             /\ files' = [f \in DOMAIN files \cup fs |->
                            IF f \in fs THEN [folder |-> place.at, name |-> name[f]]
                            ELSE files[f]]
  /\ pending' = pending \ {fs}
  /\ UNCHANGED <<disk, trash, known, crashes>>

\* The folder is gone, a path is too deep, a name is bad or the JSON cannot be written:
\* nothing is recorded, not the folders either, and the files are unlinked.
UploadFails(fs) ==
  /\ fs \in pending
  /\ pending' = pending \ {fs} /\ trash' = trash \cup fs
  /\ UNCHANGED <<folders, files, disk, known, crashes>>

\* One file is moved, renamed or both; a name given by hand must be free, a kept one
\* gets a number.
UpdateFile(f, p, n) ==
  /\ f \in DOMAIN files /\ p \in DOMAIN folders \cup {Root}
  /\ \E name \in Placements(files, p, {f}) :
       /\ \/ name[f] = n
          \/ name[f] = files[f].name
          \/ files[f].name \in Taken(files, p, {f})
       /\ files' = [files EXCEPT ![f] = [folder |-> p, name |-> name[f]]]
  /\ UNCHANGED folders /\ DiskUnchanged

\* Many files are moved by one change of the JSON; those that are gone or there
\* already are passed over.
MoveFiles(fs, p) ==
  /\ p \in DOMAIN folders \cup {Root}
  /\ LET moved == {f \in fs \cap DOMAIN files : files[f].folder # p}
     IN \E name \in Placements(files, p, moved) :
          /\ \A f \in moved : \/ name[f] = files[f].name
                              \/ Cardinality(moved) > 1
                              \/ files[f].name \in Taken(files, p, moved)
          /\ files' = [f \in DOMAIN files |->
                         IF f \in moved THEN [folder |-> p, name |-> name[f]] ELSE files[f]]
  /\ UNCHANGED folders /\ DiskUnchanged

\* Mutant: the files are unlinked first and the record goes when that is done.
DeleteFilesDiskFirst(fs) ==
  /\ fs \cap DOMAIN files # {}
  /\ disk' = [f \in Files |-> IF f \in fs THEN "none" ELSE disk[f]]
  /\ UNCHANGED <<folders, files, pending, trash, known, crashes>>

\* One file or many, by one change of the JSON.
DeleteFiles(fs) ==
  /\ fs \cap DOMAIN files # {}
  /\ files' = Restrict(files, DOMAIN files \ fs)
  /\ trash' = trash \cup (fs \cap DOMAIN files)
  /\ UNCHANGED <<folders, disk, pending, known, crashes>>

Unlink(f) ==
  /\ f \in trash
  /\ trash' = trash \ {f} /\ disk' = [disk EXCEPT ![f] = "none"]
  /\ UNCHANGED <<folders, files, pending, known, crashes>>

\* The nightly sweep reads the records, then looks at the files one by one: one that
\* was not recorded then and is older than a day is removed.
SweepStart ==
  /\ known = NotSweeping
  /\ known' = DOMAIN files
  /\ UNCHANGED <<folders, files, disk, pending, trash, crashes>>

SweepFile(f) ==
  /\ known # NotSweeping /\ f \notin known /\ disk[f] = "old"
  /\ disk' = [disk EXCEPT ![f] = "none"]
  /\ UNCHANGED <<folders, files, pending, trash, known, crashes>>

SweepEnd ==
  /\ known # NotSweeping /\ known' = NotSweeping
  /\ UNCHANGED <<folders, files, disk, pending, trash, crashes>>

\* A day passes over a file; no request and no sweep lasts that long.
Age(f) ==
  /\ disk[f] = "fresh" /\ f \notin UNION pending /\ known = NotSweeping
  /\ disk' = [disk EXCEPT ![f] = "old"]
  /\ UNCHANGED <<folders, files, pending, trash, known, crashes>>

\* The backend restarts: the handlers under way and the sweep are lost.
Crash ==
  /\ crashes < MaxCrashes
  /\ crashes' = crashes + 1
  /\ pending' = {} /\ trash' = {} /\ known' = NotSweeping
  /\ UNCHANGED <<folders, files, disk>>

Next ==
  \/ \E p \in Folders \cup {Root}, n \in Names :
       \/ CreateFolder(p, n)
       \/ \E d \in Folders : UpdateFolder(d, p, n)
       \/ \E f \in Files : UpdateFile(f, p, n)
       \/ \E fs \in SUBSET Files, path \in Paths : Upload(fs, p, path, n)
  \/ \E d \in Folders : DeleteFolder(d)
  \/ \E fs \in SUBSET Files :
       \/ Receive(fs) \/ UploadFails(fs) \/ DeleteFiles(fs)
       \/ \E p \in Folders \cup {Root} : MoveFiles(fs, p)
  \/ \E f \in Files : Unlink(f) \/ SweepFile(f) \/ Age(f)
  \/ SweepStart \/ SweepEnd \/ Crash

Spec == Init /\ [][Next]_vars

-----------------------------------------------------------------------------

TypeOK ==
  /\ DOMAIN folders \subseteq Folders
  /\ \A d \in DOMAIN folders : folders[d] \in [parent : Folders \cup {Root}, name : Names]
  /\ DOMAIN files \subseteq Files
  /\ \A f \in DOMAIN files : files[f] \in [folder : Folders \cup {Root}, name : Names]
  /\ disk \in [Files -> {"none", "fresh", "old"}]
  /\ pending \subseteq SUBSET Files /\ trash \subseteq Files
  /\ known = NotSweeping \/ known \subseteq Files
  /\ crashes \in 0..MaxCrashes

\* The folders are a tree: every parent exists, no folder is under itself (of any set
\* of folders one has its parent outside the set), none is too deep, and no two
\* folders or files of one folder have the same name.  createFolder, updateFolder,
\* upload, moveFiles of documents.service.ts.
TreeSound ==
  /\ \A d \in DOMAIN folders : folders[d].parent \in DOMAIN folders \cup {Root}
  /\ \A S \in (SUBSET DOMAIN folders) \ {{}} : \E d \in S : folders[d].parent \notin S
  /\ \A d \in DOMAIN folders : FolderDepth(folders, d) <= MaxDepth
  /\ IsInjective(folders) /\ IsInjective(files)
  /\ \A f \in DOMAIN files : files[f].folder \in DOMAIN folders \cup {Root}

\* Every file the library lists is on the disk, and no handler is about to unlink it,
\* whatever uploads, deletions, sweeps and restarts did: deleteFile, deleteFolder,
\* upload, cleanupOrphanFiles.
NoDangling == \A f \in DOMAIN files : disk[f] # "none" /\ f \notin trash
=============================================================================

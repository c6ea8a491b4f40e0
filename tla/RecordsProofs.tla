---------------------------- MODULE RecordsProofs ----------------------------
(***************************************************************************)
(* Theorems about the records that others rely on: the Playbook workspace  *)
(* of a release (PlaybookJournal), the import of components                *)
(* (ComponentImport), the archive of runs (RunArchive) and the receipt of  *)
(* a standalone job (StandaloneJob), for any number of files, imports,     *)
(* runs and component instances.                                           *)
(***************************************************************************)
EXTENDS PlaybookJournal, ComponentImport, RunArchive, StandaloneJob, DataTheorems, SequenceTheorems

---------------------------------------------------------------------------
(* The Playbook workspace.                                                   *)

\* The inductive invariant of the workspace.
JournalInv ==
  /\ JournalTypeOK /\ NoDirectoryIsEmpty /\ EditIsTraced /\ OwnMarkerRemembers /\ BaseIsManifest

LEMMA JournalFacts ==
  ASSUME JournalInv
  PROVE  /\ disk \in [Roots -> Tree] /\ made \subseteq Roots /\ leftover \subseteq Roots /\ release.root \in Roots
         /\ release.manifest \in Tree /\ Here \in Tree /\ torn \subseteq Paths
         /\ edit # NoEdit => edit \in Edits
         /\ journal # NoMarker => journal \in Markers
         /\ EmptyTree \in Tree
  BY DEF JournalInv, JournalTypeOK, Here, EmptyTree, Tree

\* The edit that holds the lock when one is requested.
LEMMA Begins ==
  ASSUME JournalInv,
         NEW kind \in {"saveFile", "saveAction", "renameFile", "deleteFile", "deleteAction",
                       "deleteDirectory", "move"},
         NEW paths \in SUBSET Paths, NEW contents \in Contents \cup {Absent}, NEW to \in Paths \cup Roots,
         Edit(kind, paths, contents, to),
         kind = "move" => /\ to \in Roots \ {release.root}
                          /\ release.root \notin made \/ to \notin made,
         kind # "move" => /\ to \in Paths /\ (Journaled(kind) => to \in paths)
                          /\ kind \in {"saveFile", "saveAction"} \/ release.root \in made,
         kind = "deleteDirectory" => \E p \in paths : Here[p] # Absent,
         kind = "saveAction" => paths \subseteq Entrypoints
  PROVE  JournalInv'
<1> USE DEF JournalInv
<1> DEFINE e == [kind |-> kind, paths |-> paths, contents |-> contents, to |-> to,
                 before |-> Here, had |-> release.root \in made,
                 step |-> IF Journaled(kind) THEN "journal" ELSE "disk"]
<1>1. /\ serving /\ edit = NoEdit /\ edit' = e
      /\ UNCHANGED <<disk, leftover, release, journal, serving, torn, published>>
      /\ made' = IF kind \in {"saveFile", "saveAction"} THEN made \cup {release.root} ELSE made
  BY DEF Edit
<1>2. /\ e \in Edits /\ e.kind = kind /\ e.paths = paths /\ e.to = to /\ e.before = Here
      /\ e.had = (release.root \in made)
      /\ e.step = IF Journaled(kind) THEN "journal" ELSE "disk"
  BY JournalFacts DEF Edits
<1>3. edit' # NoEdit
  BY <1>1, <1>2, JournalAssumption
<1> HIDE DEF e
<1>4. JournalTypeOK'
  BY <1>1, <1>2 DEF JournalTypeOK
<1>5. NoDirectoryIsEmpty'
  BY <1>1 DEF NoDirectoryIsEmpty
<1>6. EditIsTraced'
  <2>1. CASE kind = "move"
    <3>1. MoveIsTraced'
      BY <1>1, <1>2, <2>1, JournalFacts DEF MoveIsTraced, Here, Journaled, NoDirectoryIsEmpty
    <3>2. QED
      BY <1>1, <1>2, <2>1, <3>1 DEF EditIsTraced
  <2>2. CASE kind # "move"
    <3>1. FilesAreTraced'
      BY <1>1, <1>2, <2>2, JournalFacts DEF FilesAreTraced, Here, Journaled
    <3>2. QED
      BY <1>1, <1>2, <2>2, <3>1 DEF EditIsTraced
  <2>3. QED
    BY <2>1, <2>2
<1>7. ~OwnMarker'
  BY <1>1, <1>2 DEF OwnMarker, Journaled
<1>8. BaseIsManifest'
  <2>1. Base' = Base /\ Pending' = Pending
    BY <1>1, <1>2, <1>3, <1>7 DEF Base, Pending, OwnMarker, Here
  <2>2. torn # Paths => release.root \in made' \/ made' = {} \/ MovesDirectory'
    BY <1>1, <1>2 DEF BaseIsManifest, MovesDirectory
  <2>3. QED
    BY <1>1, <1>3, <2>1, <2>2 DEF BaseIsManifest
<1>9. QED
  BY <1>4, <1>5, <1>6, <1>7, <1>8 DEF OwnMarkerRemembers

\* Every request for an edit begins one.
LEMMA EveryEditBegins ==
  ASSUME JournalInv,
         \/ SaveFile \/ SaveAction \/ RenameFile \/ DeleteFile \/ DeleteAction \/ DeleteDirectory
         \/ MoveWorkspace
  PROVE  JournalInv'
<1>1. \A p \in Paths : Here[p] # Absent => release.root \in made
  BY JournalFacts DEF JournalInv, NoDirectoryIsEmpty, Here, EmptyTree
<1>2. release.bound \subseteq Entrypoints /\ Entrypoints \subseteq Paths /\ OtherFiles \subseteq Paths
  BY DEF JournalInv, JournalTypeOK, Paths
<1>3. CASE SaveFile
  BY <1>3, Begins DEF SaveFile, Journaled
<1>4. CASE SaveAction
  BY <1>2, <1>4, Begins DEF SaveAction, Journaled
<1>5. CASE RenameFile
  <2>1. PICK from \in Paths, to \in Paths : /\ Here[from] # Absent
                                            /\ Edit("renameFile", {from}, Here[from], to)
    BY <1>5 DEF RenameFile
  <2>2. Here[from] \in Contents \cup {Absent}
    BY JournalFacts DEF Tree
  <2>3. QED
    BY <1>1, <2>1, <2>2, Begins DEF Journaled
<1>6. CASE DeleteFile
  BY <1>1, <1>6, Begins DEF DeleteFile, Journaled
<1>7. CASE DeleteAction
  BY <1>1, <1>2, <1>7, Begins DEF DeleteAction, Journaled
<1>8. CASE DeleteDirectory
  <2> DEFINE dir == {p \in OtherFiles : Here[p] # Absent}
  <2>1. dir # {} /\ Edit("deleteDirectory", dir, Absent, CHOOSE p \in dir : TRUE)
    BY <1>8 DEF DeleteDirectory
  <2>2. PICK p \in dir : Edit("deleteDirectory", dir, Absent, p)
    BY <2>1
  <2>3. dir \in SUBSET Paths /\ p \in Paths /\ Here[p] # Absent
    BY <1>2
  <2> HIDE DEF dir
  <2>4. QED
    BY <1>1, <2>2, <2>3, Begins DEF Journaled
<1>9. CASE MoveWorkspace
  <2>1. PICK root \in Roots \ {release.root} : /\ release.root \notin made \/ root \notin made
                                               /\ Edit("move", {}, Absent, root)
    BY <1>9 DEF MoveWorkspace
  <2>2. QED
    BY <2>1, Begins DEF Journaled
<1>10. QED
  BY <1>3, <1>4, <1>5, <1>6, <1>7, <1>8, <1>9

LEMMA WriteMarkerStep ==
  ASSUME JournalInv, WriteMarker
  PROVE  JournalInv'
<1> USE DEF JournalInv
<1>1. /\ edit \in Edits /\ edit # NoEdit /\ edit.step = "journal" /\ serving
      /\ UNCHANGED <<disk, made, leftover, release, serving, torn, published>>
  BY JournalFacts DEF WriteMarker
<1>2. edit.kind # "move" /\ FilesAreTraced /\ Here = edit.before /\ Journaled(edit.kind)
  BY <1>1 DEF EditIsTraced, MoveIsTraced, FilesAreTraced
<1>3. ~OwnMarker
  BY <1>1 DEF OwnMarker
<1>4. CASE journal # NoMarker
  <2>1. edit' = NoEdit /\ journal' = journal
    BY <1>4 DEF WriteMarker
  <2>2. ~OwnMarker'
    BY <2>1 DEF OwnMarker
  <2>3. Base' = Base /\ Pending' = Pending
    BY <1>1, <1>2, <1>3, <2>1, <2>2 DEF Base, Pending, Here
  <2>4. ~MovesDirectory
    BY <1>2 DEF MovesDirectory
  <2>5. BaseIsManifest'
    BY <1>1, <2>1, <2>3, <2>4 DEF BaseIsManifest
  <2>6. QED
    BY <1>1, <2>1, <2>2, <2>5 DEF JournalTypeOK, NoDirectoryIsEmpty, EditIsTraced, OwnMarkerRemembers
<1>5. CASE journal = NoMarker
  <2> DEFINE m == [root |-> release.root, paths |-> edit.paths, before |-> Here]
  <2>1. m \in Markers /\ m.root = release.root /\ m.paths = edit.paths /\ m.before = Here
    BY <1>1, JournalFacts DEF Markers, Edits
  <2>2. journal' = m /\ edit' = [edit EXCEPT !.step = "disk"]
    BY <1>5 DEF WriteMarker
  <2> HIDE DEF m
  <2>3. /\ edit' \in Edits /\ edit' # NoEdit /\ journal' # NoMarker
        /\ edit'.kind = edit.kind /\ edit'.paths = edit.paths /\ edit'.to = edit.to
        /\ edit'.before = edit.before /\ edit'.had = edit.had /\ edit'.step = "disk"
    BY <1>1, <2>1, <2>2, JournalAssumption DEF Edits
  <2>4. JournalTypeOK' /\ NoDirectoryIsEmpty'
    BY <1>1, <2>1, <2>2, <2>3 DEF JournalTypeOK, NoDirectoryIsEmpty
  <2>5. EditIsTraced'
    BY <1>1, <1>2, <2>3 DEF EditIsTraced, FilesAreTraced, Here
  <2>6. OwnMarker'
    BY <1>2, <2>3 DEF OwnMarker
  <2>7. OwnMarkerRemembers'
    BY <1>1, <1>2, <2>1, <2>2, <2>3 DEF OwnMarkerRemembers
  <2>8. BaseIsManifest'
    <3>1. Pending = {} /\ Pending' = {} /\ Base' = Here /\ Base = Here
      BY <1>1, <1>2, <1>5, <2>3, <2>6 DEF Pending, Base
    <3>2. edit.paths \subseteq Paths
      BY <1>1 DEF Edits
    <3>3. QED
      BY <1>1, <1>2, <2>1, <2>2, <2>3, <3>1, <3>2 DEF BaseIsManifest, FilesAreTraced
  <2>9. QED
    BY <2>4, <2>5, <2>7, <2>8
<1>6. QED
  BY <1>4, <1>5

\* What a step of an edit of files does to the disk: it touches the paths the
\* edit names, in the directory of the release.
LEMMA FilesChange ==
  ASSUME JournalInv, ChangeDisk, edit.kind # "move"
  PROVE  /\ disk' \in [Roots -> Tree] /\ \A r \in Roots \ {release.root} : disk'[r] = disk[r]
         /\ \A p \in Paths \ (edit.paths \cup {edit.to}) : disk'[release.root][p] = Here[p]
<1> USE DEF JournalInv
<1>1. /\ edit \in Edits /\ edit # NoEdit /\ edit.step = "disk" /\ disk' = AfterDisk
      /\ release.root \in Roots /\ disk \in [Roots -> Tree] /\ Here \in Tree
  BY JournalFacts DEF ChangeDisk
<1>2. ASSUME NEW t \in Tree, disk' = [disk EXCEPT ![release.root] = t],
             \A p \in Paths \ (edit.paths \cup {edit.to}) : t[p] = Here[p]
      PROVE  /\ disk' \in [Roots -> Tree] /\ \A r \in Roots \ {release.root} : disk'[r] = disk[r]
             /\ \A p \in Paths \ (edit.paths \cup {edit.to}) : disk'[release.root][p] = Here[p]
  BY <1>1, <1>2
<1>3. edit.contents \in Contents \cup {Absent}
  BY <1>1 DEF Edits
<1>4. CASE edit.kind = "renameFile"
  <2> DEFINE t == [p \in Paths |-> IF p = edit.to THEN edit.contents
                                   ELSE IF p \in edit.paths THEN Absent ELSE Here[p]]
  <2>1. t \in Tree /\ \A p \in Paths \ (edit.paths \cup {edit.to}) : t[p] = Here[p]
    BY <1>1, <1>3 DEF Tree
  <2>2. disk' = [disk EXCEPT ![release.root] = t]
    BY <1>1, <1>4 DEF AfterDisk
  <2> HIDE DEF t
  <2>3. QED
    BY <1>2, <2>1, <2>2
<1>5. CASE edit.kind = "deleteDirectory"
  <2>1. \E p \in edit.paths : Here[p] # Absent
    BY <1>1, <1>5 DEF EditIsTraced, FilesAreTraced
  <2>2. PICK p \in edit.paths : p = CHOOSE q \in edit.paths : Here[q] # Absent
    BY <2>1
  <2> DEFINE t == [Here EXCEPT ![p] = Absent]
  <2>3. t \in Tree /\ \A q \in Paths \ (edit.paths \cup {edit.to}) : t[q] = Here[q]
    BY <1>1, <2>2 DEF Tree
  <2>4. disk' = [disk EXCEPT ![release.root][p] = Absent]
    BY <1>1, <1>5, <2>2 DEF AfterDisk
  <2>5. disk' = [disk EXCEPT ![release.root] = t]
    BY <2>4 DEF Here
  <2> HIDE DEF t
  <2>6. QED
    BY <1>2, <2>3, <2>5
<1>6. CASE edit.kind \notin {"renameFile", "deleteDirectory"}
  <2> DEFINE t == [p \in Paths |-> IF p \in edit.paths THEN edit.contents ELSE Here[p]]
  <2>1. t \in Tree /\ \A p \in Paths \ (edit.paths \cup {edit.to}) : t[p] = Here[p]
    BY <1>1, <1>3 DEF Tree
  <2>2. disk' = [disk EXCEPT ![release.root] = t]
    BY <1>1, <1>6 DEF AfterDisk
  <2> HIDE DEF t
  <2>3. QED
    BY <1>2, <2>1, <2>2
<1>7. QED
  BY <1>4, <1>5, <1>6

\* A directory is moved to where there is none.
LEMMA DirectoryMoves ==
  ASSUME JournalInv, NEW from \in Roots, NEW to \in Roots \ {from}, NEW t \in Tree,
         disk' = [disk EXCEPT ![to] = t, ![from] = EmptyTree]
  PROVE  /\ disk' \in [Roots -> Tree] /\ disk'[to] = t /\ disk'[from] = EmptyTree
         /\ \A r \in Roots \ {from, to} : disk'[r] = disk[r]
<1>1. disk \in [Roots -> Tree] /\ EmptyTree \in Tree
  BY JournalFacts
<1>2. QED
  BY <1>1

LEMMA ChangeDiskStep ==
  ASSUME JournalInv, ChangeDisk
  PROVE  JournalInv'
<1> USE DEF JournalInv
<1>1. /\ edit \in Edits /\ edit # NoEdit /\ edit.step = "disk" /\ serving
      /\ UNCHANGED <<release, journal, serving, torn, published>>
      /\ edit' = edit \/ edit' = [edit EXCEPT !.step = "commit"]
      /\ leftover' = IF MovesDirectory THEN Carried(release.root, edit.to) ELSE leftover
  BY JournalFacts DEF ChangeDisk
<1>2. /\ edit' \in Edits /\ edit' # NoEdit /\ edit'.kind = edit.kind /\ edit'.paths = edit.paths
      /\ edit'.to = edit.to /\ edit'.before = edit.before /\ edit'.had = edit.had
      /\ edit'.step = "commit" \/ edit' = edit
  BY <1>1, JournalAssumption DEF Edits
<1>3. OwnMarker' = OwnMarker /\ Base' = Base /\ Pending' = Pending /\ MovesDirectory' = MovesDirectory
  BY <1>1, <1>2 DEF OwnMarker, Base, Pending, MovesDirectory
<1>4. OwnMarkerRemembers'
  BY <1>1, <1>2, <1>3 DEF OwnMarkerRemembers
<1>5. CASE edit.kind = "move"
  <2>1. MoveIsTraced /\ edit'.step = "commit"
    BY <1>1, <1>2, <1>5 DEF EditIsTraced, ChangeDisk, Edits
  <2>2. CASE ~edit.had
    <3>1. UNCHANGED <<disk, made, leftover>>
      BY <1>1, <1>5, <2>2 DEF ChangeDisk, MovesDirectory
    <3>2. EditIsTraced'
      BY <1>1, <1>2, <1>5, <2>1, <2>2, <3>1 DEF EditIsTraced, MoveIsTraced, Here
    <3>3. BaseIsManifest'
      BY <1>1, <1>2, <1>3, <3>1 DEF BaseIsManifest
    <3>4. QED
      BY <1>1, <1>2, <1>4, <3>1, <3>2, <3>3 DEF JournalTypeOK, NoDirectoryIsEmpty
  <2>3. CASE edit.had
    <3>1. /\ edit.to \in Roots \ {release.root} /\ release.root \in made /\ edit.to \notin made
          /\ Here = edit.before /\ release.root \in Roots
      BY <1>1, <2>1, <2>3, JournalFacts DEF MoveIsTraced
    <3>2. /\ disk' = [disk EXCEPT ![edit.to] = Here, ![release.root] = EmptyTree]
          /\ made' = (made \ {release.root}) \cup {edit.to}
      BY <1>5, <2>3 DEF ChangeDisk, MovesDirectory, AfterDisk
    <3>3. /\ disk' \in [Roots -> Tree] /\ disk'[edit.to] = Here /\ disk'[release.root] = EmptyTree
          /\ \A r \in Roots \ {release.root, edit.to} : disk'[r] = disk[r]
      BY <3>1, <3>2, JournalFacts, DirectoryMoves
    <3>4. JournalTypeOK' /\ NoDirectoryIsEmpty'
      <4>1. leftover' \subseteq Roots
        BY <1>1, <3>1, JournalFacts DEF Carried
      <4>2. QED
        BY <1>1, <1>2, <3>1, <3>2, <3>3, <4>1 DEF JournalTypeOK, NoDirectoryIsEmpty
    <3>5. EditIsTraced'
      BY <1>1, <1>2, <1>5, <2>1, <2>3, <3>1, <3>2, <3>3 DEF EditIsTraced, MoveIsTraced
    <3>6. BaseIsManifest'
      BY <1>1, <1>2, <1>3, <1>5, <2>3 DEF BaseIsManifest, MovesDirectory
    <3>7. QED
      BY <1>4, <3>4, <3>5, <3>6
  <2>4. QED
    BY <2>2, <2>3
<1>6. CASE edit.kind # "move"
  <2>1. FilesAreTraced /\ made' = made /\ leftover' = leftover
    BY <1>1, <1>6 DEF EditIsTraced, ChangeDisk, MovesDirectory
  <2>2. /\ disk' \in [Roots -> Tree] /\ \A r \in Roots \ {release.root} : disk'[r] = disk[r]
        /\ \A p \in Paths \ (edit.paths \cup {edit.to}) : disk'[release.root][p] = Here[p]
    BY <1>6, FilesChange
  <2>3. JournalTypeOK' /\ NoDirectoryIsEmpty'
    BY <1>1, <1>2, <2>1, <2>2, JournalFacts DEF JournalTypeOK, NoDirectoryIsEmpty, FilesAreTraced
  <2>4. FilesAreTraced'
    <3>1. /\ release.root \in made' /\ edit'.to \in Paths
          /\ \A p \in Paths \ (edit'.paths \cup {edit'.to}) : Here'[p] = edit'.before[p]
          /\ Journaled(edit'.kind) => edit'.to \in edit'.paths
          /\ edit'.kind = "saveAction" => edit'.paths \subseteq Entrypoints
          /\ edit'.step \notin {"journal", "discard"}
      BY <1>1, <1>2, <2>1, <2>2 DEF FilesAreTraced, Here
    <3>2. ASSUME edit'.kind = "deleteDirectory", edit'.step = "disk"
          PROVE  \E p \in edit'.paths : Here'[p] # Absent
      BY <1>1, <1>2, <3>2 DEF ChangeDisk, Here
    <3>3. QED
      BY <1>1, <3>1, <3>2 DEF FilesAreTraced
  <2>5. EditIsTraced'
    BY <1>1, <1>2, <1>6, <2>4 DEF EditIsTraced
  <2>6. BaseIsManifest'
    BY <1>1, <1>2, <1>3, <2>1 DEF BaseIsManifest, FilesAreTraced
  <2>7. QED
    BY <1>4, <2>3, <2>5, <2>6
<1>7. QED
  BY <1>5, <1>6

\* An edit is over: what is left must be what the manifest or the marker says.
LEMMA EditIsOver ==
  ASSUME JournalInv, JournalTypeOK', NoDirectoryIsEmpty', edit' = NoEdit, BaseIsManifest'
  PROVE  JournalInv'
<1>1. ~OwnMarker'
  BY DEF OwnMarker
<1>2. QED
  BY <1>1 DEF JournalInv, EditIsTraced, OwnMarkerRemembers

LEMMA CommitStep ==
  ASSUME JournalInv, Commit
  PROVE  JournalInv'
<1> USE DEF JournalInv
<1>1. /\ edit \in Edits /\ edit # NoEdit /\ edit.step = "commit" /\ edit' = NoEdit
      /\ UNCHANGED <<disk, made, leftover, serving, published>>
      /\ release' = CommittedRow
      /\ journal' = IF Journaled(edit.kind) THEN NoMarker ELSE journal
      /\ torn' = (IF edit.kind = "move" THEN torn ELSE {}) \cup
                 (IF ~ Journaled(edit.kind) /\ journal # NoMarker THEN Paths ELSE {})
  BY JournalFacts DEF Commit, MarkerAfterCommit
<1>2. torn' \subseteq Paths /\ torn \subseteq Paths
  BY <1>1, JournalFacts
<1>3. ~OwnMarker' /\ Base' = Here'
  BY <1>1 DEF OwnMarker, Base
<1>4. CASE edit.kind = "move"
  <2>1. MoveIsTraced
    BY <1>1, <1>4 DEF EditIsTraced
  <2>2. release' = [release EXCEPT !.root = edit.to] /\ journal' = journal
    BY <1>1, <1>4 DEF CommittedRow, Journaled
  <2>3. /\ release' \in [status : {"draft", "released"}, root : Roots, manifest : Tree, bound : SUBSET Entrypoints]
        /\ release'.root = edit.to /\ release'.manifest = release.manifest
    BY <2>1, <2>2 DEF JournalTypeOK, MoveIsTraced
  <2>4. JournalTypeOK' /\ NoDirectoryIsEmpty'
    BY <1>1, <1>2, <2>2, <2>3 DEF JournalTypeOK, NoDirectoryIsEmpty
  <2>5. BaseIsManifest'
    <3> SUFFICES ASSUME torn' # Paths
                 PROVE  /\ \A p \in Paths \ (torn' \cup Pending') : Base'[p] = release'.manifest[p]
                        /\ journal' = NoMarker
                        /\ release'.root \in made' \/ made' = {}
      BY DEF BaseIsManifest
    <3>1. journal = NoMarker /\ torn' = torn /\ Pending = {}
      BY <1>1, <1>2, <1>4 DEF Journaled, Pending
    <3>2. /\ \A p \in Paths \ torn : edit.before[p] = release.manifest[p]
          /\ release.root \in made \/ made = {} \/ MovesDirectory
      BY <1>1, <3>1 DEF BaseIsManifest, Base
    <3>3. disk[edit.to] = edit.before /\ (edit.to \in made \/ made = {})
      <4>1. CASE edit.had
        BY <1>1, <2>1, <4>1 DEF MoveIsTraced
      <4>2. CASE ~edit.had
        <5>1. made = {} /\ edit.before = EmptyTree
          BY <2>1, <3>2, <4>2 DEF MoveIsTraced, MovesDirectory
        <5>2. QED
          BY <2>1, <5>1 DEF MoveIsTraced, NoDirectoryIsEmpty
      <4>3. QED
        BY <4>1, <4>2
    <3>4. QED
      BY <1>1, <1>3, <2>2, <2>3, <3>1, <3>2, <3>3 DEF Here
  <2>6. QED
    BY <1>1, <2>4, <2>5, EditIsOver
<1>5. CASE edit.kind # "move"
  <2>1. FilesAreTraced
    BY <1>1, <1>5 DEF EditIsTraced
  <2>2. PICK b \in SUBSET Entrypoints : release' = [release EXCEPT !.manifest = Here, !.bound = b]
    <3>1. /\ release.bound \subseteq Entrypoints
          /\ edit.kind = "saveAction" => release.bound \cup edit.paths \subseteq Entrypoints
      BY <2>1 DEF JournalTypeOK, FilesAreTraced
    <3> DEFINE b == IF edit.kind = "saveAction" THEN release.bound \cup edit.paths
                    ELSE IF edit.kind = "deleteAction" THEN release.bound \ edit.paths ELSE release.bound
    <3>2. b \in SUBSET Entrypoints
      BY <3>1
    <3>3. release' = [release EXCEPT !.manifest = Here, !.bound = b]
      BY <1>1, <1>5 DEF CommittedRow
    <3> HIDE DEF b
    <3>4. QED
      BY <3>2, <3>3
  <2>3. /\ release' \in [status : {"draft", "released"}, root : Roots, manifest : Tree, bound : SUBSET Entrypoints]
        /\ release'.root = release.root /\ release'.manifest = Here
    BY <2>2, JournalFacts DEF JournalTypeOK
  <2>4. JournalTypeOK' /\ NoDirectoryIsEmpty'
    BY <1>1, <1>2, <2>3 DEF JournalTypeOK, NoDirectoryIsEmpty
  <2>5. BaseIsManifest'
    BY <1>1, <1>2, <1>3, <2>1, <2>3 DEF BaseIsManifest, Here, FilesAreTraced
  <2>6. QED
    BY <1>1, <2>4, <2>5, EditIsOver
<1>6. QED
  BY <1>4, <1>5

LEMMA StepFailsStep ==
  ASSUME JournalInv, StepFails
  PROVE  JournalInv'
<1> USE DEF JournalInv
<1>1. /\ edit \in Edits /\ edit # NoEdit /\ edit.step \in {"disk", "commit"}
      /\ UNCHANGED <<disk, made, leftover, release, journal, serving, torn, published>>
      /\ edit' = [edit EXCEPT !.step = "undo"]
  BY JournalFacts DEF StepFails
<1>2. /\ edit' \in Edits /\ edit' # NoEdit /\ edit'.kind = edit.kind /\ edit'.paths = edit.paths
      /\ edit'.to = edit.to /\ edit'.before = edit.before /\ edit'.had = edit.had /\ edit'.step = "undo"
  BY <1>1, JournalAssumption DEF Edits
<1>3. OwnMarker' = OwnMarker /\ Base' = Base /\ Pending' = Pending /\ MovesDirectory' = MovesDirectory
  BY <1>1, <1>2 DEF OwnMarker, Base, Pending, MovesDirectory
<1>4. EditIsTraced'
  BY <1>1, <1>2 DEF EditIsTraced, MoveIsTraced, FilesAreTraced, Here
<1>5. QED
  BY <1>1, <1>2, <1>3, <1>4 DEF JournalTypeOK, NoDirectoryIsEmpty, OwnMarkerRemembers, BaseIsManifest

\* After the undo everything is as the edit found it.
LEMMA UndoRestores ==
  ASSUME JournalInv, Undo
  PROVE  /\ disk' \in [Roots -> Tree] /\ disk'[release.root] = edit.before /\ made' \subseteq Roots
         /\ leftover' \subseteq Roots /\ NoDirectoryIsEmpty'
         /\ release.root \in made' \/ (edit.kind = "move" /\ ~edit.had /\ made' = made)
<1> USE DEF JournalInv
<1>1. /\ edit \in Edits /\ edit # NoEdit /\ edit.step = "undo" /\ disk' = Undone
      /\ made' = IF MovesBack THEN (made \ {edit.to}) \cup {release.root} ELSE made
      /\ release.root \in Roots /\ disk \in [Roots -> Tree] /\ Here \in Tree /\ made \subseteq Roots
      /\ edit.before \in Tree
  BY JournalFacts DEF Undo, Edits
<1>2. leftover' \subseteq Roots
  BY <1>1, JournalFacts DEF Undo, Carried
<1>3. CASE edit.kind = "move" /\ MovesBack
  <2>1. MoveIsTraced /\ edit.to \in Roots \ {release.root}
    BY <1>1, <1>3 DEF EditIsTraced, MoveIsTraced
  <2>2. disk' = [disk EXCEPT ![release.root] = edit.before, ![edit.to] = EmptyTree]
    BY <1>1, <1>3 DEF Undone
  <2>3. /\ disk' \in [Roots -> Tree] /\ disk'[release.root] = edit.before /\ disk'[edit.to] = EmptyTree
        /\ \A r \in Roots \ {release.root, edit.to} : disk'[r] = disk[r]
    <3>1. edit.to \in Roots /\ release.root \in Roots \ {edit.to} /\ edit.before \in Tree
      BY <1>1, <2>1
    <3>2. QED
      BY <2>2, <3>1, DirectoryMoves
  <2>4. made' = (made \ {edit.to}) \cup {release.root}
    BY <1>1, <1>3
  <2>5. NoDirectoryIsEmpty'
    <3>1. \A r \in Roots \ made' : disk'[r] = EmptyTree
      BY <2>1, <2>3, <2>4 DEF NoDirectoryIsEmpty
    <3>2. QED
      BY <3>1 DEF NoDirectoryIsEmpty, EmptyTree
  <2>6. QED
    BY <1>1, <1>2, <2>1, <2>3, <2>4, <2>5
<1>4. CASE edit.kind = "move" /\ ~MovesBack
  <2>1. MoveIsTraced /\ UNCHANGED <<disk, made>>
    BY <1>1, <1>4 DEF EditIsTraced, Undone
  <2>2. Here = edit.before /\ (release.root \in made \/ ~edit.had)
    BY <1>1, <1>4, <2>1 DEF MoveIsTraced, MovesBack, MovesDirectory, NoDirectoryIsEmpty, Here
  <2>3. QED
    BY <1>1, <1>4, <1>2, <2>1, <2>2 DEF NoDirectoryIsEmpty, Here
<1>5. CASE edit.kind # "move"
  <2> DEFINE t == [p \in Paths |-> IF p \in edit.paths \cup {edit.to} THEN edit.before[p] ELSE Here[p]]
  <2>1. disk' = [disk EXCEPT ![release.root] = t] /\ made' = made
    BY <1>1, <1>5 DEF Undone, MovesBack, MovesDirectory
  <2>2. FilesAreTraced
    BY <1>1, <1>5 DEF EditIsTraced
  <2>3. t = edit.before
    <3>1. \A p \in Paths : t[p] = edit.before[p]
      BY <2>2 DEF FilesAreTraced
    <3>2. QED
      BY <1>1, <3>1 DEF Tree
  <2>4. QED
    BY <1>1, <1>2, <2>1, <2>2, <2>3 DEF NoDirectoryIsEmpty, FilesAreTraced
<1>6. QED
  BY <1>3, <1>4, <1>5

LEMMA UndoStep ==
  ASSUME JournalInv, Undo
  PROVE  JournalInv'
<1> USE DEF JournalInv
<1>1. /\ edit \in Edits /\ edit # NoEdit /\ edit.step = "undo" /\ serving
      /\ UNCHANGED <<release, journal, serving, torn, published>>
      /\ edit' = IF Journaled(edit.kind) THEN [edit EXCEPT !.step = "discard"] ELSE NoEdit
  BY JournalFacts DEF Undo
<1>2. /\ disk' \in [Roots -> Tree] /\ disk'[release.root] = edit.before /\ made' \subseteq Roots
      /\ leftover' \subseteq Roots /\ NoDirectoryIsEmpty'
      /\ release.root \in made' \/ (edit.kind = "move" /\ ~edit.had /\ made' = made)
  BY UndoRestores
<1>3. torn # Paths => release.root \in made' \/ made' = {}
  BY <1>1, <1>2 DEF BaseIsManifest, MovesDirectory, EditIsTraced, MoveIsTraced
<1>4. CASE Journaled(edit.kind)
  <2>1. /\ edit' \in Edits /\ edit' # NoEdit /\ edit'.kind = edit.kind /\ edit'.paths = edit.paths
        /\ edit'.to = edit.to /\ edit'.before = edit.before /\ edit'.had = edit.had /\ edit'.step = "discard"
    BY <1>1, <1>4, JournalAssumption DEF Edits
  <2>2. OwnMarker /\ OwnMarker' /\ Base' = Base /\ Pending' = Pending /\ edit.kind # "move"
    BY <1>1, <1>4, <2>1 DEF OwnMarker, Base, Pending, Journaled
  <2>3. EditIsTraced'
    BY <1>1, <1>2, <1>4, <2>1, <2>2 DEF EditIsTraced, FilesAreTraced, Here
  <2>4. QED
    BY <1>1, <1>2, <1>3, <2>1, <2>2, <2>3 DEF JournalTypeOK, OwnMarkerRemembers, BaseIsManifest
<1>5. CASE ~Journaled(edit.kind)
  <2>1. edit' = NoEdit /\ ~OwnMarker /\ ~OwnMarker'
    BY <1>1, <1>5 DEF OwnMarker
  <2>2. Base' = Base /\ Pending' = Pending
    BY <1>1, <1>2, <2>1 DEF Base, Pending, Here
  <2>3. JournalTypeOK' /\ BaseIsManifest'
    BY <1>1, <1>2, <1>3, <2>1, <2>2 DEF JournalTypeOK, BaseIsManifest
  <2>4. QED
    BY <1>2, <2>1, <2>3, EditIsOver
<1>6. QED
  BY <1>4, <1>5

\* A journaled edit stops at any of its steps and its marker stays.
LEMMA MarkerStays ==
  ASSUME JournalInv, edit # NoEdit, Journaled(edit.kind), edit' = NoEdit,
         UNCHANGED <<disk, made, release, journal, torn>>
  PROVE  BaseIsManifest'
<1> USE DEF JournalInv
<1>1. edit.kind # "move" /\ FilesAreTraced /\ edit \in Edits
  BY JournalFacts DEF Journaled, EditIsTraced
<1>2. ~OwnMarker' /\ Base' = Here
  BY DEF OwnMarker, Base, Here
<1>3. CASE OwnMarker
  <2>1. Pending = {} /\ Pending' = edit.paths /\ Base = edit.before
    BY <1>2, <1>3 DEF Pending, Base, OwnMarkerRemembers
  <2>2. \A p \in Paths \ edit.paths : Here[p] = edit.before[p]
    BY <1>1 DEF FilesAreTraced
  <2>3. QED
    BY <1>1, <1>2, <2>1, <2>2 DEF BaseIsManifest, FilesAreTraced, MovesDirectory
<1>4. CASE ~OwnMarker
  <2>1. Here = edit.before /\ Pending' = Pending /\ Base = edit.before
    BY <1>1, <1>2, <1>4 DEF OwnMarker, FilesAreTraced, Pending, Base
  <2>2. QED
    BY <1>1, <1>2, <2>1 DEF BaseIsManifest, FilesAreTraced, MovesDirectory
<1>5. QED
  BY <1>3, <1>4

LEMMA DiscardStep ==
  ASSUME JournalInv, DiscardMarker
  PROVE  JournalInv'
<1> USE DEF JournalInv
<1>1. /\ edit # NoEdit /\ edit.step = "discard" /\ journal' = NoMarker /\ edit' = NoEdit
      /\ UNCHANGED <<disk, made, leftover, release, serving, torn, published>>
  BY DEF DiscardMarker
<1>2. edit.kind # "move" /\ FilesAreTraced /\ Here = edit.before /\ OwnMarker
  BY <1>1 DEF EditIsTraced, MoveIsTraced, FilesAreTraced, OwnMarker
<1>3. Pending = {} /\ Base = Here /\ Pending' = {} /\ Base' = Here
  BY <1>1, <1>2 DEF Pending, Base, Here
<1>4. JournalTypeOK' /\ NoDirectoryIsEmpty' /\ BaseIsManifest'
  BY <1>1, <1>2, <1>3 DEF JournalTypeOK, NoDirectoryIsEmpty, BaseIsManifest, FilesAreTraced
<1>5. QED
  BY <1>1, <1>4, EditIsOver

LEMMA InterruptedStep ==
  ASSUME JournalInv, UndoFails \/ CrashEdit
  PROVE  JournalInv'
<1> USE DEF JournalInv
<1>1. /\ UNCHANGED <<disk, made, release, journal, published>> /\ edit' = NoEdit /\ serving' \in BOOLEAN
      /\ torn' = IF edit = NoEdit \/ Journaled(edit.kind) THEN torn ELSE torn \cup Paths
      /\ leftover' \subseteq leftover \cup {release.root}
  BY DEF UndoFails, CrashEdit, JournalTypeOK
<1>2. torn \subseteq Paths /\ leftover' \subseteq Roots
  BY <1>1, JournalFacts
<1>3. JournalTypeOK' /\ NoDirectoryIsEmpty'
  BY <1>1, <1>2 DEF JournalTypeOK, NoDirectoryIsEmpty
<1>4. BaseIsManifest'
  <2>1. CASE edit = NoEdit
    <3>1. Base' = Base /\ Pending' = Pending /\ torn' = torn
      BY <1>1, <2>1 DEF Base, Pending, OwnMarker, Here
    <3>2. QED
      BY <1>1, <2>1, <3>1 DEF BaseIsManifest
  <2>2. CASE edit # NoEdit /\ Journaled(edit.kind)
    BY <1>1, <2>2, MarkerStays
  <2>3. CASE edit # NoEdit /\ ~Journaled(edit.kind)
    <3>1. torn' = Paths
      BY <1>1, <1>2, <2>3
    <3>2. QED
      BY <3>1 DEF BaseIsManifest
  <2>4. QED
    BY <2>1, <2>2, <2>3
<1>5. QED
  BY <1>1, <1>3, <1>4, EditIsOver

LEMMA PublishJournalStep ==
  ASSUME JournalInv, Publish
  PROVE  JournalInv'
<1> USE DEF JournalInv
<1>1. /\ UNCHANGED <<disk, made, leftover, journal, edit, serving, torn>> /\ edit = NoEdit /\ published' = Here
      /\ release' = [release EXCEPT !.status = "released"]
  BY DEF Publish
<1>2. /\ release' \in [status : {"draft", "released"}, root : Roots, manifest : Tree, bound : SUBSET Entrypoints]
      /\ release'.root = release.root /\ release'.manifest = release.manifest
  BY <1>1 DEF JournalTypeOK
<1>3. Base' = Base /\ Pending' = Pending
  BY <1>1, <1>2 DEF Base, Pending, OwnMarker, Here
<1>4. JournalTypeOK' /\ NoDirectoryIsEmpty' /\ BaseIsManifest'
  BY <1>1, <1>2, <1>3, JournalFacts DEF JournalTypeOK, NoDirectoryIsEmpty, BaseIsManifest
<1>5. QED
  BY <1>1, <1>4, EditIsOver

\* Interrupted, it has put nothing back yet, but the directory is there.
LEMMA CrashRecoveryStep ==
  ASSUME JournalInv, CrashRecovery
  PROVE  JournalInv'
<1> USE DEF JournalInv
<1>1. /\ journal \in Markers /\ journal # NoMarker /\ ~serving
      /\ made' = made \cup {journal.root} /\ leftover' = leftover \cup {journal.root}
      /\ UNCHANGED <<disk, release, journal, edit, serving, torn, published>>
  BY JournalFacts DEF CrashRecovery
<1>2. journal.root \in Roots /\ edit = NoEdit /\ edit' = NoEdit
  BY <1>1 DEF Markers, EditIsTraced
<1>3. JournalTypeOK' /\ NoDirectoryIsEmpty'
  BY <1>1, <1>2 DEF JournalTypeOK, NoDirectoryIsEmpty
<1>4. Base' = Base /\ Pending' = Pending
  BY <1>1, <1>2 DEF Base, Pending, OwnMarker, Here
<1>5. BaseIsManifest'
  BY <1>1, <1>2, <1>4 DEF BaseIsManifest
<1>6. QED
  BY <1>2, <1>3, <1>5, EditIsOver

\* A restarted server puts back what the marker remembers.
LEMMA RecoverStep ==
  ASSUME JournalInv, RecoverMutations
  PROVE  JournalInv'
<1> USE DEF JournalInv
<1>1. /\ ~serving /\ serving' = TRUE /\ journal' = NoMarker
      /\ UNCHANGED <<leftover, release, edit, torn, published>>
      /\ disk' = IF journal = NoMarker THEN disk ELSE Restored
      /\ made' = IF journal # NoMarker /\ \E p \in journal.paths : journal.before[p] # Absent
                   THEN made \cup {journal.root} ELSE made
  BY DEF RecoverMutations
<1>2. edit = NoEdit /\ ~OwnMarker /\ ~OwnMarker' /\ Base = Here /\ Base' = Here' /\ Pending' = {}
  BY <1>1 DEF EditIsTraced, OwnMarker, Base, Pending
<1>3. CASE journal = NoMarker
  <2>1. UNCHANGED <<disk, made>> /\ Pending = {}
    BY <1>1, <1>3 DEF Pending
  <2>2. JournalTypeOK' /\ NoDirectoryIsEmpty' /\ BaseIsManifest'
    BY <1>1, <1>2, <2>1 DEF JournalTypeOK, NoDirectoryIsEmpty, BaseIsManifest, Here
  <2>3. QED
    BY <1>1, <1>2, <2>2, EditIsOver
<1>4. CASE journal # NoMarker
  <2> DEFINE t == [p \in Paths |-> IF p \in journal.paths THEN journal.before[p] ELSE disk[journal.root][p]]
  <2>1. journal \in Markers /\ journal.root \in Roots /\ journal.before \in Tree /\ Pending = journal.paths
    BY <1>2, <1>4, JournalFacts DEF Markers, Pending
  <2>2. t \in Tree /\ disk' = [disk EXCEPT ![journal.root] = t]
    BY <1>1, <1>4, <2>1, JournalFacts DEF Restored, Tree
  <2>3. /\ disk' \in [Roots -> Tree] /\ disk'[journal.root] = t
        /\ \A r \in Roots \ {journal.root} : disk'[r] = disk[r]
    BY <2>1, <2>2, JournalFacts
  <2>4. made' \subseteq Roots /\ made \subseteq made' /\ made' \subseteq made \cup {journal.root}
    BY <1>1, <2>1, JournalFacts
  <2>5. journal.root \notin made' => t = EmptyTree
    <3> SUFFICES ASSUME journal.root \notin made' PROVE t = EmptyTree
      OBVIOUS
    <3>1. \A p \in journal.paths : journal.before[p] = Absent
      BY <1>1, <1>4
    <3>2. disk[journal.root] = EmptyTree
      BY <2>1, <2>4 DEF NoDirectoryIsEmpty
    <3>3. \A p \in Paths : t[p] = Absent
      BY <3>1, <3>2 DEF EmptyTree
    <3>4. QED
      BY <2>2, <3>3 DEF EmptyTree, Tree
  <2>6. JournalTypeOK' /\ NoDirectoryIsEmpty'
    BY <1>1, <2>3, <2>4, <2>5 DEF JournalTypeOK, NoDirectoryIsEmpty
  <2>7. BaseIsManifest'
    <3> SUFFICES ASSUME torn # Paths
                 PROVE  /\ \A p \in Paths \ torn : Here'[p] = release.manifest[p]
                        /\ release.root \in made' \/ made' = {}
      BY <1>1, <1>2 DEF BaseIsManifest
    <3>1. /\ \A p \in Paths \ (torn \cup journal.paths) : Here[p] = release.manifest[p]
          /\ journal.root = release.root
          /\ \A p \in journal.paths \ torn : journal.before[p] = release.manifest[p]
          /\ release.root \in made \/ made = {}
      BY <1>2, <1>4, <2>1 DEF BaseIsManifest
    <3>2. \A p \in Paths \ torn : t[p] = release.manifest[p]
      BY <3>1 DEF Here
    <3>3. QED
      BY <1>1, <2>3, <2>4, <3>1, <3>2 DEF Here
  <2>8. QED
    BY <1>1, <1>2, <2>6, <2>7, EditIsOver
<1>5. QED
  BY <1>3, <1>4

LEMMA JournalStarts ==
  ASSUME JournalInit
  PROVE  JournalInv
<1> USE DEF JournalInit
<1>1. EmptyTree \in Tree
  BY DEF EmptyTree, Tree
<1>2. PICK root \in Roots : release = [status |-> "draft", root |-> root, manifest |-> EmptyTree, bound |-> {}]
  OBVIOUS
<1>3. JournalTypeOK /\ NoDirectoryIsEmpty
  BY <1>1, <1>2 DEF JournalTypeOK, NoDirectoryIsEmpty
<1>4. ~OwnMarker /\ Base = EmptyTree
  BY <1>2 DEF OwnMarker, Base, Here
<1>5. QED
  BY <1>2, <1>3, <1>4 DEF JournalInv, EditIsTraced, OwnMarkerRemembers, BaseIsManifest

LEMMA JournalStep ==
  ASSUME JournalInv, [JournalNext]_journalVars
  PROVE  JournalInv'
<1>1. CASE \/ SaveFile \/ SaveAction \/ RenameFile \/ DeleteFile \/ DeleteAction \/ DeleteDirectory
           \/ MoveWorkspace
  BY <1>1, EveryEditBegins
<1>2. CASE WriteMarker
  BY <1>2, WriteMarkerStep
<1>3. CASE ChangeDisk
  BY <1>3, ChangeDiskStep
<1>4. CASE Commit
  BY <1>4, CommitStep
<1>5. CASE StepFails
  BY <1>5, StepFailsStep
<1>6. CASE Undo
  BY <1>6, UndoStep
<1>7. CASE DiscardMarker
  BY <1>7, DiscardStep
<1>8. CASE UndoFails \/ CrashEdit
  BY <1>8, InterruptedStep
<1>9. CASE Publish
  BY <1>9, PublishJournalStep
<1>10. CASE RecoverMutations
  BY <1>10, RecoverStep
<1>11. CASE CrashRecovery
  BY <1>11, CrashRecoveryStep
<1>12. CASE UNCHANGED journalVars
  BY <1>12 DEF journalVars, JournalInv, JournalTypeOK, NoDirectoryIsEmpty, EditIsTraced, MoveIsTraced,
               FilesAreTraced, OwnMarkerRemembers, OwnMarker, BaseIsManifest, Base, Pending, MovesDirectory, Here
<1>13. QED
  BY <1>1, <1>2, <1>3, <1>4, <1>5, <1>6, <1>7, <1>8, <1>9, <1>10, <1>11, <1>12 DEF JournalNext

\* However edits, failures, lost undos, crashes and restarts interleave, a
\* journaled edit happens on disk and in the database, or in neither.
THEOREM JournaledEditsAreAtomic == JournalSpec => [](JournalTypeOK /\ JournaledIsAtomic)
<1>1. JournalInv => JournalTypeOK /\ JournaledIsAtomic
  BY DEF JournalInv, JournalTypeOK, JournaledIsAtomic, BaseIsManifest, Base, Pending
<1>2. QED
  BY JournalStarts, JournalStep, <1>1, PTL DEF JournalSpec

---------------------------------------------------------------------------
(* The import of components.                                                 *)

\* The inductive invariant of the imports.
ImportInv ==
  /\ ImportTypeOK /\ request = [i \in Imports |-> request[i]]
  /\ NothingUnrequested /\ LeftoversAreStaged /\ StepIsTraced

LEMMA ImportStarts == ImportInit => ImportInv
  BY ImportAssumption DEF ImportInit, ImportInv, ImportTypeOK, NoRequest, NothingUnrequested, LeftoversAreStaged,
                          StepIsTraced, Created, Found

\* Requests, rows and deletions are what an import's drafts are known by.
LEMMA DraftsStay ==
  ASSUME UNCHANGED <<request, drafts, deleted>>, NEW i \in Imports
  PROVE  Found(i)' = Found(i) /\ Created(i)' = Created(i)
  BY DEF Found, Created

\* Only the import itself takes one of its steps.
LEMMA StepsApart ==
  ASSUME ImportInv, NEW i \in Imports,
         NEW step \in {"idle", "stage", "promote", "commit", "abandon", "done"},
         importStep' = [importStep EXCEPT ![i] = step]
  PROVE  /\ importStep' \in [Imports -> {"idle", "stage", "promote", "commit", "abandon", "done"}]
         /\ importStep'[i] = step /\ \A j \in Imports \ {i} : importStep'[j] = importStep[j]
  BY DEF ImportInv, ImportTypeOK

LEMMA RequestStep ==
  ASSUME ImportInv, NEW i \in Imports, ImportRequested(i)
  PROVE  ImportInv'
<1> USE DEF ImportInv
<1>1. PICK slugs \in SUBSET Slugs :
        \E order : request' = [request EXCEPT ![i] = [slugs |-> slugs, order |-> order]]
  BY DEF ImportRequested
<1>2. /\ importServing /\ request[i].slugs = {} /\ importStep' = [importStep EXCEPT ![i] = "stage"]
      /\ UNCHANGED <<staging, finals, drafts, deleted, importServing>>
  BY DEF ImportRequested, NoRequest
<1>3. /\ request' = [j \in Imports |-> request'[j]] /\ request'[i].slugs = slugs
      /\ \A j \in Imports \ {i} : request'[j] = request[j]
  BY <1>1
<1>4. /\ importStep' \in [Imports -> {"idle", "stage", "promote", "commit", "abandon", "done"}]
      /\ importStep'[i] = "stage" /\ \A j \in Imports \ {i} : importStep'[j] = importStep[j]
  BY <1>2, StepsApart
<1>5. ImportTypeOK'
  BY <1>1, <1>2, <1>3, <1>4 DEF ImportTypeOK
<1>6. \A s \in Slugs : <<i, s>> \notin finals /\ drafts[s] # i /\ <<i, s>> \notin deleted
  BY <1>2 DEF NothingUnrequested
<1>7. NothingUnrequested'
  BY <1>2, <1>3, <1>6 DEF NothingUnrequested
<1>8. /\ Found(i)' = {} /\ Created(i)' = {}
      /\ \A j \in Imports \ {i} : Found(j)' = Found(j) /\ Created(j)' = Created(j)
  BY <1>2, <1>3, <1>6 DEF Found, Created
<1>9. LeftoversAreStaged'
  BY <1>2, <1>3, <1>6, <1>8 DEF LeftoversAreStaged
<1>10. StepIsTraced'
  BY <1>2, <1>3, <1>4, <1>8 DEF StepIsTraced
<1>11. QED
  BY <1>3, <1>5, <1>7, <1>9, <1>10

\* Staging, promotion and failures move no rows.
LEMMA FilesOfImportStep ==
  ASSUME ImportInv, NEW i \in Imports, StageFiles(i) \/ PromoteFile(i) \/ ImportStepFails(i)
  PROVE  ImportInv'
<1> USE DEF ImportInv
<1>1. UNCHANGED <<request, drafts, deleted, importServing>> /\ importServing
  BY DEF StageFiles, PromoteFile, ImportStepFails
<1>2. \A j \in Imports : Found(j)' = Found(j) /\ Created(j)' = Created(j)
  BY <1>1, DraftsStay
<1>3. importStep = [importStep EXCEPT ![i] = importStep[i]] /\ importStep[i] \in {"idle", "stage", "promote", "commit", "abandon", "done"}
  BY DEF ImportTypeOK
<1>4. CASE StageFiles(i)
  <2>1. PICK place \in {"directory", "manifest"} : staging' = [staging EXCEPT ![i] = place]
    BY <1>4 DEF StageFiles
  <2>2. staging'[i] # "none" /\ \A j \in Imports \ {i} : staging'[j] = staging[j]
    BY <2>1 DEF ImportTypeOK
  <2>3. importStep[i] = "stage" /\ finals' = finals
    BY <1>4 DEF StageFiles
  <2>4. importStep' = importStep \/ (importStep' = [importStep EXCEPT ![i] = "promote"] /\ staging'[i] = "manifest")
    BY <1>4 DEF StageFiles, ImportTypeOK
  <2>5. /\ importStep' \in [Imports -> {"idle", "stage", "promote", "commit", "abandon", "done"}]
        /\ importStep'[i] \in {"stage", "promote"} /\ (importStep'[i] = "promote" => staging'[i] = "manifest")
        /\ \A j \in Imports \ {i} : importStep'[j] = importStep[j]
    BY <2>3, <2>4, StepsApart DEF ImportTypeOK
  <2>6. ImportTypeOK'
    BY <1>1, <2>1, <2>3, <2>5 DEF ImportTypeOK
  <2>7. NothingUnrequested'
    BY <1>1, <2>3 DEF NothingUnrequested
  <2>8. LeftoversAreStaged'
    BY <1>1, <1>2, <2>2, <2>3 DEF LeftoversAreStaged
  <2>9. StepIsTraced'
    BY <1>1, <1>2, <2>2, <2>3, <2>5 DEF StepIsTraced
  <2>10. QED
    BY <1>1, <2>6, <2>7, <2>8, <2>9
<1>5. CASE PromoteFile(i)
  <2>1. PICK s \in request[i].slugs : finals' = finals \cup {<<i, s>>}
    BY <1>5 DEF PromoteFile
  <2>2. importStep[i] = "promote" /\ staging' = staging /\ s \in Slugs /\ staging[i] = "manifest"
    BY <1>5, <2>1 DEF PromoteFile, ImportTypeOK, StepIsTraced
  <2>3. \/ importStep' = importStep
        \/ importStep' = [importStep EXCEPT ![i] = "commit"] /\ \A x \in request[i].slugs : <<i, x>> \in finals'
    BY <1>5 DEF PromoteFile
  <2>4. /\ importStep' \in [Imports -> {"idle", "stage", "promote", "commit", "abandon", "done"}]
        /\ importStep'[i] \in {"promote", "commit"}
        /\ importStep'[i] = "commit" => \A x \in request[i].slugs : <<i, x>> \in finals'
        /\ \A j \in Imports \ {i} : importStep'[j] = importStep[j]
    BY <2>2, <2>3, StepsApart DEF ImportTypeOK
  <2>5. ImportTypeOK'
    BY <1>1, <2>1, <2>2, <2>4 DEF ImportTypeOK
  <2>6. NothingUnrequested'
    BY <1>1, <2>1 DEF NothingUnrequested
  <2>7. \A j \in Imports \ {i}, x \in Slugs : <<j, x>> \in finals' <=> <<j, x>> \in finals
    BY <2>1
  <2>8. LeftoversAreStaged'
    BY <1>1, <1>2, <2>2, <2>7 DEF LeftoversAreStaged, ImportTypeOK
  <2>9. StepIsTraced'
    BY <1>1, <1>2, <2>1, <2>2, <2>4 DEF StepIsTraced
  <2>10. QED
    BY <1>1, <2>5, <2>6, <2>8, <2>9
<1>6. CASE ImportStepFails(i)
  <2>1. /\ importStep[i] \in {"stage", "promote", "commit"} /\ UNCHANGED <<staging, finals>>
        /\ importStep' = [importStep EXCEPT ![i] = "abandon"]
    BY <1>6 DEF ImportStepFails
  <2>2. /\ importStep' \in [Imports -> {"idle", "stage", "promote", "commit", "abandon", "done"}]
        /\ importStep'[i] = "abandon" /\ \A j \in Imports \ {i} : importStep'[j] = importStep[j]
    BY <2>1, StepsApart
  <2>3. ImportTypeOK' /\ NothingUnrequested'
    BY <1>1, <2>1, <2>2 DEF ImportTypeOK, NothingUnrequested
  <2>4. LeftoversAreStaged'
    BY <1>1, <1>2, <2>1 DEF LeftoversAreStaged
  <2>5. StepIsTraced'
    BY <1>1, <1>2, <2>1, <2>2 DEF StepIsTraced
  <2>6. QED
    BY <1>1, <2>3, <2>4, <2>5
<1>7. QED
  BY <1>4, <1>5, <1>6

LEMMA CommitImportStep ==
  ASSUME ImportInv, NEW i \in Imports, CommitImport(i)
  PROVE  ImportInv'
<1> USE DEF ImportInv
<1>1. UNCHANGED <<request, staging, finals, deleted, importServing>> /\ importServing /\ importStep[i] = "commit"
  BY DEF CommitImport
<1>2. CASE Taken(i)
  <2>1. importStep' = [importStep EXCEPT ![i] = "abandon"] /\ drafts' = drafts
    BY <1>2 DEF CommitImport
  <2>2. /\ importStep' \in [Imports -> {"idle", "stage", "promote", "commit", "abandon", "done"}]
        /\ importStep'[i] = "abandon" /\ \A j \in Imports \ {i} : importStep'[j] = importStep[j]
    BY <2>1, StepsApart
  <2>3. \A j \in Imports : Found(j)' = Found(j) /\ Created(j)' = Created(j)
    BY <1>1, <2>1, DraftsStay
  <2>4. ImportTypeOK' /\ NothingUnrequested'
    BY <1>1, <2>1, <2>2 DEF ImportTypeOK, NothingUnrequested
  <2>5. LeftoversAreStaged'
    BY <1>1, <2>3 DEF LeftoversAreStaged
  <2>6. StepIsTraced'
    BY <1>1, <2>2, <2>3 DEF StepIsTraced
  <2>7. QED
    BY <1>1, <2>4, <2>5, <2>6
<1>3. CASE ~Taken(i)
  <2>1. /\ importStep' = [importStep EXCEPT ![i] = "done"]
        /\ drafts' = [s \in Slugs |-> IF s \in request[i].slugs THEN i ELSE drafts[s]]
        /\ \A s \in request[i].slugs : drafts[s] = NoImport
    BY <1>3 DEF CommitImport, Taken, RowsInserted
  <2>2. /\ importStep' \in [Imports -> {"idle", "stage", "promote", "commit", "abandon", "done"}]
        /\ importStep'[i] = "done" /\ \A j \in Imports \ {i} : importStep'[j] = importStep[j]
    BY <2>1, StepsApart
  <2>3. request[i].slugs \subseteq Slugs
    BY DEF ImportTypeOK
  <2>4. Found(i)' = request[i].slugs
    BY <1>1, <2>1, <2>3 DEF Found
  <2>5. \A j \in Imports \ {i} : Found(j)' = Found(j)
    BY <1>1, <2>1, <2>3, ImportAssumption DEF Found, ImportTypeOK
  <2>6. \A j \in Imports \ {i} : Created(j)' = Created(j)
    BY <1>1, <2>5 DEF Created
  <2>7. ImportTypeOK'
    BY <1>1, <2>1, <2>2 DEF ImportTypeOK
  <2>8. NothingUnrequested'
    BY <1>1, <2>1 DEF NothingUnrequested
  <2>9. LeftoversAreStaged'
    BY <1>1, <2>4, <2>5 DEF LeftoversAreStaged
  <2>10. StepIsTraced'
    BY <1>1, <2>2, <2>4, <2>5, <2>6 DEF StepIsTraced
  <2>11. QED
    BY <1>1, <2>7, <2>8, <2>9, <2>10
<1>4. QED
  BY <1>2, <1>3

LEMMA CleanUpStep ==
  ASSUME ImportInv, NEW i \in Imports, CleanUpImport(i)
  PROVE  ImportInv'
<1> USE DEF ImportInv
<1>1. /\ UNCHANGED <<request, drafts, deleted, importServing>> /\ importServing
      /\ importStep[i] \in {"abandon", "done"} /\ importStep' = [importStep EXCEPT ![i] = "idle"]
      /\ \/ finals' = Kept(i, importStep[i] = "done") /\ staging' = [staging EXCEPT ![i] = "none"]
         \/ UNCHANGED <<finals, staging>>
  BY DEF CleanUpImport
<1>2. /\ importStep' \in [Imports -> {"idle", "stage", "promote", "commit", "abandon", "done"}]
      /\ importStep'[i] = "idle" /\ \A j \in Imports \ {i} : importStep'[j] = importStep[j]
  BY <1>1, StepsApart
<1>3. \A j \in Imports : Found(j)' = Found(j) /\ Created(j)' = Created(j)
  BY <1>1, DraftsStay
<1>4. /\ \A j \in Imports \ {i}, s \in Slugs : <<j, s>> \in finals' <=> <<j, s>> \in finals
      /\ importStep[i] = "done" => finals' = finals
      /\ finals' \subseteq finals
      /\ finals' = finals \/ \A s \in Slugs : <<i, s>> \notin finals'
  BY <1>1 DEF Kept
<1>5. \A j \in Imports \ {i} : staging'[j] = staging[j]
  BY <1>1 DEF ImportTypeOK
<1>6. Found(i) \subseteq Slugs /\ (importStep[i] = "abandon" => Found(i) = {})
      /\ (importStep[i] = "done" => Found(i) = request[i].slugs /\ Created(i) = request[i].slugs)
  BY DEF ImportTypeOK, StepIsTraced, Created, Found
<1>7. ImportTypeOK'
  BY <1>1, <1>2, <1>4 DEF ImportTypeOK
<1>8. NothingUnrequested'
  BY <1>1, <1>4 DEF NothingUnrequested
<1>9. LeftoversAreStaged'
  <2>1. \A j \in Imports \ {i} : staging'[j] = "none" => \A s \in request[j].slugs \ Found(j) : <<j, s>> \notin finals'
    BY <1>4, <1>5 DEF LeftoversAreStaged, ImportTypeOK
  <2>2. staging'[i] = "none" => \A s \in request[i].slugs \ Found(i) : <<i, s>> \notin finals'
    <3>1. CASE UNCHANGED <<finals, staging>>
      BY <3>1 DEF LeftoversAreStaged
    <3>2. CASE importStep[i] = "done"
      BY <1>6, <3>2
    <3>3. CASE importStep[i] = "abandon" /\ finals' = Kept(i, importStep[i] = "done")
      BY <3>3 DEF Kept
    <3>4. QED
      BY <1>1, <3>1, <3>2, <3>3
  <2>3. QED
    BY <1>1, <1>3, <2>1, <2>2 DEF LeftoversAreStaged
<1>10. StepIsTraced'
  <2>1. \A j \in Imports \ {i} : \A s \in request[j].slugs : <<j, s>> \in finals' <=> <<j, s>> \in finals
    BY <1>4 DEF ImportTypeOK
  <2>2. \A j \in Imports \ {i} : \A s \in Found(j) : <<j, s>> \in finals'
    BY <2>1 DEF StepIsTraced, Found
  <2>3. \A s \in Found(i) : <<i, s>> \in finals'
    BY <1>1, <1>4, <1>6 DEF StepIsTraced
  <2>4. Created(i) \in {{}, request[i].slugs}
    BY <1>1, <1>6 DEF StepIsTraced
  <2>5. \A j \in Imports \ {i} :
          /\ importStep'[j] # "idle" => importServing'
          /\ importStep'[j] \in {"promote", "commit", "done"} => staging'[j] = "manifest"
          /\ importStep'[j] \in {"stage", "promote", "commit", "abandon"} => Created(j)' = {}
          /\ importStep'[j] \in {"commit", "done"} => \A s \in request'[j].slugs : <<j, s>> \in finals'
          /\ importStep'[j] = "done" => Found(j)' = request'[j].slugs
          /\ importStep'[j] = "idle" => Created(j)' \in {{}, request'[j].slugs}
    BY <1>1, <1>2, <1>3, <1>5, <2>1 DEF StepIsTraced
  <2>6. QED
    BY <1>1, <1>2, <1>3, <2>2, <2>3, <2>4, <2>5 DEF StepIsTraced
<1>11. QED
  BY <1>1, <1>7, <1>8, <1>9, <1>10

LEMMA DeleteDraftStep ==
  ASSUME ImportInv, NEW s \in Slugs, DeleteImportedDraft(s)
  PROVE  ImportInv'
<1> USE DEF ImportInv
<1> DEFINE i == drafts[s]
<1>1. /\ i \in Imports /\ importStep[i] = "idle" /\ importServing
      /\ drafts' = [drafts EXCEPT ![s] = NoImport]
      /\ finals' = finals \ {<<i, s>>} /\ deleted' = deleted \cup {<<i, s>>}
      /\ UNCHANGED <<request, importStep, staging, importServing>>
  BY DEF DeleteImportedDraft, ImportTypeOK
<1>2. s \in request[i].slugs /\ s \in Found(i)
  BY <1>1 DEF NothingUnrequested, Found
<1>3. SUFFICES ASSUME NEW o \in Imports, o = i PROVE ImportInv'
  BY <1>1
<1> HIDE DEF i
<1>4. \A j \in Imports, x \in Slugs : drafts'[x] = j <=> drafts[x] = j /\ ~(j = o /\ x = s)
  <2>1. drafts[s] = o
    BY <1>3 DEF i
  <2>2. \A x \in Slugs : drafts'[x] = IF x = s THEN NoImport ELSE drafts[x]
    BY <1>1 DEF ImportTypeOK
  <2>3. QED
    BY <2>1, <2>2, ImportAssumption
<1>5. \A j \in Imports, x \in Slugs : <<j, x>> \in finals' <=> <<j, x>> \in finals /\ ~(j = o /\ x = s)
  BY <1>1, <1>3
<1>6. \A j \in Imports, x \in Slugs : <<j, x>> \in deleted' <=> <<j, x>> \in deleted \/ (j = o /\ x = s)
  BY <1>1, <1>3
<1>7. \A j \in Imports : request[j].slugs \subseteq Slugs
  BY DEF ImportTypeOK
<1>8. ImportTypeOK'
  BY <1>1 DEF ImportTypeOK
<1>9. NothingUnrequested'
  <2>1. \A j \in Imports, x \in Slugs :
          <<j, x>> \in finals' \/ drafts'[x] = j \/ <<j, x>> \in deleted' => x \in request[j].slugs
    BY <1>2, <1>3, <1>4, <1>5, <1>6 DEF NothingUnrequested
  <2>2. QED
    BY <1>1, <2>1 DEF NothingUnrequested
<1>10. \A j \in Imports, x \in Slugs : x \in Found(j)' <=> x \in Found(j) /\ ~(j = o /\ x = s)
  BY <1>1, <1>4 DEF Found
<1>11. \A j \in Imports : Created(j)' = Created(j)
  <2> SUFFICES ASSUME NEW j \in Imports PROVE Created(j)' = Created(j)
    OBVIOUS
  <2>1. \A x \in request[j].slugs : x \in Created(j)' <=> x \in Created(j)
    BY <1>1, <1>2, <1>3, <1>6, <1>7, <1>10 DEF Created
  <2>2. Created(j) \subseteq request[j].slugs /\ Created(j)' \subseteq request[j].slugs
    BY <1>1 DEF Created, Found
  <2>3. QED
    BY <2>1, <2>2
<1>12. LeftoversAreStaged'
  <2>1. \A j \in Imports : staging[j] = "none" => \A x \in request[j].slugs \ Found(j)' : <<j, x>> \notin finals'
    BY <1>5, <1>7, <1>10 DEF LeftoversAreStaged
  <2>2. QED
    BY <1>1, <2>1 DEF LeftoversAreStaged
<1>13. StepIsTraced'
  <2>1. \A j \in Imports : \A x \in Found(j)' : <<j, x>> \in finals'
    <3>1. \A j \in Imports : Found(j)' \subseteq Slugs
      BY <1>1, <1>7 DEF Found
    <3>2. QED
      BY <1>5, <1>10, <3>1 DEF StepIsTraced
  <2>2. importStep[o] = "idle"
    BY <1>1, <1>3
  <2>3. \A j \in Imports : importStep[j] \in {"commit", "done"} => \A x \in request[j].slugs : <<j, x>> \in finals'
    BY <1>5, <1>7, <2>2 DEF StepIsTraced
  <2>4. \A j \in Imports : importStep[j] = "done" => Found(j)' = request[j].slugs
    <3> SUFFICES ASSUME NEW j \in Imports, importStep[j] = "done" PROVE Found(j)' = request[j].slugs
      OBVIOUS
    <3>1. \A x \in request[j].slugs : x \in Found(j)'
      BY <1>7, <1>10, <2>2 DEF StepIsTraced
    <3>2. Found(j)' \subseteq request[j].slugs
      BY <1>1 DEF Found
    <3>3. QED
      BY <3>1, <3>2
  <2>5. QED
    BY <1>1, <1>11, <2>1, <2>3, <2>4 DEF StepIsTraced
<1>14. QED
  BY <1>1, <1>8, <1>9, <1>12, <1>13

LEMMA CrashImportStep ==
  ASSUME ImportInv, CrashImport
  PROVE  ImportInv'
<1> USE DEF ImportInv
<1>1. /\ importServing' = FALSE /\ importStep' = [i \in Imports |-> "idle"]
      /\ UNCHANGED <<request, staging, finals, drafts, deleted>>
  BY DEF CrashImport
<1>2. \A j \in Imports : Found(j)' = Found(j) /\ Created(j)' = Created(j)
  BY <1>1, DraftsStay
<1>3. ImportTypeOK' /\ NothingUnrequested'
  BY <1>1 DEF ImportTypeOK, NothingUnrequested
<1>4. LeftoversAreStaged'
  BY <1>1, <1>2 DEF LeftoversAreStaged
<1>5. \A j \in Imports : Created(j) \in {{}, request[j].slugs}
  BY DEF StepIsTraced, ImportTypeOK, Created, Found
<1>6. StepIsTraced'
  BY <1>1, <1>2, <1>5 DEF StepIsTraced
<1>7. QED
  BY <1>1, <1>3, <1>4, <1>6

\* A start keeps the files of every batch whose rows it finds, and no other's.
LEMMA RecoverImportsStep ==
  ASSUME ImportInv, RecoverImports
  PROVE  ImportInv'
<1> USE DEF ImportInv
<1>1. /\ ~importServing /\ importServing' = TRUE
      /\ \A i \in Imports : staging[i] # "none" => Found(i) \in {{}, request[i].slugs}
      /\ finals' = {f \in finals : f[1] \in Leftover => Found(f[1]) # {}}
      /\ staging' = [i \in Imports |-> "none"]
      /\ UNCHANGED <<request, importStep, drafts, deleted>>
  BY DEF RecoverImports, Leftover, Recoverable
<1>2. \A j \in Imports : Found(j)' = Found(j) /\ Created(j)' = Created(j)
  BY <1>1, DraftsStay
<1>3. \A i \in Imports, s \in Slugs :
        <<i, s>> \in finals' <=> <<i, s>> \in finals /\ (staging[i] = "none" \/ Found(i) # {})
  BY <1>1 DEF Leftover
<1>4. \A i \in Imports : importStep[i] = "idle"
  BY <1>1 DEF StepIsTraced
<1>5. \A i \in Imports : request[i].slugs \subseteq Slugs /\ Found(i) \subseteq Slugs
  BY DEF ImportTypeOK, Found
<1>6. ImportTypeOK' /\ NothingUnrequested'
  BY <1>1, <1>3 DEF ImportTypeOK, NothingUnrequested
<1>7. LeftoversAreStaged'
  <2>1. \A i \in Imports : \A s \in request[i].slugs \ Found(i) : <<i, s>> \notin finals'
    BY <1>1, <1>3, <1>5 DEF LeftoversAreStaged
  <2>2. QED
    BY <1>1, <1>2, <2>1 DEF LeftoversAreStaged
<1>8. StepIsTraced'
  <2>1. \A i \in Imports : \A s \in Found(i) : <<i, s>> \in finals'
    BY <1>3, <1>5 DEF StepIsTraced
  <2>2. QED
    BY <1>1, <1>2, <1>4, <2>1 DEF StepIsTraced
<1>9. QED
  BY <1>1, <1>6, <1>7, <1>8

LEMMA ImportStepKeeps == ImportInv /\ [ImportNext]_importVars => ImportInv'
<1> SUFFICES ASSUME ImportInv, [ImportNext]_importVars PROVE ImportInv'
  OBVIOUS
<1>1. CASE UNCHANGED importVars
  <2>1. UNCHANGED <<request, drafts, deleted, importStep, staging, finals, importServing>>
    BY <1>1 DEF importVars
  <2>2. \A j \in Imports : Found(j)' = Found(j) /\ Created(j)' = Created(j)
    BY <2>1, DraftsStay
  <2>3. QED
    BY <2>1, <2>2 DEF ImportInv, ImportTypeOK, NothingUnrequested, LeftoversAreStaged, StepIsTraced
<1>2. QED
  BY <1>1, RequestStep, FilesOfImportStep, CommitImportStep, CleanUpStep, DeleteDraftStep, CrashImportStep,
     RecoverImportsStep DEF ImportNext

\* Whatever fails, crashes or races for a slug, an import that is over left all
\* its drafts with their files, or no draft and no file.
THEOREM ImportsAreWhole == ImportSpec => [](ImportTypeOK /\ ImportIsWhole)
<1>1. ImportInv => ImportTypeOK /\ ImportIsWhole
  BY DEF ImportInv, ImportIsWhole, StepIsTraced, LeftoversAreStaged
<1>2. QED
  BY ImportStarts, ImportStepKeeps, <1>1, PTL DEF ImportSpec

---------------------------------------------------------------------------
(* The archive of runs.                                                      *)

\* The inductive invariant of the archive.
ArchiveInv ==
  /\ ArchiveTypeOK /\ OnlySucceededAreArchived /\ PackingIsTasked /\ RecordedIsFinal
  /\ ReferencedRunsExist /\ CopiedRowsStay

LEMMA ArchiveStarts == ArchiveInit => ArchiveInv
<1> SUFFICES ASSUME ArchiveInit PROVE ArchiveInv
  OBVIOUS
<1>1. NoTask \in Tasks
  BY DEF NoTask, Tasks
<1>2. ArchiveTypeOK
  BY <1>1, ArchiveAssumption DEF ArchiveInit, ArchiveTypeOK
<1>3. QED
  BY <1>2 DEF ArchiveInit, ArchiveInv, OnlySucceededAreArchived, PackingIsTasked, RecordedIsFinal,
              ReferencedRunsExist, CopiedRowsStay, Exists, NoTask

\* A step that only prepares, inserts, ends, names or logs a run.
LEMMA RunsGoOn ==
  ASSUME ArchiveInv, NEW r \in HistoryRuns,
         PrepareRun \/ InsertRun(r) \/ FinishRun(r) \/ AppendLog(r) \/ HoldRun(r) \/ PublishOn(r)
  PROVE  ArchiveInv'
<1> USE DEF ArchiveInv
<1>1. UNCHANGED <<task, packing, archiveFiles, aged, archiveRow, claims, history>>
  BY DEF PrepareRun, InsertRun, FinishRun, AppendLog, HoldRun, PublishOn, taskVars
<1>2. PackingIsTasked' /\ CopiedRowsStay'
  BY <1>1 DEF PackingIsTasked, Packed, CopiedRowsStay
<1>3. CASE PrepareRun
  <2>1. ArchiveTypeOK'
    BY <1>1, <1>3 DEF PrepareRun, ArchiveTypeOK
  <2>2. QED
    BY <1>1, <1>2, <1>3, <2>1 DEF PrepareRun, OnlySucceededAreArchived, RecordedIsFinal,
                                  ReferencedRunsExist, Exists
<1>4. CASE InsertRun(r)
  <2>1. ArchiveTypeOK'
    BY <1>1, <1>4 DEF InsertRun, ArchiveTypeOK
  <2>2. OnlySucceededAreArchived'
    BY <1>1, <1>4 DEF InsertRun, ArchiveTypeOK, OnlySucceededAreArchived
  <2>3. RecordedIsFinal'
    BY <1>1, <1>4 DEF InsertRun, ArchiveTypeOK, RecordedIsFinal
  <2>4. ReferencedRunsExist'
    BY <1>4 DEF InsertRun, ArchiveTypeOK, ReferencedRunsExist, ReferencesExist, Exists
  <2>5. QED
    BY <1>2, <2>1, <2>2, <2>3, <2>4
<1>5. CASE FinishRun(r)
  <2>1. /\ \E s \in {"succeeded", "failed"} : runStatus' = [runStatus EXCEPT ![r] = s]
        /\ runStatus[r] = "active" /\ UNCHANGED <<refs, prepared, held, evidence, logs, written>>
    BY <1>5 DEF FinishRun
  <2>2. ArchiveTypeOK'
    BY <1>1, <2>1 DEF ArchiveTypeOK
  <2>3. OnlySucceededAreArchived'
    BY <1>1, <2>1 DEF ArchiveTypeOK, OnlySucceededAreArchived
  <2>4. RecordedIsFinal'
    BY <1>1, <2>1 DEF ArchiveTypeOK, RecordedIsFinal
  <2>5. ReferencedRunsExist'
    BY <2>1 DEF ArchiveTypeOK, ReferencedRunsExist, Exists
  <2>6. QED
    BY <1>2, <2>2, <2>3, <2>4, <2>5
<1>6. CASE AppendLog(r)
  <2>1. /\ Exists(r) /\ written[r] < MaxLogs /\ UNCHANGED <<runStatus, refs, prepared, held, evidence>>
        /\ logs' = [logs EXCEPT ![r] = logs[r] + 1] /\ written' = [written EXCEPT ![r] = written[r] + 1]
        /\ MaxLogs \in Nat
    BY <1>6, ArchiveAssumption DEF AppendLog, rowVars
  <2>2. logs[r] \in 0..MaxLogs /\ written[r] \in 0..MaxLogs /\ logs[r] <= written[r]
    <3>1. CASE archiveRow[r] = NoArchive
      BY <2>1, <3>1 DEF ArchiveTypeOK, RecordedIsFinal, Exists
    <3>2. CASE archiveRow[r] # NoArchive
      <4>1. archiveRow[r].count \in Nat /\ logs[r] + archiveRow[r].count = written[r]
        BY <3>2 DEF ArchiveTypeOK, RecordedIsFinal, Archives
      <4>2. logs[r] \in 0..MaxLogs /\ written[r] \in 0..MaxLogs
        BY DEF ArchiveTypeOK
      <4>3. QED
        BY <2>1, <4>1, <4>2
    <3>3. QED
      BY <3>1, <3>2
  <2>3. logs[r] + 1 \in 0..MaxLogs /\ written[r] + 1 \in 0..MaxLogs
    BY <2>1, <2>2
  <2>4. ArchiveTypeOK'
    BY <1>1, <2>1, <2>3 DEF ArchiveTypeOK
  <2>5. \A x \in HistoryRuns : IF x = r THEN logs'[x] = logs[x] + 1 /\ written'[x] = written[x] + 1
                               ELSE logs'[x] = logs[x] /\ written'[x] = written[x]
    BY <2>1 DEF ArchiveTypeOK
  <2>6. \A x \in HistoryRuns : logs[x] \in Int /\ written[x] \in Int
    BY DEF ArchiveTypeOK
  <2>7. \A x \in HistoryRuns : archiveRow[x] # NoArchive => archiveRow[x].count \in Int
    BY DEF ArchiveTypeOK, Archives
  <2>8. RecordedIsFinal'
    BY <1>1, <2>1, <2>5, <2>6, <2>7 DEF RecordedIsFinal
  <2>9. QED
    BY <1>1, <1>2, <2>1, <2>4, <2>8 DEF OnlySucceededAreArchived, ReferencedRunsExist, Exists
<1>7. CASE HoldRun(r) \/ PublishOn(r)
  <2>1. /\ Exists(r) /\ UNCHANGED <<runStatus, refs, prepared, logs, written>>
        /\ held' \subseteq held \cup {r} /\ evidence' \subseteq evidence \cup {r}
        /\ evidence' # evidence => runStatus[r] = "succeeded"
    BY <1>7 DEF HoldRun, PublishOn, Exists
  <2>2. ArchiveTypeOK'
    BY <1>1, <2>1 DEF ArchiveTypeOK
  <2>3. OnlySucceededAreArchived' /\ RecordedIsFinal'
    BY <1>1, <2>1 DEF OnlySucceededAreArchived, RecordedIsFinal
  <2>4. ReferencedRunsExist'
    BY <2>1 DEF ReferencedRunsExist, Exists
  <2>5. QED
    BY <1>2, <2>2, <2>3, <2>4
<1>8. QED
  BY <1>3, <1>4, <1>5, <1>6, <1>7

\* The clean-up removes failed runs nobody names.
LEMMA CleanupStep ==
  ASSUME ArchiveInv, NEW ids \in SUBSET HistoryRuns, CleanupRuns(ids)
  PROVE  ArchiveInv'
<1> USE DEF ArchiveInv
<1>1. /\ \A r \in ids : Eligible(r)
      /\ runStatus' = [r \in HistoryRuns |-> IF r \in ids THEN "cleaned" ELSE runStatus[r]]
      /\ logs' = [r \in HistoryRuns |-> IF r \in ids THEN 0 ELSE logs[r]]
      /\ UNCHANGED <<refs, prepared, held, evidence, written, task, packing, archiveFiles, aged, archiveRow,
                     claims, history>>
  BY DEF CleanupRuns, taskVars
<1>2. \A r \in ids : runStatus[r] = "failed" /\ r \notin held
                     /\ \A other \in HistoryRuns \ {r} : Exists(other) => r \notin refs[other]
  BY <1>1 DEF Eligible
<1>3. ArchiveTypeOK'
  BY <1>1, ArchiveAssumption DEF ArchiveTypeOK
<1>4. OnlySucceededAreArchived'
  BY <1>1, <1>2 DEF OnlySucceededAreArchived, ArchiveTypeOK
<1>5. RecordedIsFinal'
  BY <1>1, <1>2 DEF RecordedIsFinal, OnlySucceededAreArchived
<1>6. ReferencedRunsExist'
  <2>1. \A r \in HistoryRuns : Exists(r)' <=> Exists(r) /\ r \notin ids
    BY <1>1 DEF Exists
  <2>2. \A r \in held \cup evidence : r \in HistoryRuns /\ r \notin ids
    BY <1>2 DEF ArchiveTypeOK, OnlySucceededAreArchived
  <2>3. \A r \in HistoryRuns : refs[r] \subseteq HistoryRuns
    BY DEF ArchiveTypeOK
  <2>4. \A r \in HistoryRuns : Exists(r)' => \A named \in refs[r] : Exists(named)'
    BY <1>2, <2>1, <2>3 DEF ReferencedRunsExist
  <2>5. QED
    BY <1>1, <2>1, <2>2, <2>4 DEF ReferencedRunsExist
<1>7. QED
  BY <1>1, <1>3, <1>4, <1>5, <1>6 DEF PackingIsTasked, Packed, CopiedRowsStay

\* The steps of the archive worker and of its leases leave the runs alone.
LEMMA WorkerKeepsRuns ==
  ASSUME ArchiveInv, UNCHANGED rowVars
  PROVE  ReferencedRunsExist'
  BY DEF ArchiveInv, ReferencedRunsExist, Exists, rowVars

\* A task is queued, claimed, failed, or its lease runs out.
LEMMA TaskMoves ==
  ASSUME ArchiveInv, NEW r \in HistoryRuns,
         NEW t \in Tasks, task' = [task EXCEPT ![r] = t],
         t.status # "none" /\ runStatus[r] = "succeeded" /\ task[r].status # "archived",
         UNCHANGED <<rowVars, logs, written, archiveFiles, aged, archiveRow, history>>,
         packing' \in Packs \cup {NoPack}, claims' \in Nat, PackingIsTasked'
  PROVE  ArchiveInv'
<1> USE DEF ArchiveInv
<1>1. UNCHANGED <<runStatus, refs, prepared, held, evidence>>
  BY DEF rowVars
<1>2. ArchiveTypeOK'
  BY <1>1 DEF ArchiveTypeOK
<1>3. OnlySucceededAreArchived'
  BY <1>1 DEF OnlySucceededAreArchived, ArchiveTypeOK
<1>4. RecordedIsFinal'
  BY <1>1 DEF RecordedIsFinal, ArchiveTypeOK
<1>5. QED
  BY <1>2, <1>3, <1>4, WorkerKeepsRuns DEF CopiedRowsStay

LEMMA EnqueueStep ==
  ASSUME ArchiveInv, NEW r \in HistoryRuns, EnqueueArchive(r)
  PROVE  ArchiveInv'
<1>1. [status |-> "queued", token |-> 0, live |-> FALSE] \in Tasks
  BY DEF Tasks
<1>2. /\ runStatus[r] = "succeeded" /\ task[r].status \in {"none", "failed"}
      /\ task' = [task EXCEPT ![r] = [status |-> "queued", token |-> 0, live |-> FALSE]]
      /\ UNCHANGED <<rowVars, logs, written, packing, archiveFiles, aged, archiveRow, claims, history>>
  BY DEF EnqueueArchive
<1>3. PackingIsTasked'
  BY <1>2 DEF ArchiveInv, PackingIsTasked, Packed, ArchiveTypeOK, Packs
<1>4. packing' \in Packs \cup {NoPack} /\ claims' \in Nat
  BY <1>2 DEF ArchiveInv, ArchiveTypeOK
<1>5. QED
  BY <1>1, <1>2, <1>3, <1>4, TaskMoves

LEMMA ClaimStep ==
  ASSUME ArchiveInv, NEW r \in HistoryRuns, ClaimArchive(r)
  PROVE  ArchiveInv'
<1> DEFINE t == [status |-> "running", token |-> claims', live |-> TRUE]
<1>1. /\ packing = NoPack /\ Claimable(r) /\ claims' = claims + 1 /\ claims' \in Nat
      /\ task' = [task EXCEPT ![r] = t]
      /\ packing' = [run |-> r, token |-> claims', count |-> 0, step |-> "export"]
      /\ UNCHANGED <<rowVars, logs, written, archiveFiles, aged, archiveRow, history>>
  BY DEF ClaimArchive, ArchiveInv, ArchiveTypeOK
<1>2. t \in Tasks /\ t.status = "running" /\ t.token = claims'
  BY <1>1 DEF Tasks
<1>3. task[r].status \in {"queued", "running"} /\ runStatus[r] = "succeeded"
  BY <1>1 DEF Claimable, ArchiveInv, OnlySucceededAreArchived
<1>4. packing' \in Packs /\ packing'.run = r /\ packing'.token = claims' /\ packing'.step = "export"
  BY <1>1 DEF Packs
<1>5. task'[r] = t
  BY <1>1 DEF ArchiveInv, ArchiveTypeOK
<1>6. PackingIsTasked'
  BY <1>2, <1>4, <1>5 DEF PackingIsTasked
<1> HIDE DEF t
<1>7. QED
  BY <1>1, <1>2, <1>3, <1>4, <1>6, TaskMoves

\* The worker's steps in memory and on disk.
LEMMA PackStep ==
  ASSUME ArchiveInv, ExportRun \/ PlaceArchive
  PROVE  ArchiveInv'
<1> USE DEF ArchiveInv
<1>1. /\ packing # NoPack /\ packing \in Packs /\ packing.run \in HistoryRuns
      /\ UNCHANGED <<rowVars, logs, written, task, aged, archiveRow, claims, history>>
      /\ UNCHANGED <<runStatus, refs, prepared, held, evidence>>
      /\ archiveFiles \subseteq archiveFiles'
  BY DEF ExportRun, PlaceArchive, ArchiveTypeOK, Packs, rowVars
<1>2. Packed \in Archives
  BY <1>1 DEF Packed, Packs, Archives
<1>3. /\ packing' \in Packs /\ packing'.run = packing.run /\ packing'.token = packing.token
      /\ packing'.step = "complete" => Packed' \in archiveFiles'
      /\ archiveFiles' \subseteq Archives
  <2>1. CASE ExportRun
    <3>1. logs[packing.run] \in Nat
      BY <1>1, ArchiveAssumption DEF ArchiveTypeOK
    <3>2. packing' = [packing EXCEPT !.count = logs[packing.run], !.step = "rename"] /\ archiveFiles' = archiveFiles
      BY <2>1 DEF ExportRun
    <3>3. QED
      BY <1>1, <3>1, <3>2 DEF Packs, ArchiveTypeOK
  <2>2. CASE PlaceArchive
    <3>1. packing' = [packing EXCEPT !.step = "complete"] /\ archiveFiles' = archiveFiles \cup {Packed}
      BY <2>2 DEF PlaceArchive
    <3>2. /\ packing' \in Packs /\ packing'.run = packing.run /\ packing'.token = packing.token
          /\ packing'.count = packing.count
      BY <1>1, <3>1 DEF Packs
    <3>3. Packed' = Packed
      BY <3>2 DEF Packed
    <3>4. QED
      BY <1>2, <3>1, <3>2, <3>3 DEF ArchiveTypeOK
  <2>3. QED
    BY <2>1, <2>2
<1>4. PackingIsTasked'
  BY <1>1, <1>3 DEF PackingIsTasked
<1>5. ArchiveTypeOK'
  BY <1>1, <1>3 DEF ArchiveTypeOK
<1>6. RecordedIsFinal' /\ CopiedRowsStay'
  BY <1>1 DEF RecordedIsFinal, CopiedRowsStay
<1>7. QED
  BY <1>1, <1>4, <1>5, <1>6, WorkerKeepsRuns DEF OnlySucceededAreArchived

\* The task of the packing worker fails, at its hands or at nobody's.
LEMMA PackingEnds ==
  ASSUME ArchiveInv, packing # NoPack, packing' = NoPack,
         \/ task' = [task EXCEPT ![packing.run].status = "failed", ![packing.run].live = FALSE]
         \/ UNCHANGED task,
         UNCHANGED <<rowVars, logs, written, archiveFiles, aged, archiveRow, claims, history>>
  PROVE  ArchiveInv'
<1>1. /\ packing.run \in HistoryRuns /\ task[packing.run] \in Tasks /\ task[packing.run].status = "running"
      /\ runStatus[packing.run] = "succeeded" /\ claims' \in Nat /\ PackingIsTasked'
      /\ task \in [HistoryRuns -> Tasks]
  BY DEF ArchiveInv, ArchiveTypeOK, Packs, PackingIsTasked, OnlySucceededAreArchived
<1>2. CASE task' = [task EXCEPT ![packing.run].status = "failed", ![packing.run].live = FALSE]
  <2>1. SUFFICES ASSUME NEW t, t = [task[packing.run] EXCEPT !.status = "failed", !.live = FALSE]
                 PROVE  ArchiveInv'
    OBVIOUS
  <2>2. t \in Tasks /\ t.status = "failed"
    BY <1>1, <2>1 DEF Tasks
  <2>3. task' = [task EXCEPT ![packing.run] = t]
    BY <1>1, <1>2, <2>1
  <2>4. QED
    BY <1>1, <2>2, <2>3, TaskMoves
<1>3. CASE UNCHANGED task
  <2>1. task' = [task EXCEPT ![packing.run] = task[packing.run]]
    BY <1>1, <1>3
  <2>2. QED
    BY <1>1, <2>1, TaskMoves
<1>4. QED
  BY <1>2, <1>3

LEMMA LeaseStep ==
  ASSUME ArchiveInv, NEW r \in HistoryRuns, LeaseExpires(r)
  PROVE  ArchiveInv'
<1>1. /\ task[r].status = "running" /\ task' = [task EXCEPT ![r].live = FALSE]
      /\ UNCHANGED <<rowVars, logs, written, packing, archiveFiles, aged, archiveRow, claims, history>>
  BY DEF LeaseExpires
<1>2. task[r] \in Tasks /\ task \in [HistoryRuns -> Tasks] /\ runStatus[r] = "succeeded"
  BY <1>1 DEF ArchiveInv, ArchiveTypeOK, OnlySucceededAreArchived
<1>3. SUFFICES ASSUME NEW t, t = [task[r] EXCEPT !.live = FALSE]
               PROVE  ArchiveInv'
  OBVIOUS
<1>4. t \in Tasks /\ t.status = "running" /\ t.token = task[r].token
  BY <1>1, <1>2, <1>3 DEF Tasks
<1>5. task' = [task EXCEPT ![r] = t]
  BY <1>1, <1>2, <1>3
<1>6. \A x \in HistoryRuns : task'[x].status = task[x].status /\ task'[x].token = task[x].token
  BY <1>1, <1>2, <1>4, <1>5
<1>7. PackingIsTasked'
  BY <1>1, <1>6 DEF ArchiveInv, ArchiveTypeOK, Packs, PackingIsTasked, Packed
<1>8. packing' \in Packs \cup {NoPack} /\ claims' \in Nat
  BY <1>1 DEF ArchiveInv, ArchiveTypeOK
<1>9. QED
  BY <1>1, <1>2, <1>4, <1>5, <1>7, <1>8, TaskMoves

\* The transaction that records the file takes the logs that are in it offline.
LEMMA CompleteStep ==
  ASSUME ArchiveInv, CompleteArchive
  PROVE  ArchiveInv'
<1> USE DEF ArchiveInv
<1>1. /\ packing # NoPack /\ packing.step = "complete" /\ packing' = NoPack /\ packing \in Packs
      /\ UNCHANGED <<rowVars, written, archiveFiles, aged, claims, history>>
      /\ UNCHANGED <<runStatus, refs, prepared, held, evidence>>
      /\ packing.run \in HistoryRuns /\ task[packing.run] \in Tasks /\ task[packing.run].status = "running"
      /\ Packed \in archiveFiles /\ Packed \in Archives
      /\ archiveRow[packing.run] = NoArchive
      /\ runStatus[packing.run] = "succeeded"
  BY DEF CompleteArchive, ArchiveTypeOK, Packs, PackingIsTasked, rowVars, RecordedIsFinal, OnlySucceededAreArchived
<1>2. CASE StillLeased /\ Unchanged
  <2>1. /\ archiveRow' = [archiveRow EXCEPT ![packing.run] = Packed]
        /\ task' = [task EXCEPT ![packing.run].status = "archived", ![packing.run].live = FALSE]
        /\ logs' = [logs EXCEPT ![packing.run] = 0]
    BY <1>2 DEF CompleteArchive
  <2>2. SUFFICES ASSUME NEW t, t = [task[packing.run] EXCEPT !.status = "archived", !.live = FALSE]
                 PROVE  ArchiveInv'
    OBVIOUS
  <2>3. t \in Tasks /\ t.status = "archived"
    BY <1>1, <2>2 DEF Tasks
  <2>4. task' = [task EXCEPT ![packing.run] = t] /\ task \in [HistoryRuns -> Tasks]
    BY <1>1, <2>1, <2>2 DEF ArchiveTypeOK
  <2>5. ArchiveTypeOK'
    BY <1>1, <2>1, <2>3, <2>4, ArchiveAssumption DEF ArchiveTypeOK
  <2>6. OnlySucceededAreArchived'
    BY <1>1, <2>3, <2>4 DEF OnlySucceededAreArchived
  <2>7. Packed.run = packing.run /\ Packed.count = packing.count /\ Packed # NoArchive
    BY <1>1, ArchiveAssumption DEF Packed
  <2>8. logs[packing.run] = written[packing.run] /\ logs[packing.run] = Packed.count /\ packing.count \in Nat
    BY <1>1, <1>2, <2>7 DEF Unchanged, RecordedIsFinal, Packs
  <2>9. RecordedIsFinal'
    <3>1. \A r \in HistoryRuns \ {packing.run} :
             archiveRow'[r] = archiveRow[r] /\ logs'[r] = logs[r] /\ task'[r] = task[r]
      BY <2>1, <2>4 DEF ArchiveTypeOK
    <3>2. archiveRow'[packing.run] = Packed /\ logs'[packing.run] = 0 /\ task'[packing.run] = t
      BY <1>1, <2>1, <2>4 DEF ArchiveTypeOK
    <3>3. \A r \in HistoryRuns \ {packing.run} :
            IF archiveRow'[r] = NoArchive THEN runStatus'[r] # "cleaned" => logs'[r] = written'[r]
            ELSE /\ task'[r].status = "archived"
                 /\ archiveRow'[r] \in archiveFiles' /\ archiveRow'[r].run = r
                 /\ logs'[r] + archiveRow'[r].count = written'[r]
      BY <1>1, <3>1 DEF RecordedIsFinal
    <3>4. 0 + Packed.count = written[packing.run]
      BY <2>7, <2>8
    <3>5. QED
      BY <1>1, <2>3, <2>7, <3>2, <3>3, <3>4 DEF RecordedIsFinal
  <2>10. PackingIsTasked' /\ CopiedRowsStay'
    BY <1>1, <2>1 DEF PackingIsTasked, CopiedRowsStay, ArchiveTypeOK
  <2>11. QED
    BY <1>1, <2>5, <2>6, <2>9, <2>10, WorkerKeepsRuns
<1>3. CASE ~(StillLeased /\ Unchanged)
  BY <1>1, <1>3, PackingEnds DEF CompleteArchive
<1>4. QED
  BY <1>2, <1>3

\* The daily scan of the files, and the days.
LEMMA FilesStep ==
  ASSUME ArchiveInv, DayPasses \/ RemoveOrphans
  PROVE  ArchiveInv'
<1> USE DEF ArchiveInv
<1>1. /\ UNCHANGED <<rowVars, logs, written, task, packing, archiveRow, claims, history>>
      /\ UNCHANGED <<runStatus, refs, prepared, held, evidence>>
      /\ archiveFiles' \subseteq archiveFiles /\ aged' \subseteq archiveFiles'
      /\ \A f \in archiveFiles : Protected(f) => f \in archiveFiles'
  BY DEF DayPasses, RemoveOrphans, rowVars, ArchiveTypeOK
<1>2. ArchiveTypeOK'
  BY <1>1 DEF ArchiveTypeOK
<1>3. PackingIsTasked'
  <2>1. packing # NoPack => Protected(Packed)
    BY DEF PackingIsTasked, Protected, Packed
  <2>2. QED
    BY <1>1, <2>1 DEF PackingIsTasked, Packed
<1>4. RecordedIsFinal'
  <2>1. \A r \in HistoryRuns : archiveRow[r] # NoArchive => archiveRow[r] \in archiveFiles'
    BY <1>1 DEF RecordedIsFinal, Protected
  <2>2. QED
    BY <1>1, <2>1 DEF RecordedIsFinal
<1>5. QED
  BY <1>1, <1>2, <1>3, <1>4, WorkerKeepsRuns DEF OnlySucceededAreArchived, CopiedRowsStay

LEMMA HistoryStep ==
  ASSUME ArchiveInv, SnapshotHistory \/ CopyArchive \/ FinishHistory
  PROVE  ArchiveInv'
<1> USE DEF ArchiveInv
<1>1. /\ UNCHANGED <<rowVars, logs, written, task, packing, archiveFiles, aged, archiveRow, claims>>
      /\ UNCHANGED <<runStatus, refs, prepared, held, evidence>>
  BY DEF SnapshotHistory, CopyArchive, FinishHistory, taskVars, rowVars
<1>2. /\ CopiedRowsStay'
      /\ history' \in [rows : [HistoryRuns -> Archives \cup {NoArchive}], files : SUBSET Archives] \cup {NoHistory}
  <2>1. CASE SnapshotHistory
    BY <1>1, <2>1 DEF SnapshotHistory, CopiedRowsStay, ArchiveTypeOK
  <2>2. CASE CopyArchive
    <3>1. PICK f \in Listed : history' = IF f \in archiveFiles THEN [history EXCEPT !.files = @ \cup {f}] ELSE NoHistory
      BY <2>2 DEF CopyArchive
    <3>2. history # NoHistory /\ history \in [rows : [HistoryRuns -> Archives \cup {NoArchive}], files : SUBSET Archives]
      BY <2>2 DEF CopyArchive, ArchiveTypeOK
    <3>3. CASE history' = [history EXCEPT !.files = @ \cup {f}] /\ f \in archiveFiles
      <4>1. f \in Archives
        BY <3>3 DEF ArchiveTypeOK
      <4>2. history'.rows = history.rows
        BY <3>2, <3>3
      <4>3. QED
        BY <1>1, <3>2, <3>3, <4>1, <4>2 DEF CopiedRowsStay
    <3>4. CASE history' = NoHistory
      BY <3>4 DEF CopiedRowsStay
    <3>5. QED
      BY <3>1, <3>3, <3>4
  <2>3. CASE FinishHistory
    BY <2>3 DEF FinishHistory, CopiedRowsStay
  <2>4. QED
    BY <2>1, <2>2, <2>3
<1>3. QED
  BY <1>1, <1>2, WorkerKeepsRuns
     DEF ArchiveTypeOK, OnlySucceededAreArchived, PackingIsTasked, Packed, RecordedIsFinal

LEMMA ArchiveStep == ArchiveInv /\ [ArchiveNext]_archiveVars => ArchiveInv'
<1> SUFFICES ASSUME ArchiveInv, [ArchiveNext]_archiveVars PROVE ArchiveInv'
  OBVIOUS
<1>1. ASSUME NEW r \in HistoryRuns,
             ScanRetention(r) \/ InsertRun(r) \/ FinishRun(r) \/ AppendLog(r) \/ HoldRun(r) \/ PublishOn(r)
               \/ EnqueueArchive(r) \/ ClaimArchive(r) \/ LeaseExpires(r)
      PROVE  ArchiveInv'
  <2>1. CleanupRuns({r}) => ArchiveInv'
    BY CleanupStep
  <2>2. QED
    BY <1>1, <2>1, RunsGoOn, EnqueueStep, ClaimStep, LeaseStep DEF ScanRetention
<1>2. ASSUME NEW ids \in SUBSET HistoryRuns, CleanupRuns(ids)
      PROVE  ArchiveInv'
  BY <1>2, CleanupStep
<1>3. CASE PrepareRun
  <2>1. PICK r \in HistoryRuns : Exists(r)
    BY <1>3 DEF PrepareRun
  <2>2. QED
    BY <1>3, <2>1, RunsGoOn
<1>4. CASE ExportRun \/ PlaceArchive
  BY <1>4, PackStep
<1>5. CASE CompleteArchive
  BY <1>5, CompleteStep
<1>6. CASE WorkerFails
  BY <1>6, PackingEnds DEF WorkerFails
<1>7. CASE DayPasses \/ RemoveOrphans
  BY <1>7, FilesStep
<1>8. CASE SnapshotHistory \/ CopyArchive \/ FinishHistory
  BY <1>8, HistoryStep
<1>9. CASE UNCHANGED archiveVars
  BY <1>9 DEF archiveVars, ArchiveInv, ArchiveTypeOK, OnlySucceededAreArchived, PackingIsTasked, Packed,
              RecordedIsFinal, ReferencedRunsExist, Exists, CopiedRowsStay
<1>10. QED
  BY <1>1, <1>2, <1>3, <1>4, <1>5, <1>6, <1>7, <1>8, <1>9 DEF ArchiveNext

\* However packing, leases, scans, late log lines, clean-ups and history backups
\* race, no log line, no run something rests on and no file of a backup is lost.
THEOREM RunHistoryIsNeverLost == ArchiveSpec => [](ArchiveTypeOK /\ RunHistoryIsKept)
<1>1. ArchiveInv => ArchiveTypeOK /\ RunHistoryIsKept
  <2> SUFFICES ASSUME ArchiveInv PROVE RunHistoryIsKept
    BY DEF ArchiveInv
  <2>1. LogsAreKept
    BY DEF ArchiveInv, LogsAreKept, RecordedIsFinal, Exists, Downloadable, Verified
  <2>2. HistoryFindsItsFiles
    BY DEF ArchiveInv, HistoryFindsItsFiles, Listed, CopiedRowsStay, RecordedIsFinal
  <2>3. QED
    BY <2>1, <2>2 DEF ArchiveInv, RunHistoryIsKept
<1>2. QED
  BY ArchiveStarts, ArchiveStep, <1>1, PTL DEF ArchiveSpec

---------------------------------------------------------------------------
(* The standalone job.                                                       *)

ReceiptFields == {"op", "steps", "results", "actions", "history"}
ControllerFields == ReceiptFields \cup {"next", "active", "seen", "failed"}

\* A recovery stage undoes its instance once, the postcheck last.
Undoing(steps) ==
  /\ \A i \in DOMAIN steps : steps[i].undo /\ steps[i].phase \in {"execute", "post"}
  /\ \A i, j \in DOMAIN steps : i < j =>
       steps[i] # steps[j] /\ (steps[i].phase = "post" => steps[j].node # steps[i].node)

\* What a receipt and a controller have in common: an installation installs, a
\* rollback undoes.
Planned(x) ==
  /\ ReceiptFields \subseteq DOMAIN x
  /\ x.op \in {"run", "rollback"} /\ x.steps \in Seq(Stage) /\ x.actions \in [Body -> Statuses]
  /\ DOMAIN x.results \subseteq ToSet(x.steps) /\ x.history \subseteq Stage
  /\ x.op = "run" => \A i \in DOMAIN x.steps : ~x.steps[i].undo
  /\ x.op = "rollback" => Undoing(x.steps)

\* What a rollback has still to undo has been touched.
ToUndo(steps, actions, k) ==
  \A i \in DOMAIN steps : i >= k /\ steps[i].phase = "execute" => actions[MainOf(steps[i].node)] \in Touched

ReceiptHolds ==
  receipt # NoReceipt =>
    /\ DOMAIN receipt = ReceiptFields /\ Planned(receipt)
    /\ receipt.op = "rollback" => \A i \in DOMAIN receipt.steps :
         ~Succeeded(receipt.results, receipt.steps[i]) => ToUndo(receipt.steps, receipt.actions, i)

Working == controller.active /\ (controller.seen = "working" \/ ~controller.failed)

ControllerHolds ==
  controller # NoController =>
    /\ receipt # NoReceipt /\ DOMAIN controller = ControllerFields /\ Planned(controller)
    /\ {controller.active, controller.failed} \subseteq BOOLEAN
    /\ controller.op = "rollback" =>
         /\ \A i \in DOMAIN Stages : i < controller.next => Succeeded(controller.results, Stages[i])
         /\ ToUndo(Stages, controller.actions, controller.next)
    /\ Working \/ ~controller.failed => receipt = ReceiptOf(controller)
    /\ Working /\ Current.phase = "execute" => controller.actions[MainOf(Current.node)] \in Touched

\* What the controller knows of the target.
ControllerKnows ==
  controller # NoController /\ ~overlapped =>
    /\ orphan = NoStage
    /\ \A n \in Nodes : target[n] # "clean" => controller.actions[MainOf(n)] \in Touched
    /\ Working /\ controller.seen = "ok" /\ Current.phase = "post" /\ Current.undo
         => target[Current.node] = "clean"

OrphanIsKnown ==
  orphan # NoStage /\ ~overlapped =>
    receipt # NoReceipt /\ receipt.actions[MainOf(orphan.node)] \in Touched

JobInv ==
  /\ JobTypeOK /\ ReceiptHolds /\ ControllerHolds /\ ControllerKnows /\ OrphanIsKnown
  /\ ReceiptKnowsTarget

\* The greatest of some numbers.
LEMMA Greatest ==
  ASSUME NEW I \in SUBSET Int, IsFiniteSet(I)
  PROVE  \A T \in SUBSET I : T # {} => \E m \in T : \A j \in T : j <= m
<1> DEFINE A == {T \in SUBSET I : T # {} => \E m \in T : \A j \in T : j <= m}
<1>1. {} \in A
  OBVIOUS
<1>2. ASSUME NEW T \in SUBSET I, NEW x \in I \ T, T \in A PROVE T \cup {x} \in A
  <2>1. CASE T = {}
    BY <2>1
  <2>2. CASE T # {}
    <3>1. PICK m \in T : \A j \in T : j <= m
      BY <1>2, <2>2
    <3>2. x \in Int /\ m \in Int /\ \A j \in T : j \in Int
      OBVIOUS
    <3>3. CASE x <= m
      BY <3>1, <3>3
    <3>4. CASE ~(x <= m)
      <4>1. \A j \in T \cup {x} : j <= x
        BY <3>1, <3>2, <3>4
      <4>2. QED
        BY <4>1
    <3>5. QED
      BY <3>3, <3>4
  <2>3. QED
    BY <2>1, <2>2
<1> HIDE DEF A
<1>3. SUBSET I \subseteq A
  BY <1>1, <1>2, FiniteInduction
<1>4. QED
  BY <1>3 DEF A

UpTo(I, i) == {j \in I : j <= i}

\* Some numbers can be counted up.
LEMMA CountedUp ==
  ASSUME NEW I \in SUBSET Int, IsFiniteSet(I)
  PROVE  \A k \in 1..Cardinality(I) : \E i \in I : Cardinality(UpTo(I, i)) = k
<1> DEFINE N == {n \in Nat : \A T \in SUBSET I : Cardinality(T) = n =>
                              \A k \in 1..n : \E i \in T : Cardinality(UpTo(T, i)) = k}
<1>1. \A T \in SUBSET I : IsFiniteSet(T) /\ Cardinality(T) \in Nat
  BY FS_Subset, FS_CardinalityType
<1>2. 0 \in N
  OBVIOUS
<1>3. ASSUME NEW n \in Nat, n \in N PROVE n + 1 \in N
  <2>1. SUFFICES ASSUME NEW T \in SUBSET I, Cardinality(T) = n + 1, NEW k \in 1..n + 1
                 PROVE  \E i \in T : Cardinality(UpTo(T, i)) = k
    OBVIOUS
  <2>2. T # {}
    BY <2>1, FS_EmptySet
  <2>3. PICK m \in T : \A j \in T : j <= m
    BY <2>2, Greatest
  <2>4. PICK R : R = T \ {m}
    OBVIOUS
  <2>5. R \in SUBSET I /\ Cardinality(R) = n
    BY <1>1, <2>1, <2>4, FS_RemoveElement
  <2>6. CASE k = n + 1
    <3>1. UpTo(T, m) = T
      BY <2>3 DEF UpTo
    <3>2. QED
      BY <2>1, <2>6, <3>1
  <2>7. CASE k # n + 1
    <3>1. k \in 1..n
      BY <2>7
    <3>2. PICK i \in R : Cardinality(UpTo(R, i)) = k
      BY <1>3, <2>5, <3>1
    <3>3. UpTo(T, i) = UpTo(R, i)
      <4>1. ~(m <= i)
        BY <2>3, <2>4, <3>2
      <4>2. QED
        BY <2>4, <4>1 DEF UpTo
    <3>4. QED
      BY <2>4, <3>2, <3>3
  <2>8. QED
    BY <2>6, <2>7
<1> HIDE DEF N
<1>4. Nat \subseteq N
  BY <1>2, <1>3, Induction
<1>5. QED
  BY <1>1, <1>4 DEF N

\* The positions of a selection are in it, in order.
LEMMA NthIs ==
  ASSUME NEW I \in SUBSET Int, IsFiniteSet(I)
  PROVE  /\ \A k \in 1..Cardinality(I) : Nth(I, k) \in I
         /\ \A k, l \in 1..Cardinality(I) : k < l => Nth(I, k) < Nth(I, l)
<1>1. \A k \in 1..Cardinality(I) : Nth(I, k) \in I /\ Cardinality(UpTo(I, Nth(I, k))) = k
  BY CountedUp DEF Nth, UpTo
<1>2. ASSUME NEW k \in 1..Cardinality(I), NEW l \in 1..Cardinality(I), k < l
      PROVE  Nth(I, k) < Nth(I, l)
  <2>1. PICK a \in I, b \in I : a = Nth(I, k) /\ b = Nth(I, l)
    BY <1>1
  <2>2. SUFFICES ASSUME b <= a PROVE FALSE
    BY <2>1
  <2>3. PICK A, B : A = UpTo(I, a) /\ B = UpTo(I, b)
    OBVIOUS
  <2>4. B \in SUBSET A /\ A \in SUBSET I
    <3>1. a \in Int /\ b \in Int /\ \A j \in I : j \in Int
      OBVIOUS
    <3>2. \A j \in I : j <= b => j <= a
      BY <2>2, <3>1
    <3>3. QED
      BY <2>3, <3>2 DEF UpTo
  <2>5. IsFiniteSet(A)
    BY <2>4, FS_Subset
  <2>6. Cardinality(B) <= Cardinality(A)
    BY <2>4, <2>5, FS_Subset
  <2>7. Cardinality(A) = k /\ Cardinality(B) = l
    BY <1>1, <2>1, <2>3
  <2>8. QED
    BY <1>2, <2>6, <2>7, FS_CardinalityType
<1>3. QED
  BY <1>1, <1>2

\* The stages of a selection are those of the plan, in its order.
LEMMA SelectionIs ==
  ASSUME NEW steps \in Seq(Stage), NEW I \in SUBSET (DOMAIN steps), NEW kept, kept = StagesAt(steps, I)
  PROVE  /\ kept \in Seq(Stage) /\ IsFiniteSet(I) /\ DOMAIN kept = 1..Cardinality(I)
         /\ \A k \in DOMAIN kept : Nth(I, k) \in I /\ kept[k] = steps[Nth(I, k)]
         /\ \A k, l \in DOMAIN kept : k < l => Nth(I, k) < Nth(I, l)
<1>1. DOMAIN steps = 1..Len(steps) /\ Len(steps) \in Nat
  OBVIOUS
<1>2. IsFiniteSet(I) /\ I \in SUBSET Int
  <2>1. IsFiniteSet(1..Len(steps))
    BY <1>1, FS_Interval
  <2>2. I \in SUBSET (1..Len(steps))
    BY <1>1
  <2>3. QED
    BY <2>1, <2>2, FS_Subset
<1>3. Cardinality(I) \in Nat
  BY <1>2, FS_CardinalityType
<1>4. \A k \in 1..Cardinality(I) : Nth(I, k) \in I
  BY <1>2, NthIs
<1>5. DOMAIN kept = 1..Cardinality(I) /\ \A k \in 1..Cardinality(I) : kept[k] = steps[Nth(I, k)]
  BY DEF StagesAt
<1>6. \A k \in 1..Cardinality(I) : kept[k] \in Stage
  BY <1>4, <1>5
<1>7. kept = [k \in 1..Cardinality(I) |-> kept[k]]
  BY DEF StagesAt
<1>8. kept \in Seq(Stage)
  BY <1>3, <1>6, <1>7
<1>9. QED
  BY <1>2, <1>4, <1>5, <1>8, NthIs

\* A selection of recovery stages undoes each of its instances once.
LEMMA SelectionUndoes ==
  ASSUME NEW steps \in Seq(Stage), Undoing(steps),
         NEW I \in SUBSET (DOMAIN steps), NEW kept, kept = StagesAt(steps, I)
  PROVE  kept \in Seq(Stage) /\ Undoing(kept) /\ \A k \in DOMAIN kept : \E i \in I : kept[k] = steps[i]
<1>1. /\ kept \in Seq(Stage)
      /\ \A k \in DOMAIN kept : Nth(I, k) \in I /\ kept[k] = steps[Nth(I, k)]
      /\ \A k, l \in DOMAIN kept : k < l => Nth(I, k) < Nth(I, l)
  BY SelectionIs
<1>2. Undoing(kept)
  BY <1>1 DEF Undoing
<1>3. QED
  BY <1>1, <1>2

LEMMA PhasesAre == Phases[1] = "pre" /\ Phases[2] = "execute" /\ Phases[3] = "post"
BY DEF Phases

LEMMA OriginalPlan == OriginalSteps \in Seq(Stage) /\ \A i \in DOMAIN OriginalSteps : ~OriginalSteps[i].undo
<1>1. Instances \in Nat
  BY JobAssumption
<1>2. ASSUME NEW i \in 1..3 * Instances
      PROVE  StageOf((i + 2) \div 3, FALSE, Phases[((i - 1) % 3) + 1]) \in Stage
  <2>1. (i + 2) \div 3 \in Nodes
    BY <1>1, Z3 DEF Nodes
  <2>2. ((i - 1) % 3) + 1 \in {1, 2, 3}
    BY <1>1, Z3
  <2>3. QED
    BY <2>1, <2>2, PhasesAre DEF StageOf, Stage
<1>3. OriginalSteps \in Seq(Stage)
  <2>1. OriginalSteps \in [1..3 * Instances -> Stage]
    BY <1>2 DEF OriginalSteps
  <2>2. 3 * Instances \in Nat
    BY <1>1
  <2>3. PICK n \in Nat : n = 3 * Instances
    BY <2>2
  <2>4. OriginalSteps \in [1..n -> Stage]
    BY <2>1, <2>3
  <2>5. QED
    BY <2>4
<1>4. QED
  BY <1>3 DEF OriginalSteps, StageOf

LEMMA RecoveryPlan == RecoverySteps \in Seq(Stage) /\ Undoing(RecoverySteps)
<1>1. Instances \in Nat /\ 2 * Instances \in Nat
  BY JobAssumption
<1> DEFINE node(i) == Instances - (i - 1) \div 2
           phase(i) == Phases[((i - 1) % 2) + 2]
<1>2. ASSUME NEW i \in 1..2 * Instances
      PROVE  /\ node(i) \in Nodes /\ phase(i) \in {"execute", "post"}
             /\ phase(i) = "post" <=> i % 2 = 0
  <2>1. node(i) \in Nodes
    BY <1>1, Z3 DEF Nodes
  <2>2. ((i - 1) % 2) + 2 \in {2, 3} /\ (((i - 1) % 2) + 2 = 3 <=> i % 2 = 0)
    BY <1>1, Z3
  <2>3. QED
    BY <2>1, <2>2, PhasesAre
<1>3. ASSUME NEW i \in 1..2 * Instances, NEW j \in 1..2 * Instances, i < j
      PROVE  (node(i) # node(j) \/ phase(i) # phase(j)) /\ (phase(i) = "post" => node(j) # node(i))
  <2>1. i % 2 = 0 => node(j) # node(i)
    BY <1>1, <1>3, Z3
  <2>2. node(i) = node(j) => i % 2 # j % 2
    BY <1>1, <1>3, Z3
  <2>3. QED
    BY <1>2, <2>1, <2>2
<1>4. \A i \in 1..2 * Instances : RecoverySteps[i] = StageOf(node(i), TRUE, phase(i))
  BY DEF RecoverySteps
<1>5. DOMAIN RecoverySteps = 1..2 * Instances
  BY DEF RecoverySteps
<1> HIDE DEF node, phase
<1>6. ASSUME NEW i \in 1..2 * Instances
      PROVE  /\ RecoverySteps[i] \in Stage /\ RecoverySteps[i].undo
             /\ RecoverySteps[i].node = node(i) /\ RecoverySteps[i].phase = phase(i)
  <2>1. PICK n \in Nodes, p \in {"execute", "post"} : n = node(i) /\ p = phase(i)
    BY <1>2
  <2>2. RecoverySteps[i] = StageOf(n, TRUE, p)
    BY <1>4, <2>1
  <2>3. QED
    BY <2>1, <2>2 DEF StageOf, Stage
<1>7. RecoverySteps \in Seq(Stage)
  <2>1. RecoverySteps = [i \in 1..2 * Instances |-> RecoverySteps[i]]
    BY DEF RecoverySteps
  <2>2. PICK n \in Nat : n = 2 * Instances
    BY <1>1
  <2>3. RecoverySteps \in [1..n -> Stage]
    BY <1>6, <2>1, <2>2
  <2>4. QED
    BY <2>3
<1>8. Undoing(RecoverySteps)
  BY <1>2, <1>3, <1>5, <1>6 DEF Undoing
<1>9. QED
  BY <1>7, <1>8

LEMMA RollbackPlanUndoes ==
  ASSUME NEW plan \in RollbackPlans
  PROVE  /\ plan \in Seq(Stage) /\ Undoing(plan)
         /\ \A k \in DOMAIN plan : receipt.actions[MainOf(plan[k].node)] \in Touched
<1>1. PICK stages : stages = TouchedStages(receipt.actions)
  OBVIOUS
<1>2. PICK I : I = {i \in DOMAIN RecoverySteps : receipt.actions[MainOf(RecoverySteps[i].node)] \in Touched}
  OBVIOUS
<1>3. stages = StagesAt(RecoverySteps, I) /\ I \in SUBSET (DOMAIN RecoverySteps)
  BY <1>1, <1>2 DEF TouchedStages
<1>4. stages \in Seq(Stage) /\ Undoing(stages) /\ \A k \in DOMAIN stages : \E i \in I : stages[k] = RecoverySteps[i]
  BY <1>3, RecoveryPlan, SelectionUndoes
<1>5. \A k \in DOMAIN stages : receipt.actions[MainOf(stages[k].node)] \in Touched
  BY <1>2, <1>4
<1>6. PICK nodes : plan = SelectRollbackStages(stages, nodes)
  BY <1>1 DEF RollbackPlans
<1>7. PICK J : J = {i \in DOMAIN stages : stages[i].node \in nodes}
  OBVIOUS
<1>8. plan = StagesAt(stages, J) /\ J \in SUBSET (DOMAIN stages)
  BY <1>6, <1>7 DEF SelectRollbackStages
<1>9. plan \in Seq(Stage) /\ Undoing(plan) /\ \A k \in DOMAIN plan : \E i \in J : plan[k] = stages[i]
  BY <1>4, <1>8, SelectionUndoes
<1>10. QED
  BY <1>5, <1>8, <1>9

LEMMA LeastIs ==
  ASSUME NEW I \in SUBSET Int, IsFiniteSet(I), I # {}
  PROVE  Min(I) \in I /\ \A j \in I : Min(I) <= j
<1>1. 1 \in 1..Cardinality(I)
  BY FS_EmptySet, FS_CardinalityType
<1>2. PICK i \in I : Cardinality(UpTo(I, i)) = 1
  BY <1>1, CountedUp
<1>3. ASSUME NEW j \in I, ~(i <= j) PROVE FALSE
  <2>1. PICK U : U = UpTo(I, i)
    OBVIOUS
  <2>2. i \in Int /\ j \in Int
    OBVIOUS
  <2>3. i \in U /\ j \in U /\ i # j /\ U \in SUBSET I
    BY <1>3, <2>1, <2>2 DEF UpTo
  <2>4. IsFiniteSet(U)
    BY <2>3, FS_Subset
  <2>5. \E x : U = {x}
    BY <1>2, <2>1, <2>4, FS_Singleton
  <2>6. QED
    BY <2>3, <2>5
<1>4. \E x \in I : \A j \in I : x <= j
  BY <1>3
<1>5. QED
  BY <1>4 DEF Min

\* Positions before `start` of one stage each for some instances that are done.
OnceEach(steps, start, I) ==
  /\ I \in SUBSET (1..start - 1)
  /\ \A i, j \in I : steps[i].node = steps[j].node => i = j
  /\ \A i \in I, j \in start..Len(steps) : steps[i].node # steps[j].node

\* A continuation is the rest of the plan behind checks of what is done.
LEMMA ContinuationIs ==
  ASSUME NEW steps \in Seq(Stage), NEW start \in 1..Len(steps)
  PROVE  \E I, kept, rest :
           /\ OnceEach(steps, start, I)
           /\ kept = StagesAt(SubSeq(steps, 1, start - 1), I)
           /\ rest = SubSeq(steps, start, Len(steps))
           /\ Continuation(steps, start) = [i \in DOMAIN kept |-> [kept[i] EXCEPT !.phase = "check"]] \o rest
           /\ \A i \in I : \E j \in 1..start - 1 : ~steps[j].undo
<1> DEFINE done == SubSeq(steps, 1, start - 1)
           rest == SubSeq(steps, start, Len(steps))
           Unfinished == {s.node : s \in ToSet(rest)}
           Checks(n) == {i \in DOMAIN done : done[i].node = n /\ ~done[i].undo
                                             /\ done[i].phase \in {"post", "check"}}
           Refreshed(i) == /\ done[i].node \notin Unfinished
                           /\ Checks(done[i].node) # {}
                           /\ i = Max(Checks(done[i].node))
           I == {i \in DOMAIN done : Refreshed(i)}
           kept == StagesAt(done, I)
<1>1. Continuation(steps, start) = [i \in DOMAIN kept |-> [kept[i] EXCEPT !.phase = "check"]] \o rest
  BY DEF Continuation
<1>2. DOMAIN done = 1..start - 1 /\ \A j \in 1..start - 1 : done[j] = steps[j]
  OBVIOUS
<1>3. \A i \in I : \E j \in 1..start - 1 : ~steps[j].undo
  BY <1>2
<1>4. /\ DOMAIN rest = 1..Len(rest)
      /\ \A j \in start..Len(steps) : \E k \in 1..Len(rest) : rest[k] = steps[j]
  <2>1. Len(rest) = Len(steps) - start + 1 /\ \A k \in 1..Len(rest) : rest[k] = steps[start + k - 1]
    OBVIOUS
  <2>2. DOMAIN rest = 1..Len(rest)
    OBVIOUS
  <2> HIDE DEF rest
  <2>3. Len(steps) \in Nat
    OBVIOUS
  <2>4. ASSUME NEW j \in start..Len(steps) PROVE \E k \in 1..Len(rest) : rest[k] = steps[j]
    <3>1. PICK k : k = j - start + 1
      OBVIOUS
    <3>2. k \in 1..Len(rest) /\ start + k - 1 = j
      BY <2>1, <2>3, <3>1
    <3>3. QED
      BY <2>1, <3>2
  <2>5. QED
    BY <2>2, <2>4
<1>5. OnceEach(steps, start, I)
  <2>1. I \in SUBSET (1..start - 1)
    BY <1>2
  <2>2. ASSUME NEW i \in I, NEW j \in I, steps[i].node = steps[j].node PROVE i = j
    <3>1. i = Max(Checks(done[i].node)) /\ j = Max(Checks(done[j].node)) /\ done[i].node = done[j].node
      BY <1>2, <2>2
    <3> HIDE DEF Checks
    <3>2. QED
      BY <3>1
  <2>3. ASSUME NEW i \in I, NEW j \in start..Len(steps) PROVE steps[i].node # steps[j].node
    <3> HIDE DEF rest, I
    <3>1. PICK k \in 1..Len(rest) : rest[k] = steps[j]
      BY <1>4
    <3>2. rest[k] \in ToSet(rest)
      BY <1>4, <3>1 DEF ToSet
    <3>3. steps[j].node \in Unfinished
      BY <3>1, <3>2
    <3>4. QED
      BY <1>2, <3>3 DEF I
  <2> HIDE DEF I
  <2>4. QED
    BY <2>1, <2>2, <2>3 DEF OnceEach
<1> HIDE DEF done, rest, I
<1>6. QED
  BY <1>1, <1>3, <1>5 DEF done, rest

\* A retry starts at the first stage that has not succeeded, or at the precheck
\* before it.
RestartsAt(steps, results, start) ==
  \E m \in 1..Len(steps) :
    /\ m = Min(Incomplete(steps, results)) /\ ~Succeeded(results, steps[m])
    /\ \A j \in 1..m - 1 : Succeeded(results, steps[j])
    /\ \/ start = m
       \/ start = m - 1 /\ start \in 1..m /\ steps[m].phase = "execute" /\ steps[start].phase = "pre"

LEMMA RetryStartIs ==
  ASSUME NEW steps \in Seq(Stage), NEW results, Incomplete(steps, results) # {},
         NEW start, start = RetryStart(steps, results)
  PROVE  start \in 1..Len(steps) /\ RestartsAt(steps, results, start)
<1>1. PICK I : I = Incomplete(steps, results)
  OBVIOUS
<1>2. Len(steps) \in Nat /\ DOMAIN steps = 1..Len(steps) /\ I \in SUBSET (1..Len(steps)) /\ I # {}
  BY <1>1 DEF Incomplete
<1>3. IsFiniteSet(I) /\ I \in SUBSET Int
  <2>1. I \in SUBSET Int
    BY <1>2
  <2>2. IsFiniteSet(1..Len(steps))
    BY <1>2, FS_Interval
  <2>3. QED
    BY <1>2, <2>1, <2>2, FS_Subset
<1>4. PICK i \in I : i = Min(I)
  BY <1>2, <1>3, LeastIs
<1>5. i \in 1..Len(steps) /\ ~Succeeded(results, steps[i])
  BY <1>1, <1>2, <1>4 DEF Incomplete
<1>6. start = IF steps[i].phase = "execute" /\ i > 1
                 /\ steps[i - 1] = StageOf(steps[i].node, steps[i].undo, "pre")
              THEN i - 1 ELSE i
  BY <1>1, <1>4 DEF RetryStart
<1>7. \A j \in 1..i - 1 : Succeeded(results, steps[j])
  <2>1. SUFFICES ASSUME NEW j \in 1..i - 1, ~Succeeded(results, steps[j]) PROVE FALSE
    OBVIOUS
  <2>2. j \in I
    BY <1>1, <1>2, <1>5, <2>1 DEF Incomplete
  <2>3. i <= j
    BY <1>2, <1>3, <1>4, <2>2, LeastIs
  <2>4. QED
    BY <1>5, <2>3
<1>8. CASE start = i
  BY <1>1, <1>4, <1>5, <1>7, <1>8 DEF RestartsAt
<1>9. CASE start # i
  <2>1. start = i - 1 /\ i > 1 /\ steps[i].phase = "execute"
        /\ steps[i - 1] = StageOf(steps[i].node, steps[i].undo, "pre")
    BY <1>6, <1>9
  <2>2. start \in 1..i /\ start \in 1..Len(steps) /\ steps[start].phase = "pre"
    BY <1>2, <1>5, <2>1 DEF StageOf
  <2>3. QED
    BY <1>1, <1>4, <1>5, <1>7, <2>1, <2>2 DEF RestartsAt
<1>10. QED
  BY <1>8, <1>9

\* What is left of a plan from a stage that has not succeeded.
LeftOf(steps, results, plan) ==
  \E m \in 1..Len(steps) :
    /\ \A j \in 1..m - 1 : Succeeded(results, steps[j])
    /\ ~Succeeded(results, steps[m]) /\ Len(plan) = Len(steps) - m + 1
    /\ \A i \in 1..Len(plan) : plan[i] = steps[m + i - 1]

\* The bodies of a retry are those of the plan from where it starts.
BodiesFrom(steps, results, plan) ==
  \E start \in 1..Len(steps) :
    /\ RestartsAt(steps, results, start)
    /\ \A i \in DOMAIN plan : plan[i].phase = "execute" => \E j \in start..Len(steps) : plan[i] = steps[j]

Distinct(steps) == \A i, j \in DOMAIN steps : i < j => steps[i] # steps[j]

Installing(steps) == \A i \in DOMAIN steps : ~steps[i].undo

LEMMA RetryPlanIs ==
  ASSUME NEW steps \in Seq(Stage), NEW results, Incomplete(steps, results) # {},
         NEW plan, plan = RetryStages(steps, results)
  PROVE  /\ plan \in Seq(Stage)
         /\ Installing(steps) => Installing(plan)
         /\ Undoing(steps) => LeftOf(steps, results, plan)
         /\ Distinct(steps) => Distinct(plan)
         /\ BodiesFrom(steps, results, plan)
<1>1. PICK start \in 1..Len(steps) : start = RetryStart(steps, results) /\ RestartsAt(steps, results, start)
  BY RetryStartIs
<1>2. PICK I, kept, rest :
        /\ OnceEach(steps, start, I)
        /\ kept = StagesAt(SubSeq(steps, 1, start - 1), I)
        /\ rest = SubSeq(steps, start, Len(steps))
        /\ Continuation(steps, start) = [i \in DOMAIN kept |-> [kept[i] EXCEPT !.phase = "check"]] \o rest
        /\ \A i \in I : \E j \in 1..start - 1 : ~steps[j].undo
  BY ContinuationIs
<1>3. PICK done : done = SubSeq(steps, 1, start - 1)
  OBVIOUS
<1>4. /\ done \in Seq(Stage) /\ DOMAIN done = 1..start - 1
      /\ \A i \in 1..start - 1 : done[i] = steps[i]
      /\ Len(steps) \in Nat /\ DOMAIN steps = 1..Len(steps)
  BY <1>3
<1>5. /\ kept \in Seq(Stage) /\ IsFiniteSet(I) /\ DOMAIN kept = 1..Cardinality(I)
      /\ \A k \in DOMAIN kept : Nth(I, k) \in I /\ kept[k] = done[Nth(I, k)]
      /\ \A k, l \in DOMAIN kept : k < l => Nth(I, k) < Nth(I, l)
  <2>1. kept = StagesAt(done, I) /\ I \in SUBSET (DOMAIN done)
    BY <1>2, <1>3, <1>4 DEF OnceEach
  <2>2. QED
    BY <1>4, <2>1, SelectionIs
<1>6. PICK checks : checks = [i \in DOMAIN kept |-> [kept[i] EXCEPT !.phase = "check"]]
  OBVIOUS
<1>7. ASSUME NEW i \in DOMAIN kept PROVE kept[i] \in Stage /\ \E j \in I : j = Nth(I, i) /\ kept[i] = steps[j]
  <2>1. PICK j \in I : j = Nth(I, i)
    BY <1>5
  <2>2. kept[i] = steps[j] /\ j \in DOMAIN steps
    BY <1>2, <1>4, <1>5, <2>1 DEF OnceEach
  <2>3. steps[j] \in Stage
    BY <2>2
  <2>4. QED
    BY <2>1, <2>2, <2>3
<1>8. ASSUME NEW i \in DOMAIN kept
      PROVE  /\ checks[i] \in Stage /\ checks[i].phase = "check"
             /\ checks[i].undo = kept[i].undo /\ checks[i].node = kept[i].node
  BY <1>6, <1>7 DEF Stage
<1>9. Cardinality(I) \in Nat
  BY <1>5, FS_CardinalityType
<1>10. checks \in Seq(Stage) /\ Len(checks) = Cardinality(I) /\ DOMAIN checks = DOMAIN kept
  <2>1. PICK n \in Nat : n = Cardinality(I)
    BY <1>9
  <2>2. checks \in [1..n -> Stage]
    BY <1>5, <1>6, <1>8, <2>1
  <2>3. QED
    BY <1>5, <2>1, <2>2
<1>11. /\ rest \in Seq(Stage) /\ Len(rest) = Len(steps) - start + 1
       /\ \A i \in 1..Len(rest) : rest[i] = steps[start + i - 1]
  BY <1>2, <1>4
<1>12. plan = checks \o rest
  BY <1>1, <1>2, <1>6 DEF RetryStages
<1>13. /\ plan \in Seq(Stage) /\ Len(plan) = Len(checks) + Len(rest)
       /\ \A i \in 1..Len(plan) : plan[i] = IF i <= Len(checks) THEN checks[i] ELSE rest[i - Len(checks)]
  BY <1>10, <1>11, <1>12, ConcatProperties
<1>14. ASSUME NEW i \in DOMAIN plan, i <= Len(checks)
       PROVE  \E j \in I : /\ j = Nth(I, i) /\ i \in DOMAIN kept /\ plan[i].node = steps[j].node
                           /\ plan[i].undo = steps[j].undo /\ plan[i].phase = "check"
  <2>1. i \in DOMAIN kept /\ plan[i] = checks[i]
    BY <1>5, <1>9, <1>10, <1>11, <1>13, <1>14
  <2>2. PICK j \in I : j = Nth(I, i) /\ kept[i] = steps[j]
    BY <1>7, <2>1
  <2>3. QED
    BY <1>8, <2>1, <2>2
<1>15. ASSUME NEW i \in DOMAIN plan, ~(i <= Len(checks))
       PROVE  \E j \in start..Len(steps) : j = i - Len(checks) + start - 1 /\ plan[i] = steps[j]
  <2>1. i \in 1..Len(plan) /\ Len(checks) \in Nat /\ Len(rest) \in Nat
    BY <1>10, <1>11, <1>13, <1>15
  <2>2. PICK k \in 1..Len(rest) : k = i - Len(checks)
    BY <1>13, <1>15, <2>1
  <2>3. plan[i] = rest[k]
    BY <1>13, <1>15, <2>1, <2>2
  <2>4. rest[k] = steps[start + k - 1] /\ start + k - 1 \in start..Len(steps)
    BY <1>4, <1>11
  <2>5. start + k - 1 = i - Len(checks) + start - 1
    BY <2>1, <2>2
  <2>6. QED
    BY <2>3, <2>4, <2>5
<1>16. I \subseteq DOMAIN steps /\ start..Len(steps) \subseteq DOMAIN steps
  BY <1>2, <1>4 DEF OnceEach
<1>17. Installing(steps) => Installing(plan)
  BY <1>14, <1>15, <1>16 DEF Installing
<1>18. BodiesFrom(steps, results, plan)
  <2>1. ASSUME NEW i \in DOMAIN plan, plan[i].phase = "execute" PROVE \E j \in start..Len(steps) : plan[i] = steps[j]
    BY <1>14, <1>15, <2>1
  <2>2. QED
    BY <1>1, <2>1 DEF BodiesFrom
<1>19. ASSUME Distinct(steps), NEW i \in DOMAIN plan, NEW j \in DOMAIN plan, i < j PROVE plan[i] # plan[j]
  <2>1. i \in Int /\ j \in Int /\ Len(checks) \in Int
    BY <1>10, <1>13
  <2>2. CASE j <= Len(checks)
    <3>1. i <= Len(checks)
      BY <1>19, <2>1, <2>2
    <3>2. PICK a \in I : a = Nth(I, i) /\ i \in DOMAIN kept /\ plan[i].node = steps[a].node
      BY <1>14, <3>1
    <3>3. PICK c \in I : c = Nth(I, j) /\ j \in DOMAIN kept /\ plan[j].node = steps[c].node
      BY <1>14, <2>2
    <3>4. Nth(I, i) < Nth(I, j)
      BY <1>5, <1>19, <3>2, <3>3
    <3>5. a # c
      BY <1>16, <3>2, <3>3, <3>4
    <3>6. QED
      BY <1>2, <3>2, <3>3, <3>5 DEF OnceEach
  <2>3. CASE i <= Len(checks) /\ ~(j <= Len(checks))
    <3>1. PICK a \in I : plan[i].node = steps[a].node
      BY <1>14, <2>3
    <3>2. PICK c \in start..Len(steps) : plan[j] = steps[c]
      BY <1>15, <2>3
    <3>3. QED
      BY <1>2, <3>1, <3>2 DEF OnceEach
  <2>4. CASE ~(i <= Len(checks))
    <3>1. ~(j <= Len(checks))
      BY <1>19, <2>1, <2>4
    <3>2. PICK a \in start..Len(steps) : a = i - Len(checks) + start - 1 /\ plan[i] = steps[a]
      BY <1>15, <2>4
    <3>3. PICK c \in start..Len(steps) : c = j - Len(checks) + start - 1 /\ plan[j] = steps[c]
      BY <1>15, <3>1
    <3>4. a < c
      BY <1>19, <2>1, <3>2, <3>3
    <3>5. QED
      BY <1>16, <1>19, <3>2, <3>3, <3>4 DEF Distinct
  <2>5. QED
    BY <2>2, <2>3, <2>4
<1>20. ASSUME Undoing(steps) PROVE LeftOf(steps, results, plan)
  <2>1. I = {}
    <3>1. SUFFICES ASSUME NEW i \in I PROVE FALSE
      OBVIOUS
    <3>2. PICK j \in 1..start - 1 : ~steps[j].undo
      BY <1>2
    <3>3. j \in DOMAIN steps
      BY <1>4
    <3>4. QED
      BY <1>20, <3>2, <3>3 DEF Undoing
  <2>2. Len(checks) = 0
    BY <1>10, <2>1, FS_EmptySet
  <2>3. Len(plan) = Len(rest) /\ \A i \in 1..Len(plan) : plan[i] = rest[i]
    BY <1>11, <1>13, <2>2
  <2>4. ~Succeeded(results, steps[start]) /\ \A j \in 1..start - 1 : Succeeded(results, steps[j])
    <3>1. steps[start].phase # "pre"
      BY <1>4, <1>20 DEF Undoing
    <3>2. QED
      BY <1>1, <3>1 DEF RestartsAt
  <2>5. QED
    BY <1>11, <2>3, <2>4 DEF LeftOf
<1>21. QED
  BY <1>13, <1>17, <1>18, <1>19, <1>20 DEF Distinct

LEMMA JobStarts == JobInit => JobInv
<1>1. SUFFICES ASSUME JobInit PROVE JobInv
  OBVIOUS
<1>2. receipt = NoReceipt /\ controller = NoController /\ orphan = NoStage
  BY <1>1 DEF JobInit
<1>3. JobTypeOK
  <2>1. previewed \in Seq(Stage)
    BY <1>1 DEF JobInit
  <2>2. MaxAttempts \in Nat /\ MaxKills \in Nat /\ MaxLostWrites \in Nat
    BY JobAssumption
  <2>3. attempts \in 0..MaxAttempts /\ kills \in 0..MaxKills /\ lostWrites \in 0..MaxLostWrites
    BY <1>1, <2>2 DEF JobInit
  <2>4. /\ target \in [Nodes -> {"clean", "partial", "installed"}]
        /\ begun \in [Body -> Nat] /\ {overlapped} \subseteq BOOLEAN /\ retrySafe \subseteq Body
    BY <1>1 DEF JobInit
  <2>5. QED
    BY <1>2, <2>1, <2>3, <2>4 DEF JobTypeOK
<1>4. ReceiptKnowsTarget
  BY <1>1 DEF JobInit, ReceiptKnowsTarget
<1>5. QED
  BY <1>2, <1>3, <1>4 DEF JobInv, ReceiptHolds, ControllerHolds, ControllerKnows, OrphanIsKnown

\* What a begun stage records of the actions.
LEMMA BeginRecords ==
  ASSUME NEW actions \in [Body -> Statuses], NEW s \in Stage, NEW a, a = ActionReceipt(actions, "begin", s)
  PROVE  /\ a \in [Body -> Statuses]
         /\ \A n \in Nodes : actions[MainOf(n)] \in Touched => a[MainOf(n)] \in Touched
         /\ s.phase = "execute" /\ ~s.undo => a[MainOf(s.node)] \in Touched
<1>1. BodyOf(s) \in Body /\ s.node \in Nodes /\ \A n \in Nodes : MainOf(n) \in Body
  BY DEF BodyOf, MainOf, Body, Stage
<1>2. ~s.undo => BodyOf(s) = MainOf(s.node)
  BY DEF BodyOf, MainOf, Stage
<1>3. PICK b : b = BodyOf(s)
  OBVIOUS
<1>4. CASE s.phase = "execute"
  <2>1. a = [actions EXCEPT ![b] = "started"]
    BY <1>3, <1>4 DEF ActionReceipt
  <2>2. b \in Body
    BY <1>1, <1>3
  <2>3. a \in [Body -> Statuses] /\ a[b] = "started" /\ \A x \in Body : x # b => a[x] = actions[x]
    BY <2>1, <2>2 DEF Statuses
  <2>4. QED
    BY <1>1, <1>2, <1>3, <2>3 DEF Touched
<1>5. CASE s.phase # "execute"
  <2>1. a = actions
    BY <1>5 DEF ActionReceipt
  <2>2. QED
    BY <1>5, <2>1
<1>6. QED
  BY <1>4, <1>5

\* What an ended stage records: only the check of an undone instance takes
\* the mark from it.
LEMMA EndRecords ==
  ASSUME NEW actions \in [Body -> Statuses], NEW s \in Stage, NEW a, a = ActionReceipt(actions, "end", s)
  PROVE  /\ a \in [Body -> Statuses]
         /\ \A n \in Nodes : actions[MainOf(n)] \in Touched /\ ~(s.phase = "post" /\ s.undo /\ n = s.node)
                             => a[MainOf(n)] \in Touched
<1>1. PICK b \in Body, m \in Body : b = BodyOf(s) /\ m = MainOf(s.node)
  BY DEF BodyOf, MainOf, Body, Stage
<1>2. \A n \in Nodes : MainOf(n) \in Body /\ (n # s.node => MainOf(n) # m)
  BY <1>1 DEF MainOf, Body
<1>3. CASE s.phase = "execute"
  <2>1. a = [actions EXCEPT ![b] = "main_succeeded"]
    BY <1>1, <1>3 DEF ActionReceipt
  <2>2. QED
    BY <1>2, <1>3, <2>1 DEF Statuses, Touched
<1>4. CASE s.phase = "post" /\ s.undo
  <2>1. a = [actions EXCEPT ![b] = "verified", ![m] = "rolled_back"]
    BY <1>1, <1>4 DEF ActionReceipt
  <2>2. PICK d : d = [actions EXCEPT ![b] = "verified"]
    OBVIOUS
  <2>3. a = [d EXCEPT ![m] = "rolled_back"] /\ d \in [Body -> Statuses]
    BY <2>1, <2>2 DEF Statuses
  <2>4. \A n \in Nodes : actions[MainOf(n)] \in Touched => d[MainOf(n)] \in Touched
    BY <1>2, <2>2 DEF Touched
  <2>5. QED
    BY <1>2, <1>4, <2>3, <2>4 DEF Statuses
<1>5. CASE s.phase = "post" /\ ~s.undo
  <2>1. a = [actions EXCEPT ![b] = "verified"]
    BY <1>1, <1>5 DEF ActionReceipt
  <2>2. QED
    BY <1>2, <1>5, <2>1 DEF Statuses, Touched
<1>6. CASE s.phase \notin {"execute", "post"}
  <2>1. a = actions
    BY <1>6 DEF ActionReceipt
  <2>2. QED
    BY <1>6, <2>1
<1>7. QED
  BY <1>3, <1>4, <1>5, <1>6

\* A controller that may be left with a failed write.
MayBeLeft(c) ==
  /\ DOMAIN c = ControllerFields /\ Planned(c) /\ c.active \in BOOLEAN
  /\ c.next \in 1..Len(c.steps) + 1 /\ (c.active => c.next <= Len(c.steps))
  /\ c.seen \in {"none", "ok", "failed"}
  /\ c.op = "rollback" =>
       /\ \A i \in DOMAIN c.steps : i < c.next => Succeeded(c.results, c.steps[i])
       /\ ToUndo(c.steps, c.actions, c.next)
  /\ ~overlapped => \A n \in Nodes : target[n] # "clean" => c.actions[MainOf(n)] \in Touched

\* A controller whose state may be written.
MayBeWritten(c) ==
  /\ MayBeLeft(c) /\ c.failed = FALSE /\ (c.active => c.seen = "none")
  /\ c.active /\ c.steps[c.next].phase = "execute"
       => c.actions[MainOf(c.steps[c.next].node)] \in Touched

\* What is written of such a controller is a receipt.
LEMMA WrittenReceipt ==
  ASSUME NEW c, MayBeLeft(c), NEW r, r = ReceiptOf(c)
  PROVE  /\ DOMAIN r = ReceiptFields /\ Planned(r) /\ r # NoReceipt
         /\ r.op = c.op /\ r.history = c.history /\ r.steps = c.steps /\ r.results = c.results /\ r.actions = c.actions
         /\ r.op = "rollback" => \A i \in DOMAIN r.steps :
              ~Succeeded(r.results, r.steps[i]) => ToUndo(r.steps, r.actions, i)
<1>1. /\ DOMAIN r = ReceiptFields
      /\ r.op = c.op /\ r.history = c.history /\ r.steps = c.steps /\ r.results = c.results /\ r.actions = c.actions
  BY DEF ReceiptOf, ReceiptFields
<1>2. Planned(r)
  BY <1>1 DEF MayBeLeft, Planned
<1>3. r # NoReceipt
  BY <1>1, <1>2 DEF Planned, NoReceipt
<1>4. ASSUME r.op = "rollback", NEW i \in DOMAIN r.steps, ~Succeeded(r.results, r.steps[i])
      PROVE  ToUndo(r.steps, r.actions, i)
  <2>1. ToUndo(c.steps, c.actions, c.next) /\ ~(i < c.next)
    BY <1>1, <1>4 DEF MayBeLeft
  <2>2. c.next \in Int /\ DOMAIN c.steps \subseteq Int
    BY DEF MayBeLeft, Planned
  <2>3. i \in Int /\ \A j \in DOMAIN c.steps : j >= i => j >= c.next
    BY <1>1, <1>4, <2>1, <2>2
  <2>4. QED
    BY <1>1, <2>1, <2>3 DEF ToUndo
<1>5. QED
  BY <1>1, <1>2, <1>3, <1>4

\* A write, or one that is lost, keeps what is known.
LEMMA PersistKeeps ==
  ASSUME JobInv, controller # NoController,
         NEW c, MayBeWritten(c), NEW left, MayBeLeft(left), Persist(c, left),
         UNCHANGED <<retrySafe, orphan, target, begun, previewed, overlapped, attempts, kills>>
  PROVE  JobInv'
<1>1. ~overlapped => orphan = NoStage
  BY DEF JobInv, ControllerKnows
<1>2. /\ retrySafe \subseteq Body /\ orphan \in Stage \cup {NoStage}
      /\ target \in [Nodes -> {"clean", "partial", "installed"}] /\ begun \in [Body -> Nat]
      /\ previewed \in Seq(Stage) /\ {overlapped} \subseteq BOOLEAN
      /\ attempts \in 0..MaxAttempts /\ kills \in 0..MaxKills /\ lostWrites \in 0..MaxLostWrites
  BY DEF JobInv, JobTypeOK
<1>3. OrphanIsKnown'
  BY <1>1 DEF OrphanIsKnown
<1>4. PICK r : r = ReceiptOf(c)
  OBVIOUS
<1>5. /\ DOMAIN r = ReceiptFields /\ Planned(r) /\ r # NoReceipt
      /\ r.op = c.op /\ r.history = c.history /\ r.steps = c.steps /\ r.results = c.results /\ r.actions = c.actions
      /\ r.op = "rollback" => \A i \in DOMAIN r.steps :
            ~Succeeded(r.results, r.steps[i]) => ToUndo(r.steps, r.actions, i)
  BY <1>4, WrittenReceipt DEF MayBeWritten
<1>6. receipt # NoReceipt /\ (receipt' = r \/ receipt' = receipt)
  BY <1>4 DEF Persist, WriteLost, JobInv, ControllerHolds
<1>7. lostWrites' \in 0..MaxLostWrites
  BY <1>2, JobAssumption DEF Persist, WriteLost
<1>8. /\ receipt' # NoReceipt /\ receipt'.op \in {"run", "rollback"} /\ receipt'.steps \in Seq(Stage)
      /\ DOMAIN receipt'.results \subseteq ToSet(receipt'.steps)
      /\ receipt'.actions \in [Body -> Statuses] /\ receipt'.history \subseteq Stage
  <2>1. CASE receipt' = r
    BY <1>5, <2>1 DEF Planned
  <2>2. CASE receipt' = receipt
    BY <1>6, <2>2 DEF JobInv, JobTypeOK
  <2>3. QED
    BY <1>6, <2>1, <2>2
<1>9. ReceiptHolds'
  <2>1. CASE receipt' = r
    BY <1>5, <2>1 DEF ReceiptHolds
  <2>2. CASE receipt' = receipt
    BY <2>2 DEF JobInv, ReceiptHolds
  <2>3. QED
    BY <1>6, <2>1, <2>2
<1>10. ReceiptKnowsTarget'
  <2>1. CASE receipt' = r
    BY <1>5, <2>1 DEF ReceiptKnowsTarget, MayBeWritten, MayBeLeft
  <2>2. CASE receipt' = receipt
    BY <2>2 DEF JobInv, ReceiptKnowsTarget
  <2>3. QED
    BY <1>6, <2>1, <2>2
<1>11. CASE receipt' = ReceiptOf(c) /\ controller' = c /\ UNCHANGED lostWrites
  <2>1. receipt' = r /\ controller' = c
    BY <1>4, <1>11
  <2>2. /\ c.next \in 1..Len(c.steps) + 1 /\ (c.active => c.next <= Len(c.steps))
        /\ c.seen \in {"none", "working", "ok", "failed"}
    BY DEF MayBeWritten, MayBeLeft
  <2>3. JobTypeOK'
    BY <1>2, <1>7, <1>8, <2>1, <2>2 DEF JobTypeOK
  <2>4. ControllerHolds'
    BY <1>4, <1>5, <2>1 DEF ControllerHolds, Working, Current, Stages, MayBeWritten, MayBeLeft
  <2>5. ControllerKnows'
    BY <1>1, <2>1 DEF ControllerKnows, Working, Current, Stages, MayBeWritten, MayBeLeft
  <2>6. QED
    BY <1>3, <1>9, <1>10, <2>3, <2>4, <2>5 DEF JobInv
<1>12. CASE controller' = [left EXCEPT !.failed = TRUE]
  <2>1. PICK d : d = [left EXCEPT !.failed = TRUE]
    OBVIOUS
  <2>2. /\ DOMAIN d = ControllerFields /\ d.failed = TRUE /\ d.op = left.op /\ d.history = left.history
        /\ d.steps = left.steps /\ d.results = left.results /\ d.actions = left.actions
        /\ d.next = left.next /\ d.active = left.active /\ d.seen = left.seen
    BY <2>1 DEF MayBeLeft, ControllerFields, ReceiptFields
  <2>3. controller' = d
    BY <1>12, <2>1
  <2>4. /\ d.next \in 1..Len(d.steps) + 1 /\ (d.active => d.next <= Len(d.steps))
        /\ d.seen \in {"none", "working", "ok", "failed"}
    BY <2>2 DEF MayBeLeft
  <2>5. JobTypeOK'
    BY <1>2, <1>7, <1>8, <2>3, <2>4 DEF JobTypeOK
  <2>6. Planned(d)
    BY <2>2 DEF MayBeLeft, Planned, ControllerFields
  <2>7. ~Working' /\ d.failed
    BY <2>2, <2>3 DEF Working, MayBeLeft
  <2>8. ControllerHolds'
    BY <1>8, <2>2, <2>3, <2>6, <2>7 DEF ControllerHolds, Stages, MayBeLeft
  <2>9. ControllerKnows'
    BY <1>1, <2>2, <2>3, <2>7 DEF ControllerKnows, MayBeLeft
  <2>10. QED
    BY <1>3, <1>9, <1>10, <2>5, <2>8, <2>9 DEF JobInv
<1>13. QED
  BY <1>11, <1>12 DEF Persist

\* The stage a serving controller is at.
LEMMA AtCurrent ==
  ASSUME JobInv, Serving, controller.next <= Len(Stages), NEW s, s = Current
  PROVE  /\ DOMAIN controller = ControllerFields /\ Planned(controller) /\ s \in Stage
         /\ controller.next \in DOMAIN Stages /\ controller.next \in Nat /\ Len(Stages) \in Nat
         /\ s \in ToSet(Stages) /\ DOMAIN Stages \subseteq Int
         /\ \A i \in DOMAIN Stages : Stages[i].node \in Nodes
         /\ controller.op = "run" => ~s.undo
         /\ controller.op = "rollback" =>
              /\ s.undo /\ s.phase \in {"execute", "post"}
              /\ \A i \in DOMAIN Stages : i < controller.next => Stages[i] # s
              /\ s.phase = "post" => \A i \in DOMAIN Stages : i > controller.next => Stages[i].node # s.node
<1>1. DOMAIN controller = ControllerFields /\ Planned(controller)
  BY DEF JobInv, ControllerHolds, Serving
<1>2. Stages \in Seq(Stage) /\ controller.next \in 1..Len(Stages) + 1
  BY <1>1 DEF Planned, Stages, JobInv, JobTypeOK, Serving
<1>3. /\ controller.next \in DOMAIN Stages /\ controller.next \in Nat /\ Len(Stages) \in Nat
      /\ DOMAIN Stages \subseteq Int
  BY <1>2
<1>4. s \in Stage /\ s \in ToSet(Stages)
  BY <1>2, <1>3 DEF Current, ToSet
<1>5. controller.op = "run" => ~s.undo
  BY <1>1, <1>3 DEF Planned, Current, Stages
<1>6. controller.op = "rollback" => Undoing(Stages)
  BY <1>1 DEF Planned, Stages
<1>7. ASSUME Undoing(Stages)
      PROVE  /\ s.undo /\ s.phase \in {"execute", "post"}
             /\ \A i \in DOMAIN Stages : i < controller.next => Stages[i] # s
             /\ s.phase = "post" => \A i \in DOMAIN Stages : i > controller.next => Stages[i].node # s.node
  <2>1. \A i \in DOMAIN Stages : i > controller.next => controller.next < i
    BY <1>3
  <2>2. QED
    BY <1>3, <1>7, <2>1 DEF Undoing, Current
<1>8. ASSUME NEW i \in DOMAIN Stages PROVE Stages[i].node \in Nodes
  <2>1. Stages[i] \in Stage
    BY <1>2
  <2>2. QED
    BY <2>1 DEF Stage
<1>9. QED
  BY <1>1, <1>3, <1>4, <1>5, <1>6, <1>7, <1>8

\* The controller a begun and an ended stage write, and the one that is left when
\* the end cannot be written.
StageBegun(c) ==
  /\ c.op = controller.op /\ c.history = controller.history /\ c.steps = controller.steps /\ c.next = controller.next
  /\ c.results = With(controller.results, Current, "running")
  /\ c.actions = ActionReceipt(controller.actions, "begin", Current)
  /\ c.active = TRUE /\ c.seen = "none"

StageLeft(c) ==
  /\ c.op = controller.op /\ c.history = controller.history /\ c.steps = controller.steps
  /\ c.results = controller.results /\ c.next = controller.next
  /\ c.actions = ActionReceipt(controller.actions, "end", Current)
  /\ c.active = controller.active /\ c.seen = controller.seen

StageEnded(c) ==
  /\ c.op = controller.op /\ c.history = controller.history /\ c.steps = controller.steps /\ c.next = controller.next + 1
  /\ c.results = With(controller.results, Current, "succeeded")
  /\ c.actions = ActionReceipt(controller.actions, "end", Current)
  /\ c.active = FALSE

LEMMA BeginWrites ==
  ASSUME JobInv, BeginStage
  PROVE  \E c : StageBegun(c) /\ MayBeWritten(c) /\ Persist(c, c)
<1>1. Serving /\ ~controller.active /\ controller.next <= Len(Stages) /\ controller # NoController
  BY DEF BeginStage, Serving
<1>2. PICK s : s = Current
  OBVIOUS
<1>3. /\ DOMAIN controller = ControllerFields /\ Planned(controller) /\ s \in Stage
      /\ controller.next \in DOMAIN Stages /\ controller.next \in Nat /\ Len(Stages) \in Nat
      /\ s \in ToSet(Stages) /\ DOMAIN Stages \subseteq Int
      /\ \A i \in DOMAIN Stages : Stages[i].node \in Nodes
      /\ controller.op = "run" => ~s.undo
      /\ controller.op = "rollback" =>
           /\ s.undo /\ s.phase \in {"execute", "post"}
           /\ \A i \in DOMAIN Stages : i < controller.next => Stages[i] # s
           /\ s.phase = "post" => \A i \in DOMAIN Stages : i > controller.next => Stages[i].node # s.node
  BY <1>1, <1>2, AtCurrent
<1>4. PICK results, actions : /\ results = With(controller.results, s, "running")
                              /\ actions = ActionReceipt(controller.actions, "begin", s)
  OBVIOUS
<1>5. /\ actions \in [Body -> Statuses]
      /\ \A n \in Nodes : controller.actions[MainOf(n)] \in Touched => actions[MainOf(n)] \in Touched
      /\ s.phase = "execute" /\ ~s.undo => actions[MainOf(s.node)] \in Touched
  BY <1>3, <1>4, BeginRecords DEF Planned
<1>6. /\ DOMAIN results = DOMAIN controller.results \cup {s}
      /\ \A x \in DOMAIN controller.results : x # s => results[x] = controller.results[x]
  BY <1>4 DEF With
<1>7. PICK c : c = [controller EXCEPT !.results = results, !.actions = actions,
                                      !.active = TRUE, !.seen = "none"]
  OBVIOUS
<1>8. /\ DOMAIN c = ControllerFields /\ c.op = controller.op /\ c.history = controller.history /\ c.steps = controller.steps
      /\ c.results = results /\ c.actions = actions /\ c.next = controller.next
      /\ c.active = TRUE /\ c.seen = "none" /\ c.failed = controller.failed
  BY <1>3, <1>7 DEF ControllerFields, ReceiptFields
<1>9. Persist(c, c)
  BY <1>2, <1>4, <1>7 DEF BeginStage
<1>10. MayBeWritten(c)
  <2>1. Planned(c)
    BY <1>3, <1>5, <1>6, <1>8 DEF Planned, Stages, ControllerFields, ReceiptFields
  <2>2. c.failed = FALSE
    BY <1>1, <1>8 DEF Serving, JobInv, ControllerHolds
  <2>3. ASSUME c.op = "rollback", NEW i \in DOMAIN c.steps, i < c.next
        PROVE  Succeeded(c.results, c.steps[i])
    <3>1. Succeeded(controller.results, c.steps[i])
      BY <1>1, <1>8, <2>3 DEF JobInv, ControllerHolds, Stages
    <3>2. c.steps[i] # s
      BY <1>3, <1>8, <2>3 DEF Stages
    <3>3. QED
      BY <1>6, <1>8, <3>1, <3>2 DEF Succeeded
  <2>4. ASSUME c.op = "rollback" PROVE ToUndo(c.steps, c.actions, c.next)
    <3>1. ToUndo(Stages, controller.actions, controller.next)
      BY <1>1, <1>8, <2>4 DEF JobInv, ControllerHolds
    <3>2. QED
      BY <1>3, <1>5, <1>8, <3>1 DEF ToUndo, Stages
  <2>5. ASSUME s.phase = "execute" PROVE actions[MainOf(s.node)] \in Touched
    <3>1. CASE controller.op = "run"
      BY <1>3, <1>5, <2>5, <3>1
    <3>2. CASE controller.op = "rollback"
      <4>1. ToUndo(c.steps, c.actions, c.next)
        BY <1>8, <2>4, <3>2
      <4>2. c.next \in DOMAIN c.steps /\ c.steps[c.next] = s /\ c.next >= c.next
        BY <1>2, <1>3, <1>8 DEF Stages, Current
      <4>3. QED
        BY <1>8, <2>5, <4>1, <4>2 DEF ToUndo
    <3>3. QED
      BY <1>3, <3>1, <3>2 DEF Planned
  <2>6. c.active /\ c.steps[c.next].phase = "execute" => c.actions[MainOf(c.steps[c.next].node)] \in Touched
    BY <1>2, <1>8, <2>5 DEF Current, Stages
  <2>7. ~overlapped => \A n \in Nodes : target[n] # "clean" => c.actions[MainOf(n)] \in Touched
    BY <1>1, <1>5, <1>8 DEF JobInv, ControllerKnows
  <2>8. c.next \in 1..Len(c.steps) + 1 /\ c.next <= Len(c.steps)
    BY <1>1, <1>3, <1>8 DEF Stages, JobInv, JobTypeOK
  <2>9. QED
    BY <1>8, <2>1, <2>2, <2>3, <2>4, <2>6, <2>7, <2>8 DEF MayBeWritten, MayBeLeft
<1>11. StageBegun(c)
  BY <1>2, <1>4, <1>8 DEF StageBegun
<1>12. QED
  BY <1>9, <1>10, <1>11

LEMMA BeginStep == JobInv /\ BeginStage => JobInv'
<1> SUFFICES ASSUME JobInv, BeginStage PROVE JobInv'
  OBVIOUS
<1>1. PICK c : MayBeWritten(c) /\ Persist(c, c)
  BY BeginWrites
<1>2. controller # NoController
  BY DEF BeginStage, Serving
<1>3. QED
  BY <1>1, <1>2, PersistKeeps DEF BeginStage, MayBeWritten

LEMMA EndWrites ==
  ASSUME JobInv, EndStage, controller.seen # "failed"
  PROVE  \E c, left : /\ StageEnded(c) /\ MayBeWritten(c)
                     /\ StageLeft(left) /\ MayBeLeft(left) /\ Persist(c, left)
<1>1. Serving /\ controller.active /\ controller # NoController /\ controller.next <= Len(Stages)
  BY DEF EndStage, Serving, JobInv, JobTypeOK, Stages
<1>2. PICK s : s = Current
  OBVIOUS
<1>3. /\ DOMAIN controller = ControllerFields /\ Planned(controller) /\ s \in Stage
      /\ controller.next \in DOMAIN Stages /\ controller.next \in Nat /\ Len(Stages) \in Nat
      /\ s \in ToSet(Stages) /\ DOMAIN Stages \subseteq Int
      /\ \A i \in DOMAIN Stages : Stages[i].node \in Nodes
      /\ controller.op = "run" => ~s.undo
      /\ controller.op = "rollback" =>
           /\ s.undo /\ s.phase \in {"execute", "post"}
           /\ \A i \in DOMAIN Stages : i < controller.next => Stages[i] # s
           /\ s.phase = "post" => \A i \in DOMAIN Stages : i > controller.next => Stages[i].node # s.node
  BY <1>1, <1>2, AtCurrent
<1>4. controller.seen = "ok"
  BY DEF EndStage
<1>5. PICK results, actions : /\ results = With(controller.results, s, "succeeded")
                              /\ actions = ActionReceipt(controller.actions, "end", s)
  OBVIOUS
<1>6. /\ actions \in [Body -> Statuses]
      /\ \A n \in Nodes : controller.actions[MainOf(n)] \in Touched
                          /\ ~(s.phase = "post" /\ s.undo /\ n = s.node) => actions[MainOf(n)] \in Touched
  BY <1>3, <1>5, EndRecords DEF Planned
<1>7. /\ DOMAIN results = DOMAIN controller.results \cup {s} /\ results[s] = "succeeded"
      /\ \A x \in DOMAIN controller.results : x # s => results[x] = controller.results[x]
  BY <1>5 DEF With
<1>8. PICK next : next = controller.next + 1
  OBVIOUS
<1>9. PICK left, c : /\ left = [controller EXCEPT !.actions = actions]
                    /\ c = [left EXCEPT !.results = results, !.active = FALSE, !.next = next]
  OBVIOUS
<1>10. /\ DOMAIN left = ControllerFields /\ left.op = controller.op /\ left.history = controller.history
       /\ left.steps = controller.steps /\ left.results = controller.results /\ left.actions = actions
       /\ left.next = controller.next /\ left.active = controller.active /\ left.seen = controller.seen
       /\ left.failed = controller.failed
  BY <1>3, <1>9 DEF ControllerFields, ReceiptFields
<1>11. /\ DOMAIN c = ControllerFields /\ c.op = controller.op /\ c.history = controller.history /\ c.steps = controller.steps
       /\ c.results = results /\ c.actions = actions /\ c.next = next
       /\ c.active = FALSE /\ c.seen = controller.seen /\ c.failed = controller.failed
  BY <1>9, <1>10 DEF ControllerFields, ReceiptFields
<1>12. Persist(c, left)
  <2>1. left = [controller EXCEPT !.actions = ActionReceipt(@, "end", s)]
    BY <1>3, <1>5, <1>9
  <2>2. left.results = controller.results /\ left.next = controller.next
    BY <1>10
  <2>3. c = [left EXCEPT !.results = With(@, s, "succeeded"), !.active = FALSE, !.next = @ + 1]
    BY <1>5, <1>8, <1>9, <2>2
  <2>4. QED
    BY <1>2, <2>1, <2>3 DEF EndStage
<1>13. \A n \in Nodes : ~overlapped /\ target[n] # "clean" => actions[MainOf(n)] \in Touched
  <2>1. SUFFICES ASSUME ~overlapped, NEW n \in Nodes, target[n] # "clean" PROVE actions[MainOf(n)] \in Touched
    OBVIOUS
  <2>2. /\ controller.actions[MainOf(n)] \in Touched
        /\ Working /\ controller.seen = "ok" /\ Current.phase = "post" /\ Current.undo
             => target[Current.node] = "clean"
    BY <1>1, <2>1 DEF JobInv, ControllerKnows
  <2>3. Working
    BY <1>1 DEF Working, Serving
  <2>4. ~(s.phase = "post" /\ s.undo /\ n = s.node)
    BY <1>2, <1>4, <2>1, <2>2, <2>3
  <2>5. QED
    BY <1>6, <2>2, <2>4
<1>14. ASSUME controller.op = "rollback", NEW i \in DOMAIN Stages, i >= controller.next, Stages[i].phase = "execute"
       PROVE  actions[MainOf(Stages[i].node)] \in Touched
  <2>1. ToUndo(Stages, controller.actions, controller.next)
    BY <1>1, <1>14 DEF JobInv, ControllerHolds
  <2>2. controller.actions[MainOf(Stages[i].node)] \in Touched
    BY <1>14, <2>1 DEF ToUndo
  <2>3. ~(s.phase = "post" /\ s.undo /\ Stages[i].node = s.node)
    <3>1. CASE i = controller.next
      BY <1>2, <1>14, <3>1 DEF Current
    <3>2. CASE i # controller.next
      <4>1. i > controller.next
        BY <1>3, <1>14, <3>2
      <4>2. QED
        BY <1>3, <1>14, <4>1
    <3>3. QED
      BY <3>1, <3>2
  <2>4. QED
    BY <1>3, <1>6, <2>2, <2>3
<1>15. MayBeWritten(c)
  <2>1. Planned(c)
    BY <1>3, <1>6, <1>7, <1>11 DEF Planned, Stages, ControllerFields, ReceiptFields
  <2>2. c.failed = FALSE
    BY <1>1, <1>11 DEF Serving, JobInv, ControllerHolds
  <2>3. ASSUME c.op = "rollback", NEW i \in DOMAIN c.steps, i < c.next
        PROVE  Succeeded(c.results, c.steps[i])
    <3>1. CASE i = controller.next
      BY <1>2, <1>7, <1>11, <3>1 DEF Succeeded, Current, Stages
    <3>2. CASE i # controller.next
      <4>1. i < controller.next
        BY <1>3, <1>8, <1>11, <2>3, <3>2 DEF Stages
      <4>2. Succeeded(controller.results, c.steps[i])
        BY <1>1, <1>11, <2>3, <4>1 DEF JobInv, ControllerHolds, Stages
      <4>3. QED
        BY <1>7, <1>11, <4>2 DEF Succeeded
    <3>3. QED
      BY <3>1, <3>2
  <2>4. ASSUME c.op = "rollback" PROVE ToUndo(c.steps, c.actions, c.next)
    <3>1. \A i \in DOMAIN Stages : i >= next => i >= controller.next
      BY <1>3, <1>8
    <3>2. QED
      BY <1>11, <1>14, <2>4, <3>1 DEF ToUndo, Stages
  <2>5. ~overlapped => \A n \in Nodes : target[n] # "clean" => c.actions[MainOf(n)] \in Touched
    BY <1>11, <1>13
  <2>6. c.next \in 1..Len(c.steps) + 1
    BY <1>1, <1>3, <1>8, <1>11 DEF Stages
  <2>7. QED
    BY <1>4, <1>11, <2>1, <2>2, <2>3, <2>4, <2>5, <2>6 DEF MayBeWritten, MayBeLeft
<1>16. MayBeLeft(left)
  <2>1. Planned(left)
    BY <1>3, <1>6, <1>10 DEF Planned, ControllerFields, ReceiptFields
  <2>2. ASSUME left.op = "rollback"
        PROVE  /\ \A i \in DOMAIN left.steps : i < left.next => Succeeded(left.results, left.steps[i])
               /\ ToUndo(left.steps, left.actions, left.next)
    <3>1. \A i \in DOMAIN Stages : i < controller.next => Succeeded(controller.results, Stages[i])
      BY <1>1, <1>10, <2>2 DEF JobInv, ControllerHolds
    <3>2. QED
      BY <1>10, <1>14, <2>2, <3>1 DEF ToUndo, Stages
  <2>3. /\ left.active \in BOOLEAN /\ left.next \in 1..Len(left.steps) + 1
        /\ left.next <= Len(left.steps) /\ left.seen \in {"none", "ok", "failed"}
    BY <1>1, <1>4, <1>10 DEF JobInv, JobTypeOK, ControllerHolds, Stages
  <2>4. ~overlapped => \A n \in Nodes : target[n] # "clean" => left.actions[MainOf(n)] \in Touched
    BY <1>10, <1>13
  <2>5. QED
    BY <1>10, <2>1, <2>2, <2>3, <2>4 DEF MayBeLeft
<1>17. StageEnded(c)
  BY <1>2, <1>5, <1>8, <1>11 DEF StageEnded
<1>18. StageLeft(left)
  BY <1>2, <1>5, <1>10 DEF StageLeft
<1>19. QED
  BY <1>12, <1>15, <1>16, <1>17, <1>18

LEMMA EndStep == JobInv /\ EndStage => JobInv'
<1> SUFFICES ASSUME JobInv, EndStage PROVE JobInv'
  OBVIOUS
<1>1. Serving /\ controller.active /\ controller # NoController /\ controller.next <= Len(Stages)
  BY DEF EndStage, Serving, JobInv, JobTypeOK, Stages
<1>2. DOMAIN controller = ControllerFields /\ Planned(controller)
  BY <1>1 DEF JobInv, ControllerHolds
<1>3. ASSUME controller.seen = "failed" PROVE JobInv'
  <2>1. PICK c : c = [controller EXCEPT !.failed = TRUE]
    OBVIOUS
  <2>2. controller' = c /\ UNCHANGED <<retrySafe, receipt, orphan, target, begun, previewed, overlapped,
                                       attempts, kills, lostWrites>>
    BY <1>3, <2>1 DEF EndStage
  <2>3. /\ DOMAIN c = ControllerFields /\ c.op = controller.op /\ c.history = controller.history /\ c.steps = controller.steps
        /\ c.results = controller.results /\ c.actions = controller.actions /\ c.next = controller.next
        /\ c.active = controller.active /\ c.seen = controller.seen /\ c.failed = TRUE
    BY <1>2, <2>1 DEF ControllerFields, ReceiptFields
  <2>4. JobTypeOK'
    BY <1>1, <2>2, <2>3 DEF JobInv, JobTypeOK
  <2>5. Planned(c)
    BY <1>2, <2>3 DEF Planned, ControllerFields
  <2>6. ControllerHolds'
    BY <1>1, <1>3, <2>2, <2>3, <2>5 DEF JobInv, ControllerHolds, Working, Current, Stages
  <2>7. ControllerKnows'
    BY <1>1, <1>3, <2>2, <2>3 DEF JobInv, ControllerKnows, Working, Current, Stages
  <2>8. ReceiptHolds' /\ OrphanIsKnown' /\ ReceiptKnowsTarget'
    BY <2>2 DEF JobInv, ReceiptHolds, OrphanIsKnown, ReceiptKnowsTarget
  <2>9. QED
    BY <2>4, <2>6, <2>7, <2>8 DEF JobInv
<1>4. ASSUME controller.seen # "failed" PROVE JobInv'
  <2>1. PICK c, left : MayBeWritten(c) /\ MayBeLeft(left) /\ Persist(c, left)
    BY <1>4, EndWrites
  <2>2. QED
    BY <1>1, <2>1, PersistKeeps DEF EndStage
<1>5. QED
  BY <1>3, <1>4

\* A launch begins from a sound plan and from what the receipt knows.
LEMMA LaunchKeeps ==
  ASSUME JobInv, NEW op \in {"run", "rollback"}, NEW steps \in Seq(Stage), NEW actions \in [Body -> Statuses],
         op = "run" => \A i \in DOMAIN steps : ~steps[i].undo,
         op = "rollback" => Undoing(steps) /\ ToUndo(steps, actions, 1),
         receipt # NoReceipt => actions = receipt.actions,
         Launch(op, steps, actions)
  PROVE  JobInv'
<1>0. PICK past : past = IF receipt = NoReceipt THEN {} ELSE Acknowledged(receipt)
  OBVIOUS
<1>1. PICK c : c = [op |-> op, steps |-> steps, results |-> <<>>, actions |-> actions, history |-> past,
                    next |-> 1, active |-> FALSE, seen |-> "none", failed |-> FALSE]
  OBVIOUS
<1>2. /\ DOMAIN c = ControllerFields /\ c.op = op /\ c.steps = steps /\ c.results = <<>> /\ c.actions = actions
      /\ c.history = past
      /\ c.next = 1 /\ c.active = FALSE /\ c.seen = "none" /\ c.failed = FALSE
  BY <1>1 DEF ControllerFields, ReceiptFields
<1>3. /\ controller = NoController /\ attempts < MaxAttempts /\ attempts' = attempts + 1
      /\ \/ receipt' = ReceiptOf(c) /\ controller' = c /\ UNCHANGED lostWrites
         \/ /\ lostWrites < MaxLostWrites /\ lostWrites' = lostWrites + 1
            /\ receipt' \in {receipt, ReceiptOf(c)} /\ UNCHANGED controller
      /\ overlapped' = (overlapped \/ orphan # NoStage)
      /\ UNCHANGED <<retrySafe, orphan, target, begun, previewed, kills>>
  BY <1>0, <1>1 DEF Launch, WriteLost
<1>4. /\ retrySafe \subseteq Body /\ orphan \in Stage \cup {NoStage}
      /\ target \in [Nodes -> {"clean", "partial", "installed"}] /\ begun \in [Body -> Nat]
      /\ previewed \in Seq(Stage) /\ {overlapped} \subseteq BOOLEAN
      /\ attempts \in 0..MaxAttempts /\ kills \in 0..MaxKills /\ lostWrites \in 0..MaxLostWrites
  BY DEF JobInv, JobTypeOK
<1>5. attempts' \in 0..MaxAttempts /\ lostWrites' \in 0..MaxLostWrites
  BY <1>3, <1>4, JobAssumption
<1>6. {overlapped'} \subseteq BOOLEAN
  BY <1>3
<1>7. ~overlapped' => ~overlapped /\ orphan = NoStage
  BY <1>3
<1>8. OrphanIsKnown'
  BY <1>3, <1>7 DEF OrphanIsKnown
<1>9. ~overlapped => \A n \in Nodes : target[n] # "clean" => actions[MainOf(n)] \in Touched
  BY DEF JobInv, ReceiptKnowsTarget
<1>10. past \subseteq Stage
  <2>1. receipt # NoReceipt => /\ receipt.steps \in Seq(Stage) /\ receipt.history \subseteq Stage
                               /\ DOMAIN receipt.results \subseteq ToSet(receipt.steps)
    BY DEF JobInv, JobTypeOK
  <2>2. receipt # NoReceipt => ToSet(receipt.steps) \subseteq Stage
    BY <2>1 DEF ToSet
  <2>3. QED
    BY <1>0, <2>1, <2>2 DEF Acknowledged
<1>11. Planned(c)
  <2>1. DOMAIN c.results = {}
    BY <1>2
  <2>2. QED
    BY <1>2, <1>10, <2>1 DEF Planned, ControllerFields, ReceiptFields
<1>12. Len(steps) \in Nat /\ DOMAIN steps = 1..Len(steps)
  OBVIOUS
<1>13. MayBeLeft(c)
  <2>1. \A i \in DOMAIN steps : ~(i < 1)
    BY <1>12
  <2>2. c.op = "rollback" => /\ \A i \in DOMAIN c.steps : i < c.next => Succeeded(c.results, c.steps[i])
                             /\ ToUndo(c.steps, c.actions, c.next)
    BY <1>2, <2>1
  <2>3. c.next \in 1..Len(c.steps) + 1
    BY <1>2, <1>12
  <2>4. QED
    BY <1>2, <1>9, <1>11, <2>2, <2>3 DEF MayBeLeft
<1>14. PICK r : r = ReceiptOf(c)
  OBVIOUS
<1>15. /\ DOMAIN r = ReceiptFields /\ Planned(r) /\ r # NoReceipt
       /\ r.op = c.op /\ r.history = c.history /\ r.steps = c.steps /\ r.results = c.results /\ r.actions = c.actions
       /\ r.op = "rollback" => \A i \in DOMAIN r.steps :
             ~Succeeded(r.results, r.steps[i]) => ToUndo(r.steps, r.actions, i)
  BY <1>13, <1>14, WrittenReceipt
<1>16. ASSUME receipt' = r PROVE ReceiptHolds' /\ ReceiptKnowsTarget'
  <2>1. ReceiptHolds'
    BY <1>15, <1>16 DEF ReceiptHolds
  <2>2. ReceiptKnowsTarget'
    BY <1>2, <1>3, <1>7, <1>9, <1>15, <1>16 DEF ReceiptKnowsTarget
  <2>3. QED
    BY <2>1, <2>2
<1>17. CASE receipt' = r /\ controller' = c
  <2>1. JobTypeOK'
    BY <1>2, <1>3, <1>4, <1>5, <1>6, <1>12, <1>15, <1>17 DEF JobTypeOK, Planned
  <2>2. ControllerHolds'
    <3>1. ~Working'
      BY <1>2, <1>17 DEF Working
    <3>2. {c.active, c.failed} \subseteq BOOLEAN
      BY <1>2
    <3>3. QED
      BY <1>2, <1>11, <1>13, <1>14, <1>15, <1>17, <3>1, <3>2 DEF ControllerHolds, Stages, MayBeLeft
  <2>3. ControllerKnows'
    BY <1>2, <1>3, <1>7, <1>9, <1>17 DEF ControllerKnows, Working
  <2>4. QED
    BY <1>8, <1>16, <1>17, <2>1, <2>2, <2>3 DEF JobInv
<1>18. CASE receipt' = r /\ controller' = controller
  <2>1. JobTypeOK'
    BY <1>3, <1>4, <1>5, <1>6, <1>15, <1>18 DEF JobTypeOK, Planned
  <2>2. ControllerHolds' /\ ControllerKnows'
    BY <1>3, <1>18 DEF ControllerHolds, ControllerKnows
  <2>3. QED
    BY <1>8, <1>16, <1>18, <2>1, <2>2 DEF JobInv
<1>19. CASE UNCHANGED <<receipt, controller>>
  <2>1. JobTypeOK'
    BY <1>3, <1>4, <1>5, <1>6, <1>19 DEF JobInv, JobTypeOK
  <2>2. ReceiptHolds' /\ ControllerHolds' /\ ControllerKnows'
    BY <1>3, <1>19 DEF JobInv, ReceiptHolds, ControllerHolds, ControllerKnows
  <2>3. ReceiptKnowsTarget'
    BY <1>3, <1>7, <1>19 DEF JobInv, ReceiptKnowsTarget
  <2>4. QED
    BY <1>8, <2>1, <2>2, <2>3 DEF JobInv
<1>20. QED
  BY <1>3, <1>14, <1>17, <1>18, <1>19

LEMMA RunStep == JobInv /\ RunJob => JobInv'
<1> SUFFICES ASSUME JobInv, RunJob PROVE JobInv'
  OBVIOUS
<1>1. PICK actions : actions = [b \in Body |-> "none"]
  OBVIOUS
<1>2. actions \in [Body -> Statuses]
  BY <1>1 DEF Statuses
<1>3. receipt = NoReceipt /\ Launch("run", OriginalSteps, actions)
  BY <1>1 DEF RunJob
<1>4. QED
  BY <1>2, <1>3, OriginalPlan, LaunchKeeps

LEMMA ResumeStep == JobInv /\ ResumeJob => JobInv'
<1> SUFFICES ASSUME JobInv, ResumeJob PROVE JobInv'
  OBVIOUS
<1>1. PICK op, steps, results, actions :
        op = receipt.op /\ steps = receipt.steps /\ results = receipt.results /\ actions = receipt.actions
  OBVIOUS
<1>2. /\ op \in {"run", "rollback"} /\ steps \in Seq(Stage) /\ actions \in [Body -> Statuses]
      /\ op = "run" => Installing(steps)
      /\ op = "rollback" => Undoing(steps)
      /\ op = "rollback" => \A i \in DOMAIN steps : ~Succeeded(results, steps[i]) => ToUndo(steps, actions, i)
  <2>1. /\ Planned(receipt)
        /\ receipt.op = "rollback" => \A i \in DOMAIN receipt.steps :
             ~Succeeded(receipt.results, receipt.steps[i]) => ToUndo(receipt.steps, receipt.actions, i)
    BY DEF ResumeJob, JobInv, ReceiptHolds
  <2>2. /\ op \in {"run", "rollback"} /\ steps \in Seq(Stage) /\ actions \in [Body -> Statuses]
        /\ op = "run" => Installing(steps)
        /\ op = "rollback" => Undoing(steps)
    BY <1>1, <2>1 DEF Planned, Installing
  <2>3. QED
    BY <1>1, <2>1, <2>2
<1>3. Incomplete(steps, results) # {}
  BY <1>1 DEF ResumeJob, RetryAllowed
<1>4. PICK plan : plan = RetryStages(steps, results)
  OBVIOUS
<1>5. /\ plan \in Seq(Stage)
      /\ Installing(steps) => Installing(plan)
      /\ Undoing(steps) => LeftOf(steps, results, plan)
  BY <1>2, <1>3, <1>4, RetryPlanIs
<1>6. ASSUME op = "rollback" PROVE Undoing(plan) /\ ToUndo(plan, actions, 1)
  <2>1. PICK m \in 1..Len(steps) :
           /\ ~Succeeded(results, steps[m]) /\ Len(plan) = Len(steps) - m + 1
           /\ \A i \in 1..Len(plan) : plan[i] = steps[m + i - 1]
    BY <1>2, <1>5, <1>6 DEF LeftOf
  <2>2. /\ DOMAIN steps = 1..Len(steps) /\ Len(steps) \in Nat /\ DOMAIN plan = 1..Len(plan) /\ Len(plan) \in Nat
    BY <1>2, <1>5
  <2>3. \A i \in DOMAIN plan : m + i - 1 \in DOMAIN steps /\ m + i - 1 >= m
    BY <2>1, <2>2
  <2>4. \A i, j \in DOMAIN plan : i < j => m + i - 1 < m + j - 1
    BY <2>2
  <2>5. ToUndo(steps, actions, m) /\ Undoing(steps)
    BY <1>2, <1>6, <2>1, <2>2
  <2>6. Undoing(plan)
    <3>1. ASSUME NEW i \in DOMAIN plan PROVE plan[i].undo /\ plan[i].phase \in {"execute", "post"}
      BY <2>1, <2>2, <2>3, <2>5 DEF Undoing
    <3>2. ASSUME NEW i \in DOMAIN plan, NEW j \in DOMAIN plan, i < j
          PROVE  plan[i] # plan[j] /\ (plan[i].phase = "post" => plan[j].node # plan[i].node)
      <4>1. PICK a \in DOMAIN steps, b \in DOMAIN steps : a = m + i - 1 /\ b = m + j - 1
        BY <2>3
      <4>2. a < b
        BY <2>4, <3>2, <4>1
      <4>3. plan[i] = steps[a] /\ plan[j] = steps[b]
        BY <2>1, <2>2, <4>1
      <4>4. QED
        BY <2>5, <4>2, <4>3 DEF Undoing
    <3>3. QED
      BY <3>1, <3>2 DEF Undoing
  <2>7. ToUndo(plan, actions, 1)
    BY <2>1, <2>2, <2>3, <2>5 DEF ToUndo
  <2>8. QED
    BY <2>6, <2>7
<1>7. Launch(op, plan, actions)
  BY <1>1, <1>4 DEF ResumeJob
<1>8. QED
  BY <1>1, <1>2, <1>5, <1>6, <1>7, LaunchKeeps DEF Installing

LEMMA RollbackStep == JobInv /\ RollbackJob => JobInv'
<1> SUFFICES ASSUME JobInv, RollbackJob PROVE JobInv'
  OBVIOUS
<1>1. PICK actions : actions = receipt.actions
  OBVIOUS
<1>2. receipt # NoReceipt /\ actions \in [Body -> Statuses]
  BY <1>1 DEF RollbackJob, JobInv, JobTypeOK
<1>3. previewed \in RollbackPlans /\ Launch("rollback", previewed, actions)
  BY <1>1 DEF RollbackJob
<1>4. /\ previewed \in Seq(Stage) /\ Undoing(previewed)
      /\ \A k \in DOMAIN previewed : actions[MainOf(previewed[k].node)] \in Touched
  BY <1>1, <1>3, RollbackPlanUndoes
<1>5. ToUndo(previewed, actions, 1)
  BY <1>4 DEF ToUndo
<1>6. QED
  BY <1>1, <1>2, <1>3, <1>4, <1>5, LaunchKeeps

LEMMA PreviewStep == JobInv /\ PreviewRollback => JobInv'
<1> SUFFICES ASSUME JobInv, PreviewRollback PROVE JobInv'
  OBVIOUS
<1>1. /\ previewed' \in RollbackPlans
      /\ UNCHANGED <<retrySafe, receipt, controller, orphan, target, begun, overlapped, attempts, kills, lostWrites>>
  BY DEF PreviewRollback
<1>2. previewed' \in Seq(Stage)
  <2>1. PICK plan \in RollbackPlans : plan = previewed'
    BY <1>1
  <2>2. plan \in Seq(Stage)
    BY RollbackPlanUndoes
  <2>3. QED
    BY <2>1, <2>2
<1>3. JobTypeOK'
  BY <1>1, <1>2 DEF JobInv, JobTypeOK
<1>4. ControllerHolds' /\ ControllerKnows'
  BY <1>1 DEF JobInv, ControllerHolds, ControllerKnows, Working, Current, Stages
<1>5. ReceiptHolds' /\ OrphanIsKnown' /\ ReceiptKnowsTarget'
  BY <1>1 DEF JobInv, ReceiptHolds, OrphanIsKnown, ReceiptKnowsTarget
<1>6. QED
  BY <1>3, <1>4, <1>5 DEF JobInv

LEMMA StartsStep == JobInv /\ StageStarts => JobInv'
<1> SUFFICES ASSUME JobInv, StageStarts PROVE JobInv'
  OBVIOUS
<1>1. /\ Serving /\ controller.active /\ controller.seen = "none" /\ controller # NoController
      /\ controller.next <= Len(Stages)
  BY DEF StageStarts, Serving, JobInv, JobTypeOK, Stages
<1>2. PICK s : s = Current
  OBVIOUS
<1>3. DOMAIN controller = ControllerFields /\ Planned(controller) /\ s \in Stage
  BY <1>1, <1>2, AtCurrent
<1>4. PICK c : c = [controller EXCEPT !.seen = "working"]
  OBVIOUS
<1>5. /\ DOMAIN c = ControllerFields /\ c.op = controller.op /\ c.history = controller.history /\ c.steps = controller.steps
      /\ c.results = controller.results /\ c.actions = controller.actions /\ c.next = controller.next
      /\ c.active = controller.active /\ c.seen = "working" /\ c.failed = controller.failed
  BY <1>3, <1>4 DEF ControllerFields, ReceiptFields
<1>6. /\ controller' = c
      /\ IF s.phase = "execute"
         THEN /\ begun' = [begun EXCEPT ![BodyOf(s)] = @ + 1]
              /\ target' = [target EXCEPT ![s.node] = "partial"]
         ELSE UNCHANGED <<begun, target>>
      /\ UNCHANGED <<retrySafe, receipt, orphan, previewed, overlapped, attempts, kills, lostWrites>>
  BY <1>2, <1>4 DEF StageStarts
<1>7. /\ target \in [Nodes -> {"clean", "partial", "installed"}] /\ begun \in [Body -> Nat]
      /\ s.node \in Nodes /\ BodyOf(s) \in Body
  BY <1>3 DEF JobInv, JobTypeOK, Stage, BodyOf, Body
<1>8. /\ target' \in [Nodes -> {"clean", "partial", "installed"}] /\ begun' \in [Body -> Nat]
      /\ \A n \in Nodes : target'[n] # "clean" => target[n] # "clean" \/ (s.phase = "execute" /\ n = s.node)
  BY <1>6, <1>7
<1>9. Planned(c) /\ ReceiptOf(c) = ReceiptOf(controller)
  BY <1>3, <1>5 DEF Planned, ReceiptOf, ControllerFields
<1>10. /\ Working /\ receipt = ReceiptOf(controller) /\ receipt # NoReceipt
       /\ s.phase = "execute" => controller.actions[MainOf(s.node)] \in Touched
  BY <1>1, <1>2 DEF Working, Serving, JobInv, ControllerHolds
<1>11. JobTypeOK'
  BY <1>1, <1>5, <1>6, <1>8 DEF JobInv, JobTypeOK
<1>12. ControllerHolds'
  BY <1>1, <1>2, <1>5, <1>6, <1>9, <1>10 DEF JobInv, ControllerHolds, Working, Current, Stages
<1>13. ASSUME ~overlapped PROVE \A n \in Nodes : target'[n] # "clean" => controller.actions[MainOf(n)] \in Touched
  BY <1>1, <1>8, <1>10, <1>13 DEF JobInv, ControllerKnows
<1>14. ControllerKnows'
  BY <1>1, <1>5, <1>6, <1>13 DEF JobInv, ControllerKnows
<1>15. ReceiptHolds' /\ OrphanIsKnown'
  BY <1>6 DEF JobInv, ReceiptHolds, OrphanIsKnown
<1>16. ReceiptKnowsTarget'
  <2>1. receipt.actions = controller.actions
    BY <1>10 DEF ReceiptOf
  <2>2. QED
    BY <1>6, <1>10, <1>13, <2>1 DEF ReceiptKnowsTarget
<1>17. QED
  BY <1>11, <1>12, <1>14, <1>15, <1>16 DEF JobInv

LEMMA ReportsStep == ASSUME JobInv, NEW seen \in {"ok", "failed"}, StageReports(seen) PROVE JobInv'
<1>1. /\ Serving /\ controller.active /\ controller.seen = "working" /\ controller # NoController
      /\ controller.next <= Len(Stages)
  BY DEF StageReports, Serving, JobInv, JobTypeOK, Stages
<1>2. PICK s : s = Current
  OBVIOUS
<1>3. DOMAIN controller = ControllerFields /\ Planned(controller) /\ s \in Stage
  BY <1>1, <1>2, AtCurrent
<1>4. PICK c : c = [controller EXCEPT !.seen = seen]
  OBVIOUS
<1>5. /\ DOMAIN c = ControllerFields /\ c.op = controller.op /\ c.history = controller.history /\ c.steps = controller.steps
      /\ c.results = controller.results /\ c.actions = controller.actions /\ c.next = controller.next
      /\ c.active = controller.active /\ c.seen = seen /\ c.failed = controller.failed
  BY <1>3, <1>4 DEF ControllerFields, ReceiptFields
<1>6. /\ controller' = c
      /\ seen = "ok" /\ s.phase \in {"post", "check"} => target[s.node] = Outcome(s)
      /\ target' = IF s.phase = "execute" /\ seen = "ok"
                   THEN [target EXCEPT ![s.node] = Outcome(s)] ELSE target
      /\ UNCHANGED <<retrySafe, receipt, orphan, begun, previewed, overlapped, attempts, kills, lostWrites>>
  BY <1>2, <1>4 DEF StageReports
<1>7. /\ target \in [Nodes -> {"clean", "partial", "installed"}]
      /\ s.node \in Nodes /\ Outcome(s) \in {"clean", "partial", "installed"} /\ (s.undo => Outcome(s) = "clean")
  BY <1>3 DEF JobInv, JobTypeOK, Stage, Outcome
<1>8. /\ target' \in [Nodes -> {"clean", "partial", "installed"}]
      /\ \A n \in Nodes : target'[n] # "clean" => target[n] # "clean" \/ (s.phase = "execute" /\ n = s.node)
  BY <1>6, <1>7
<1>9. Planned(c) /\ ReceiptOf(c) = ReceiptOf(controller)
  BY <1>3, <1>5 DEF Planned, ReceiptOf, ControllerFields
<1>10. /\ Working /\ receipt = ReceiptOf(controller) /\ receipt # NoReceipt
       /\ s.phase = "execute" => controller.actions[MainOf(s.node)] \in Touched
  BY <1>1, <1>2 DEF Working, Serving, JobInv, ControllerHolds
<1>11. JobTypeOK'
  BY <1>1, <1>5, <1>6, <1>8 DEF JobInv, JobTypeOK
<1>12. ControllerHolds'
  BY <1>1, <1>2, <1>5, <1>6, <1>9, <1>10 DEF JobInv, ControllerHolds, Working, Current, Stages
<1>13. ASSUME ~overlapped PROVE \A n \in Nodes : target'[n] # "clean" => controller.actions[MainOf(n)] \in Touched
  BY <1>1, <1>8, <1>10, <1>13 DEF JobInv, ControllerKnows
<1>14. ControllerKnows'
  <2>1. seen = "ok" /\ s.phase = "post" /\ s.undo => target'[s.node] = "clean"
    BY <1>6, <1>7
  <2>2. Current' = s
    BY <1>2, <1>5, <1>6 DEF Current, Stages
  <2>3. QED
    BY <1>1, <1>5, <1>6, <1>13, <2>1, <2>2 DEF JobInv, ControllerKnows
<1>15. ReceiptHolds' /\ OrphanIsKnown'
  BY <1>6 DEF JobInv, ReceiptHolds, OrphanIsKnown
<1>16. ReceiptKnowsTarget'
  <2>1. receipt.actions = controller.actions
    BY <1>10 DEF ReceiptOf
  <2>2. QED
    BY <1>6, <1>10, <1>13, <2>1 DEF ReceiptKnowsTarget
<1>17. QED
  BY <1>11, <1>12, <1>14, <1>15, <1>16 DEF JobInv

LEMMA FailsStep == JobInv /\ JobFails => JobInv'
<1> SUFFICES ASSUME JobInv, JobFails PROVE JobInv'
  OBVIOUS
<1>1. Serving /\ controller # NoController
  BY DEF JobFails, Serving
<1>2. PICK c : c = [controller EXCEPT !.failed = TRUE]
  OBVIOUS
<1>3. controller' = c /\ UNCHANGED <<retrySafe, receipt, orphan, target, begun, previewed, overlapped,
                                     attempts, kills, lostWrites>>
  BY <1>2 DEF JobFails
<1>4. DOMAIN controller = ControllerFields /\ Planned(controller)
  BY <1>1 DEF JobInv, ControllerHolds
<1>5. /\ DOMAIN c = ControllerFields /\ c.op = controller.op /\ c.history = controller.history /\ c.steps = controller.steps
      /\ c.results = controller.results /\ c.actions = controller.actions /\ c.next = controller.next
      /\ c.active = controller.active /\ c.seen = controller.seen /\ c.failed = TRUE
  BY <1>2, <1>4 DEF ControllerFields, ReceiptFields
<1>6. Planned(c) /\ ReceiptOf(c) = ReceiptOf(controller)
  BY <1>4, <1>5 DEF Planned, ReceiptOf, ControllerFields
<1>7. JobTypeOK'
  BY <1>1, <1>3, <1>5 DEF JobInv, JobTypeOK
<1>8. receipt = ReceiptOf(controller) /\ (Working' => Working) /\ Current' = Current
  BY <1>1, <1>3, <1>5 DEF JobInv, ControllerHolds, Serving, Working, Current, Stages
<1>9. ControllerHolds'
  BY <1>1, <1>3, <1>5, <1>6, <1>8 DEF JobInv, ControllerHolds, Stages
<1>10. ControllerKnows'
  BY <1>1, <1>3, <1>5, <1>8 DEF JobInv, ControllerKnows
<1>11. ReceiptHolds' /\ OrphanIsKnown' /\ ReceiptKnowsTarget'
  BY <1>3 DEF JobInv, ReceiptHolds, OrphanIsKnown, ReceiptKnowsTarget
<1>12. QED
  BY <1>7, <1>9, <1>10, <1>11 DEF JobInv

LEMMA KillStep == JobInv /\ KillLauncher => JobInv'
<1> SUFFICES ASSUME JobInv, KillLauncher PROVE JobInv'
  OBVIOUS
<1>1. PICK s : s = Current
  OBVIOUS
<1>2. /\ controller # NoController /\ kills < MaxKills /\ kills' = kills + 1 /\ controller' = NoController
      /\ orphan' = IF controller.active /\ controller.seen = "working" /\ s.phase = "execute" THEN s ELSE orphan
      /\ UNCHANGED <<retrySafe, receipt, target, begun, previewed, overlapped, attempts, lostWrites>>
  BY <1>1 DEF KillLauncher
<1>3. kills' \in 0..MaxKills
  BY <1>2, JobAssumption DEF JobInv, JobTypeOK
<1>4. ASSUME controller.active, controller.seen = "working", s.phase = "execute"
      PROVE  s \in Stage /\ receipt # NoReceipt /\ receipt.actions[MainOf(s.node)] \in Touched
  <2>1. Working
    BY <1>4 DEF Working
  <2>2. /\ Planned(controller) /\ receipt = ReceiptOf(controller) /\ receipt # NoReceipt
        /\ controller.actions[MainOf(s.node)] \in Touched
    BY <1>1, <1>2, <1>4, <2>1 DEF JobInv, ControllerHolds
  <2>3. receipt.actions = controller.actions
    BY <2>2 DEF ReceiptOf
  <2>4. controller.next \in 1..Len(controller.steps) /\ controller.steps \in Seq(Stage)
    BY <1>2, <1>4, <2>2 DEF JobInv, JobTypeOK, Planned
  <2>5. s \in Stage
    BY <1>1, <2>4 DEF Current, Stages
  <2>6. QED
    BY <2>2, <2>3, <2>5
<1>5. orphan' \in Stage \cup {NoStage}
  BY <1>2, <1>4 DEF JobInv, JobTypeOK
<1>6. JobTypeOK'
  BY <1>2, <1>3, <1>5 DEF JobInv, JobTypeOK
<1>7. OrphanIsKnown'
  BY <1>2, <1>4 DEF JobInv, OrphanIsKnown
<1>8. ReceiptHolds' /\ ControllerHolds' /\ ControllerKnows' /\ ReceiptKnowsTarget'
  BY <1>2 DEF JobInv, ReceiptHolds, ControllerHolds, ControllerKnows, ReceiptKnowsTarget
<1>9. QED
  BY <1>6, <1>7, <1>8 DEF JobInv

LEMMA OrphanStep == ASSUME JobInv, NEW finished \in BOOLEAN, OrphanEnds(finished) PROVE JobInv'
<1>1. /\ orphan # NoStage /\ orphan' = NoStage
      /\ target' = IF finished THEN [target EXCEPT ![orphan.node] = Outcome(orphan)] ELSE target
      /\ UNCHANGED <<retrySafe, receipt, controller, begun, previewed, overlapped, attempts, kills, lostWrites>>
  BY DEF OrphanEnds
<1>2. /\ target \in [Nodes -> {"clean", "partial", "installed"}] /\ orphan.node \in Nodes
      /\ Outcome(orphan) \in {"clean", "partial", "installed"}
  BY <1>1 DEF JobInv, JobTypeOK, Stage, Outcome
<1>3. /\ target' \in [Nodes -> {"clean", "partial", "installed"}]
      /\ \A n \in Nodes : target'[n] # "clean" => target[n] # "clean" \/ n = orphan.node
  BY <1>1, <1>2
<1>4. JobTypeOK'
  BY <1>1, <1>3 DEF JobInv, JobTypeOK
<1>5. ControllerHolds'
  BY <1>1 DEF JobInv, ControllerHolds, Working, Current, Stages
<1>6. ControllerKnows'
  BY <1>1 DEF JobInv, ControllerKnows
<1>7. ReceiptHolds' /\ OrphanIsKnown'
  BY <1>1 DEF JobInv, ReceiptHolds, OrphanIsKnown
<1>8. ReceiptKnowsTarget'
  BY <1>1, <1>3 DEF JobInv, OrphanIsKnown, ReceiptKnowsTarget
<1>9. QED
  BY <1>4, <1>5, <1>6, <1>7, <1>8 DEF JobInv

LEMMA ReturnsStep == JobInv /\ JobReturns => JobInv'
<1> SUFFICES ASSUME JobInv, JobReturns PROVE JobInv'
  OBVIOUS
<1>1. PICK results : results = FinalResults
  OBVIOUS
<1>2. PICK r : r = [ReceiptOf(controller) EXCEPT !.results = results]
  OBVIOUS
<1>3. /\ controller # NoController /\ controller' = NoController
      /\ \/ receipt' = r /\ UNCHANGED lostWrites
         \/ lostWrites < MaxLostWrites /\ lostWrites' = lostWrites + 1 /\ receipt' \in {receipt, r}
      /\ UNCHANGED <<retrySafe, orphan, target, begun, previewed, overlapped, attempts, kills>>
  BY <1>1, <1>2 DEF JobReturns, WriteLost
<1>4. Planned(controller) /\ controller.active \in BOOLEAN
  BY <1>3 DEF JobInv, ControllerHolds
<1>5. lostWrites' \in 0..MaxLostWrites
  BY <1>3, JobAssumption DEF JobInv, JobTypeOK
<1>6. ControllerHolds' /\ ControllerKnows'
  BY <1>3 DEF ControllerHolds, ControllerKnows
<1>7. OrphanIsKnown'
  BY <1>3 DEF JobInv, ControllerKnows, OrphanIsKnown
<1>8. CASE UNCHANGED receipt
  <2>1. JobTypeOK'
    BY <1>3, <1>5, <1>8 DEF JobInv, JobTypeOK
  <2>2. ReceiptHolds' /\ ReceiptKnowsTarget'
    BY <1>3, <1>8 DEF JobInv, ReceiptHolds, ReceiptKnowsTarget
  <2>3. QED
    BY <1>6, <1>7, <2>1, <2>2 DEF JobInv
<1>9. CASE receipt' = r
  <2>1. /\ DOMAIN r = ReceiptFields /\ r.op = controller.op /\ r.history = controller.history /\ r.steps = controller.steps
        /\ r.results = results /\ r.actions = controller.actions
    BY <1>2 DEF ReceiptOf, ReceiptFields
  <2>2. Stages \in Seq(Stage) /\ controller.next \in 1..Len(Stages) + 1
        /\ (controller.active => controller.next <= Len(Stages))
    BY <1>3, <1>4 DEF Planned, Stages, JobInv, JobTypeOK
  <2>3. PICK s : s = Current
    OBVIOUS
  <2>4. controller.active => s \in ToSet(Stages) /\ controller.next \in DOMAIN Stages
    BY <2>2, <2>3 DEF Current, ToSet
  <2>5. /\ ~controller.active => results = controller.results
        /\ controller.active => results = With(controller.results, s, "failed")
    BY <1>1, <2>3 DEF FinalResults
  <2>6. controller.active => /\ DOMAIN results = DOMAIN controller.results \cup {s}
                             /\ \A x \in DOMAIN controller.results : x # s => results[x] = controller.results[x]
    BY <2>5 DEF With
  <2>7. Planned(r)
    <3>1. DOMAIN r.results \subseteq ToSet(r.steps) /\ r.history \subseteq Stage
      BY <1>4, <2>1, <2>4, <2>5, <2>6 DEF Planned, Stages
    <3>2. QED
      BY <1>4, <2>1, <3>1 DEF Planned
  <2>8. r # NoReceipt
    BY <2>1, <2>7 DEF Planned, NoReceipt
  <2>9. ASSUME r.op = "rollback", NEW i \in DOMAIN r.steps, ~Succeeded(r.results, r.steps[i])
        PROVE  ToUndo(r.steps, r.actions, i)
    <3>1. /\ \A j \in DOMAIN Stages : j < controller.next => Succeeded(controller.results, Stages[j])
          /\ ToUndo(Stages, controller.actions, controller.next) /\ Undoing(Stages)
      BY <1>3, <1>4, <2>1, <2>9 DEF JobInv, ControllerHolds, Planned, Stages
    <3>2. i \in Int /\ i \in DOMAIN Stages /\ DOMAIN Stages \subseteq Int
      BY <2>1, <2>2, <2>9 DEF Stages
    <3>3. ~(i < controller.next)
      <4>1. SUFFICES ASSUME i < controller.next PROVE FALSE
        OBVIOUS
      <4>2. Succeeded(controller.results, Stages[i])
        BY <3>1, <3>2, <4>1
      <4>3. controller.active => Stages[i] # s
        BY <2>3, <2>4, <3>1, <3>2, <4>1 DEF Undoing, Current
      <4>4. Succeeded(results, Stages[i])
        BY <1>4, <2>5, <2>6, <4>2, <4>3 DEF Succeeded
      <4>5. QED
        BY <2>1, <2>9, <4>4 DEF Stages
    <3>4. \A j \in DOMAIN Stages : j >= i => j >= controller.next
      BY <2>2, <3>2, <3>3
    <3>5. QED
      BY <2>1, <3>1, <3>4 DEF ToUndo, Stages
  <2>10. ReceiptHolds'
    BY <1>9, <2>1, <2>7, <2>8, <2>9 DEF ReceiptHolds
  <2>11. JobTypeOK'
    BY <1>3, <1>5, <1>9, <2>7 DEF JobInv, JobTypeOK, Planned
  <2>12. ReceiptKnowsTarget'
    BY <1>3, <1>9, <2>1, <2>8 DEF JobInv, ControllerKnows, ReceiptKnowsTarget
  <2>13. QED
    BY <1>6, <1>7, <2>10, <2>11, <2>12 DEF JobInv
<1>10. QED
  BY <1>3, <1>8, <1>9

LEMMA JobStutter == JobInv /\ UNCHANGED jobVars => JobInv'
<1> SUFFICES ASSUME JobInv, UNCHANGED jobVars PROVE JobInv'
  OBVIOUS
<1> USE DEF jobVars
<1>1. JobTypeOK'
  BY DEF JobInv, JobTypeOK
<1>2. ControllerHolds' /\ ControllerKnows'
  BY DEF JobInv, ControllerHolds, ControllerKnows, Working, Current, Stages
<1>3. ReceiptHolds' /\ OrphanIsKnown' /\ ReceiptKnowsTarget'
  BY DEF JobInv, ReceiptHolds, OrphanIsKnown, ReceiptKnowsTarget
<1>4. QED
  BY <1>1, <1>2, <1>3 DEF JobInv

LEMMA JobStepKeeps == JobInv /\ [JobNext]_jobVars => JobInv'
<1> SUFFICES ASSUME JobInv, [JobNext]_jobVars PROVE JobInv'
  OBVIOUS
<1>1. CASE RunJob \/ ResumeJob \/ PreviewRollback \/ RollbackJob
  BY <1>1, RunStep, ResumeStep, PreviewStep, RollbackStep
<1>2. CASE BeginStage \/ StageStarts \/ EndStage
  BY <1>2, BeginStep, StartsStep, EndStep
<1>3. CASE JobFails \/ JobReturns \/ KillLauncher
  BY <1>3, FailsStep, ReturnsStep, KillStep
<1>4. CASE \E seen \in {"ok", "failed"} : StageReports(seen)
  BY <1>4, ReportsStep
<1>5. CASE \E finished \in BOOLEAN : OrphanEnds(finished)
  BY <1>5, OrphanStep
<1>6. CASE UNCHANGED jobVars
  BY <1>6, JobStutter
<1>7. QED
  BY <1>1, <1>2, <1>3, <1>4, <1>5, <1>6 DEF JobNext

\* However launchers are killed, attempts repeated and writes lost, the receipt
\* names every instance that was touched and is not undone, for any number of
\* instances (job_runner.go handle: the gate opens behind a durable receipt).
THEOREM ReceiptIsComplete == JobSpec => [](JobTypeOK /\ ReceiptKnowsTarget)
<1>1. JobInv => JobTypeOK /\ ReceiptKnowsTarget
  BY DEF JobInv
<1>2. QED
  BY JobStarts, JobStepKeeps, <1>1, PTL DEF JobSpec


---------------------------------------------------------------------------
(* What the attempts of a standalone job begin.                              *)

\* A rollback goes down through the instances and ends each with its check.
Descends(steps) ==
  /\ \A i, j \in DOMAIN steps : i < j => steps[i].node >= steps[j].node
  /\ \A i \in DOMAIN steps : \E j \in DOMAIN steps : steps[j] = StageOf(steps[i].node, TRUE, "post")

LEMMA OriginalIsDistinct == Distinct(OriginalSteps)
<1>1. Instances \in Nat
  BY JobAssumption
<1> DEFINE node(i) == (i + 2) \div 3
           phase(i) == ((i - 1) % 3) + 1
<1>2. ASSUME NEW i \in 1..3 * Instances, NEW j \in 1..3 * Instances, i < j
      PROVE  node(i) # node(j) \/ phase(i) # phase(j)
  BY <1>1, <1>2, Z3
<1>3. ASSUME NEW i \in 1..3 * Instances PROVE phase(i) \in {1, 2, 3}
  BY <1>1, Z3
<1>4. \A i \in 1..3 * Instances : OriginalSteps[i] = StageOf(node(i), FALSE, Phases[phase(i)])
  BY DEF OriginalSteps
<1>5. DOMAIN OriginalSteps = 1..3 * Instances
  BY DEF OriginalSteps
<1> HIDE DEF node, phase
<1>6. ASSUME NEW i \in DOMAIN OriginalSteps, NEW j \in DOMAIN OriginalSteps, i < j
      PROVE  OriginalSteps[i] # OriginalSteps[j]
  <2>1. phase(i) # phase(j) => Phases[phase(i)] # Phases[phase(j)]
    BY <1>3, <1>5, PhasesAre
  <2>2. QED
    BY <1>2, <1>4, <1>5, <1>6, <2>1 DEF StageOf
<1>7. QED
  BY <1>6 DEF Distinct

LEMMA RecoveryDescends == Descends(RecoverySteps)
<1>1. Instances \in Nat
  BY JobAssumption
<1> DEFINE node(i) == Instances - (i - 1) \div 2
           place(i) == ((i - 1) % 2) + 2
<1>2. ASSUME NEW i \in 1..2 * Instances, NEW j \in 1..2 * Instances, i < j PROVE node(i) >= node(j)
  BY <1>1, <1>2, Z3
<1>3. ASSUME NEW i \in 1..2 * Instances
      PROVE  \E j \in 1..2 * Instances : node(j) = node(i) /\ place(j) = 3
  <2>1. CASE i % 2 = 0
    BY <1>1, <2>1, Z3
  <2>2. CASE i % 2 = 1
    <3>1. i + 1 \in 1..2 * Instances /\ node(i + 1) = node(i) /\ place(i + 1) = 3
      BY <1>1, <2>2, Z3
    <3>2. QED
      BY <3>1
  <2>3. i % 2 = 0 \/ i % 2 = 1
    BY <1>1, Z3
  <2>4. QED
    BY <2>1, <2>2, <2>3
<1>4. \A i \in 1..2 * Instances : RecoverySteps[i] = StageOf(node(i), TRUE, Phases[place(i)])
  BY DEF RecoverySteps
<1>5. DOMAIN RecoverySteps = 1..2 * Instances
  BY DEF RecoverySteps
<1> HIDE DEF node, place
<1>6. ASSUME NEW i \in 1..2 * Instances PROVE RecoverySteps[i].node = node(i)
  <2>1. PICK n, p : n = node(i) /\ p = Phases[place(i)]
    OBVIOUS
  <2>2. RecoverySteps[i] = StageOf(n, TRUE, p)
    BY <1>4, <2>1
  <2>3. QED
    BY <2>1, <2>2 DEF StageOf
<1>7. \A i \in 1..2 * Instances : place(i) = 3 => RecoverySteps[i] = StageOf(node(i), TRUE, "post")
  BY <1>4, PhasesAre
<1>8. \A i, j \in DOMAIN RecoverySteps : i < j => RecoverySteps[i].node >= RecoverySteps[j].node
  BY <1>2, <1>5, <1>6
<1>9. ASSUME NEW i \in DOMAIN RecoverySteps
      PROVE  \E j \in DOMAIN RecoverySteps : RecoverySteps[j] = StageOf(RecoverySteps[i].node, TRUE, "post")
  <2>1. PICK j \in 1..2 * Instances : node(j) = node(i) /\ place(j) = 3
    BY <1>3, <1>5
  <2>2. RecoverySteps[j] = StageOf(RecoverySteps[i].node, TRUE, "post")
    BY <1>5, <1>6, <1>7, <2>1
  <2>3. QED
    BY <1>5, <2>2
<1>10. QED
  BY <1>8, <1>9 DEF Descends

\* Every position of a selection is counted.
LEMMA NthReaches ==
  ASSUME NEW I \in SUBSET Int, IsFiniteSet(I), NEW i \in I
  PROVE  \E k \in 1..Cardinality(I) : Nth(I, k) = i
<1>1. PICK U : U = UpTo(I, i)
  OBVIOUS
<1>2. U \in SUBSET I /\ i \in U
  BY <1>1 DEF UpTo
<1>3. IsFiniteSet(U) /\ Cardinality(U) <= Cardinality(I) /\ Cardinality(U) \in Nat /\ Cardinality(I) \in Nat
  BY <1>2, FS_Subset, FS_CardinalityType
<1>4. Cardinality(U) # 0
  BY <1>2, <1>3, FS_EmptySet
<1>5. PICK k \in 1..Cardinality(I) : k = Cardinality(U)
  BY <1>3, <1>4
<1>6. PICK j \in I : j = Nth(I, k) /\ Cardinality(UpTo(I, j)) = k
  <2>1. \E j \in I : Cardinality(UpTo(I, j)) = k
    BY <1>1, <1>5
  <2>2. QED
    BY <2>1 DEF Nth, UpTo
<1>7. PICK V : V = UpTo(I, j)
  OBVIOUS
<1>8. V \in SUBSET I /\ IsFiniteSet(V) /\ j \in V /\ Cardinality(V) = Cardinality(U)
  <2>1. V \in SUBSET I /\ j \in V
    BY <1>7 DEF UpTo
  <2>2. QED
    BY <1>5, <1>6, <1>7, <2>1, FS_Subset
<1>9. U \subseteq V \/ V \subseteq U
  <2>1. i \in Int /\ j \in Int /\ \A x \in I : x \in Int
    OBVIOUS
  <2>2. (\A x \in I : x <= i => x <= j) \/ (\A x \in I : x <= j => x <= i)
    BY <2>1
  <2>3. QED
    BY <1>1, <1>7, <2>2 DEF UpTo
<1>10. U = V
  BY <1>3, <1>8, <1>9, FS_Subset
<1>11. i = j
  <2>1. i \in Int /\ j \in Int
    OBVIOUS
  <2>2. i <= j /\ j <= i
    BY <1>1, <1>2, <1>7, <1>8, <1>10 DEF UpTo
  <2>3. QED
    BY <2>1, <2>2
<1>12. QED
  BY <1>6, <1>11

\* The positions of the stages of some instances.
OfNodes(steps, nodes) == {i \in DOMAIN steps : steps[i].node \in nodes}

Keeps(steps, I, kept) == \A i \in I : \E k \in DOMAIN kept : kept[k] = steps[i]

\* A selection of whole instances keeps the order and the checks.
LEMMA SelectionDescends ==
  ASSUME NEW steps \in Seq(Stage), Descends(steps),
         NEW nodes, NEW I, I = OfNodes(steps, nodes),
         NEW kept, kept = StagesAt(steps, I)
  PROVE  Descends(kept) /\ Keeps(steps, I, kept)
<1>1. I \in SUBSET (DOMAIN steps)
  BY DEF OfNodes
<1>2. /\ kept \in Seq(Stage) /\ IsFiniteSet(I) /\ DOMAIN kept = 1..Cardinality(I)
      /\ \A k \in DOMAIN kept : Nth(I, k) \in I /\ kept[k] = steps[Nth(I, k)]
      /\ \A k, l \in DOMAIN kept : k < l => Nth(I, k) < Nth(I, l)
  BY <1>1, SelectionIs
<1>3. I \in SUBSET Int
  BY <1>1
<1>4. ASSUME NEW i \in I PROVE \E k \in DOMAIN kept : kept[k] = steps[i]
  <2>1. PICK k \in 1..Cardinality(I) : Nth(I, k) = i
    BY <1>2, <1>3, NthReaches
  <2>2. QED
    BY <1>2, <2>1
<1>5. ASSUME NEW k \in DOMAIN kept, NEW l \in DOMAIN kept, k < l PROVE kept[k].node >= kept[l].node
  BY <1>1, <1>2, <1>5 DEF Descends
<1>6. ASSUME NEW k \in DOMAIN kept PROVE \E l \in DOMAIN kept : kept[l] = StageOf(kept[k].node, TRUE, "post")
  <2>1. PICK i \in I : kept[k] = steps[i]
    BY <1>2
  <2>2. PICK j \in DOMAIN steps : steps[j] = StageOf(steps[i].node, TRUE, "post")
    BY <1>1 DEF Descends
  <2>3. steps[j].node = steps[i].node
    BY <2>2 DEF StageOf
  <2>4. j \in I
    BY <2>3 DEF OfNodes
  <2>5. QED
    BY <1>4, <2>1, <2>2, <2>4
<1>7. QED
  BY <1>4, <1>5, <1>6 DEF Descends, Keeps

\* An instance that was touched is undone by the plan, or lies below it.
Reaches(steps, n) ==
  \/ \E k \in DOMAIN steps : steps[k] = StageOf(n, TRUE, "post")
  \/ \A k \in DOMAIN steps : steps[k].node > n

LEMMA RollbackPlanDescends ==
  ASSUME NEW plan \in RollbackPlans
  PROVE  /\ Descends(plan)
         /\ \A n \in Nodes : receipt.actions[MainOf(n)] \in Touched => Reaches(plan, n)
<1>1. RecoverySteps \in Seq(Stage) /\ Descends(RecoverySteps)
  BY RecoveryPlan, RecoveryDescends
<1>2. PICK touched : touched = {n \in Nodes : receipt.actions[MainOf(n)] \in Touched}
  OBVIOUS
<1>3. PICK I : I = OfNodes(RecoverySteps, touched)
  OBVIOUS
<1>4. \A i \in DOMAIN RecoverySteps : RecoverySteps[i].node \in Nodes
  <2>1. \A i \in DOMAIN RecoverySteps : RecoverySteps[i] \in Stage
    BY <1>1
  <2>2. QED
    BY <2>1 DEF Stage
<1>5. I = {i \in DOMAIN RecoverySteps : receipt.actions[MainOf(RecoverySteps[i].node)] \in Touched}
  BY <1>2, <1>3, <1>4 DEF OfNodes
<1>6. PICK stages : stages = TouchedStages(receipt.actions)
  OBVIOUS
<1>7. stages = StagesAt(RecoverySteps, I)
  BY <1>5, <1>6 DEF TouchedStages
<1>8. I \in SUBSET (DOMAIN RecoverySteps)
  BY <1>3 DEF OfNodes
<1>9. stages \in Seq(Stage)
  BY <1>1, <1>7, <1>8, SelectionIs
<1>10. Descends(stages) /\ Keeps(RecoverySteps, I, stages)
  BY <1>1, <1>3, <1>7, SelectionDescends
<1>11. PICK nodes : plan = SelectRollbackStages(stages, nodes) /\ SelectionAllowed(stages, nodes)
  BY <1>6 DEF RollbackPlans
<1>12. PICK J : J = OfNodes(stages, nodes)
  OBVIOUS
<1>13. plan = StagesAt(stages, J) /\ J \in SUBSET (DOMAIN stages)
  BY <1>11, <1>12 DEF SelectRollbackStages, OfNodes
<1>14. Descends(plan) /\ Keeps(stages, J, plan)
  BY <1>9, <1>10, <1>12, <1>13, SelectionDescends
<1>15. \A k \in DOMAIN plan : \E i \in J : plan[k] = stages[i]
  BY <1>9, <1>13, SelectionIs
<1>16. ASSUME NEW n \in touched PROVE Reaches(plan, n)
  <2>1. PICK i \in I : RecoverySteps[i].node = n
    <3>1. n \in Nodes
      BY <1>2
    <3>2. Instances \in Nat
      BY JobAssumption
    <3>3. PICK i : i = 2 * (Instances - n) + 1
      OBVIOUS
    <3>4. i \in 1..2 * Instances /\ Instances - (i - 1) \div 2 = n
      BY <3>1, <3>2, <3>3, Z3 DEF Nodes
    <3>5. PICK p : p = Phases[((i - 1) % 2) + 2]
      OBVIOUS
    <3>6. i \in DOMAIN RecoverySteps /\ RecoverySteps[i] = StageOf(n, TRUE, p)
      BY <3>4, <3>5 DEF RecoverySteps
    <3>7. RecoverySteps[i].node = n
      BY <3>6 DEF StageOf
    <3>8. QED
      BY <1>3, <3>6, <3>7 DEF OfNodes
  <2>2. PICK p \in DOMAIN stages : stages[p].node = n
    BY <1>10, <2>1 DEF Keeps
  <2>3. CASE n \in nodes
    <3>1. p \in J
      BY <1>12, <2>2, <2>3 DEF OfNodes
    <3>2. PICK k \in DOMAIN plan : plan[k] = stages[p]
      BY <1>14, <3>1 DEF Keeps
    <3>3. QED
      BY <1>14, <2>2, <3>2 DEF Descends, Reaches
  <2>4. CASE n \notin nodes
    <3>1. ASSUME NEW k \in DOMAIN plan PROVE plan[k].node > n
      <4>1. PICK q \in J : plan[k] = stages[q]
        BY <1>15
      <4>2. q \in DOMAIN stages /\ stages[q].node \in nodes
        BY <1>12, <4>1 DEF OfNodes
      <4>3. q \in Int /\ p \in Int /\ p # q
        BY <1>9, <2>2, <2>4, <4>2
      <4>4. ~(p < q)
        BY <1>11, <2>2, <2>4, <4>2 DEF SelectionAllowed
      <4>5. stages[q].node >= n
        BY <1>10, <2>2, <4>2, <4>3, <4>4 DEF Descends
      <4>6. stages[q] \in Stage /\ stages[q].node # n /\ n \in Nodes
        BY <1>2, <1>9, <2>4, <4>2
      <4>7. stages[q].node \in Int /\ n \in Int
        BY <4>6 DEF Stage, Nodes
      <4>8. QED
        BY <4>1, <4>5, <4>6, <4>7
    <3>2. QED
      BY <3>1 DEF Reaches
  <2>5. QED
    BY <2>3, <2>4
<1>17. QED
  BY <1>2, <1>14, <1>16

---------------------------------------------------------------------------

\* Bodies that may not begin again, and instances whose undoing has begun.
Spent == {b \in Body : begun[b] > 0 /\ b \notin retrySafe}
UndoBegun == {n \in Nodes : begun[[node |-> n, undo |-> TRUE]] > 0}

\* The check that ends the undoing of an instance is still to come.
Awaits(x, n) == \E i \in DOMAIN x.steps : x.steps[i] = StageOf(n, TRUE, "post") /\ ~Succeeded(x.results, x.steps[i])

\* No body is planned that an attempt before has done; only what has succeeded
\* lies before what has succeeded and before a body that may not begin again; an
\* instance whose undoing has begun is undone or on its way; a rollback leaves
\* only instances that lie below all of its own.
Attempted(x, spent, undone) ==
  /\ Distinct(x.steps)
  /\ \A i \in DOMAIN x.steps : x.steps[i].phase = "execute" => x.steps[i] \notin x.history
  /\ \A i, j \in DOMAIN x.steps : j < i /\ Succeeded(x.results, x.steps[i]) => Succeeded(x.results, x.steps[j])
  /\ \A i, j \in DOMAIN x.steps :
       x.steps[i].phase = "execute" /\ BodyOf(x.steps[i]) \in spent /\ j < i => Succeeded(x.results, x.steps[j])
  /\ \A n \in undone : x.op = "rollback" /\ (x.actions[MainOf(n)] = "rolled_back" \/ Awaits(x, n))
  /\ x.op = "rollback" => Descends(x.steps) /\ \A n \in Nodes :
       x.actions[MainOf(n)] \in Touched => Awaits(x, n) \/ \A i \in DOMAIN x.steps : x.steps[i].node > n

\* A controller is past exactly what has succeeded, and at or past every body
\* that may not begin again.
GoesOn(c, spent) ==
  /\ \A i \in DOMAIN c.steps : i < c.next <=> Succeeded(c.results, c.steps[i])
  /\ \A i \in DOMAIN c.steps : c.steps[i].phase = "execute" /\ BodyOf(c.steps[i]) \in spent =>
       i < c.next \/ (i = c.next /\ c.active /\ c.seen # "none")

\* What is acknowledged was begun.
WorkIsBegun(x) == \A s \in Acknowledged(x) : s.phase = "execute" => begun[BodyOf(s)] > 0

DoneWasBegun ==
  /\ receipt # NoReceipt => WorkIsBegun(receipt)
  /\ controller # NoController => WorkIsBegun(controller)
  /\ controller # NoController /\ controller.active /\ controller.seen # "none" /\ Current.phase = "execute"
       => begun[BodyOf(Current)] > 0

AttemptsHold ==
  /\ receipt = NoReceipt => \A b \in Body : begun[b] = 0
  /\ receipt # NoReceipt => Attempted(receipt, Spent, UndoBegun)
  /\ controller # NoController => Attempted(controller, Spent, UndoBegun) /\ GoesOn(controller, Spent)

\* Two records of one attempt that agree on what has succeeded and, in a
\* rollback, on what is undone.
AgreeOnAttempt(x, y) ==
  /\ y.op = x.op /\ y.steps = x.steps /\ y.history = x.history
  /\ \A i \in DOMAIN x.steps : Succeeded(y.results, x.steps[i]) <=> Succeeded(x.results, x.steps[i])
  /\ x.op = "rollback" => \A n \in Nodes : y.actions[MainOf(n)] = x.actions[MainOf(n)]

LEMMA AttemptedAlike ==
  ASSUME NEW x, NEW y, NEW spent, NEW undone \in SUBSET Nodes, Attempted(x, spent, undone), AgreeOnAttempt(x, y)
  PROVE  Attempted(y, spent, undone)
<1>1. \A n : Awaits(y, n) <=> Awaits(x, n)
  BY DEF AgreeOnAttempt, Awaits
<1>2. QED
  BY <1>1 DEF AgreeOnAttempt, Attempted

LEMMA AttemptsStart == JobInit => AttemptsHold
BY DEF JobInit, AttemptsHold

\* What the next attempt takes into its history.
Past == IF receipt = NoReceipt THEN {} ELSE Acknowledged(receipt)

\* A plan may begin that holds no body that is spent or done, and that undoes
\* what is begun to be undone and whatever lies above its instances.
MayBegin(op, steps, actions, past, spent, undone) ==
  /\ Distinct(steps) /\ (op = "rollback" => Descends(steps))
  /\ \A i \in DOMAIN steps : steps[i].phase = "execute" => steps[i] \notin past
  /\ \A i \in DOMAIN steps : steps[i].phase = "execute" => BodyOf(steps[i]) \notin spent
  /\ \A n \in undone : op = "rollback" /\ (actions[MainOf(n)] = "rolled_back"
                                           \/ \E i \in DOMAIN steps : steps[i] = StageOf(n, TRUE, "post"))
  /\ op = "rollback" => \A n \in Nodes : actions[MainOf(n)] \in Touched => Reaches(steps, n)

LEMMA AttemptBegins ==
  ASSUME NEW c, NEW spent, NEW undone, c.results = <<>>, c.next = 1, c.active = FALSE, c.steps \in Seq(Stage),
         MayBegin(c.op, c.steps, c.actions, c.history, spent, undone)
  PROVE  Attempted(c, spent, undone) /\ GoesOn(c, spent)
<1>1. \A s : ~Succeeded(c.results, s)
  BY DEF Succeeded
<1>2. \A i \in DOMAIN c.steps : ~(i < c.next)
  OBVIOUS
<1>3. \A n : Awaits(c, n) <=> \E i \in DOMAIN c.steps : c.steps[i] = StageOf(n, TRUE, "post")
  BY <1>1 DEF Awaits
<1>4. Attempted(c, spent, undone)
  BY <1>1, <1>3 DEF Attempted, Reaches, MayBegin
<1>5. GoesOn(c, spent)
  BY <1>1, <1>2 DEF GoesOn, MayBegin
<1>6. QED
  BY <1>4, <1>5

LEMMA WithIs ==
  ASSUME NEW results, NEW s, NEW result, NEW more, more = With(results, s, result)
  PROVE  \A x : Succeeded(more, x) <=> IF x = s THEN result = "succeeded" ELSE Succeeded(results, x)
BY DEF With, Succeeded

\* What a recovery stage records of the installation it undoes.
LEMMA UndoRecords ==
  ASSUME NEW actions \in [Body -> Statuses], NEW s \in Stage, s.undo, NEW boundary \in {"begin", "end"},
         NEW a, a = ActionReceipt(actions, boundary, s)
  PROVE  \A n \in Nodes : a[MainOf(n)] = IF s.phase = "post" /\ boundary = "end" /\ n = s.node
                                        THEN "rolled_back" ELSE actions[MainOf(n)]
<1>1. PICK b \in Body, m \in Body : b = BodyOf(s) /\ m = MainOf(s.node)
  BY DEF BodyOf, MainOf, Body, Stage
<1>2. \A n \in Nodes : /\ MainOf(n) \in Body /\ (n # s.node <=> MainOf(n) # m)
                      /\ MainOf(n) # b
  BY <1>1 DEF MainOf, BodyOf, Body
<1>3. CASE s.phase = "execute"
  <2>1. \E v : a = [actions EXCEPT ![b] = v]
    BY <1>1, <1>3 DEF ActionReceipt
  <2>2. QED
    BY <1>2, <1>3, <2>1
<1>4. CASE s.phase = "post" /\ boundary = "end"
  <2>1. PICK d : d = [actions EXCEPT ![b] = "verified"]
    OBVIOUS
  <2>2. a = [d EXCEPT ![m] = "rolled_back"] /\ DOMAIN d = Body
    BY <1>1, <1>4, <2>1 DEF ActionReceipt
  <2>3. \A n \in Nodes : d[MainOf(n)] = actions[MainOf(n)]
    BY <1>2, <2>1
  <2>4. QED
    BY <1>2, <1>4, <2>2, <2>3
<1>5. CASE s.phase # "execute" /\ ~(s.phase = "post" /\ boundary = "end")
  <2>1. a = actions
    BY <1>5 DEF ActionReceipt
  <2>2. QED
    BY <1>5, <2>1
<1>6. QED
  BY <1>3, <1>4, <1>5

LEMMA SpentStays ==
  UNCHANGED <<begun, retrySafe>> => Spent' = Spent /\ UndoBegun' = UndoBegun
BY DEF Spent, UndoBegun

LEMMA UndoBegunIs == UndoBegun \in SUBSET Nodes
BY DEF UndoBegun

LEMMA LaunchAttempts ==
  ASSUME JobInv, AttemptsHold,
         NEW op \in {"run", "rollback"}, NEW steps \in Seq(Stage), NEW actions,
         MayBegin(op, steps, actions, Past, Spent, UndoBegun), Launch(op, steps, actions)
  PROVE  AttemptsHold'
<1>1. PICK c : c = [op |-> op, steps |-> steps, results |-> <<>>, actions |-> actions, history |-> Past,
                    next |-> 1, active |-> FALSE, seen |-> "none", failed |-> FALSE]
  OBVIOUS
<1>2. /\ c.op = op /\ c.steps = steps /\ c.results = <<>> /\ c.actions = actions /\ c.history = Past
      /\ c.next = 1 /\ c.active = FALSE
  BY <1>1
<1>3. PICK r : r = ReceiptOf(c)
  OBVIOUS
<1>4. /\ controller = NoController
      /\ \/ receipt' = r /\ controller' = c
         \/ receipt' = r /\ UNCHANGED controller
         \/ UNCHANGED <<receipt, controller>>
      /\ UNCHANGED <<begun, retrySafe>>
  BY <1>1, <1>3 DEF Launch, Past, WriteLost
<1>5. Spent' = Spent /\ UndoBegun' = UndoBegun
  BY <1>4, SpentStays
<1>6. r.op = op /\ r.steps = steps /\ r.results = <<>> /\ r.actions = actions /\ r.history = Past
  BY <1>2, <1>3 DEF ReceiptOf
<1>7. AgreeOnAttempt(c, r)
  BY <1>2, <1>6 DEF AgreeOnAttempt
<1>8. Attempted(c, Spent, UndoBegun) /\ GoesOn(c, Spent)
  BY <1>2, AttemptBegins
<1>9. Attempted(r, Spent, UndoBegun)
  BY <1>7, <1>8, UndoBegunIs, AttemptedAlike
<1>10. r # NoReceipt
  BY <1>6 DEF NoReceipt
<1>11. QED
  BY <1>4, <1>5, <1>8, <1>9, <1>10 DEF AttemptsHold

LEMMA RunAttempt == JobInv /\ AttemptsHold /\ RunJob => AttemptsHold'
<1> SUFFICES ASSUME JobInv, AttemptsHold, RunJob PROVE AttemptsHold'
  OBVIOUS
<1>1. PICK actions : actions = [b \in Body |-> "none"]
  OBVIOUS
<1>2. receipt = NoReceipt /\ Launch("run", OriginalSteps, actions)
  BY <1>1 DEF RunJob
<1>3. Spent = {} /\ UndoBegun = {}
  <2>1. \A b \in Body : ~(begun[b] > 0)
    BY <1>2 DEF AttemptsHold
  <2>2. \A n \in Nodes : [node |-> n, undo |-> TRUE] \in Body
    BY DEF Body
  <2>3. QED
    BY <2>1, <2>2 DEF Spent, UndoBegun
<1>4. MayBegin("run", OriginalSteps, actions, Past, Spent, UndoBegun)
  BY <1>2, <1>3, OriginalIsDistinct DEF MayBegin, Past
<1>5. QED
  BY <1>2, <1>4, OriginalPlan, LaunchAttempts

LEMMA ResumeAttempt == JobInv /\ AttemptsHold /\ ResumeJob => AttemptsHold'
<1> SUFFICES ASSUME JobInv, AttemptsHold, ResumeJob PROVE AttemptsHold'
  OBVIOUS
<1>1. PICK op, steps, results, actions :
        op = receipt.op /\ steps = receipt.steps /\ results = receipt.results /\ actions = receipt.actions
  OBVIOUS
<1>2. PICK plan : plan = RetryStages(steps, results)
  OBVIOUS
<1>3. /\ op \in {"run", "rollback"} /\ steps \in Seq(Stage) /\ (op = "rollback" => Undoing(steps))
      /\ Attempted(receipt, Spent, UndoBegun)
  BY <1>1 DEF ResumeJob, JobInv, ReceiptHolds, Planned, AttemptsHold
<1>4. Incomplete(steps, results) # {} /\ Launch(op, plan, actions)
  BY <1>1, <1>2 DEF ResumeJob, RetryAllowed
<1>5. /\ plan \in Seq(Stage) /\ (Undoing(steps) => LeftOf(steps, results, plan))
      /\ (Distinct(steps) => Distinct(plan)) /\ BodiesFrom(steps, results, plan)
  BY <1>2, <1>3, <1>4, RetryPlanIs
<1>6. DOMAIN steps = 1..Len(steps) /\ Len(steps) \in Nat /\ DOMAIN plan = 1..Len(plan) /\ Len(plan) \in Nat
  BY <1>3, <1>5
<1>7. ASSUME NEW i \in DOMAIN plan, plan[i].phase = "execute"
      PROVE  BodyOf(plan[i]) \notin Spent /\ plan[i] \notin Past
  <2>1. SUFFICES ASSUME BodyOf(plan[i]) \in Spent \/ plan[i] \in Past PROVE FALSE
    OBVIOUS
  <2>2. PICK start \in 1..Len(steps) :
          /\ RestartsAt(steps, results, start)
          /\ \A k \in DOMAIN plan : plan[k].phase = "execute" => \E j \in start..Len(steps) : plan[k] = steps[j]
    BY <1>5 DEF BodiesFrom
  <2>3. PICK j \in start..Len(steps) : plan[i] = steps[j]
    BY <1>7, <2>2
  <2>4. PICK m \in 1..Len(steps) :
          /\ m = Min(Incomplete(steps, results)) /\ ~Succeeded(results, steps[m])
          /\ \/ start = m
             \/ start = m - 1 /\ start \in 1..m /\ steps[m].phase = "execute" /\ steps[start].phase = "pre"
    BY <2>2 DEF RestartsAt
  <2>5. m \in DOMAIN steps /\ j \in DOMAIN steps
    BY <1>6
  <2>6. BodyOf(plan[i]) \notin Spent => Succeeded(results, steps[j])
    <3>1. plan[i] \notin receipt.history
      BY <1>1, <1>3, <1>7, <2>3, <2>5 DEF Attempted
    <3>2. QED
      BY <1>1, <2>1, <2>3, <3>1 DEF Past, Acknowledged, Succeeded, ResumeJob
  <2>7. ~(m < j)
    BY <1>1, <1>3, <1>7, <2>1, <2>3, <2>4, <2>5, <2>6 DEF Attempted
  <2>8. m # j
    <3>1. steps[m].phase = "execute" => BodyOf(steps[m]) \in retrySafe
      BY <1>1, <2>4 DEF ResumeJob, RetryAllowed
    <3>2. QED
      BY <1>7, <2>1, <2>3, <2>4, <2>6, <3>1 DEF Spent
  <2>9. j = start /\ steps[start].phase = "pre"
    BY <2>4, <2>5, <2>7, <2>8
  <2>10. QED
    BY <1>7, <2>3, <2>9
<1>8. ASSUME op = "rollback"
      PROVE  /\ Descends(plan)
             /\ \A n : Awaits(receipt, n) => \E i \in DOMAIN plan : plan[i] = StageOf(n, TRUE, "post")
             /\ \A i \in DOMAIN plan : \E j \in DOMAIN steps : plan[i] = steps[j]
  <2>1. PICK m \in 1..Len(steps) :
           /\ \A j \in 1..m - 1 : Succeeded(results, steps[j])
           /\ Len(plan) = Len(steps) - m + 1
           /\ \A i \in 1..Len(plan) : plan[i] = steps[m + i - 1]
    BY <1>3, <1>5, <1>8 DEF LeftOf
  <2>2. Undoing(steps) /\ Descends(steps)
    BY <1>1, <1>3, <1>8 DEF Attempted
  <2>3. ASSUME NEW i \in DOMAIN plan PROVE \E a \in DOMAIN steps : a = m + i - 1 /\ a >= m /\ plan[i] = steps[a]
    <3>1. m + i - 1 \in DOMAIN steps /\ m + i - 1 >= m
      BY <1>6, <2>1
    <3>2. QED
      BY <1>6, <2>1, <3>1
  <2>4. ASSUME NEW a \in DOMAIN steps, a >= m PROVE \E i \in DOMAIN plan : plan[i] = steps[a]
    <3>1. PICK i : i = a - m + 1
      OBVIOUS
    <3>2. i \in 1..Len(plan) /\ m + i - 1 = a
      BY <1>6, <2>1, <2>4, <3>1
    <3>3. QED
      BY <1>6, <2>1, <3>2
  <2>5. ASSUME NEW i \in DOMAIN plan, NEW j \in DOMAIN plan, i < j PROVE plan[i].node >= plan[j].node
    <3>1. PICK a \in DOMAIN steps, b \in DOMAIN steps :
            a = m + i - 1 /\ b = m + j - 1 /\ plan[i] = steps[a] /\ plan[j] = steps[b]
      BY <2>3
    <3>2. a < b
      BY <1>6, <2>5, <3>1
    <3>3. QED
      BY <2>2, <3>1, <3>2 DEF Descends
  <2>6. ASSUME NEW i \in DOMAIN plan
        PROVE  \E j \in DOMAIN plan : plan[j] = StageOf(plan[i].node, TRUE, "post")
    <3>1. PICK a \in DOMAIN steps : a >= m /\ plan[i] = steps[a]
      BY <2>3
    <3>2. PICK b \in DOMAIN steps : steps[b] = StageOf(steps[a].node, TRUE, "post")
      BY <2>2 DEF Descends
    <3>3. steps[b].phase = "post" /\ steps[b].node = steps[a].node
      BY <3>2 DEF StageOf
    <3>4. ~(b < a)
      BY <2>2, <3>3 DEF Undoing
    <3>5. b >= m
      BY <1>6, <3>1, <3>4
    <3>6. QED
      BY <2>4, <3>1, <3>2, <3>5
  <2>7. ASSUME NEW n, Awaits(receipt, n) PROVE \E i \in DOMAIN plan : plan[i] = StageOf(n, TRUE, "post")
    <3>1. PICK a \in DOMAIN steps : steps[a] = StageOf(n, TRUE, "post") /\ ~Succeeded(results, steps[a])
      BY <1>1, <2>7 DEF Awaits
    <3>2. a >= m
      <4>1. ~(a \in 1..m - 1)
        BY <2>1, <3>1
      <4>2. QED
        BY <1>6, <4>1
    <3>3. QED
      BY <2>4, <3>1, <3>2
  <2>8. QED
    BY <2>3, <2>5, <2>6, <2>7 DEF Descends
<1>9. ASSUME op = "rollback", NEW n \in Nodes, actions[MainOf(n)] \in Touched PROVE Reaches(plan, n)
  <2>1. Awaits(receipt, n) \/ \A i \in DOMAIN steps : steps[i].node > n
    BY <1>1, <1>3, <1>9 DEF Attempted
  <2>2. QED
    BY <1>8, <1>9, <2>1 DEF Reaches
<1>10. MayBegin(op, plan, actions, Past, Spent, UndoBegun)
  <2>1. Distinct(plan)
    BY <1>1, <1>3, <1>5 DEF Attempted
  <2>2. \A n \in UndoBegun : op = "rollback" /\ (actions[MainOf(n)] = "rolled_back"
                                               \/ \E i \in DOMAIN plan : plan[i] = StageOf(n, TRUE, "post"))
    BY <1>1, <1>3, <1>8 DEF Attempted
  <2>3. QED
    BY <1>7, <1>8, <1>9, <2>1, <2>2 DEF MayBegin
<1>11. QED
  BY <1>3, <1>4, <1>5, <1>10, LaunchAttempts

LEMMA RollbackAttempt == JobInv /\ AttemptsHold /\ DoneWasBegun /\ RollbackJob => AttemptsHold'
<1> SUFFICES ASSUME JobInv, AttemptsHold, DoneWasBegun, RollbackJob PROVE AttemptsHold'
  OBVIOUS
<1>1. PICK actions : actions = receipt.actions
  OBVIOUS
<1>2. /\ receipt # NoReceipt /\ ~RollbackOpen /\ Attempted(receipt, Spent, UndoBegun)
      /\ previewed \in RollbackPlans /\ Launch("rollback", previewed, actions)
  BY <1>1 DEF RollbackJob, AttemptsHold
<1>3. /\ previewed \in Seq(Stage) /\ Undoing(previewed)
      /\ \A k \in DOMAIN previewed : actions[MainOf(previewed[k].node)] \in Touched
  BY <1>1, <1>2, RollbackPlanUndoes
<1>4. Descends(previewed) /\ \A n \in Nodes : actions[MainOf(n)] \in Touched => Reaches(previewed, n)
  BY <1>1, <1>2, RollbackPlanDescends
<1>5. ASSUME NEW n \in UndoBegun PROVE receipt.op = "rollback" /\ actions[MainOf(n)] = "rolled_back"
  <2>1. receipt.op = "rollback" /\ (actions[MainOf(n)] = "rolled_back" \/ Awaits(receipt, n))
    BY <1>1, <1>2 DEF Attempted
  <2>2. AllStagesSucceeded(receipt.steps, receipt.results)
    BY <1>2, <2>1 DEF RollbackOpen
  <2>3. ~Awaits(receipt, n)
    BY <2>2 DEF AllStagesSucceeded, Awaits
  <2>4. QED
    BY <2>1, <2>3
<1>6. ASSUME NEW k \in DOMAIN previewed, previewed[k].phase = "execute"
      PROVE  BodyOf(previewed[k]) \notin Spent /\ previewed[k] \notin Past
  <2>1. SUFFICES ASSUME BodyOf(previewed[k]) \in Spent \/ previewed[k] \in Past PROVE FALSE
    OBVIOUS
  <2>2. PICK n \in Nodes : n = previewed[k].node
    <3>1. previewed[k] \in Stage
      BY <1>3
    <3>2. QED
      BY <3>1 DEF Stage
  <2>3. BodyOf(previewed[k]) = [node |-> n, undo |-> TRUE]
    <3>1. previewed[k] \in Stage /\ previewed[k].undo
      BY <1>3 DEF Undoing
    <3>2. QED
      BY <2>2, <3>1 DEF BodyOf, Stage
  <2>4. n \in UndoBegun
    <3>1. previewed[k] \in Past => begun[BodyOf(previewed[k])] > 0
      BY <1>2, <1>6 DEF Past, DoneWasBegun, WorkIsBegun
    <3>2. QED
      BY <2>1, <2>3, <3>1 DEF Spent, UndoBegun
  <2>5. actions[MainOf(n)] \in Touched
    BY <1>3, <2>2
  <2>6. QED
    BY <1>5, <2>4, <2>5 DEF Touched
<1>7. MayBegin("rollback", previewed, actions, Past, Spent, UndoBegun)
  BY <1>3, <1>4, <1>5, <1>6 DEF MayBegin, Distinct, Undoing
<1>8. QED
  BY <1>2, <1>3, <1>7, LaunchAttempts

\* A write, or one that is lost, leaves the attempt as it goes on.
LEMMA PersistAttempt ==
  ASSUME JobInv, AttemptsHold, controller # NoController,
         NEW c, MayBeWritten(c), NEW left, MayBeLeft(left), Persist(c, left),
         Attempted(c, Spent, UndoBegun), GoesOn(c, Spent),
         Attempted(left, Spent, UndoBegun), GoesOn(left, Spent), UNCHANGED <<begun, retrySafe>>
  PROVE  AttemptsHold'
<1>1. Spent' = Spent /\ UndoBegun' = UndoBegun
  BY SpentStays
<1>2. receipt # NoReceipt
  BY DEF JobInv, ControllerHolds
<1>3. PICK r, d : r = ReceiptOf(c) /\ d = [left EXCEPT !.failed = TRUE]
  OBVIOUS
<1>4. /\ r.op = c.op /\ r.history = c.history /\ r.steps = c.steps /\ r.results = c.results /\ r.actions = c.actions
      /\ r # NoReceipt
  BY <1>3, WrittenReceipt DEF MayBeWritten
<1>5. Attempted(r, Spent, UndoBegun)
  <2>1. AgreeOnAttempt(c, r)
    BY <1>4 DEF AgreeOnAttempt
  <2>2. QED
    BY <2>1, UndoBegunIs, AttemptedAlike
<1>6. /\ d.op = left.op /\ d.history = left.history /\ d.steps = left.steps /\ d.results = left.results
      /\ d.actions = left.actions /\ d.next = left.next /\ d.active = left.active /\ d.seen = left.seen
  BY <1>3 DEF MayBeLeft, ControllerFields, ReceiptFields
<1>7. Attempted(d, Spent, UndoBegun)
  <2>1. AgreeOnAttempt(left, d)
    BY <1>6 DEF AgreeOnAttempt
  <2>2. QED
    BY <2>1, UndoBegunIs, AttemptedAlike
<1>8. GoesOn(d, Spent)
  BY <1>6 DEF GoesOn
<1>9. receipt' # NoReceipt /\ Attempted(receipt', Spent, UndoBegun)
  BY <1>2, <1>3, <1>4, <1>5 DEF Persist, WriteLost, AttemptsHold
<1>10. (controller' = c \/ controller' = d)
  BY <1>3 DEF Persist
<1>11. QED
  BY <1>1, <1>7, <1>8, <1>9, <1>10 DEF AttemptsHold

\* A step that leaves the receipt, the plan and the place of the controller in
\* it, and the work that was begun.
LEMMA SameAttempt ==
  ASSUME AttemptsHold, controller # NoController, NEW c, controller' = c,
         c.op = controller.op, c.history = controller.history, c.steps = controller.steps, c.results = controller.results,
         c.actions = controller.actions, c.next = controller.next, c.active = controller.active,
         controller.seen # "none" => c.seen # "none",
         UNCHANGED <<begun, retrySafe, receipt>>
  PROVE  AttemptsHold'
<1>1. Spent' = Spent /\ UndoBegun' = UndoBegun
  BY SpentStays
<1>2. AgreeOnAttempt(controller, c)
  BY DEF AgreeOnAttempt
<1>3. Attempted(c, Spent, UndoBegun)
  BY <1>2, UndoBegunIs, AttemptedAlike DEF AttemptsHold
<1>4. GoesOn(c, Spent)
  BY DEF GoesOn, AttemptsHold
<1>5. QED
  BY <1>1, <1>3, <1>4 DEF AttemptsHold

LEMMA BeginAttempt == JobInv /\ AttemptsHold /\ BeginStage => AttemptsHold'
<1> SUFFICES ASSUME JobInv, AttemptsHold, BeginStage PROVE AttemptsHold'
  OBVIOUS
<1>1. PICK c : StageBegun(c) /\ MayBeWritten(c) /\ Persist(c, c)
  BY BeginWrites
<1>2. /\ Serving /\ ~controller.active /\ controller.next <= Len(Stages) /\ controller # NoController
      /\ UNCHANGED <<begun, retrySafe>>
  BY DEF BeginStage, Serving
<1>3. PICK s : s = Current
  OBVIOUS
<1>4. /\ Planned(controller) /\ s \in Stage /\ controller.next \in DOMAIN Stages
      /\ controller.next \in Nat /\ DOMAIN Stages \subseteq Int
      /\ controller.op = "rollback" => s.undo
  BY <1>2, <1>3, AtCurrent
<1>5. Attempted(controller, Spent, UndoBegun) /\ GoesOn(controller, Spent)
  BY <1>2 DEF AttemptsHold
<1>6. /\ c.op = controller.op /\ c.history = controller.history /\ c.steps = controller.steps /\ c.next = controller.next
      /\ c.results = With(controller.results, s, "running")
      /\ c.actions = ActionReceipt(controller.actions, "begin", s)
      /\ c.active = TRUE
  BY <1>1, <1>3 DEF StageBegun
<1>7. ~Succeeded(controller.results, s)
  BY <1>3, <1>4, <1>5 DEF GoesOn, Current, Stages
<1>8. \A x : Succeeded(c.results, x) <=> Succeeded(controller.results, x)
  <2>1. PICK more : more = With(controller.results, s, "running")
    OBVIOUS
  <2>2. \A x : Succeeded(more, x) <=> IF x = s THEN "running" = "succeeded" ELSE Succeeded(controller.results, x)
    BY <2>1, WithIs
  <2>3. QED
    BY <1>6, <1>7, <2>1, <2>2
<1>9. ASSUME controller.op = "rollback", NEW n \in Nodes PROVE c.actions[MainOf(n)] = controller.actions[MainOf(n)]
  <2>1. PICK a, actions : a = c.actions /\ actions = controller.actions
    OBVIOUS
  <2>2. \A m \in Nodes : a[MainOf(m)] = IF s.phase = "post" /\ "begin" = "end" /\ m = s.node
                                        THEN "rolled_back" ELSE actions[MainOf(m)]
    BY <1>4, <1>6, <1>9, <2>1, UndoRecords DEF Planned
  <2>3. QED
    BY <2>1, <2>2
<1>10. AgreeOnAttempt(controller, c)
  BY <1>6, <1>8, <1>9 DEF AgreeOnAttempt
<1>11. Attempted(c, Spent, UndoBegun)
  BY <1>5, <1>10, UndoBegunIs, AttemptedAlike
<1>12. GoesOn(c, Spent)
  BY <1>2, <1>5, <1>6, <1>8 DEF GoesOn
<1>13. QED
  BY <1>1, <1>2, <1>11, <1>12, PersistAttempt DEF MayBeWritten

LEMMA EndAttempt == JobInv /\ AttemptsHold /\ EndStage => AttemptsHold'
<1> SUFFICES ASSUME JobInv, AttemptsHold, EndStage PROVE AttemptsHold'
  OBVIOUS
<1>1. /\ Serving /\ controller.active /\ controller.next <= Len(Stages) /\ controller # NoController
      /\ UNCHANGED <<begun, retrySafe>>
  BY DEF EndStage, Serving, JobInv, JobTypeOK, Stages
<1>2. CASE controller.seen = "failed"
  <2>1. PICK c : c = [controller EXCEPT !.failed = TRUE]
    OBVIOUS
  <2>2. controller' = c /\ receipt' = receipt /\ DOMAIN controller = ControllerFields
    BY <1>1, <1>2, <2>1 DEF EndStage, JobInv, ControllerHolds
  <2>3. /\ c.op = controller.op /\ c.history = controller.history /\ c.steps = controller.steps
        /\ c.results = controller.results /\ c.actions = controller.actions /\ c.next = controller.next
        /\ c.active = controller.active /\ c.seen = controller.seen
    BY <2>1, <2>2 DEF ControllerFields, ReceiptFields
  <2>4. QED
    BY <1>1, <2>2, <2>3, SameAttempt
<1>3. CASE controller.seen # "failed"
  <2>1. PICK c, left : /\ StageEnded(c) /\ MayBeWritten(c)
                       /\ StageLeft(left) /\ MayBeLeft(left) /\ Persist(c, left)
    BY <1>3, EndWrites
  <2>2. PICK s : s = Current
    OBVIOUS
  <2>3. /\ Planned(controller) /\ s \in Stage /\ controller.next \in DOMAIN Stages
        /\ controller.next \in Nat /\ DOMAIN Stages \subseteq Int
        /\ controller.op = "rollback" => s.undo
    BY <1>1, <2>2, AtCurrent
  <2>4. Attempted(controller, Spent, UndoBegun) /\ GoesOn(controller, Spent)
    BY <1>1 DEF AttemptsHold
  <2>5. /\ c.op = controller.op /\ c.history = controller.history /\ c.steps = controller.steps /\ c.next = controller.next + 1
        /\ c.results = With(controller.results, s, "succeeded")
        /\ c.actions = ActionReceipt(controller.actions, "end", s)
        /\ c.active = FALSE
    BY <2>1, <2>2 DEF StageEnded
  <2>6. \A x : Succeeded(c.results, x) <=> x = s \/ Succeeded(controller.results, x)
    <3>1. PICK more : more = With(controller.results, s, "succeeded")
      OBVIOUS
    <3>2. \A x : Succeeded(more, x) <=> IF x = s THEN "succeeded" = "succeeded" ELSE Succeeded(controller.results, x)
      BY <3>1, WithIs
    <3>3. QED
      BY <2>5, <3>1, <3>2
  <2>7. ASSUME controller.op = "rollback", NEW n \in Nodes
        PROVE  c.actions[MainOf(n)] = IF s = StageOf(n, TRUE, "post")
                                      THEN "rolled_back" ELSE controller.actions[MainOf(n)]
    <3>1. PICK a, actions : a = c.actions /\ actions = controller.actions
      OBVIOUS
    <3>2. \A m \in Nodes : a[MainOf(m)] = IF s.phase = "post" /\ "end" = "end" /\ m = s.node
                                          THEN "rolled_back" ELSE actions[MainOf(m)]
      BY <2>3, <2>5, <2>7, <3>1, UndoRecords DEF Planned
    <3>3. s = StageOf(n, TRUE, "post") <=> s.phase = "post" /\ n = s.node
      BY <2>3, <2>7 DEF StageOf, Stage
    <3>4. QED
      BY <3>1, <3>2, <3>3
  <2>8. ASSUME NEW n \in Nodes, Awaits(controller, n), s # StageOf(n, TRUE, "post") PROVE Awaits(c, n)
    BY <2>5, <2>6, <2>8 DEF Awaits
  <2>9. Attempted(c, Spent, UndoBegun)
    <3>1. \A i, j \in DOMAIN c.steps :
            c.steps[i].phase = "execute" /\ BodyOf(c.steps[i]) \in Spent /\ j < i => Succeeded(c.results, c.steps[j])
      BY <2>4, <2>5, <2>6 DEF Attempted
    <3>2. \A n \in UndoBegun : c.op = "rollback" /\ (c.actions[MainOf(n)] = "rolled_back" \/ Awaits(c, n))
      BY <2>4, <2>5, <2>7, <2>8, UndoBegunIs DEF Attempted
    <3>3. ASSUME c.op = "rollback", NEW n \in Nodes, c.actions[MainOf(n)] \in Touched
          PROVE  Awaits(c, n) \/ \A i \in DOMAIN c.steps : c.steps[i].node > n
      <4>1. s # StageOf(n, TRUE, "post") /\ controller.actions[MainOf(n)] \in Touched
        BY <2>5, <2>7, <3>3 DEF Touched
      <4>2. Awaits(controller, n) \/ \A i \in DOMAIN controller.steps : controller.steps[i].node > n
        BY <2>4, <2>5, <3>3, <4>1 DEF Attempted
      <4>3. QED
        BY <2>5, <2>8, <4>1, <4>2
    <3>4. ASSUME NEW i \in DOMAIN c.steps, NEW j \in DOMAIN c.steps, j < i, Succeeded(c.results, c.steps[i])
          PROVE  Succeeded(c.results, c.steps[j])
      <4>1. CASE Succeeded(controller.results, c.steps[i])
        BY <2>4, <2>5, <2>6, <3>4, <4>1 DEF Attempted
      <4>2. CASE c.steps[i] = s
        <5>1. controller.next \in DOMAIN c.steps /\ c.steps[controller.next] = s
          BY <2>2, <2>3, <2>5 DEF Current, Stages
        <5>2. ~(i < controller.next) /\ ~(controller.next < i)
          BY <2>4, <2>5, <4>2, <5>1 DEF Attempted, Distinct
        <5>3. j < controller.next
          BY <2>3, <2>5, <3>4, <5>1, <5>2 DEF Stages
        <5>4. QED
          BY <2>4, <2>5, <2>6, <5>3 DEF GoesOn
      <4>3. QED
        BY <2>6, <3>4, <4>1, <4>2
    <3>5. QED
      BY <2>4, <2>5, <3>1, <3>2, <3>3, <3>4 DEF Attempted
  <2>10. GoesOn(c, Spent)
    <3>1. ASSUME NEW i \in DOMAIN c.steps PROVE i < c.next <=> Succeeded(c.results, c.steps[i])
      <4>1. i \in Int /\ i \in DOMAIN Stages
        BY <2>3, <2>5, <3>1 DEF Stages
      <4>2. i < c.next <=> i < controller.next \/ i = controller.next
        BY <2>3, <2>5, <4>1
      <4>3. i < controller.next <=> Succeeded(controller.results, Stages[i])
        BY <2>4, <4>1 DEF GoesOn, Stages
      <4>4. Stages[i] = s <=> i = controller.next
        <5>1. controller.next \in Int /\ Stages[controller.next] = s
          BY <2>2, <2>3 DEF Current
        <5>2. i < controller.next \/ i > controller.next => Stages[i] # s
          BY <2>3, <2>4, <4>1, <5>1 DEF Attempted, Distinct, Stages
        <5>3. QED
          BY <4>1, <5>1, <5>2
      <4>5. QED
        BY <2>5, <2>6, <4>2, <4>3, <4>4 DEF Stages
    <3>2. ASSUME NEW i \in DOMAIN c.steps, c.steps[i].phase = "execute", BodyOf(c.steps[i]) \in Spent
          PROVE  i < c.next
      <4>1. i < controller.next \/ i = controller.next
        BY <2>4, <2>5, <3>2 DEF GoesOn
      <4>2. i \in Int
        BY <2>3, <2>5 DEF Stages
      <4>3. QED
        BY <2>3, <2>5, <4>1, <4>2
    <3>3. QED
      BY <3>1, <3>2 DEF GoesOn
  <2>11. /\ left.op = controller.op /\ left.history = controller.history /\ left.steps = controller.steps
         /\ left.results = controller.results /\ left.next = controller.next
         /\ left.active = controller.active /\ left.seen = controller.seen /\ left.actions = c.actions
    BY <2>1 DEF StageLeft, StageEnded
  <2>12. \A n : Awaits(left, n) <=> Awaits(controller, n)
    BY <2>11 DEF Awaits
  <2>13. Attempted(left, Spent, UndoBegun)
    <3>1. \A n \in UndoBegun : left.op = "rollback" /\ (left.actions[MainOf(n)] = "rolled_back" \/ Awaits(left, n))
      BY <2>4, <2>5, <2>7, <2>11, <2>12, UndoBegunIs DEF Attempted
    <3>2. ASSUME left.op = "rollback", NEW n \in Nodes, left.actions[MainOf(n)] \in Touched
          PROVE  Awaits(left, n) \/ \A i \in DOMAIN left.steps : left.steps[i].node > n
      <4>1. controller.actions[MainOf(n)] \in Touched
        BY <2>5, <2>7, <2>11, <3>2 DEF Touched
      <4>2. QED
        BY <2>4, <2>11, <2>12, <3>2, <4>1 DEF Attempted
    <3>3. QED
      BY <2>4, <2>11, <3>1, <3>2 DEF Attempted
  <2>14. GoesOn(left, Spent)
    BY <2>4, <2>11 DEF GoesOn
  <2>15. QED
    BY <1>1, <2>1, <2>9, <2>10, <2>13, <2>14, PersistAttempt
<1>4. QED
  BY <1>2, <1>3

\* The stage that a serving controller has opened and not yet started.
LEMMA AtStart ==
  ASSUME JobInv, AttemptsHold, StageStarts, NEW s, s = Current
  PROVE  /\ controller # NoController /\ DOMAIN controller = ControllerFields
         /\ receipt = ReceiptOf(controller) /\ receipt # NoReceipt
         /\ Planned(controller) /\ s \in Stage /\ controller.steps = Stages
         /\ controller.next \in DOMAIN Stages /\ DOMAIN Stages \subseteq Int /\ s = Stages[controller.next]
         /\ ~Succeeded(controller.results, s)
         /\ s.phase = "execute" => BodyOf(s) \notin Spent
         /\ Attempted(controller, Spent, UndoBegun) /\ GoesOn(controller, Spent)
<1>1. Serving /\ controller.active /\ controller.seen = "none" /\ controller # NoController
      /\ controller.next <= Len(Stages)
  BY DEF StageStarts, Serving, JobInv, JobTypeOK, Stages
<1>2. /\ DOMAIN controller = ControllerFields /\ Planned(controller) /\ s \in Stage
      /\ controller.next \in DOMAIN Stages /\ DOMAIN Stages \subseteq Int
  BY <1>1, AtCurrent
<1>3. receipt = ReceiptOf(controller) /\ receipt # NoReceipt
  BY <1>1 DEF Serving, Working, JobInv, ControllerHolds
<1>4. Attempted(controller, Spent, UndoBegun) /\ GoesOn(controller, Spent)
  BY <1>1 DEF AttemptsHold
<1>5. s = Stages[controller.next] /\ controller.steps = Stages
  BY DEF Current, Stages
<1>6. ~(controller.next < controller.next)
  BY <1>2
<1>7. ~Succeeded(controller.results, s)
  BY <1>2, <1>4, <1>5, <1>6 DEF GoesOn
<1>8. s.phase = "execute" => BodyOf(s) \notin Spent
  BY <1>1, <1>2, <1>4, <1>5, <1>6 DEF GoesOn
<1>9. QED
  BY <1>1, <1>2, <1>3, <1>4, <1>5, <1>7, <1>8

LEMMA StartAttempt == JobInv /\ AttemptsHold /\ StageStarts => AttemptsHold'
<1> SUFFICES ASSUME JobInv, AttemptsHold, StageStarts PROVE AttemptsHold'
  OBVIOUS
<1>1. PICK s : s = Current
  OBVIOUS
<1>2. /\ controller # NoController /\ DOMAIN controller = ControllerFields
      /\ receipt = ReceiptOf(controller) /\ receipt # NoReceipt
      /\ Planned(controller) /\ s \in Stage /\ controller.steps = Stages
      /\ controller.next \in DOMAIN Stages /\ DOMAIN Stages \subseteq Int /\ s = Stages[controller.next]
      /\ Attempted(controller, Spent, UndoBegun) /\ GoesOn(controller, Spent)
  BY <1>1, AtStart
<1>3. PICK c : c = [controller EXCEPT !.seen = "working"]
  OBVIOUS
<1>4. /\ c.op = controller.op /\ c.history = controller.history /\ c.steps = controller.steps
      /\ c.results = controller.results /\ c.actions = controller.actions /\ c.next = controller.next
      /\ c.active = controller.active /\ c.active = TRUE /\ c.seen = "working"
  <2>1. /\ c.op = controller.op /\ c.history = controller.history /\ c.steps = controller.steps
        /\ c.results = controller.results /\ c.actions = controller.actions /\ c.next = controller.next
        /\ c.active = controller.active /\ c.seen = "working"
    BY <1>2, <1>3 DEF ControllerFields, ReceiptFields
  <2>2. controller.active \in BOOLEAN /\ controller.active
    BY <1>2 DEF StageStarts, JobInv, ControllerHolds
  <2>3. QED
    BY <2>1, <2>2
<1>5. /\ controller' = c /\ UNCHANGED <<receipt, retrySafe>>
      /\ s.phase # "execute" => UNCHANGED begun
      /\ s.phase = "execute" => begun' = [begun EXCEPT ![BodyOf(s)] = @ + 1]
  BY <1>1, <1>3 DEF StageStarts
<1>6. CASE s.phase # "execute"
  BY <1>2, <1>4, <1>5, <1>6, SameAttempt
<1>7. CASE s.phase = "execute"
  <2>1. PICK b \in Body : b = BodyOf(s)
    BY <1>2 DEF BodyOf, Body, Stage
  <2>2. begun \in [Body -> Nat] /\ begun' = [begun EXCEPT ![b] = @ + 1]
    BY <1>5, <1>7, <2>1 DEF JobInv, JobTypeOK
  <2>3. \A x \in Body : x # b => begun'[x] = begun[x]
    BY <2>2
  <2>4. PICK spent, undone : spent = Spent' /\ undone = UndoBegun'
    OBVIOUS
  <2>5. \A x \in spent : x \in Spent \/ x = b
    BY <1>5, <2>3, <2>4 DEF Spent
  <2>6. \A n \in undone : n \in Nodes /\ (n \in UndoBegun \/ s = StageOf(n, TRUE, "execute"))
    <3>1. SUFFICES ASSUME NEW n \in undone, n \notin UndoBegun PROVE n \in Nodes /\ s = StageOf(n, TRUE, "execute")
      BY UndoBegunIs
    <3>2. n \in Nodes /\ begun'[[node |-> n, undo |-> TRUE]] > 0
      BY <2>4 DEF UndoBegun
    <3>3. [node |-> n, undo |-> TRUE] \in Body
      BY <3>2 DEF Body
    <3>4. [node |-> n, undo |-> TRUE] = b
      BY <2>3, <3>1, <3>2, <3>3 DEF UndoBegun
    <3>5. s.node = n /\ s.undo = TRUE
      BY <2>1, <3>4 DEF BodyOf
    <3>6. QED
      BY <1>2, <1>7, <3>2, <3>5 DEF StageOf, Stage
  <2>7. \A i \in DOMAIN Stages : Stages[i].phase = "execute" /\ BodyOf(Stages[i]) = b => i = controller.next
    <3>1. SUFFICES ASSUME NEW i \in DOMAIN Stages, Stages[i].phase = "execute", BodyOf(Stages[i]) = b
                   PROVE  i = controller.next
      OBVIOUS
    <3>2. Stages[i] \in Stage
      BY <1>2 DEF Planned
    <3>3. Stages[i] = s
      BY <1>2, <1>7, <2>1, <3>1, <3>2 DEF BodyOf, Stage
    <3>4. ~(i < controller.next) /\ ~(controller.next < i)
      BY <1>2, <3>3 DEF Attempted, Distinct
    <3>5. QED
      BY <1>2, <3>4
  <2>8. Attempted(controller, spent, undone)
    <3>1. ASSUME NEW i \in DOMAIN Stages, NEW j \in DOMAIN Stages,
                 Stages[i].phase = "execute", BodyOf(Stages[i]) \in spent, j < i
          PROVE  Succeeded(controller.results, Stages[j])
      <4>1. CASE BodyOf(Stages[i]) \in Spent
        BY <1>2, <3>1, <4>1 DEF Attempted
      <4>2. CASE BodyOf(Stages[i]) = b
        <5>1. j < controller.next
          BY <2>7, <3>1, <4>2
        <5>2. QED
          BY <1>2, <5>1 DEF GoesOn
      <4>3. QED
        BY <2>5, <3>1, <4>1, <4>2
    <3>2. ASSUME NEW n \in undone
          PROVE  controller.op = "rollback" /\ (controller.actions[MainOf(n)] = "rolled_back" \/ Awaits(controller, n))
      <4>1. CASE n \in UndoBegun
        BY <1>2, <4>1 DEF Attempted
      <4>2. CASE s = StageOf(n, TRUE, "execute")
        <5>1. s.undo /\ s.node = n
          BY <4>2 DEF StageOf
        <5>2. controller.op = "rollback"
          BY <1>2, <5>1 DEF Planned
        <5>3. Descends(Stages) /\ Undoing(Stages)
          BY <1>2, <5>2 DEF Attempted, Planned
        <5>4. PICK j \in DOMAIN Stages : Stages[j] = StageOf(n, TRUE, "post")
          BY <1>2, <5>1, <5>3 DEF Descends
        <5>5. Stages[j].phase = "post" /\ Stages[j].node = n
          BY <5>4 DEF StageOf
        <5>6. ~(j < controller.next)
          BY <1>2, <5>1, <5>3, <5>5 DEF Undoing
        <5>7. ~Succeeded(controller.results, Stages[j])
          BY <1>2, <5>6 DEF GoesOn
        <5>8. QED
          BY <1>2, <5>2, <5>4, <5>7 DEF Awaits
      <4>3. QED
        BY <2>6, <4>1, <4>2
    <3>3. QED
      BY <1>2, <3>1, <3>2 DEF Attempted
  <2>9. GoesOn(c, spent)
    <3>1. \A i \in DOMAIN Stages : Stages[i].phase = "execute" /\ BodyOf(Stages[i]) \in spent =>
            i < controller.next \/ i = controller.next
      BY <1>2, <2>5, <2>7 DEF GoesOn
    <3>2. QED
      BY <1>2, <1>4, <3>1 DEF GoesOn
  <2>10. PICK r : r = ReceiptOf(controller)
    OBVIOUS
  <2>11. AgreeOnAttempt(controller, c) /\ AgreeOnAttempt(controller, r)
    BY <1>4, <2>10 DEF AgreeOnAttempt, ReceiptOf
  <2>12. undone \in SUBSET Nodes
    BY <2>6
  <2>13. Attempted(c, spent, undone) /\ Attempted(r, spent, undone)
    BY <2>8, <2>11, <2>12, AttemptedAlike
  <2>14. QED
    BY <1>2, <1>5, <2>4, <2>9, <2>10, <2>13 DEF AttemptsHold
<1>8. QED
  BY <1>6, <1>7

LEMMA ReportAttempt ==
  ASSUME JobInv, AttemptsHold, NEW seen \in {"ok", "failed"}, StageReports(seen) PROVE AttemptsHold'
<1>1. controller # NoController /\ DOMAIN controller = ControllerFields
  BY DEF StageReports, Serving, JobInv, ControllerHolds
<1>2. PICK c : c = [controller EXCEPT !.seen = seen]
  OBVIOUS
<1>3. controller' = c /\ UNCHANGED <<begun, retrySafe, receipt>>
  BY <1>2 DEF StageReports
<1>4. /\ c.op = controller.op /\ c.history = controller.history /\ c.steps = controller.steps
      /\ c.results = controller.results /\ c.actions = controller.actions /\ c.next = controller.next
      /\ c.active = controller.active /\ c.seen # "none"
  BY <1>1, <1>2 DEF ControllerFields, ReceiptFields
<1>5. QED
  BY <1>1, <1>3, <1>4, SameAttempt

LEMMA FailAttempt == JobInv /\ AttemptsHold /\ JobFails => AttemptsHold'
<1> SUFFICES ASSUME JobInv, AttemptsHold, JobFails PROVE AttemptsHold'
  OBVIOUS
<1>1. controller # NoController /\ DOMAIN controller = ControllerFields
  BY DEF JobFails, Serving, JobInv, ControllerHolds
<1>2. PICK c : c = [controller EXCEPT !.failed = TRUE]
  OBVIOUS
<1>3. controller' = c /\ UNCHANGED <<begun, retrySafe, receipt>>
  BY <1>2 DEF JobFails
<1>4. /\ c.op = controller.op /\ c.history = controller.history /\ c.steps = controller.steps
      /\ c.results = controller.results /\ c.actions = controller.actions /\ c.next = controller.next
      /\ c.active = controller.active /\ c.seen = controller.seen
  BY <1>1, <1>2 DEF ControllerFields, ReceiptFields
<1>5. QED
  BY <1>1, <1>3, <1>4, SameAttempt

LEMMA ReturnAttempt == JobInv /\ AttemptsHold /\ JobReturns => AttemptsHold'
<1> SUFFICES ASSUME JobInv, AttemptsHold, JobReturns PROVE AttemptsHold'
  OBVIOUS
<1>1. PICK results, s : results = FinalResults /\ s = Current
  OBVIOUS
<1>2. PICK r : r = [ReceiptOf(controller) EXCEPT !.results = results]
  OBVIOUS
<1>3. /\ controller # NoController /\ controller' = NoController
      /\ receipt' = r \/ receipt' = receipt
      /\ UNCHANGED <<begun, retrySafe>>
  BY <1>1, <1>2 DEF JobReturns, WriteLost
<1>4. Spent' = Spent /\ UndoBegun' = UndoBegun
  BY <1>3, SpentStays
<1>5. receipt # NoReceipt
  BY <1>3 DEF JobInv, ControllerHolds
<1>6. CASE receipt' = r
  <2>1. /\ DOMAIN r = ReceiptFields /\ r.op = controller.op /\ r.history = controller.history /\ r.steps = controller.steps
        /\ r.results = results /\ r.actions = controller.actions
    BY <1>2 DEF ReceiptOf, ReceiptFields
  <2>2. Attempted(controller, Spent, UndoBegun) /\ GoesOn(controller, Spent)
    BY <1>3 DEF AttemptsHold
  <2>3. \A x : Succeeded(results, x) <=> Succeeded(controller.results, x)
    <3>1. CASE controller.active
      <4>1. controller.next \in DOMAIN controller.steps /\ ~(controller.next < controller.next)
        BY <1>3, <3>1 DEF JobInv, JobTypeOK, ControllerHolds, Planned
      <4>2. ~Succeeded(controller.results, s)
        BY <1>1, <2>2, <4>1 DEF GoesOn, Current, Stages
      <4>3. results = With(controller.results, s, "failed")
        BY <1>1, <3>1 DEF FinalResults
      <4>4. \A x : Succeeded(results, x) <=> IF x = s THEN "failed" = "succeeded" ELSE Succeeded(controller.results, x)
        BY <4>3, WithIs
      <4>5. QED
        BY <4>2, <4>4
    <3>2. CASE ~controller.active
      BY <1>1, <3>2 DEF FinalResults
    <3>3. QED
      BY <3>1, <3>2
  <2>4. AgreeOnAttempt(controller, r)
    BY <2>1, <2>3 DEF AgreeOnAttempt
  <2>5. Attempted(r, Spent, UndoBegun)
    BY <2>2, <2>4, UndoBegunIs, AttemptedAlike
  <2>6. r # NoReceipt
    <3>1. "op" \in DOMAIN controller /\ controller.op \in {"run", "rollback"}
      BY <1>3 DEF JobInv, ControllerHolds, Planned, ReceiptFields
    <3>2. QED
      BY <2>1, <3>1 DEF NoReceipt
  <2>7. QED
    BY <1>3, <1>4, <1>6, <2>5, <2>6 DEF AttemptsHold
<1>7. CASE receipt' = receipt
  BY <1>3, <1>4, <1>5, <1>7 DEF AttemptsHold
<1>8. QED
  BY <1>3, <1>6, <1>7

LEMMA OtherAttempt ==
  ASSUME AttemptsHold, UNCHANGED <<begun, retrySafe, receipt>>, UNCHANGED controller \/ controller' = NoController
  PROVE  AttemptsHold'
<1>1. Spent' = Spent /\ UndoBegun' = UndoBegun
  BY SpentStays
<1>2. QED
  BY <1>1 DEF AttemptsHold

\* Only the start of a body counts as begun.
LEMMA BeginsOnlyAtStart ==
  ASSUME JobInv, [JobNext]_jobVars
  PROVE  UNCHANGED begun \/ StageStarts
BY DEF JobNext, RunJob, ResumeJob, RollbackJob, Launch, PreviewRollback, BeginStage, EndStage, JobFails,
       JobReturns, StageReports, KillLauncher, OrphanEnds, jobVars

LEMMA DoneStarts == JobInit => DoneWasBegun
BY DEF JobInit, DoneWasBegun

\* What was begun stays begun.
LEMMA BegunStays ==
  ASSUME JobInv, [JobNext]_jobVars
  PROVE  \A b \in Body : begun[b] > 0 => begun'[b] > 0
<1>1. begun \in [Body -> Nat]
  BY DEF JobInv, JobTypeOK
<1>2. CASE UNCHANGED begun
  BY <1>2
<1>3. CASE StageStarts
  <2>1. UNCHANGED begun \/ begun' = [begun EXCEPT ![BodyOf(Current)] = @ + 1]
    BY <1>3 DEF StageStarts
  <2>2. QED
    BY <1>1, <2>1
<1>4. QED
  BY <1>2, <1>3, BeginsOnlyAtStart

BegunNext(x) == \A s \in Acknowledged(x) : s.phase = "execute" => begun'[BodyOf(s)] > 0

\* What was begun stays so under a record that acknowledges no more.
LEMMA BegunWorkStays ==
  ASSUME JobInv, [JobNext]_jobVars, NEW x, WorkIsBegun(x), Acknowledged(x) \subseteq Stage,
         NEW y, \A s \in Acknowledged(y) : s \in Acknowledged(x)
                   \/ (s \in Stage /\ (s.phase = "execute" => begun[BodyOf(s)] > 0))
  PROVE  BegunNext(y)
<1>1. SUFFICES ASSUME NEW s \in Acknowledged(y), s.phase = "execute" PROVE begun'[BodyOf(s)] > 0
  BY DEF BegunNext
<1>2. s \in Stage /\ begun[BodyOf(s)] > 0
  BY <1>1 DEF WorkIsBegun
<1>3. BodyOf(s) \in Body
  BY <1>2 DEF BodyOf, Body, Stage
<1>4. QED
  BY <1>2, <1>3, BegunStays

LEMMA DoneStep == JobInv /\ DoneWasBegun /\ [JobNext]_jobVars => DoneWasBegun'
<1> SUFFICES ASSUME JobInv, DoneWasBegun, [JobNext]_jobVars PROVE DoneWasBegun'
  OBVIOUS
<1>1. ASSUME NEW r, NEW d, receipt' = r, controller' = d,
             r # NoReceipt => BegunNext(r), d # NoController => BegunNext(d),
             d # NoController /\ d.active /\ d.seen # "none" /\ d.steps[d.next].phase = "execute"
               => begun'[BodyOf(d.steps[d.next])] > 0
      PROVE  DoneWasBegun'
  BY <1>1 DEF DoneWasBegun, WorkIsBegun, BegunNext, Current, Stages
<1>2. PICK x, c, s : x = receipt /\ c = controller /\ s = Current
  OBVIOUS
<1>3. x # NoReceipt => WorkIsBegun(x) /\ Acknowledged(x) \subseteq Stage
  <2>1. SUFFICES ASSUME x # NoReceipt PROVE Acknowledged(x) \subseteq Stage
    BY <1>2 DEF DoneWasBegun
  <2>2. x.steps \in Seq(Stage) /\ x.history \subseteq Stage /\ DOMAIN x.results \subseteq ToSet(x.steps)
    BY <1>2, <2>1 DEF JobInv, JobTypeOK
  <2>3. QED
    BY <2>2 DEF Acknowledged, ToSet
<1>4. c # NoController => /\ WorkIsBegun(c) /\ Acknowledged(c) \subseteq Stage /\ DOMAIN c = ControllerFields
                          /\ c.active \in BOOLEAN
                          /\ c.active /\ c.seen # "none" /\ s.phase = "execute" => begun[BodyOf(s)] > 0
  <2>1. SUFFICES ASSUME c # NoController PROVE /\ Acknowledged(c) \subseteq Stage /\ DOMAIN c = ControllerFields
                                               /\ c.active \in BOOLEAN
    BY <1>2 DEF DoneWasBegun
  <2>2. Planned(c) /\ DOMAIN c = ControllerFields /\ c.active \in BOOLEAN
    BY <1>2, <2>1 DEF JobInv, ControllerHolds
  <2>3. QED
    BY <2>2 DEF Acknowledged, ToSet, Planned
<1>5. c # NoController /\ c.active => s \in Stage /\ BodyOf(s) \in Body /\ s = c.steps[c.next]
  <2>1. SUFFICES ASSUME c # NoController, c.active PROVE s \in Stage /\ BodyOf(s) \in Body
    BY <1>2 DEF Current, Stages
  <2>2. c.steps \in Seq(Stage) /\ c.next \in 1..Len(c.steps)
    BY <1>2, <2>1 DEF JobInv, JobTypeOK, ControllerHolds, Planned
  <2>3. s \in Stage
    BY <1>2, <2>2 DEF Current, Stages
  <2>4. QED
    BY <2>3 DEF BodyOf, Body, Stage
<1>6. (x # NoReceipt => BegunNext(x)) /\ (c # NoController => BegunNext(c))
  BY <1>3, <1>4, BegunWorkStays
<1>7. c # NoController /\ c.active /\ c.seen # "none" /\ s.phase = "execute" => begun'[BodyOf(s)] > 0
  BY <1>4, <1>5, BegunStays
<1>8. ASSUME c # NoController, NEW d, \A t \in Acknowledged(d) : t \in Acknowledged(c) PROVE BegunNext(d)
  BY <1>4, <1>8, BegunWorkStays
<1>9. CASE RunJob \/ ResumeJob \/ RollbackJob
  <2>1. PICK op, steps, actions : Launch(op, steps, actions)
    BY <1>9 DEF RunJob, ResumeJob, RollbackJob
  <2>2. PICK l : l = [op |-> op, steps |-> steps, results |-> <<>>, actions |-> actions, history |-> Past,
                      next |-> 1, active |-> FALSE, seen |-> "none", failed |-> FALSE]
    OBVIOUS
  <2>3. PICK r : r = ReceiptOf(l)
    OBVIOUS
  <2>4. /\ c = NoController /\ (receipt' = x \/ receipt' = r) /\ (controller' = c \/ controller' = l)
        /\ l.active = FALSE
    BY <1>2, <2>1, <2>2, <2>3 DEF Launch, Past, WriteLost
  <2>5. Acknowledged(l) = Past /\ Acknowledged(r) = Past
    BY <2>2, <2>3 DEF Acknowledged, ReceiptOf
  <2>6. BegunNext(l) /\ BegunNext(r)
    <3>1. CASE x = NoReceipt
      BY <1>2, <2>5, <3>1 DEF BegunNext, Past
    <3>2. CASE x # NoReceipt
      <4>1. \A t \in Past : t \in Acknowledged(x)
        BY <1>2 DEF Past
      <4>2. QED
        BY <1>6, <2>5, <3>2, <4>1 DEF BegunNext
    <3>3. QED
      BY <3>1, <3>2
  <2>7. QED
    BY <1>1, <1>6, <2>4, <2>6
<1>10. CASE BeginStage
  <2>1. PICK b : StageBegun(b) /\ MayBeWritten(b) /\ Persist(b, b)
    BY <1>10, BeginWrites
  <2>2. PICK r, d : r = ReceiptOf(b) /\ d = [b EXCEPT !.failed = TRUE]
    OBVIOUS
  <2>3. /\ c # NoController /\ (receipt' = x \/ receipt' = r) /\ (controller' = b \/ controller' = d)
        /\ b.seen = "none" /\ b.results = With(c.results, s, "running") /\ b.history = c.history
    BY <1>2, <1>10, <2>1, <2>2 DEF BeginStage, Serving, StageBegun, Persist, WriteLost
  <2>4. r.results = b.results /\ r.history = b.history /\ d.results = b.results /\ d.history = b.history
        /\ d.seen = b.seen
    BY <2>1, <2>2 DEF ReceiptOf, MayBeWritten, MayBeLeft, ControllerFields, ReceiptFields
  <2>5. \A t \in Acknowledged(b) : t \in Acknowledged(c)
    BY <2>3 DEF Acknowledged, With
  <2>6. Acknowledged(r) = Acknowledged(b) /\ Acknowledged(d) = Acknowledged(b)
    BY <2>4 DEF Acknowledged
  <2>7. BegunNext(b) /\ BegunNext(r) /\ BegunNext(d)
    BY <1>8, <2>3, <2>5, <2>6
  <2>8. QED
    BY <1>1, <1>6, <2>3, <2>4, <2>7
<1>11. CASE EndStage /\ controller.seen # "failed"
  <2>1. PICK e, left : /\ StageEnded(e) /\ MayBeWritten(e)
                       /\ StageLeft(left) /\ MayBeLeft(left) /\ Persist(e, left)
    BY <1>11, EndWrites
  <2>2. PICK r, d : r = ReceiptOf(e) /\ d = [left EXCEPT !.failed = TRUE]
    OBVIOUS
  <2>3. /\ c # NoController /\ c.active /\ c.seen = "ok"
        /\ (receipt' = x \/ receipt' = r) /\ (controller' = e \/ controller' = d)
        /\ e.active = FALSE /\ e.results = With(c.results, s, "succeeded") /\ e.history = c.history
        /\ left.results = c.results /\ left.history = c.history /\ left.steps = c.steps /\ left.next = c.next
        /\ left.active = c.active /\ left.seen = c.seen
    BY <1>2, <1>11, <2>1, <2>2 DEF EndStage, Serving, StageEnded, StageLeft, Persist, WriteLost
  <2>4. /\ r.results = e.results /\ r.history = e.history /\ d.results = left.results /\ d.history = left.history
        /\ d.steps = left.steps /\ d.next = left.next /\ d.active = left.active /\ d.seen = left.seen
    BY <2>1, <2>2 DEF ReceiptOf, MayBeLeft, ControllerFields, ReceiptFields
  <2>5. s \in Stage /\ (s.phase = "execute" => begun[BodyOf(s)] > 0)
    BY <1>4, <1>5, <2>3
  <2>6. \A t \in Acknowledged(e) : t \in Acknowledged(c) \/ t = s
    BY <2>3 DEF Acknowledged, With
  <2>7. BegunNext(e)
    BY <1>4, <2>3, <2>5, <2>6, BegunWorkStays
  <2>8. Acknowledged(r) = Acknowledged(e) /\ Acknowledged(d) = Acknowledged(c)
    BY <2>3, <2>4 DEF Acknowledged
  <2>9. BegunNext(r) /\ BegunNext(d)
    BY <1>6, <2>3, <2>7, <2>8 DEF BegunNext
  <2>10. d.steps[d.next] = s
    BY <1>5, <2>3, <2>4
  <2>11. QED
    BY <1>1, <1>6, <1>7, <2>3, <2>4, <2>7, <2>9, <2>10
<1>12. CASE (EndStage /\ controller.seen = "failed") \/ JobFails \/ StageStarts
             \/ \E seen \in {"ok", "failed"} : StageReports(seen)
  <2>1. /\ c # NoController /\ receipt' = x
        /\ \/ controller' = [c EXCEPT !.failed = TRUE]
           \/ c.active /\ StageStarts /\ controller' = [c EXCEPT !.seen = "working"]
           \/ c.active /\ c.seen = "working"
              /\ \E seen \in {"ok", "failed"} : controller' = [c EXCEPT !.seen = seen]
    BY <1>2, <1>12 DEF EndStage, JobFails, StageStarts, StageReports, Serving
  <2>2. PICK d : d = controller'
    OBVIOUS
  <2>3. /\ d.results = c.results /\ d.history = c.history /\ d.steps = c.steps /\ d.next = c.next
        /\ d.active = c.active
    BY <1>4, <2>1, <2>2 DEF ControllerFields, ReceiptFields
  <2>4. Acknowledged(d) = Acknowledged(c)
    BY <2>3 DEF Acknowledged
  <2>5. BegunNext(d)
    BY <1>6, <2>1, <2>4 DEF BegunNext
  <2>6. d.active /\ d.seen # "none" /\ s.phase = "execute" => begun'[BodyOf(s)] > 0
    <3>1. CASE controller' = [c EXCEPT !.failed = TRUE]
      BY <1>4, <1>7, <2>1, <2>2, <2>3, <3>1 DEF ControllerFields, ReceiptFields
    <3>2. CASE c.active /\ c.seen = "working"
      BY <1>7, <2>1, <3>2
    <3>3. CASE c.active /\ StageStarts
      <4>1. SUFFICES ASSUME s.phase = "execute" PROVE begun'[BodyOf(s)] > 0
        OBVIOUS
      <4>2. begun' = [begun EXCEPT ![BodyOf(s)] = @ + 1] /\ begun \in [Body -> Nat] /\ BodyOf(s) \in Body
        BY <1>2, <1>5, <2>1, <3>3, <4>1 DEF StageStarts, JobInv, JobTypeOK
      <4>3. QED
        BY <4>2
    <3>4. QED
      BY <2>1, <3>1, <3>2, <3>3
  <2>7. d.active => d.steps[d.next] = s
    BY <1>4, <1>5, <2>1, <2>3
  <2>8. QED
    BY <1>1, <1>4, <1>6, <2>1, <2>2, <2>3, <2>5, <2>6, <2>7
<1>13. CASE JobReturns
  <2>1. PICK r : r = [ReceiptOf(controller) EXCEPT !.results = FinalResults]
    OBVIOUS
  <2>2. c # NoController /\ controller' = NoController /\ (receipt' = x \/ receipt' = r)
    BY <1>2, <1>13, <2>1 DEF JobReturns, WriteLost
  <2>3. r.history = c.history /\ (r.results = c.results \/ r.results = With(c.results, s, "failed"))
    BY <1>2, <2>1 DEF ReceiptOf, FinalResults
  <2>4. \A t \in Acknowledged(r) : t \in Acknowledged(c)
    BY <2>3 DEF Acknowledged, With
  <2>5. BegunNext(r)
    BY <1>8, <2>2, <2>4
  <2>6. QED
    BY <1>1, <1>6, <2>2, <2>5
<1>14. CASE PreviewRollback \/ KillLauncher \/ (\E finished \in BOOLEAN : OrphanEnds(finished)) \/ UNCHANGED jobVars
  <2>1. receipt' = x /\ (controller' = c \/ controller' = NoController)
    BY <1>2, <1>14 DEF PreviewRollback, KillLauncher, OrphanEnds, jobVars
  <2>2. c # NoController /\ c.active => c.steps[c.next] = s
    BY <1>5
  <2>3. QED
    BY <1>1, <1>4, <1>6, <1>7, <2>1, <2>2
<1>15. QED
  BY <1>9, <1>10, <1>11, <1>12, <1>13, <1>14 DEF JobNext, EndStage

LEMMA AttemptStep == JobInv /\ AttemptsHold /\ DoneWasBegun /\ [JobNext]_jobVars => AttemptsHold'
<1> SUFFICES ASSUME JobInv, AttemptsHold, DoneWasBegun, [JobNext]_jobVars PROVE AttemptsHold'
  OBVIOUS
<1>1. CASE RunJob \/ ResumeJob \/ RollbackJob
  BY <1>1, RunAttempt, ResumeAttempt, RollbackAttempt
<1>2. CASE BeginStage \/ StageStarts \/ EndStage
  BY <1>2, BeginAttempt, StartAttempt, EndAttempt
<1>3. CASE JobFails \/ JobReturns
  BY <1>3, FailAttempt, ReturnAttempt
<1>4. CASE \E seen \in {"ok", "failed"} : StageReports(seen)
  BY <1>4, ReportAttempt
<1>5. CASE PreviewRollback \/ KillLauncher \/ (\E finished \in BOOLEAN : OrphanEnds(finished)) \/ UNCHANGED jobVars
  <2>1. UNCHANGED <<begun, retrySafe, receipt>> /\ (UNCHANGED controller \/ controller' = NoController)
    BY <1>5 DEF PreviewRollback, KillLauncher, OrphanEnds, jobVars
  <2>2. QED
    BY <2>1, OtherAttempt
<1>6. QED
  BY <1>1, <1>2, <1>3, <1>4, <1>5 DEF JobNext

LEMMA StartIsSafe ==
  ASSUME JobInv, AttemptsHold, StageStarts
  PROVE  RepeatsOnlySafe /\ UndoesInReverse
<1>1. PICK s : s = Current
  OBVIOUS
<1>2. /\ controller # NoController /\ DOMAIN controller = ControllerFields
      /\ receipt = ReceiptOf(controller) /\ receipt # NoReceipt
      /\ Planned(controller) /\ s \in Stage /\ controller.steps = Stages
      /\ controller.next \in DOMAIN Stages /\ DOMAIN Stages \subseteq Int /\ s = Stages[controller.next]
      /\ ~Succeeded(controller.results, s)
      /\ s.phase = "execute" => BodyOf(s) \notin Spent
      /\ Attempted(controller, Spent, UndoBegun) /\ GoesOn(controller, Spent)
  BY <1>1, AtStart
<1>3. PICK b \in Body : b = BodyOf(s)
  BY <1>2 DEF BodyOf, Body, Stage
<1>4. /\ begun \in [Body -> Nat]
      /\ s.phase # "execute" => UNCHANGED begun
      /\ s.phase = "execute" => begun' = [begun EXCEPT ![b] = @ + 1]
  BY <1>1, <1>3 DEF StageStarts, JobInv, JobTypeOK
<1>5. \A x \in Body : begun'[x] > begun[x] => x = b /\ s.phase = "execute"
  BY <1>4
<1>6. /\ receipt.results = controller.results /\ receipt.actions = controller.actions
      /\ receipt.history = controller.history
  BY <1>2 DEF ReceiptOf
<1>7. RepeatsOnlySafe
  <2>1. SUFFICES ASSUME begun[b] > 0, s.phase = "execute"
                 PROVE  b \in retrySafe /\ \A t \in Acknowledged(receipt) : t.phase = "execute" => BodyOf(t) # b
    BY <1>5 DEF RepeatsOnlySafe
  <2>2. b \in retrySafe
    BY <1>2, <1>3, <2>1 DEF Spent
  <2>3. ASSUME NEW t \in Acknowledged(receipt), t.phase = "execute" PROVE BodyOf(t) # b
    <3>1. SUFFICES ASSUME BodyOf(t) = b PROVE FALSE
      OBVIOUS
    <3>2. t \in receipt.history \/ (t \in DOMAIN receipt.results /\ receipt.results[t] = "succeeded")
      BY <2>3 DEF Acknowledged
    <3>3. t \in Stage
      BY <1>2, <1>6, <3>2 DEF Planned, ToSet
    <3>4. t = s
      BY <1>2, <1>3, <2>1, <2>3, <3>1, <3>3 DEF BodyOf, Stage
    <3>5. t \notin receipt.history
      BY <1>2, <1>6, <2>1, <3>4 DEF Attempted
    <3>6. QED
      BY <1>2, <1>6, <3>2, <3>4, <3>5 DEF Succeeded
  <2>4. QED
    BY <2>2, <2>3
<1>8. UndoesInReverse
  <2>1. SUFFICES ASSUME NEW n \in Nodes, NEW m \in Nodes, m > n,
                        begun'[[node |-> n, undo |-> TRUE]] > begun[[node |-> n, undo |-> TRUE]]
                 PROVE  receipt.actions[MainOf(m)] \in {"none", "rolled_back"}
    BY DEF UndoesInReverse
  <2>2. [node |-> n, undo |-> TRUE] = b
    <3>1. [node |-> n, undo |-> TRUE] \in Body
      BY DEF Body
    <3>2. QED
      BY <1>5, <2>1, <3>1
  <2>3. s.node = n /\ s.undo
    BY <1>3, <2>2 DEF BodyOf
  <2>4. controller.op = "rollback"
    BY <1>2, <2>3 DEF Planned
  <2>5. Descends(Stages)
    BY <1>2, <2>4 DEF Attempted
  <2>6. n \in Int /\ m \in Int
    BY DEF Nodes
  <2>7. ~Awaits(controller, m)
    <3>1. SUFFICES ASSUME NEW i \in DOMAIN Stages, Stages[i] = StageOf(m, TRUE, "post"),
                          ~Succeeded(controller.results, Stages[i])
                   PROVE  FALSE
      BY <1>2 DEF Awaits
    <3>2. Stages[i].node = m
      BY <3>1 DEF StageOf
    <3>3. ~(i < controller.next) /\ i # controller.next
      <4>1. ~(i < controller.next)
        BY <1>2, <3>1 DEF GoesOn
      <4>2. n # m
        BY <2>1, <2>6
      <4>3. QED
        BY <1>2, <2>3, <3>2, <4>1, <4>2
    <3>4. controller.next < i
      BY <1>2, <3>3
    <3>5. s.node >= Stages[i].node
      BY <1>2, <2>5, <3>4 DEF Descends
    <3>6. QED
      BY <2>1, <2>3, <2>6, <3>2, <3>5
  <2>8. ~(s.node > m)
    BY <2>1, <2>3, <2>6
  <2>9. controller.actions[MainOf(m)] \notin Touched
    BY <1>2, <2>4, <2>7, <2>8 DEF Attempted
  <2>10. controller.actions[MainOf(m)] \in Statuses
    BY <1>2 DEF Planned, MainOf, Body
  <2>11. QED
    BY <1>6, <2>9, <2>10 DEF Touched, Statuses
<1>9. QED
  BY <1>7, <1>8

\* Whatever was interrupted, lost or killed before, no attempt repeats a body
\* that is done or unsafe, and none undoes an instance that others still rest
\* on, for any number of instances and attempts (retry and continuation in
\* cf_recovery.py, SelectRollbackStages).
THEOREM AttemptsStaySafe == JobSpec => AttemptsAreSafe
<1>1. JobInit => AttemptsHold /\ DoneWasBegun
  BY AttemptsStart, DoneStarts
<1>2. JobInv /\ AttemptsHold /\ [JobNext]_jobVars => [RepeatsOnlySafe /\ UndoesInReverse]_jobVars
  <2> SUFFICES ASSUME JobInv, AttemptsHold, [JobNext]_jobVars PROVE RepeatsOnlySafe /\ UndoesInReverse
    OBVIOUS
  <2>1. CASE UNCHANGED begun
    <3>1. begun \in [Body -> Nat] /\ \A n \in Nodes : [node |-> n, undo |-> TRUE] \in Body
      BY DEF JobInv, JobTypeOK, Body
    <3>2. \A b \in Body : ~(begun'[b] > begun[b])
      BY <2>1, <3>1
    <3>3. QED
      BY <3>1, <3>2 DEF RepeatsOnlySafe, UndoesInReverse
  <2>2. CASE StageStarts
    BY <2>2, StartIsSafe
  <2>3. QED
    BY <2>1, <2>2, BeginsOnlyAtStart
<1>3. QED
  BY JobStarts, JobStepKeeps, AttemptStep, DoneStep, <1>1, <1>2, PTL DEF JobSpec, AttemptsAreSafe
=============================================================================

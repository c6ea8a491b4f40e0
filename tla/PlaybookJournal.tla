-------------------------- MODULE PlaybookJournal --------------------------
(***************************************************************************)
(* The managed Playbook workspace of one component release: files on disk, *)
(* the manifest and the actions in the database, and the journal row that  *)
(* tells a restarted server which file to put back.                        *)
(*                                                                         *)
(* Every edit holds workspace.mu, so at most one runs at a time; a crash   *)
(* may come between any two of its steps.  Saving or deleting an action    *)
(* and deleting a directory write a journal row before touching the disk   *)
(* and remove it in the transaction that commits the manifest; the other   *)
(* edits keep no journal and only undo what they did when the transaction  *)
(* fails.  A path is an action's entrypoint (in Entrypoints) or another    *)
(* file, and the other files are the ones of the deleted directory.  Where *)
(* a file is replaced, its contents are written to a temporary file first: *)
(* a crash before the rename leaves that file, its name is reserved, and   *)
(* no scan of the directory passes any more.                               *)
(***************************************************************************)
EXTENDS Integers

CONSTANTS Entrypoints,    \* tasks/<kind>.yml paths
          OtherFiles,     \* the files of one directory of the workspace
          Contents,       \* what a file may hold
          Absent,         \* in place of contents: no such file
          Roots,          \* managed directories the release may be given
          NoMarker, NoEdit,
          MaxEdits, MaxCrashesOfEdits, MaxLostUndos

Paths == Entrypoints \cup OtherFiles
Tree == [Paths -> Contents \cup {Absent}]
EmptyTree == [p \in Paths |-> Absent]

Markers == [root : Roots, paths : SUBSET Paths, before : Tree]
Edits == [kind : {"saveFile", "saveAction", "renameFile", "deleteFile", "deleteAction",
                  "deleteDirectory", "move"},
          paths : SUBSET Paths, contents : Contents \cup {Absent}, to : Paths \cup Roots,
          before : Tree, had : BOOLEAN, step : {"journal", "disk", "commit", "undo", "discard"}]

ASSUME JournalAssumption == NoMarker \notin Markers /\ NoEdit \notin Edits

VARIABLES disk,      \* what each managed directory holds
          made,      \* the managed directories that exist, be they empty
          leftover,  \* those with a .workspace-write-* file in them
          release,   \* the row: status, workspace root, manifest, bound actions
          journal,   \* playbook_action_mutations: at most one row per release
          edit,      \* the edit that holds workspace.mu
          serving,   \* the server is up
          edits, editCrashes, lostUndos,
          torn,      \* paths an interrupted, unjournaled edit left unlike the manifest
          published  \* the files of the release when it was published

journalVars == <<disk, made, leftover, release, journal, edit, serving, edits, editCrashes, lostUndos, torn, published>>

Here == disk[release.root]
Journaled(kind) == kind \in {"saveAction", "deleteAction", "deleteDirectory"}

JournalInit ==
  /\ \E root \in Roots :
       release = [status |-> "draft", root |-> root, manifest |-> EmptyTree, bound |-> {}]
  /\ disk = [r \in Roots |-> EmptyTree] /\ made = {} /\ leftover = {}
  /\ journal = NoMarker /\ edit = NoEdit /\ serving = TRUE
  /\ edits = 0 /\ editCrashes = 0 /\ lostUndos = 0
  /\ torn = {} /\ published = EmptyTree

\* authorizePlaybook(requireDraft) under workspace.mu; every edit starts here. A
\* save makes the directory of the release before anything else.
Edit(kind, paths, contents, to) ==
  /\ serving /\ edit = NoEdit /\ edits < MaxEdits
  /\ release.status = "draft"
  /\ edits' = edits + 1
  /\ edit' = [kind |-> kind, paths |-> paths, contents |-> contents, to |-> to,
              before |-> Here, had |-> release.root \in made,
              step |-> IF Journaled(kind) THEN "journal" ELSE "disk"]
  /\ made' = IF kind \in {"saveFile", "saveAction"} THEN made \cup {release.root} ELSE made
  /\ UNCHANGED <<disk, leftover, release, journal, serving, editCrashes, lostUndos, torn, published>>

SaveFile == \E p \in Paths, c \in Contents : Edit("saveFile", {p}, c, p)

SaveAction == \E p \in Entrypoints, c \in Contents : Edit("saveAction", {p}, c, p)

RenameFile ==
  \E from, to \in Paths \ release.bound :
    /\ Here[from] # Absent /\ Here[to] = Absent
    /\ Edit("renameFile", {from}, Here[from], to)

DeleteFile ==
  \E p \in Paths \ release.bound : Here[p] # Absent /\ Edit("deleteFile", {p}, Absent, p)

DeleteAction ==
  \E p \in release.bound : Here[p] # Absent /\ Edit("deleteAction", {p}, Absent, p)

\* scanWorkspace rejects a directory with a reserved name in it.
Scans == release.root \notin leftover

\* The directory of OtherFiles holds no entrypoint; its tree must be the manifest's.
DeleteDirectory ==
  LET files == {p \in OtherFiles : Here[p] # Absent} IN
  /\ files # {} /\ Scans /\ Here = release.manifest
  /\ Edit("deleteDirectory", files, Absent, CHOOSE p \in files : TRUE)

\* A new version or line name moves the directory before the row says so; where
\* the old directory does not exist nothing moves and the row alone changes.
MoveWorkspace ==
  \E root \in Roots \ {release.root} :
    /\ release.root \notin made \/ root \notin made
    /\ Edit("move", {}, Absent, root)

\* CreatePendingActionFileMutation: UNIQUE(release_id) refuses a second row.
WriteMarker ==
  /\ serving /\ edit # NoEdit /\ edit.step = "journal"
  /\ IF journal = NoMarker
       THEN /\ journal' = [root |-> release.root, paths |-> edit.paths, before |-> Here]
            /\ edit' = [edit EXCEPT !.step = "disk"]
       ELSE edit' = NoEdit /\ UNCHANGED journal
  /\ UNCHANGED <<disk, made, leftover, release, serving, edits, editCrashes, lostUndos, torn, published>>

\* What a step of the edit leaves on disk.  A file is replaced by a rename, so
\* it is old or new; a directory's files are removed one after the other.
AfterDisk ==
  CASE edit.kind = "move" ->
         [disk EXCEPT ![edit.to] = Here, ![release.root] = EmptyTree]
    [] edit.kind = "renameFile" ->
         [disk EXCEPT ![release.root] =
            [p \in Paths |-> IF p = edit.to THEN edit.contents
                             ELSE IF p \in edit.paths THEN Absent ELSE Here[p]]]
    [] edit.kind = "deleteDirectory" ->
         [disk EXCEPT ![release.root][CHOOSE p \in edit.paths : Here[p] # Absent] = Absent]
    [] OTHER ->
         [disk EXCEPT ![release.root] = [p \in Paths |-> IF p \in edit.paths THEN edit.contents ELSE Here[p]]]

\* moveDraftWorkspace found a directory to move.
MovesDirectory == edit.kind = "move" /\ edit.had

\* A directory takes along what is in it.
Carried(from, to) == IF from \in leftover THEN (leftover \ {from}) \cup {to} ELSE leftover

ChangeDisk ==
  /\ serving /\ edit # NoEdit /\ edit.step = "disk"
  /\ disk' = IF edit.kind = "move" /\ ~ MovesDirectory THEN disk ELSE AfterDisk
  /\ made' = IF MovesDirectory THEN (made \ {release.root}) \cup {edit.to} ELSE made
  /\ leftover' = IF MovesDirectory THEN Carried(release.root, edit.to) ELSE leftover
  /\ edit' = IF edit.kind = "deleteDirectory" /\ \E p \in edit.paths : disk'[release.root][p] # Absent
               THEN edit ELSE [edit EXCEPT !.step = "commit"]
  /\ UNCHANGED <<release, journal, serving, edits, editCrashes, lostUndos, torn, published>>

\* The rows the transaction writes: the scanned directory becomes the manifest
\* (a move keeps the manifest it had).
CommittedRow ==
  IF edit.kind = "move" THEN [release EXCEPT !.root = edit.to]
  ELSE [release EXCEPT !.manifest = Here,
          !.bound = IF edit.kind = "saveAction" THEN @ \cup edit.paths
                    ELSE IF edit.kind = "deleteAction" THEN @ \ edit.paths ELSE @]

\* Mutant: the marker is removed by a statement of its own after the commit.
MarkerOutlivesCommit == journal

\* replaceDraftPlaybookFilesAndAction removes the marker with the same commit.
MarkerAfterCommit == IF Journaled(edit.kind) THEN NoMarker ELSE journal

Commit ==
  /\ serving /\ edit # NoEdit /\ edit.step = "commit"
  /\ Scans \/ edit.kind = "move"
  /\ release' = CommittedRow
  /\ journal' = MarkerAfterCommit
  \* A scan takes every file as it is; an edit of a path whose marker is still
  \* pending will be undone by the next start.
  /\ torn' = (IF edit.kind = "move" THEN torn ELSE {}) \cup
             (IF ~ Journaled(edit.kind) /\ journal # NoMarker THEN Paths ELSE {})
  /\ edit' = NoEdit
  /\ UNCHANGED <<disk, made, leftover, serving, edits, editCrashes, lostUndos, published>>

\* The disk operation or the transaction fails: the request's own undo follows.
StepFails ==
  /\ serving /\ edit # NoEdit /\ edit.step \in {"disk", "commit"}
  /\ edit' = [edit EXCEPT !.step = "undo"]
  /\ UNCHANGED <<disk, made, leftover, release, journal, serving, edits, editCrashes, lostUndos, torn, published>>

\* Files of the edit as they were; a move is renamed back if it happened.
MovesBack == MovesDirectory /\ release.root \notin made

Undone ==
  IF edit.kind = "move"
    THEN IF MovesBack
           THEN [disk EXCEPT ![release.root] = edit.before, ![edit.to] = EmptyTree]
           ELSE disk
    ELSE [disk EXCEPT ![release.root] =
            [p \in Paths |-> IF p \in edit.paths \cup {edit.to} THEN edit.before[p] ELSE Here[p]]]

Undo ==
  /\ serving /\ edit # NoEdit /\ edit.step = "undo"
  /\ disk' = Undone
  /\ made' = IF MovesBack THEN (made \ {edit.to}) \cup {release.root} ELSE made
  /\ leftover' = IF MovesBack THEN Carried(edit.to, release.root) ELSE leftover
  /\ edit' = IF Journaled(edit.kind) THEN [edit EXCEPT !.step = "discard"] ELSE NoEdit
  /\ UNCHANGED <<release, journal, serving, edits, editCrashes, lostUndos, torn, published>>

DiscardMarker ==
  /\ serving /\ edit # NoEdit /\ edit.step = "discard"
  /\ journal' = NoMarker /\ edit' = NoEdit
  /\ UNCHANGED <<disk, made, leftover, release, serving, edits, editCrashes, lostUndos, torn, published>>

\* The undo or the removal of the marker fails (the removal runs under the
\* request's own context, cancelled when the client has gone): the error says
\* "recovery remains pending" and the marker stays.
UndoFails ==
  /\ serving /\ edit # NoEdit /\ edit.step \in {"undo", "discard"} /\ lostUndos < MaxLostUndos
  /\ lostUndos' = lostUndos + 1
  /\ edit' = NoEdit
  /\ torn' = IF Journaled(edit.kind) THEN torn ELSE torn \cup Paths
  /\ UNCHANGED <<disk, made, leftover, release, journal, serving, edits, editCrashes, published>>

\* validateWorkspaceManifest and the publication, under the same lock.
Publish ==
  /\ serving /\ edit = NoEdit /\ release.status = "draft"
  /\ release.bound # {} /\ Scans /\ Here = release.manifest
  /\ \A p \in release.bound : release.manifest[p] # Absent
  /\ release' = [release EXCEPT !.status = "released"]
  /\ published' = Here
  /\ UNCHANGED <<disk, made, leftover, journal, edit, serving, edits, editCrashes, lostUndos, torn>>

\* The edit is replacing a file, by the new contents or by what was there.
Replaces ==
  /\ edit # NoEdit
  /\ \/ edit.step = "disk" /\ edit.kind \in {"saveFile", "saveAction"}
     \/ /\ edit.step = "undo" /\ edit.kind \in {"saveFile", "saveAction", "deleteAction", "deleteDirectory"}
        /\ \E p \in edit.paths : edit.before[p] # Absent

CrashEdit ==
  /\ serving /\ editCrashes < MaxCrashesOfEdits
  /\ editCrashes' = editCrashes + 1
  /\ serving' = FALSE /\ edit' = NoEdit
  /\ torn' = IF edit = NoEdit \/ Journaled(edit.kind) THEN torn ELSE torn \cup Paths
  /\ \/ leftover' = leftover
     \/ Replaces /\ leftover' = leftover \cup {release.root}
  /\ UNCHANGED <<disk, made, release, journal, edits, lostUndos, published>>

\* RecoverActionFileMutations: what the marker remembers goes back to disk, into
\* a directory that is made again if there is a file to put there.
Restored ==
  [disk EXCEPT ![journal.root] =
     [p \in Paths |-> IF p \in journal.paths THEN journal.before[p] ELSE disk[journal.root][p]]]

RecoverMutations ==
  /\ ~ serving
  /\ serving' = TRUE
  /\ disk' = IF journal = NoMarker THEN disk ELSE Restored
  /\ made' = IF journal # NoMarker /\ \E p \in journal.paths : journal.before[p] # Absent
               THEN made \cup {journal.root} ELSE made
  /\ journal' = NoMarker
  /\ UNCHANGED <<leftover, release, edit, edits, editCrashes, lostUndos, torn, published>>

\* A crash of the start itself, while it writes a file to put back.
CrashRecovery ==
  /\ ~ serving /\ editCrashes < MaxCrashesOfEdits
  /\ journal # NoMarker /\ \E p \in journal.paths : journal.before[p] # Absent
  /\ editCrashes' = editCrashes + 1
  /\ made' = made \cup {journal.root} /\ leftover' = leftover \cup {journal.root}
  /\ UNCHANGED <<disk, release, journal, edit, serving, edits, lostUndos, torn, published>>

JournalNext ==
  \/ SaveFile \/ SaveAction \/ RenameFile \/ DeleteFile \/ DeleteAction \/ DeleteDirectory
  \/ MoveWorkspace \/ WriteMarker \/ ChangeDisk \/ Commit \/ StepFails \/ Undo
  \/ DiscardMarker \/ UndoFails \/ Publish \/ CrashEdit \/ CrashRecovery
  \/ RecoverMutations

JournalSpec == JournalInit /\ [][JournalNext]_journalVars

----------------------------------------------------------------------------
JournalTypeOK ==
  /\ disk \in [Roots -> Tree] /\ made \subseteq Roots /\ leftover \subseteq Roots
  /\ release \in [status : {"draft", "released"}, root : Roots, manifest : Tree, bound : SUBSET Entrypoints]
  /\ journal \in Markers \cup {NoMarker} /\ edit \in Edits \cup {NoEdit}
  /\ serving \in BOOLEAN /\ torn \subseteq Paths /\ published \in Tree

\* A journaled edit happens on disk and in the database, or in neither, however
\* it is interrupted: once the server is up, no edit runs and no marker is
\* pending, every file no unjournaled edit was interrupted on is the manifest's.
JournaledIsAtomic ==
  serving /\ edit = NoEdit /\ journal = NoMarker
    => \A p \in Paths \ torn : Here[p] = release.manifest[p]

\* "After an interruption of the process the recovery log also completes the
\* rollback when the server starts" (README.md): an edit that was rolled back has
\* left nothing in the workspace, which can be scanned, saved and published as
\* before.  Where nothing is torn, every interrupted edit was a journaled one.
RollbackLeavesNothing ==
  serving /\ edit = NoEdit /\ journal = NoMarker /\ torn = {} => Scans

\* The parts of the inductive invariant behind it (RecordsProofs).
NoDirectoryIsEmpty == \A r \in Roots \ made : disk[r] = EmptyTree

\* A directory that is to be moved is moved to where there is none, and is where
\* it was or where it went.
MoveIsTraced ==
  /\ edit.to \in Roots \ {release.root} /\ edit.step \in {"disk", "commit", "undo"}
  /\ ~ edit.had => edit.before = EmptyTree /\ release.root \notin made
  /\ edit.had /\ release.root \notin made => disk[edit.to] = edit.before /\ edit.to \in made
  /\ edit.had /\ edit.step = "disk" => release.root \in made
  /\ edit.had /\ edit.step = "commit" => release.root \notin made
  /\ release.root \in made => Here = edit.before /\ edit.to \notin made

\* Any other edit has changed at most the paths it names.
FilesAreTraced ==
  /\ release.root \in made /\ edit.to \in Paths
  /\ \A p \in Paths \ (edit.paths \cup {edit.to}) : Here[p] = edit.before[p]
  /\ edit.step \in {"journal", "discard"} => Journaled(edit.kind) /\ Here = edit.before
  /\ Journaled(edit.kind) => edit.to \in edit.paths
  /\ edit.kind = "saveAction" => edit.paths \subseteq Entrypoints
  /\ edit.kind = "deleteDirectory" /\ edit.step \in {"journal", "disk"} =>
        \E p \in edit.paths : Here[p] # Absent

EditIsTraced ==
  edit # NoEdit => serving /\ (IF edit.kind = "move" THEN MoveIsTraced ELSE FilesAreTraced)

\* The marker of a journaled edit, once written, remembers what the edit found.
OwnMarker == edit # NoEdit /\ Journaled(edit.kind) /\ edit.step # "journal"

OwnMarkerRemembers ==
  OwnMarker => /\ journal # NoMarker /\ journal.root = release.root /\ journal.paths = edit.paths
               /\ \A p \in edit.paths : journal.before[p] = edit.before[p]

\* What the manifest describes: what an edit found, or what is there; files whose
\* marker is pending are described by the marker instead.
Base == IF edit = NoEdit THEN Here ELSE edit.before
Pending == IF journal = NoMarker \/ OwnMarker THEN {} ELSE journal.paths

BaseIsManifest ==
  torn # Paths =>
    /\ \A p \in Paths \ (torn \cup Pending) : Base[p] = release.manifest[p]
    /\ journal # NoMarker =>
          /\ journal.root = release.root
          /\ \A p \in journal.paths \ torn : journal.before[p] = release.manifest[p]
    /\ release.root \in made \/ made = {} \/ (edit # NoEdit /\ MovesDirectory)

\* "released versions and their Playbooks are immutable" (authorizePlaybook):
\* the files of a published release stay the ones it was published with.
PublishedFilesStay ==
  release.status = "released" => Here = published
=============================================================================

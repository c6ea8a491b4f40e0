---------------------------- MODULE RunArchive ----------------------------
(***************************************************************************)
(* What happens to a run when it is over.  The logs of a succeeded run are *)
(* packed into a file and removed from the database by the transaction     *)
(* that records the file; a failed run nobody refers to may be deleted     *)
(* with its rows; and a history backup copies the database and the files   *)
(* it records while both go on.                                            *)
(*                                                                         *)
(* One worker packs one run at a time under a lease.  The lease may expire *)
(* (a stalled database, a crash), another claim then takes the task over   *)
(* with a new token, and the file of the old claim is an orphan that a     *)
(* daily scan removes once it is a day old.                                *)
(***************************************************************************)
EXTENDS Integers, FiniteSets

CONSTANTS HistoryRuns, NoPack, NoArchive, NoHistory,
          MaxLogs,           \* log rows per run
          MaxNamed,          \* runs named by other rows, and runs published on
          MaxClaims,         \* leases given
          MaxWorkerFaults    \* failures and crashes of the archive worker

\* A file is named by its run and its claim; its manifest counts the logs.
Archives == [run : HistoryRuns, token : Nat, count : Nat]
Packs == [run : HistoryRuns, token : Nat, count : Nat, step : {"export", "rename", "complete"}]
Tasks == [status : {"none", "queued", "running", "archived", "failed"}, token : Nat, live : BOOLEAN]

ASSUME ArchiveAssumption ==
  /\ MaxLogs \in Nat
  /\ NoArchive \notin Archives /\ NoPack \notin Packs
  /\ NoHistory \notin [rows : [HistoryRuns -> Archives \cup {NoArchive}], files : SUBSET Archives]

VARIABLES
  runStatus,    \* "absent", "active", "succeeded", "failed" or "cleaned"
  refs,         \* run -> runs its retry chain and its snapshot name
  prepared,     \* references of a run being prepared, before its insertion
  held,         \* runs named by installations, receipts or submissions
  evidence,     \* succeeded runs a publication rests on
  logs,         \* run -> log rows online
  written,      \* run -> log rows ever written
  task,         \* run -> its archive task
  packing,      \* what the worker holds in memory
  archiveFiles, \* files in the archive directory
  aged,         \* those more than a day old
  archiveRow,   \* run -> the file its run_archive_files row records
  claims, workerFaults,
  history       \* the history backup being made

archiveVars == <<runStatus, refs, prepared, held, evidence, logs, written, task, packing,
                 archiveFiles, aged, archiveRow, claims, workerFaults, history>>
taskVars == <<task, packing, archiveFiles, aged, archiveRow, claims, workerFaults>>
rowVars == <<runStatus, refs, prepared, held, evidence>>

Exists(r) == runStatus[r] \notin {"absent", "cleaned"}
NoTask == [status |-> "none", token |-> 0, live |-> FALSE]

ArchiveInit ==
  /\ runStatus = [r \in HistoryRuns |-> "absent"]
  /\ refs = [r \in HistoryRuns |-> {}] /\ prepared = {} /\ held = {} /\ evidence = {}
  /\ logs = [r \in HistoryRuns |-> 0] /\ written = [r \in HistoryRuns |-> 0]
  /\ task = [r \in HistoryRuns |-> NoTask] /\ packing = NoPack
  /\ archiveFiles = {} /\ aged = {} /\ archiveRow = [r \in HistoryRuns |-> NoArchive]
  /\ claims = 0 /\ workerFaults = 0 /\ history = NoHistory

----------------------------------------------------------------------------
(* Runs come and end; others refer to them.                                *)

\* A retry or a restore is prepared from runs read before its insertion.
PrepareRun ==
  /\ prepared = {}
  /\ \E r \in HistoryRuns : Exists(r) /\ runStatus[r] # "active" /\ prepared' = {r}
  /\ UNCHANGED <<runStatus, refs, held, evidence, logs, written, history, taskVars>>

\* validateNewRunReferences, inside the inserting transaction.
ReferencesExist(named) == \A r \in named : Exists(r)

InsertRun(r) ==
  /\ runStatus[r] = "absent"
  /\ IF ReferencesExist(prepared)
       THEN /\ runStatus' = [runStatus EXCEPT ![r] = "active"]
            /\ refs' = [refs EXCEPT ![r] = prepared]
       ELSE UNCHANGED <<runStatus, refs>>
  /\ prepared' = {}
  /\ UNCHANGED <<held, evidence, logs, written, history, taskVars>>

FinishRun(r) ==
  /\ runStatus[r] = "active"
  /\ \E s \in {"succeeded", "failed"} : runStatus' = [runStatus EXCEPT ![r] = s]
  /\ UNCHANGED <<refs, prepared, held, evidence, logs, written, history, taskVars>>

\* The job's output is appended while the run is active, and its last lines may
\* arrive when it is over.
AppendLog(r) ==
  /\ Exists(r) /\ written[r] < MaxLogs
  /\ logs' = [logs EXCEPT ![r] = @ + 1]
  /\ written' = [written EXCEPT ![r] = @ + 1]
  /\ UNCHANGED <<rowVars, history, taskVars>>

\* An installation, a receipt or an idempotent submission names the run.
HoldRun(r) ==
  /\ Exists(r) /\ r \notin held /\ Cardinality(held \cup evidence) < MaxNamed
  /\ held' = held \cup {r}
  /\ UNCHANGED <<runStatus, refs, prepared, evidence, logs, written, history, taskVars>>

\* A publication rests on a succeeded run; no row remembers which.
PublishOn(r) ==
  /\ runStatus[r] = "succeeded" /\ r \notin evidence /\ Cardinality(held \cup evidence) < MaxNamed
  /\ evidence' = evidence \cup {r}
  /\ UNCHANGED <<runStatus, refs, prepared, held, logs, written, history, taskVars>>

\* cleanupPreview: failed, past the retention days, and named by nothing.
Eligible(r) ==
  /\ runStatus[r] = "failed"
  /\ r \notin held
  /\ \A other \in HistoryRuns \ {r} : Exists(other) => r \notin refs[other]

\* CleanupRuns: one transaction for the selected ids, all eligible.
CleanupRuns(ids) ==
  /\ \A r \in ids : Eligible(r)
  /\ runStatus' = [r \in HistoryRuns |-> IF r \in ids THEN "cleaned" ELSE runStatus[r]]
  /\ logs' = [r \in HistoryRuns |-> IF r \in ids THEN 0 ELSE logs[r]]
  /\ UNCHANGED <<refs, prepared, held, evidence, written, history, taskVars>>

----------------------------------------------------------------------------
(* The archive worker.                                                     *)

\* A request or the retention scan; a failed task is queued again.
EnqueueArchive(r) ==
  /\ runStatus[r] = "succeeded" /\ task[r].status \in {"none", "failed"}
  /\ task' = [task EXCEPT ![r] = [status |-> "queued", token |-> 0, live |-> FALSE]]
  /\ UNCHANGED <<rowVars, logs, written, packing, archiveFiles, aged, archiveRow, claims, workerFaults, history>>

\* The daily scan, for one of its candidates: by the policy a succeeded run is
\* queued, a failed one cleaned up if nothing protects it.
Candidate(r) == runStatus[r] \in {"succeeded", "failed"} /\ archiveRow[r] = NoArchive

ScanRetention(r) == Candidate(r) /\ (EnqueueArchive(r) \/ CleanupRuns({r}))

\* A queued task, or a running one whose lease is over; never while one is live.
Claimable(r) == task[r].status = "queued" \/ (task[r].status = "running" /\ ~ task[r].live)

ClaimArchive(r) ==
  /\ packing = NoPack /\ claims < MaxClaims
  /\ Claimable(r) /\ \A other \in HistoryRuns : ~ task[other].live
  /\ claims' = claims + 1
  /\ task' = [task EXCEPT ![r] = [status |-> "running", token |-> claims', live |-> TRUE]]
  /\ packing' = [run |-> r, token |-> claims', count |-> 0, step |-> "export"]
  /\ UNCHANGED <<rowVars, logs, written, archiveFiles, aged, archiveRow, workerFaults, history>>

\* ExportRunArchive: one read transaction; its digest covers what it read.
ExportRun ==
  /\ packing # NoPack /\ packing.step = "export"
  /\ packing' = [packing EXCEPT !.count = logs[packing.run], !.step = "rename"]
  /\ UNCHANGED <<rowVars, logs, written, task, archiveFiles, aged, archiveRow, claims, workerFaults, history>>

\* The file a claim makes: named by the run and the token, its manifest counts
\* the logs.
Packed == [run |-> packing.run, token |-> packing.token, count |-> packing.count]
Verified(file, run, count) == file.run = run /\ file.count = count

\* Packed, verified, hashed, and renamed into the directory.
PlaceArchive ==
  /\ packing # NoPack /\ packing.step = "rename"
  /\ Verified(Packed, packing.run, packing.count)
  /\ archiveFiles' = archiveFiles \cup {Packed}
  /\ packing' = [packing EXCEPT !.step = "complete"]
  /\ UNCHANGED <<rowVars, logs, written, task, aged, archiveRow, claims, workerFaults, history>>

\* Mutant: whatever was appended since the export goes with the rest.
UnchangedOrNot == logs[packing.run] >= packing.count

\* CompleteRunArchive: the lease is still held and the run's rows are what was
\* exported.
StillLeased == task[packing.run].status = "running" /\ task[packing.run].token = packing.token
               /\ task[packing.run].live
Unchanged == logs[packing.run] = packing.count

CompleteArchive ==
  /\ packing # NoPack /\ packing.step = "complete"
  /\ IF StillLeased /\ Unchanged
       THEN /\ archiveRow' = [archiveRow EXCEPT ![packing.run] = Packed]
            /\ task' = [task EXCEPT ![packing.run].status = "archived", ![packing.run].live = FALSE]
            /\ logs' = [logs EXCEPT ![packing.run] = 0]
       \* FailRunArchive writes only under the same token.
       ELSE /\ task' = IF task[packing.run].token = packing.token /\ task[packing.run].status = "running"
                         THEN [task EXCEPT ![packing.run].status = "failed", ![packing.run].live = FALSE]
                         ELSE task
            /\ UNCHANGED <<archiveRow, logs>>
  /\ packing' = NoPack
  /\ UNCHANGED <<rowVars, written, archiveFiles, aged, claims, workerFaults, history>>

\* An error on the way (space, packing, verification), or the server's crash,
\* after which nobody fails the task and its lease runs out.
WorkerFails ==
  /\ packing # NoPack /\ workerFaults < MaxWorkerFaults
  /\ workerFaults' = workerFaults + 1
  /\ packing' = NoPack
  /\ \/ task' = [task EXCEPT ![packing.run].status = "failed", ![packing.run].live = FALSE]
     \/ UNCHANGED task
  /\ UNCHANGED <<rowVars, logs, written, archiveFiles, aged, archiveRow, claims, history>>

\* The renewal fails or five minutes pass without one.
LeaseExpires(r) ==
  /\ task[r].status = "running" /\ task[r].live
  /\ packing = NoPack \/ workerFaults < MaxWorkerFaults
  /\ workerFaults' = IF packing = NoPack THEN workerFaults ELSE workerFaults + 1
  /\ task' = [task EXCEPT ![r].live = FALSE]
  /\ UNCHANGED <<rowVars, logs, written, packing, archiveFiles, aged, archiveRow, claims, history>>

DayPasses ==
  /\ aged # archiveFiles
  /\ aged' = archiveFiles
  /\ UNCHANGED <<rowVars, logs, written, task, packing, archiveFiles, archiveRow, claims, workerFaults, history>>

\* reconcileArchiveOrphans: files recorded, or named by a running task, stay.
Protected(f) ==
  \/ archiveRow[f.run] = f
  \/ task[f.run].status = "running" /\ task[f.run].token = f.token

\* Mutant: the scan keeps its list of old files.
RemoveOrphansListed ==
  LET orphans == {f \in aged : ~ Protected(f)} IN
  /\ orphans # {}
  /\ archiveFiles' = archiveFiles \ orphans
  /\ UNCHANGED <<rowVars, logs, written, task, packing, aged, archiveRow, claims, workerFaults, history>>

RemoveOrphans ==
  LET orphans == {f \in aged : ~ Protected(f)} IN
  /\ orphans # {}
  /\ archiveFiles' = archiveFiles \ orphans
  /\ aged' = aged \ orphans
  /\ UNCHANGED <<rowVars, logs, written, task, packing, archiveRow, claims, workerFaults, history>>

----------------------------------------------------------------------------
(* The history backup: the database first, then the files it records.      *)

SnapshotHistory ==
  /\ history = NoHistory
  /\ history' = [rows |-> archiveRow, files |-> {}]
  /\ UNCHANGED <<rowVars, logs, written, taskVars>>

Listed == {history.rows[r] : r \in {x \in HistoryRuns : history.rows[x] # NoArchive}}

\* A listed file that is gone or corrupt fails the backup, which removes its target.
CopyArchive ==
  /\ history # NoHistory /\ Listed \ history.files # {}
  /\ \E f \in Listed \ history.files :
       history' = IF f \in archiveFiles THEN [history EXCEPT !.files = @ \cup {f}] ELSE NoHistory
  /\ UNCHANGED <<rowVars, logs, written, taskVars>>

HistoryVerified == Listed \subseteq history.files

FinishHistory ==
  /\ history # NoHistory /\ HistoryVerified
  /\ history' = NoHistory
  /\ UNCHANGED <<rowVars, logs, written, taskVars>>

\* ArchiveDownload: the row's file is there and is the one it records.
Downloadable(r) ==
  archiveRow[r] # NoArchive /\ archiveRow[r] \in archiveFiles
    /\ Verified(archiveRow[r], r, archiveRow[r].count)

ArchiveNext ==
  \/ PrepareRun \/ ExportRun \/ PlaceArchive \/ CompleteArchive \/ WorkerFails
  \/ DayPasses \/ RemoveOrphans \/ SnapshotHistory \/ CopyArchive \/ FinishHistory
  \/ \E ids \in (SUBSET HistoryRuns) \ {{}} : CleanupRuns(ids)
  \/ \E r \in HistoryRuns :
       \/ ScanRetention(r) \/ InsertRun(r) \/ FinishRun(r) \/ AppendLog(r) \/ HoldRun(r) \/ PublishOn(r)
       \/ EnqueueArchive(r) \/ ClaimArchive(r) \/ LeaseExpires(r)

ArchiveSpec == ArchiveInit /\ [][ArchiveNext]_archiveVars

----------------------------------------------------------------------------
ArchiveTypeOK ==
  /\ runStatus \in [HistoryRuns -> {"absent", "active", "succeeded", "failed", "cleaned"}]
  /\ refs \in [HistoryRuns -> SUBSET HistoryRuns] /\ prepared \subseteq HistoryRuns
  /\ logs \in [HistoryRuns -> 0..MaxLogs] /\ written \in [HistoryRuns -> 0..MaxLogs]
  /\ held \subseteq HistoryRuns /\ evidence \subseteq HistoryRuns
  /\ task \in [HistoryRuns -> Tasks] /\ packing \in Packs \cup {NoPack} /\ claims \in Nat
  /\ archiveFiles \subseteq Archives /\ aged \subseteq archiveFiles
  /\ archiveRow \in [HistoryRuns -> Archives \cup {NoArchive}]
  /\ history \in [rows : [HistoryRuns -> Archives \cup {NoArchive}], files : SUBSET Archives] \cup {NoHistory}

\* Every log line of a run that exists is online or in the file its row records,
\* and that file is there (CompleteRunArchive, reconcileArchiveOrphans).
LogsAreKept ==
  \A r \in HistoryRuns : Exists(r) =>
    IF archiveRow[r] = NoArchive THEN logs[r] = written[r]
    ELSE Downloadable(r) /\ logs[r] + archiveRow[r].count = written[r]

\* Clean-up removes no run that another run, an installation, a receipt, a
\* submission or a publication rests on, even one being prepared meanwhile.
ReferencedRunsExist ==
  /\ \A r \in HistoryRuns : Exists(r) => \A named \in refs[r] : Exists(named)
  /\ \A r \in held \cup evidence : Exists(r)

\* A history backup never finds a file gone that its copy of the database
\* records, though it copies the files long after the database.
HistoryFindsItsFiles ==
  history # NoHistory => Listed \subseteq archiveFiles

\* However packing, leases, scans, late log lines, clean-ups and backups race,
\* no log line, no run something rests on and no file of a backup is lost.
RunHistoryIsKept == LogsAreKept /\ ReferencedRunsExist /\ HistoryFindsItsFiles

\* The parts of the inductive invariant behind it (RecordsProofs).  Only a
\* succeeded run is archived or published on, so no clean-up meets either.
OnlySucceededAreArchived ==
  /\ \A r \in HistoryRuns : task[r].status # "none" => runStatus[r] = "succeeded"
  /\ \A r \in evidence : runStatus[r] = "succeeded"

\* What the worker packs is its own task's, and the scan keeps what it placed.
PackingIsTasked ==
  packing # NoPack =>
    /\ task[packing.run].status = "running" /\ task[packing.run].token = packing.token
    /\ packing.step = "complete" => Packed \in archiveFiles

\* A recorded file is never packed again, is there, and holds what is not online.
RecordedIsFinal ==
  \A r \in HistoryRuns :
    IF archiveRow[r] = NoArchive THEN runStatus[r] # "cleaned" => logs[r] = written[r]
    ELSE /\ task[r].status = "archived"
         /\ archiveRow[r] \in archiveFiles /\ archiveRow[r].run = r
         /\ logs[r] + archiveRow[r].count = written[r]

\* A row the backup's copy of the database has is the row of today.
CopiedRowsStay ==
  history # NoHistory =>
    \A r \in HistoryRuns : history.rows[r] # NoArchive => archiveRow[r] = history.rows[r]
=============================================================================

# Verification of the NewPlatform backend

The repository is a Go service (one process, one SQLite database in WAL mode)
with a React user interface. It keeps a catalog of *component releases* (Ansible
playbooks with artifacts, images and a contract), composes them into *scenarios*
(revisions of a dependency graph), and executes both on *environments* as runs
of Ansible. This directory holds TLA+ models of its core, the TLC
configurations that check them on small instances, and proofs that the central
theorems hold for every instance.

    tlasany M.tla                          parse a module
    tlc -workers 2 -config X.cfg M         check a configuration
    tlapm M.tla                            check the proofs of a module

## 1. Inventory

Paths are relative to `src/internal/` unless they say otherwise.

| Part | State | Operations | What is hard about it |
|---|---|---|---|
| Run queue: `service/run_scheduler.go`, `run_executor.go`, `run_cancellation.go`, `lifecycle_recorder.go`, `store/runs.go` | `runs.status`; the map of registered workers with heartbeats; running executions with their cancel functions | create, claim, execute, finish, cancel; watchdog, start-up, shutdown | workers, watchdog, HTTP requests and crashes interleave; the database is the only truth, the map of workers only a hint |
| Run creation and planning: `service/run_creator.go`, `run_planning.go`, `component_tests.go`, `scenario_execution.go` | a plan in memory, then a run row with its steps and snapshot | lock contents, bind, compare, insert | the plan is read long before the row is inserted |
| Component releases: `service/components.go`, `readiness.go`, `store/components.go` | `component_releases` (status, candidate, digest, publication generation), triggers on artifacts and images | edit, share as candidate, deprecate, restore, delete, clone | withdrawing what was tested or what others rely on |
| Publication: `service/release_coordinator.go`, `store/release_coordinator.go` | `publication_state.generation` (the epoch) | direct publication of a release; joint publication of a revision with its candidates | long validation outside a transaction, optimistic guards inside one |
| Evidence: `store/run_evidence.go`, `store/runs.go` | succeeded runs and the digests of their subjects | recorded by a successful run, looked up by publications and readiness | what exactly was executed |
| Scenario revisions: `service/scenarios.go`, `store/scenarios.go`, `scenario_lifecycle.go` | `scenario_revisions`, `scenarios.current_revision_id` | save, reopen, clone, abandon, test, publish, deprecate, fork | the status of a revision follows runs that end at any time |
| Scenario graphs and orders: `service/scenario_graph.go`, `plan_codec.go`, `scenario_execution.go`, `domain/domain.go` | the graph of a revision: nodes, sequence edges, dependency edges derived at the last save | derive, validate, order an installation or an upgrade | contracts of candidates change after a save |
| Release lines: `service/release_drafts.go`, `components.go`, `store/components.go` | lines, parents and templates of releases | create, evolve, clone, abandon, restore, delete | what is checked in a preview is inserted later |
| Scenario execution and baselines: `store/scenario_execution.go`, `service/execution_recording.go` | installed baseline and generation of an environment, mutation marker | formal install and upgrade, recovery | a crash after the first changing step |
| Run retry: `service/run_retry.go`, `store/run_retry.go` | lineage of runs, recovery digest | retry a failed run from a step | state read long ago |
| Run archive: `service/run_archive.go`, `store/run_cleanup.go`, `runarchive/` | archives with leases, retained plan of cleaned runs | archive, clean up, history backups | files and rows change separately; leases expire |
| Playbook workspaces: `service/playbook_workspace.go`, `catalog_recovery.go` | files, mutation journal | edit files, recover at start | files and rows change separately |
| Environments: `service/environments.go`, `store/environment*.go` | revisions of the inventory, rollback and archive state | revise, roll back, reset, archive | exclusive with runs |
| Ansible job runner: `ansible/` | job process, event stream, receipts | start, stream events, time out, kill | a process of its own, partial and late events |
| Media: `service/artifacts.go`, `images.go`, `image_builds.go`, `delivery_*.go`, `imagebuild/`, `delivery/`, `fss/` | rows of artifacts and images; files of a station, tags and digests of a registry | upload, build, change a source, bind, probe, transfer, verify | minutes between the first look and the row; stations are shared |
| Catalog backup: `backup/` | generation, requests, snapshot under way, manifests, branch and tags of a repository | back up, push, resume, restore | a Git remote, files and rows in one operation that may end anywhere |
| Component import: `service/component_import.go` | staged batches, the managed tree, drafts | import, recover at start | files are renamed into place before the rows commit |
| Platform options: `service/platform_options.go`, `domain/catalog_options.go` | categories and options, what names them | create, retire, restore, delete | old revisions, runs and scopes name options for ever |
| MCP transfers: `mcpserver/transfers.go` | uploads and results with quota, pins and expiry | upload, finish, read, expire, sweep | streams and sweeps at the same time; crashes |
| Standalone jobs: `jobcli/`, `ansible/job_plugins/cf_recovery.py` | a results directory with its receipt and lock | run, resume, preview, roll back | killed controllers, orphaned process groups |
| Parameters; identity, audit, events, workbench; HTTP API, UI, the other MCP tools | values, sessions, server-sent hints | administration, read models, front ends | validation more than behaviour |

How they interact. HTTP handlers call services; services read, decide, and write
through the store, whose transactions repeat the decisive comparisons. Runs
tie the parts together: a creator commits a run and calls `schedule`; a worker
claims, executes and finishes it; a successful run is evidence for a release or
moves the status of a revision; an active run forbids edits. Locks: one
`workspace.mu` serialises joint publications, the creation of scenario runs and
edits of contracts; direct publications, candidates, deprecations, component
tests and the saving of a scenario graph do not take it. SQLite serialises
transactions, so one transaction is one step of a model, and two statements that
are not in one transaction are two steps.

What makes each part correct:

* *Run queue*: at most one running run per environment, executed by the worker
  that claimed it; the earliest captured first; an environment rollback is alone;
  terminal statuses are final; no running run without somebody to end it unless
  a storage fault lost the final write; no queued run waits for ever.
* *Release catalog*: what is published has evidence for its exact content, stands on
  released releases and closes no cycle of components, whatever happens between
  the validation and the commit.
* *Scenario revisions*: `test_passed` means passed as defined now; a released
  revision is installable as it was tested; nobody edits under a test; the
  mutable revision is the current one.
* *Baselines, retry*: an environment's baseline is what the last run left, a crash
  marks it unknown, a failed check withdraws it, a retry continues only what it has seen,
  an upgrade starts from its source.
* *Graphs and orders*: the order of a plan is the one its graph forces, it respects what
  the releases need, and an upgrade never takes away what something still needs.
* *Workspaces, imports, archive*: after a crash files and rows agree again; nothing is
  removed before it is archived; a server that stops can start again.
* *Backup*: a manifest names a recovery point that is whole; what is published is
  backed up in the end; a restore is all or nothing.
* *Media*: a run executes with what its plan has locked; a digest never changes under
  a candidate or a publication.
* *Standalone jobs*: a receipt never claims less than the hosts hold, and no attempt
  repeats a body that is not safe to repeat.
* *Environments and options*: what history names exists; what is retired is not taken up
  anew.

`PROJECT.json` lists every part with its status and every hazard at its line.

## 2. Plan

Done:

1. `RunQueue`, with `RunQueueProofs`.
2. `ReleaseCatalog`; `AtomicPublication`, its abstract specification; `ScenarioLifecycle`,
   which extends the catalog with revisions, tests and joint publication. The proofs about
   the three are in `ScenarioLifecycleProofs`.
3. `ScenarioBaseline`: what is recorded about an environment and what its hosts hold,
   through installs, upgrades, tests, verifications, retries, resets and rollbacks;
   `ScenarioOrder`: the graph of a scenario and the orders of its plans.
4. What keeps records others rely on: `PlaybookJournal`, `ComponentImport`,
   `RunArchive`, `StandaloneJob`, `PlatformOptions` and `Environments`.
5. What becomes of a catalog besides its rows: `ReleaseLines`, `CatalogBackup`,
   `CatalogRestore`, `MediaDelivery`, `Transfers`.

6. Proofs of the safety of these modules: `ScenarioLifecycleProofs`, `BaselineProofs`,
   `ScenarioOrderProofs`, `CatalogCopiesProofs`, `RecordsProofs`, `EnvironmentsProofs`,
   over the lemmas of `DataTheorems`.

Next, in order of importance:

7. Abstract specifications: `RunLedger` (a run is created, runs, ends; one at a time per
   environment), to be refined by `RunQueue`; a workspace whose files and rows
   change in one step, to be refined by `PlaybookJournal`.
8. Pure algorithms against reference definitions: constraint matching, values of
   parameters.

Each run answers a question of its own and stays at one to three million states at
most. Components that share no state share a run: its root module has a variable
(`focus`, or `story` for instances of one module) that says which of them a
behaviour runs, so the run explores each of them by itself and nothing of their
product.

## 3. The modules

### RunQueue

| Model | Code |
|---|---|
| `status` | `runs.status`, `"absent"` before the insert |
| `corrupt` | a row that `validateActiveRun` rejects when it is claimed |
| `registry`, `fresh` | `RunScheduler.workers` and whether the heartbeat is younger than `queueWorkerStaleAfter` |
| `pc`, `wenv`, `wrun`, `outcome` | the worker goroutines (`environmentWorker`, `executeRun`) |
| `wd`, `todo`, `target` | `queueWatchdog`, and the same loop at start-up |
| `notify` | runs committed by a request that has not called `schedule` yet |
| `seen` | the status a cancel request has read |
| `stopped` | runs whose execution context was cancelled |
| `proc` | phases of `cmd/server`: interrupt, reconcile, list, schedule, up, closing, down |

Each database call is an action and may fail (`...Error`, `FinishRefused`,
`FinishLost`), each access to the map under its mutex is one too. Runs are numbers,
in the order of their identifiers, and `CapturedAt` is the moment of a plan's capture; they may be
inserted in any order. `ORDER BY created_at, id` sorts texts: `timeText` drops the
trailing zeros of a fraction, so one text may be another cut off at a decimal place (`CutsOff`), and
then the shorter one sorts last (`TextBefore`). What a run does to its environment is
abstract: `Execute` chooses an outcome.

### ReleaseCatalog

| Model | Code |
|---|---|
| `release[c]` | the row of `component_releases`; `content` stands for the specification digest, `generation` for `publication_generation`, `published` for `released_at` |
| `evidence` | succeeded component tests: the release, the subject digest, and what was executed (which the code does not look at) |
| `epoch` | `publication_state.generation` |
| `retained` | releases named by the plan of a scenario run, also after its cleanup |
| `editing` | edits past their checks and not saved |
| `ctest` | component tests from plan to end |
| `sharing` | requests to share, with the generation they checked |
| `publisher` | publications: captured guards, epoch, step |

The content of a release determines what it needs (`Upstream`). Configuration
dependencies are left out, as readiness and the search for cycles leave them out.
`Closure` and `PathExists` define the transitive closures that the code computes by
search. A publication is four steps, as in the code: read the epoch, capture the
guards, validate, commit. The capture reads row by row in the code and is one step
here: the commit compares every guard with its row, generations only grow, so a
mixture of moments can commit only if all of it was true at one moment. The
several kinds of evidence of a component (install, rollback, evolution) are one.

### AtomicPublication

What the catalog promises, without requests, guards, generations and epoch: a release
or a set of candidates is published in one step, and everything it asks for is true in that
step. `ReleaseCatalog` refines it with the visible part of the rows (`VisibleRow`) and the
subjects of the evidence (`Subjects`); the joint publication of `ScenarioLifecycle` refines
`PublishTogether`. The joint step asks for tested candidates whose needs are released or
published with them, not for acyclic components, as the code.

### ScenarioLifecycle

| Model | Code |
|---|---|
| `revision`, `current` | `scenario_revisions`, `scenarios.current_revision_id` |
| `formal` | revisions with a successful formal run, which cloning requires |
| `test` | complete tests: status, revision, locked definition and contents |
| `late` | tests that ended without success, before the reset of their revision |
| `joint` | the joint publication under `workspace.mu` |

It extends `ReleaseCatalog`, so every step of the catalog interleaves with those of a
revision. `WorkspaceFree` is the workspace lock. How a test is queued is left to
`RunQueue`; a formal run is one step; retried tests are left out. `JointValidate` picks any
matching test where the code takes the latest: it allows more than the code does, and the
commit compares again.

### ScenarioBaseline

| Model | Code |
|---|---|
| `baseline` | the row of `scenario_installations`: generation, revision, run, mutation marker, state, digest of the installation rows, last verification |
| `installed[n]` | the row of `environment_component_installations` of node n, on top of the rows it replaced: a sequence, newest first, empty when there is no row. What a rollback restores is its tail |
| `receipts[n]` | the newest row of `action_execution_receipts` of node n, with the backup metadata it names |
| `runs[x]` | the run with its locked plan, its snapshot (`ScenarioExecution`, `Retry`, backups) and the number of finished steps |
| `prepared` | a run that is planned and not created yet; one at a time |
| `exec` | the run in execution, the position inside its current step, the cause of its failure |
| `actual[n]` | what the hosts really hold; no code reads it except by running a check |
| `faults` | crashes and lost updates so far |

Actions follow the run: `PrepareScenario`, `PrepareRetry`, `PrepareReset`,
`PrepareRollback` lock a plan; `CreateRun` compares it with the rows in a transaction or
`RefuseRun` drops it; `StartRun` and `Validate` compare again when it is executed; a
changing step is `MarkMutation`, `BeginExecute` (receipt), `Act` (the hosts change, wholly or halfway),
`EndExecute`, then its post-check `Check`, `RecordInstallation`,
`VerifyReceipt` and `CompleteStep`; `Finish` succeeds or fails on a last comparison.
A failing run ends in two statements, as in `finishRun`: `FinishFailed` sets
the status and `MarkBaselineUnverified` withdraws the baseline. The second can fail unnoticed
(`MarkBaselineLost`) or be prevented by a `Crash`: then the environment stays advertised
as it was, which the properties allow for (they speak of updates that are made).
`RecordInstallation` is two writes of which the second may not happen.

Left out: pre-checks (read-only, as source checks), media delivery (the mark that
precedes it covers it), parameters and configure-only changes (a node changes with its
release; `ScenarioOrder` has them), shared services and host boundaries, the environment's own revision, the
submission key, rollbacks of verified installations, changes to hosts behind the
platform's back. All actions count as safe to retry. A retry reads the digest of its
state and the generation in one step; in the code these are two reads, but the creation
compares both again. Runs execute one at a time because `RunQueue` says so
(`OneRunningPerEnv`).

### ScenarioOrder

| Model | Code |
|---|---|
| `contract[r]` | a release: whether it is shared, what it needs (order, mapped parameter or configuration), and an edition for the fresh ids its dependencies get |
| `scenario` | the newest revision: nodes with release and action, sequence edges, the dependency edges as they were derived last, its source, its upgrade constraints |
| `plan` | the order the last preview came to |

`SaveGraph` derives the dependency edges (`Normalised`) and checks them; `Acceptable` is
`Validate`, which derives them again; `PlanInstall` and `PlanUpgrade` follow the edges as
stored. `Taken` is the one loop behind `topologicalNodes`,
`scenarioExecutionOrderIssues` and `uniqueScenarioOperationOrder`: of the nodes that are
ready it takes a free one, or else the only one. A component stands on one node, as runs
demand. Host groups and values of parameters are left out.

### ReleaseLines, CatalogBackup, CatalogRestore

*ReleaseLines*: `releases` are the rows of one component with line, parent and template,
`previewed` the plans of creations between `PreviewReleaseDraft` and the insert, which
only two unique indexes guard (`IndexesAllow`). `CatalogReferencesHold` is
`validateCatalogReferences`. *CatalogBackup*: publications, requests (a channel that drops
when full), the worker of the scheduler, one snapshot at a time with its steps (copy,
commit, push of the branch, push of the tag, manifest, `latest-successful`), owners that
connect another repository or take a backup by hand, an operator that resumes an
unfinished one, faults at each step and crashes. A repository is the sequence of
generations on its branch. *CatalogRestore*: preview with its digest, staging, the
transaction that repeats the checks, promotion of one file after another, commit or
take-back, crashes; others write meanwhile.

### MediaDelivery, Transfers

*MediaDelivery*: `row` is what a draft says of its media (digest and source), `at` what a
location serves now and, for a registry, all it was ever given; `request` are uploads,
registrations, image builds and changes of a source between their steps; `job` are runs
from `Bind` (lock digests, probe targets) over `Mirror` and `StoreFetched` for each transfer, then
`VerifyMedium` for each medium the plan has locked, to `Execute`, their end and retry. A
probe is a step of its own, so that others write to a shared station between two of
them. `Bind` probes all its media in one step: what it finds is looked at again. *Transfers*: `entry` and `disk` are the table and
the files of the MCP server, `call` an operation that streams an upload in and reserves a
transfer for its result; chunks may be repeated or written in part, entries expire, the
sweep removes what nobody pins, a start removes what a crash has left, and `SetLimits`
gives the server other limits while all of this goes on. Content is a
sequence of units and a digest is the sequence it was taken of.

### PlaybookJournal, ComponentImport

*PlaybookJournal*: `disk` holds the managed directories, `release` the row with its
manifest, `journal` the marker in `playbook_action_mutations`, `edit` the edit that holds
`workspace.mu` and its next step. `made` holds the directories that exist: an edit that
fails leaves emptied directories behind, and a later move is refused or not by their
existence. Three edits are journaled and four are not, as in the
code; a crash may come between any two steps and `RecoverMutations` decides by the marker.
A file is replaced through a temporary file and a rename: `leftover` are the directories
in which a crash between the two, in an edit (`CrashEdit`) or in the recovery itself
(`CrashRecovery`), has left one, and only a directory without one passes the scan of a commit (`Scans`).
*ComponentImport*: staging directory, manifest, renames into the managed tree, then the rows in
one transaction, two imports racing for a name, owners deleting what was imported, and
`RecoverComponentImportFiles`, which refuses to start on a batch it cannot read.

### RunArchive

Rows and log rows of runs, archive tasks with lease and token, the file the worker packs, the row that
names it, references from retries and snapshots, cleanup of failed runs, the orphan scan
and a history backup that copies the database first and the files it names afterwards. The
worker may stall past its lease, fail or crash.

### StandaloneJob

A package with its stages in dependency order, the controller and its Ansible group,
the gate that opens a stage only after the receipt is on disk, receipt writes that fail before or
after their rename (`WriteLost`; at the end of a stage the controller then returns before
its own result and position move on), the history of earlier attempts that every receipt carries along, killed controllers whose group lives on (`orphan`) and may overlap the next attempt
(`overlapped`), and the plans of `cf_recovery.py` for resume and rollback. `begun` counts
how often the work of each body was started; no code reads it.

### PlatformOptions, Environments

*PlatformOptions*: categories and options with every operation of the administrator, and
`ValidateFacts`, `ValidateConstraints` and `ValidateChanges`, the rules all writers use.
*Environments*: a request reads an environment, checks its snapshot, reads the next number
and commits in four steps: an edit and the restoration of a revision check first (`CheckEdit`, `PrepareEdit`,
`PrepareRestore`), an import reads the number first (`PrepareImport`, `CheckPrepared`), and
`CommitRevision` repeats what the transaction repeats; runs, image
builds and checks refer to revisions; branches of releases and scenarios have scopes;
revisions and environments are deleted or archived.

### Root modules

`MCRunQueue`, `MCQueueLiveness`, `MCReleaseCatalog`, `MCScenarioLifecycle`, `MCScenarioOrder`, `MCMediaDelivery`,
`MCScenarioBaseline`, `MCBaselineStories`, `MCCatalogCopies` and `MCRecords` hold the
instances. `MCBaselineStories` lets only the runs of a script be planned, one after another, and leaves
open how each ends: what takes four to six runs to happen is found this way.
`MCScenarioBaseline`, `MCCatalogCopies` and `MCRecords`
put together components that share no state (`focus`); `MCReleaseCatalog` tells three
stories of one model: `cross` (a1 and b1 come to need each other's components), `stack`
(b1 comes to need the candidate a1) and `alone` (one draft).

## 4. The runs

| Run | Instance | What it shows |
|---|---|---|
| `queue_safety` | 2 runs, 1 environment, 2 workers, 1 crash, 1 fault; run 1 may be cancelled, one row becomes invalid | `OneRunningPerEnv`, `RunningHasOwner`, `RegistryNamesLiveWorker`, `ExecutorOwnsRun`, `TerminalIsFinal`; 2.6 million states |
| `queue_liveness` | two stories: 2 runs, the watchdog, 1 fault, 1 invalid row; 3 runs, run 3 is an environment rollback, 1 crash, no fault, no watchdog | `QueueDrains`: every queued run leaves the queue, unless a lost final write holds its environment (`Wedged`); `NoLostWakeup`: without a watchdog the hand-off alone loses no run; `RollbackExclusive`; 500 000 states |
| `catalog_publication` | the stories `cross` (two publishers) and `stack` (one publisher, sharing, tests, edits) | `PublishedHasEvidence`, `PublishesOnReleased`, `NoCycleClosed`, and `PublishesAtomically`: the catalog implements `AtomicPublication!DirectSpec`; 800 000 states |
| `untested_publication` | the story `alone`: one draft, one test, two contents | finding 1: `PublishedWasExecuted` is violated |
| `scenario_lifecycle` | two revisions, two tests (install and upgrade), one released and one draft release, direct and joint publication | `PassedHasEvidence`, `ReleasedAsTested`, `ChangesAreOwned` (a mutable revision is the current one and is not edited under its test), and `PublishesJointlyAtomically`: the whole implements `AtomicPublication!Spec` |
| `baseline_safety` | baseline: 2 nodes, 3 runs, 1 waiting, 1 fault; v1 installs n1, v2 upgrades it (new release on n1, n2 added), the draft t2 upgrades v1 by removing n1 and adding n2. Order: 3 nodes, a draft that changes what it needs, 2 revisions | `AdvertisedIsReal`, `VerifiedRowIsReal`, `BaselineHasEvidence`, `PartialStaysInChain`, `ResetLeavesNothing`, and `OrdersAreForced`; 2.4 million states |
| `failed_check` | the script `VerifiedAgain` of four runs, no fault | finding 5: `FailedCheckWithdraws` is violated |
| `install_order` | the order instance, all nodes installed | finding 4: `InstalledAfterDependencies` is violated |
| `catalog_copies` | 3 releases of a component; 2 repositories, 1 publication beside the first, 1 fault, 1 crash, 2 acts of an owner; 2 playbooks to restore; an artifact with two stations and an image with one registry; 2 transfers, files of 2 units | `PublishedChain`, `RecoveryPointsAreWhole`, `RestoreIsWhole`, `PublishedIsBackedUp`, `ContentIsFixed`, `TransfersAreSafe` |
| `records` | 3 edits of a workspace of 3 paths, 2 crashes, 1 lost undo; 2 imports of 2 components; 2 runs, 2 leases, 1 fault; a job of 2 components, 3 attempts, 1 kill, 1 lost write; 1 environment, 3 revisions, 2 writers | `JournaledIsAtomic`, `ImportIsWhole`, `RunHistoryIsKept`, `ReceiptKnowsTarget`, `AttemptsAreSafe`, `HistoryIsIntact`, `NothingRetiredIsAdopted`, `RecordsTypeOK`; 880 000 states |
| `restart_recovers` | one import, one crash | finding 2: `RestartRecovers` is violated |
| `backup_restores` | two releases | finding 3: `BackupRestores` is violated |

The type invariants of the queue, the catalog, the lifecycle, the baseline and the copies are
in no run: they are proved. A run that finds a violation is as small as the behaviour
allows. Four more configurations reproduce findings 6 to 9 in the same way:

| Configuration | Module and instance | Violated |
|---|---|---|
| `QueueOrder.cfg` | `MCRunQueue`, 2 runs, one captured on a full second, one half a second later; no crash, no fault | `StartsInOrder` |
| `UpgradeSource.cfg` | `MCBaselineStories`, 2 nodes, the script `OverOtherNode` of six runs, no fault | `UpgradeStartsFromSource` |
| `MediaReplaced.cfg` | `MCMediaDelivery`, 2 artifacts, one station, a run that has locked both | `VerifiedAsLocked` |
| `LeftoverFile.cfg` | `PlaybookJournal`, 2 edits of a workspace of 2 paths, 1 crash | `RollbackLeavesNothing` |

*Bounds.* Two runs of one environment are enough for every conflict: properties relate
at most two runs, and environments share only the watchdog. A rollback excludes every
other run of its environment, so it gets a third beside the two that compete. (An
instance with two environments and three runs, without faults and crashes, was explored
as well.) Two workers allow a stale worker beside its replacement. One crash and one
fault each reach every recovery path; `Cancellable`, `MaxTampers` bound the requests.
`MaxGeneration` bounds how often a row changes; 3 to 5 is enough for an edit, a
candidate and a publication, or for the edits of finding 2. `Edited`, `Tested`, `Shared`
name the drafts that are worked on. Three runs of `ScenarioBaseline` are an installation
and an upgrade followed by a retry, a verification, a rollback or a reset, each planned
before or after the one it follows has ended, and one crash or lost update anywhere;
four runs without faults (14 million states) were explored as well.

Three nodes of three components are the fewest of which two can be related through a third, and
with one sequence edge and one constraint an order can be determined, undetermined
or contradicted; what a plan does is a function of the two graphs, so two revisions are
an upgrade, and one edit of a contract makes them stale. In the order instance nothing follows a
plan, which no step reads. Of media there is one of each
kind, worked on one at a time (`About`): artifacts and images meet only in the list a
run verifies. One request at a time beside one run is every overlap the code guards
against; `Busy` in `records` says that the more revisions exist, the less goes on at
once, with at most four things, of which a request between its check and its commit is two. One
fault and one crash reach each recovery path once; a workspace gets a second crash, as its recovery
replaces files and may be interrupted in that; elsewhere a second start only repeats
the first. `CHECK_DEADLOCK
FALSE` is set everywhere: with runs, faults and generations used up the system has
nothing left to do.

*Symmetry* is used for workers, publishers, archived runs and writers of environments,
never in a run with a liveness property.

*Fairness* (`LiveWorkers`): a goroutine that can go on does (weak fairness of each
worker: the Go scheduler; a job ends because it has a time-out), the creator of a committed
run goes on to call `schedule`, the start-up loop ends, a process that is told to exit
exits and is started again by its supervisor. `FairSpec` adds the watchdog, whose ticker always fires again.
`queue_liveness` is fair to the watchdog in one of its stories and leaves it out in the other (`watched`).
Neither assumes that a cancel
request, a fault or a crash happens. `BackupFairness` is the same for backups: a committed
publication goes on to request its backup, the goroutine of the scheduler and the backup
it runs go on, and a crashed server is started again. Nothing is assumed of owners and
operators; faults are bounded, as `PublishedIsBackedUp` needs a repository that works in the
end.

## 5. The proofs

*DataTheorems* holds what several proofs need of finite data. The induction theorems of
the library take an operator as a parameter, which no prover here can instantiate; but
induction over a set of numbers, and from it over a finite set, follows from the
pigeonhole theorem and is stated there for sets (`Induction`, `FiniteInduction`): to
prove something of every number, name the set of the numbers that have it. With it the proofs reach sums,
greatest elements, and the length of chains.

*RunQueueProofs* assumes what `RunQueue` says of its constants (runs are numbers, each has an
environment, rollbacks are runs, bounds are numbers). `TypeCorrect` goes action by
action. `QueueSafety` proves `OneRunningPerEnv`, `ExecutorOwnsRun` and `RollbackExclusive`.
One running run per environment is not inductive: the start-up marks
running runs interrupted, so a new worker must not exist before that. The
strengthening adds `StartsAlone` (while the process is down or starting nothing is
attached, registered or owned). Most actions only lose running runs or owners; a lemma handles them
together (`EbbKeepsOwnership`), the claim is the one that adds. `TerminalStays` is an
action property that follows from the types and the guards.
`RunningRunsHaveOwners` proves that without a storage fault every
running run has a worker that will finish it. `RegistrationsAreLive` proves
that the map of workers never outlives a goroutine.

*ScenarioLifecycleProofs*, in its first part (`ReleaseCatalog`), assumes `CatalogAssumption`
only. The invariant is

    CatalogTyped /\ PublishedHasEvidence /\ PublishedIsNoDraft /\
    SnapshotsArePast /\ GuardsCover /\ ValidatedOrOutdated

`PublishedHasEvidence` alone is not inductive, because a publication commits what it
validated earlier. `SnapshotsArePast` says that a guard is the row or an older
generation of it; `GuardsCover` that the draft and its upstreams are guarded;
`ValidatedOrOutdated` that what was validated still holds or a guard or the epoch tells.
The key lemma `StepEvolves`: in every step a row stays or its generation grows,
evidence only grows, and the released part of the catalog changes only together with the epoch. From it
follow `PublishedReleasesHaveEvidence`, `PublicationsStandOnReleased` and
`PublicationsCloseNoCycle`: any catalog, any number of publications side by side.

It also proves `PublicationsAreAtomic`: `CatalogSpec` implements
`AtomicPublication!DirectSpec`. Every step but the commit maps to the abstract step
of the same name or is hidden; for the commit, `CommitFinds` (from `CatalogInv`) gives
what the abstract publication asks for at that moment.

Its second part (`ScenarioLifecycle`) assumes `ScenarioAssumption`. The invariant is

    CatalogInv /\ ScenarioTyped /\ RevisionsExist /\ LocksAreRetained /\
    ChangesAreOwned /\ PassedHasEvidence /\ ReleasedAsTested /\
    JointReadThePast /\ JointValidatedOrOutdated

It contains the invariant of the catalog, whose lemmas are used again: a step of the catalog
is one of `CatalogNext`, and a step of the scenarios leaves its variables alone or is a joint publication.
The joint publication has the difficulty of the direct one twice over, for it validates
releases and the revision: `JointReadThePast` says that what it has read is the present or an
older generation, `JointValidatedOrOutdated` that its conclusion still holds or one
of the generations it compares tells. `LocksAreRetained` (a revision
locks releases nobody deletes) carries `PassedHasEvidence`; `ReleasedAsTested` needs
`ChangesAreOwned`, because only the owner of the Testing state may pass a revision.

*BaselineProofs* assumes `OrderAssumption`, `RevisionAssumption` and `BoundsAssumption`: what
is upgraded precedes, no revision upgrades to itself, bounds are numbers. Its invariant

    Typed /\ RunsAreSound /\ RecordsFit /\ WorkFits /\ BaselineFits /\ ChangesFit

relates five things that the code writes one after the other. `RunsAreSound`: what a run
and its retries have locked fits together (plan, source, backups). `RecordsFit`: the newest
receipt, the row and the host of a node agree as far as the receipt has got.
`WorkFits`: the step in execution has written what its position says and nothing else.
`BaselineFits`: a marker means partial, and a baseline that is not names a run that succeeded,
with evidence for its revision. `ChangesFit`: whoever can still change or withdraw the baseline
has its generation and is of its chain. Key lemmas: `ContinuationFacts` (a retry skips only
what is done and replays only the rest), `RecordStep` (one new receipt or row disturbs no
other node), `EvidenceStays` and `BaselineMoves`. From it follow `BaselineTypes`, `BaselineRowsAreReal`
(a verified row is what the host holds), `BaselineIsEvident`, `PartialChains` and
`ResetIsComplete`.

None of this says that an advertised environment holds what its revision targets: a run that
resolves after many attempts has skipped most of the work itself. `AdvertisedBaselinesAreReal`
needs the second half of the module, with the invariant `RealInv`:

    BaselineInv /\ PlansEnd /\ ChainsInOrder /\ PostsLeft /\ WorkIsChecked /\ InBetween /\
    AdvertisedIsReal

`PlansEnd`: in the plan of every install, upgrade or verification, also of a retry, the last step of each present
node is its target check, before the acceptance, and every change has its post-check behind it.
`ChainsInOrder`: of the attempts of a chain only the latest is not over. `PostsLeft`: what a chain has
left pending on a node, its latest attempt has still to post-check, so that no attempt
succeeds over it. `WorkIsChecked`: the run in execution holds the marker while it changes a host,
a passed post-check has left a verified receipt, and a node whose last target check is
behind it holds its target. `InBetween`: a host differs from its row only while the chain that
changed it is marked, or since a reset or rollback. When a run succeeds, `FinishFinds` puts these
together: a node with nothing pending agrees with its row, which the run has compared; a present
one has passed its last target check; a removed one cannot differ, for its post-check would still
be ahead. Every other step withdraws the advertisement or leaves the baseline as it is and changes
no host but one a reset or rollback works on (`AdvertisedStep`). The exception the property makes, a node a reset or
rollback was the last to change, is the one `ElsewhereKept` carries along.

*ScenarioOrderProofs* assumes `GraphAssumption` only: node ids are finitely many numbers, and
two nodes never stand for the same component. The state needs little: graphs hold
releases of their nodes (`Fits`), and a plan is what the last preview made of graphs and
contracts that have not changed since (`PlanFits`). The work is in the orders.
A loop of the code is a recursive function; that it exists, and
what it returns, follows from `StepsExist` by induction over its length (`TakenIs`,
`TakenFacts`, `OnlyFacts`). Then three arguments about any finite graph: a complete choice is
an order of the edges (`ChosenIsLinear`); a node that was the only choice comes first in every
order (`OnlyChoiceFirst`), so the order of an installation, and that of the actions
of an upgrade, is the same in all of them (`OneOrder`, `SameActions`); and where two
actions are open each can come first (`PutFirst`), so a refused upgrade has several orders of its
actions, or none (`OpenChoice`). `KeepsUpstreams` shows that the edges of target and source
together order each action after what its release needs, and each removal after what has needed
the node. `OrdersAreDetermined` states the three for scenarios and contracts of any size.

*CatalogCopiesProofs*: for the lines of a release (`LinesAssumption`) `PublishedChain` needs that drafts
follow the latest version, that there is one per line, and that only the latest is free to be
followed. For backups (`BackupAssumption`) recovery points are whole because a publication is committed with
its repository and because what the worker holds can be traced to a commit (`BackupIsTraced`).
For a restore `TransactionIsAlone` is the invariant: nothing else writes between the
check of a path and its rename.

For the media, the types are inductive, and `ContentIsFixed` is an action property proved over
them: each step either writes a row under the guard of its draft or leaves the digests. For the
transfers `TransfersInv` adds `CallsFit` (a call has reserved the room of its result before its
operation runs), `PinsAreCounted` (the readers of an output are the calls streaming it),
`OutputsWait`, `UploadsGrow` and `DownIsEmpty`: without them the quota and the files could part
ways at a restart or an expiry. The sums of sizes come from *DataTheorems*. `CopiesAreTyped`
puts the five models together: a step moves one of them and leaves the others
(`OneCopyMoves`). `RestoreAssumption` says of `CatalogRestore`'s constants what the
code needs of them.

*RecordsProofs*: `JournaledIsAtomic` rests on `EditIsTraced` (where an edit is, the disk is its base
with a known part of its change made) and `OwnMarkerRemembers` (a marker holds what was there when its edit
began). The attempt to prove it showed a model too coarse: emptied
directories had been left out, and five edits, more than the run had, made the invariant
fail; with `made` the code's own check of a directory's existence decides. `ImportIsWhole` rests on
`StepIsTraced` (for each step of an import, which rows and directories it may have left) and
`LeftoversAreStaged`; `RunHistoryIsKept` on `ArchiveInv`, where a file is packed under a task
whose token is the one in the row (`PackingIsTasked`).

For a standalone job (`JobAssumption`), `ReceiptIsComplete` rests on `JobInv`: what the receipt
holds, what the controller holds between two writes of it, what it has learned, and
that an orphaned process is one the receipt names (`OrphanIsKnown`).
`AttemptsStaySafe` is the longest proof here: over any number of attempts, interruptions,
rollbacks and retries, no attempt repeats a body that is done or unsafe, and none undoes an
instance before those after it.
A body is done when any attempt has acknowledged its success, in the current results or in the
history (`Acknowledged`), so the claim is about all attempts and not about the last.
`DoneWasBegun` says that what is acknowledged was begun. The
invariant `AttemptsHold` says that a plan holds no body an earlier attempt has done, that only
succeeded stages lie before a spent
body, that an undone instance is rolled back or awaits its check, that a rollback descends
(`Attempted`), and that the controller is past exactly what succeeded (`GoesOn`); TLC had checked
it on small plans first. The lemmas that carry it are about the plans the code makes:
`RetryPlanIs` (what a retry skips, checks and runs) and `RollbackPlanDescends`.
`RecordsAreTyped`, in *EnvironmentsProofs*, puts the types of all these models together.

*EnvironmentsProofs* assumes `EnvironmentsAssumption`, with `InstalledAssumption`: the options a
deployment is installed with include their categories, as seed data does
(`seed/seed.go:97`). `EnvInv` says that directory and references are whole, that no
revision is newer than the environment (`NoneIsNewer`), that what is archived is idle, and that what
a request has read is not newer than the row (`RequestsLagBehind`). `HistoryIsIntact` and
`NothingRetiredIsAdopted` follow, for any number of writers.

*Only model-checked*:

- the liveness properties `QueueDrains`, `NoLostWakeup` and `PublishedIsBackedUp`: liveness under
  fairness is out of the prover's reach.

## 6. Findings

1. **Evidence for content that was not executed** (`untested_publication`). A component
   test locks its plan, then `RunCreator.createRun` reads the release again to stamp
   the subject. Edited in between and edited back before the commit, the run executes one
   content and is evidence for the other; the draft can be given that content again and be published,
   although docs/backend-design.md:228 promises that a change voids older evidence.
2. **A crash while an import is staged stops every further start**
   (`restart_recovers`). The batch directory is created before its manifest is written and
   `RecoverComponentImportFiles` fails on a directory without one
   (`service/component_import.go:703`), although docs/platform-manual.md:230 promises recovery.
3. **A backup that succeeds and cannot be restored** (`backup_restores`). An abandoned draft
   without complete actions is exported, and `backup/restore.go:631` refuses every catalog
   with it, although docs/catalog-backup-and-restore.md:3 calls the latest manifest a
   recovery point one can rely on. A second way: the source of a template is abandoned and
   then restored to a draft, which is not exported.
4. **An installation in the order of stale dependencies** (`install_order`).
   `Validate` derives the dependency edges again, `prepareScenarioLifecycle` orders by
   those of the last save (`service/scenario_execution.go:183`). A candidate edited, tested and shared again
   after the save is installed before what it has come to need, although
   docs/platform-manual.md:395 says that execution always follows the dependencies. Upgrades read
   stored edges as well; a stale graph can be published, and a fork copies its
   edges as they are.
5. **A failed check that withdraws nothing** (`failed_check`). `MarkScenarioBaselineUnverified`
   (`store/scenario_execution.go:422`) withdraws in the generation of
   `ScenarioExecution.Baseline`, which a retry takes over from the run it
   continues; a verification since has moved the generation, and the environment stays advertised,
   although `service/scenario_media_delivery_test.go:216` expects `unverified`.
6. **The queue is ordered by text** (`QueueOrder.cfg`). `timeText` (`store/store.go:145`) drops the
   trailing zeros of a fraction, and the claim sorts the texts (`store/runs.go:602`): a run
   captured on a full second is overtaken by one captured later in that second, although
   docs/backend-design.md:478 says that the earliest queued run by `created_at` is claimed.
   On a clock of nanoseconds it takes a capture whose last digits are zero.
7. **An upgrade that does not start from its source** (`UpgradeSource.cfg`). The start of a retry is
   compared by generation and marker of the baseline, and by the recovery of its
   own nodes (`store/scenario_execution.go:105`). An installation of v1 fails before it changes anything;
   a draft is installed on another node, a reset takes that row and fails before its receipt is
   verified, a rollback of the node fails halfway. The installation is continued, v1 is advertised,
   and the upgrade from v1 starts beside a broken node, although
   docs/platform-capabilities.md:44 requires the complete source version. Where all revisions
   share a node this cannot happen.
8. **A medium replaced after its probe** (`MediaReplaced.cfg`). `verifyLockedMedia`
   (`service/delivery_execution.go:14`) probes one medium after another and nothing locks the
   station: what was probed first may be another content when the last probe
   passes and the run starts, although docs/platform-manual.md:833 promises that changed
   contents refuse an execution. Environments may share a station.
9. **A recovery that leaves a file behind** (`LeftoverFile.cfg`). `replaceWorkspaceFileAtomically`
   (`service/playbook_workspace.go:189`) creates `.workspace-write-*` beside its target; a crash before the
   rename leaves it there, recovery restores the target only, and every scan of the draft refuses
   the reserved name (line 87), although README.md:151 of the repository says that recovery completes the
   rollback.

What follows was seen in the same way and has no run of its own; the property named is in the
module and can be put into a configuration.

* `TestOwnsTesting` (`ScenarioLifecycle`, one revision and two tests of the same mode):
  `store/runs.go:412` says that a scenario test owns the Testing state while it is queued or
  running. `finishRun` and `CancelRun` end a test
  in one statement and reset its revision in another; a second test created in between loses
  the state, can succeed and never makes the revision pass.
* `BaselineNamesItsRun` (`ScenarioBaseline`, two revisions with the same targets, five runs:
  install v1, a verification of v1 that fails, one that succeeds, an upgrade to v2, a retry
  of the failed verification): for a retry `validateScenarioExecutionBaselineTx`
  compares generation, marker and recovery and returns
  (`store/scenario_execution.go:105`); run and revision of the baseline are never
  compared. The retry succeeds and `finishScenarioLifecycleTx` writes revision v1 over that of
  the upgrade. docs/platform-manual.md:833 says that each preview, submission and start
  checks the baseline of the scenario.
* `ReplayedChecksAreCurrent` (`ScenarioBaseline`, the instance of `baseline_safety`):
  `cf_recovery.py` replays for a removed component the check that its source is installed (comment at line 18), so such an upgrade
  cannot be completed by a retry.
* `PublishedFilesStay` (`PlaybookJournal`, `Records.cfg`): an action save whose commit fails on a cancelled
  context restores the file, but `discardActionFileMutation` fails under the same context
  (`service/playbook_workspace.go:239`, 737). The marker stays; after a later unjournaled
  save and a publication a restart overwrites a file of the published release, contrary to
  the comment at `service/playbooks.go:108`. A stale marker also blocks journaled edits until
  a restart.
* `StartedRollbackResumes` (`StandaloneJob`, `Records.cfg`): a rollback that failed before
  its first body began can neither be resumed (`cf_recovery.py:57`, a body that is not safe to repeat) nor be begun anew
  (`jobcli/run.go:107`), contrary to docs/standalone-role-job.md:27.
* `HistoryStaysAcceptable` (`Environments`, `Records.cfg`): a child category created under a dimension in use makes
  stored facts and scopes invalid: older revisions cannot be restored, releases and scenarios with
  that scope can no longer be saved or run, and backups fail on restore; only deleting the
  unused category helps. docs/platform-capabilities.md:13 says otherwise of revisions.

Weaker points that no document contradicts: the joint publication checks the graph of
its releases only (`service/release_coordinator.go:133`). The status of a failed run and the
withdrawal of its baseline are two statements (`service/lifecycle_recorder.go:64`).
Scenario runs ignore the action of a node and always install, but the action `rollback`
turns the node's dependency edges round. An upload that
races the publication of its draft replaces the file of the published release and only then
fails on the row. `UpdateArtifactSource` may pair a new digest with a URL that was probed
for the old one. Aliases whose paths coincide share a file of a station.
`DeleteArtifact`, `DeleteImage` and the end of an image build do not ask for an active
component test. An image build whose first status write fails stays queued until
a restart. An MCP result whose reservation expires during its operation is lost though the
operation was committed. An unfinished backup cannot be resumed once a later one is
pushed. Deleting drafts advances the generation without asking for a
backup. A crash while a restored file is copied leaves a torn file, and every further
restore is a conflict with it. After a controller is killed its lock is free for up to 3.5 s before
`cf_watchdog` kills the Ansible group. The comment at `service/components.go:191` says an operation
leaves the candidate intent of the owner alone, `store/components.go:165` clears it.

## 7. Not modelled

Parts of modelled components are listed with their status in `PROJECT.json`. Left out
altogether: values and validation of parameters, identity, audit, events and the
workbench (read models and hints, on which no decision of the modelled parts depends), the HTTP
API and the user interface, the tools and the schema of the MCP server, the migration tool,
seed data, and probes. They decode, route, present and validate; what could go wrong in
them has no order or concurrency to it. Git, SQLite,
Ansible, registries and the clock are modelled by what they promise. The joint publication
checks the graph of its releases only; the documentation promises acyclic components for
direct publication, so no property is stated for the joint one.

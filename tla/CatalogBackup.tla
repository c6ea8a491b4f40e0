--------------------------- MODULE CatalogBackup ---------------------------
(* Recovery points of the published catalog: publications ask a scheduler   *)
(* for a backup and do not wait for it; one worker collects the requests,   *)
(* copies the database, commits the catalog to a private Git repository and *)
(* pushes the branch, then the tag, and only then records the success. An   *)
(* owner may connect another repository or take a backup by hand, and an    *)
(* operator may resume an unfinished one from another process.              *)
EXTENDS Naturals, Sequences

CONSTANTS Repos,          \* private repositories an owner may connect
          NoRepo,
          MaxRequests,    \* capacity of the channel of requests (64 in the code)
          MaxPublications, MaxFaults, MaxCrashes,
          MaxOwnerActs    \* repositories connected, backups taken or resumed by hand

ASSUME BackupAssumption ==
    /\ NoRepo \notin Repos /\ MaxRequests \in Nat \ {0}
    /\ MaxPublications \in Nat /\ MaxFaults \in Nat /\ MaxCrashes \in Nat /\ MaxOwnerActs \in Nat

VARIABLES generation,     \* publication_state.generation of the live database
          unasked,        \* a publication committed whose request is still to be made
          selection,      \* the repository repository.json names
          manager,        \* the repository the scheduler's manager writes to
          requests,       \* requests waiting in the channel
          worker,         \* where the scheduler's goroutine is
          snapshot,       \* the backup under way, NoSnapshot when none
          manifests,      \* the manifest.json of each backup directory
          latest,         \* repository -> backup its latest-successful file names
          branch, tags,   \* repository -> what its remote holds
          faults, crashes, ownerActs

backupVars == <<generation, unasked, selection, manager, requests, worker,
                snapshot, manifests, latest, branch, tags, faults, crashes, ownerActs>>

NoSnapshot == [id |-> 0, by |-> "none", step |-> "none", repo |-> NoRepo,
               generation |-> 0, base |-> <<>>]
Running    == snapshot # NoSnapshot
Enabled    == manager # NoRepo

BackupInit ==
    /\ generation = 1 /\ unasked = FALSE
    /\ selection = NoRepo /\ manager = NoRepo
    /\ requests = 0 /\ worker = "idle" /\ snapshot = NoSnapshot
    /\ manifests = <<>>
    /\ latest = [p \in Repos |-> 0]
    /\ branch = [p \in Repos |-> <<>>] /\ tags = [p \in Repos |-> {}]
    /\ faults = 0 /\ crashes = 0 /\ ownerActs = 0

---------------------------------------------------------------------------
\* Requests.

\* A request that finds the channel full, or the backup disabled, is dropped.
Enqueue(on) == IF on # NoRepo /\ requests < MaxRequests THEN requests + 1 ELSE requests

\* The transaction of a publication advances the generation. The request
\* follows it, and is lost when the server crashes in between.
Publish ==
    /\ worker # "down" /\ ~unasked /\ generation <= MaxPublications
    /\ generation' = generation + 1 /\ unasked' = TRUE
    /\ UNCHANGED <<selection, manager, requests, worker, snapshot, manifests,
                   latest, branch, tags, faults, crashes, ownerActs>>

RequestBackup ==
    /\ worker # "down" /\ unasked
    /\ unasked' = FALSE /\ requests' = Enqueue(manager)
    /\ UNCHANGED <<generation, selection, manager, worker, snapshot, manifests,
                   latest, branch, tags, faults, crashes, ownerActs>>

\* connectLocked writes the selection, then replaces the manager under the
\* worker, then asks for a backup; the backup under way keeps its manager.
Connect(p) ==
    /\ worker # "down" /\ ownerActs < MaxOwnerActs /\ selection # p
    /\ ~(Running /\ snapshot.by = "owner")
    /\ selection' = p /\ manager' = p /\ ownerActs' = ownerActs + 1
    /\ requests' = Enqueue(p)
    /\ UNCHANGED <<generation, unasked, worker, snapshot, manifests, latest,
                   branch, tags, faults, crashes>>

\* Mutant: only a repository without any success is behind.
NeedsFirstSnapshot(p) == latest[p] = 0

\* The live generation compared with the one of the latest success.
NeedsSnapshot(p) ==
    latest[p] = 0 \/ manifests[latest[p]].generation # generation

---------------------------------------------------------------------------
\* The worker.

Collect ==
    /\ worker = "idle" /\ requests > 0
    /\ requests' = requests - 1 /\ worker' = "collect"
    /\ UNCHANGED <<generation, unasked, selection, manager, snapshot, manifests,
                   latest, branch, tags, faults, crashes, ownerActs>>

\* Until the delay has passed further requests join the same backup.
Join ==
    /\ worker = "collect" /\ requests > 0
    /\ requests' = requests - 1
    /\ UNCHANGED <<generation, unasked, selection, manager, worker, snapshot,
                   manifests, latest, branch, tags, faults, crashes, ownerActs>>

\* Manager.Snapshot takes the file lock and writes a partial manifest. A lock
\* held by another process makes the backup fail: BackupRefused.
Open(by) ==
    /\ ~Running
    /\ manifests' = Append(manifests,
          [status |-> "partial", repo |-> manager, generation |-> 0,
           committed |-> FALSE, base |-> <<>>])
    /\ snapshot' = [id |-> Len(manifests) + 1, by |-> by, step |-> "opened",
                    repo |-> manager, generation |-> 0, base |-> <<>>]

WorkerSnapshot ==
    /\ worker = "collect" /\ Open("worker") /\ worker' = "snapshot"
    /\ UNCHANGED <<generation, unasked, selection, manager, requests, latest,
                   branch, tags, faults, crashes, ownerActs>>

OwnerSnapshot ==
    /\ worker # "down" /\ Enabled /\ ownerActs < MaxOwnerActs
    /\ Open("owner") /\ ownerActs' = ownerActs + 1
    /\ UNCHANGED <<generation, unasked, selection, manager, requests, worker,
                   latest, branch, tags, faults, crashes>>

\* The lock is held by the operator's process.
BackupRefused ==
    /\ worker = "collect" /\ Running /\ snapshot.by = "operator"
    /\ worker' = "retry"
    /\ UNCHANGED <<generation, unasked, selection, manager, requests, snapshot,
                   manifests, latest, branch, tags, faults, crashes, ownerActs>>

\* One delay after a failure the worker asks again.
Retry ==
    /\ worker = "retry" /\ worker' = "idle" /\ requests' = Enqueue(manager)
    /\ UNCHANGED <<generation, unasked, selection, manager, snapshot, manifests,
                   latest, branch, tags, faults, crashes, ownerActs>>

---------------------------------------------------------------------------
\* The steps of one backup.

At(step) == Running /\ snapshot.step = step

\* VACUUM INTO: the database as of now.
CopyDatabase ==
    /\ At("opened")
    /\ snapshot' = [snapshot EXCEPT !.step = "copied", !.generation = generation]
    /\ UNCHANGED <<generation, unasked, selection, manager, requests, worker,
                   manifests, latest, branch, tags, faults, crashes, ownerActs>>

\* catalogWorktree fetches and checks out the branch of the remote; the catalog
\* is exported into it and committed on top.
CommitCatalog ==
    /\ At("copied")
    /\ snapshot' = [snapshot EXCEPT !.step = "committed", !.base = branch[snapshot.repo]]
    /\ UNCHANGED <<generation, unasked, selection, manager, requests, worker,
                   manifests, latest, branch, tags, faults, crashes, ownerActs>>

Commit == Append(snapshot.base, [id |-> snapshot.id, generation |-> snapshot.generation])

\* Mutant: the push is forced.
ForcedPush(p, history) == TRUE

\* git push without force: the branch only moves forward.
FastForward(p, history) ==
    /\ Len(branch[p]) <= Len(history)
    /\ SubSeq(history, 1, Len(branch[p])) = branch[p]

PushBranch ==
    /\ At("committed") /\ FastForward(snapshot.repo, Commit)
    /\ branch' = [branch EXCEPT ![snapshot.repo] = Commit]
    /\ snapshot' = [snapshot EXCEPT !.step = "pushed"]
    /\ UNCHANGED <<generation, unasked, selection, manager, requests, worker,
                   manifests, latest, tags, faults, crashes, ownerActs>>

PushTag ==
    /\ At("pushed")
    /\ tags' = [tags EXCEPT ![snapshot.repo] = @ \cup {snapshot.id}]
    /\ snapshot' = [snapshot EXCEPT !.step = "tagged"]
    /\ UNCHANGED <<generation, unasked, selection, manager, requests, worker,
                   manifests, latest, branch, faults, crashes, ownerActs>>

Manifest(status, committed) ==
    [status |-> status, repo |-> snapshot.repo, generation |-> snapshot.generation,
     committed |-> committed, base |-> snapshot.base]

\* The success manifest, the per-repository pointer, the release of the lock.
RecordSuccess ==
    /\ At("tagged")
    /\ manifests' = [manifests EXCEPT ![snapshot.id] = Manifest("success", TRUE)]
    /\ snapshot' = [snapshot EXCEPT !.step = "recorded"]
    /\ UNCHANGED <<generation, unasked, selection, manager, requests, worker,
                   latest, branch, tags, faults, crashes, ownerActs>>

WriteLatestSuccessful ==
    /\ At("recorded")
    /\ latest' = [latest EXCEPT ![snapshot.repo] = snapshot.id]
    /\ snapshot' = NoSnapshot
    /\ worker' = IF snapshot.by = "worker" THEN "idle" ELSE worker
    /\ UNCHANGED <<generation, unasked, selection, manager, requests, manifests,
                   branch, tags, faults, crashes, ownerActs>>

\* Any step may fail; a push also fails when the remote branch has moved on.
\* The manifest stays partial, with the commit when there is one.
BackupFails ==
    /\ Running
    /\ \/ faults < MaxFaults /\ faults' = faults + 1
       \/ At("committed") /\ ~FastForward(snapshot.repo, Commit) /\ UNCHANGED faults
    /\ manifests' = [manifests EXCEPT ![snapshot.id] =
          Manifest(IF snapshot.by = "operator" THEN manifests[snapshot.id].status ELSE "partial",
                   snapshot.step \in {"committed", "pushed", "tagged", "recorded"})]
    /\ snapshot' = NoSnapshot
    /\ worker' = IF snapshot.by = "worker" THEN "retry" ELSE worker
    /\ UNCHANGED <<generation, unasked, selection, manager, requests, latest,
                   branch, tags, crashes, ownerActs>>

\* `clusterforge-backup resume`: a manifest with a commit is pushed again.
Resume(id) ==
    /\ ~Running /\ id \in DOMAIN manifests /\ manifests[id].committed
    /\ ownerActs < MaxOwnerActs /\ ownerActs' = ownerActs + 1
    /\ snapshot' = [id |-> id, by |-> "operator", step |-> "committed",
                    repo |-> manifests[id].repo, base |-> manifests[id].base,
                    generation |-> manifests[id].generation]
    /\ UNCHANGED <<generation, unasked, selection, manager, requests, worker,
                   manifests, latest, branch, tags, faults, crashes>>

\* The channel, the manager and a backup of the server die with the server.
Crash ==
    /\ worker # "down" /\ crashes < MaxCrashes
    /\ crashes' = crashes + 1
    /\ worker' = "down" /\ requests' = 0 /\ unasked' = FALSE /\ manager' = NoRepo
    /\ snapshot' = IF Running /\ snapshot.by = "operator" THEN snapshot ELSE NoSnapshot
    /\ UNCHANGED <<generation, selection, manifests, latest, branch, tags, faults, ownerActs>>

\* The repository controller reads the selection, the worker starts, and
\* RequestIfBehind catches up.
Restart ==
    /\ worker = "down" /\ worker' = "idle" /\ manager' = selection
    /\ requests' = IF selection # NoRepo /\ NeedsSnapshot(selection) THEN 1 ELSE 0
    /\ UNCHANGED <<generation, unasked, selection, snapshot, manifests, latest,
                   branch, tags, faults, crashes, ownerActs>>

BackupStep == \/ CopyDatabase \/ CommitCatalog \/ PushBranch \/ PushTag
              \/ RecordSuccess \/ WriteLatestSuccessful

WorkerStep == Collect \/ Join \/ WorkerSnapshot \/ BackupRefused \/ Retry

BackupNext ==
    \/ Publish \/ RequestBackup
    \/ \E p \in Repos : Connect(p)
    \/ WorkerStep \/ OwnerSnapshot \/ BackupStep \/ BackupFails
    \/ \E id \in DOMAIN manifests : Resume(id)
    \/ Crash \/ Restart

BackupSpec == BackupInit /\ [][BackupNext]_backupVars

\* A backup, once begun, goes on or fails; the service manager restarts the
\* server; the goroutine of a publication makes its request; the worker waits
\* one delay for further requests, which are finitely many.
BackupFairness ==
    /\ WF_backupVars(RequestBackup) /\ WF_backupVars(Restart)
    /\ WF_backupVars(BackupStep \/ (At("committed") /\ BackupFails))
    /\ WF_backupVars(WorkerSnapshot \/ BackupRefused)
    /\ WF_backupVars(Collect) /\ WF_backupVars(Retry)

FairBackupSpec == BackupSpec /\ BackupFairness

---------------------------------------------------------------------------
Generations == 0..(MaxPublications + 1)

BackupTypeOK ==
    /\ generation \in Generations /\ unasked \in BOOLEAN
    /\ selection \in Repos \cup {NoRepo} /\ manager \in Repos \cup {NoRepo}
    /\ requests \in 0..MaxRequests
    /\ worker \in {"idle", "collect", "snapshot", "retry", "down"}
    /\ \A id \in DOMAIN manifests :
          /\ manifests[id].status \in {"partial", "success"}
          /\ manifests[id].repo \in Repos /\ manifests[id].generation \in Generations
    /\ snapshot.id \in {0} \cup DOMAIN manifests
    /\ \A p \in Repos : latest[p] \in {0} \cup DOMAIN manifests
    /\ \A p \in Repos : tags[p] \subseteq DOMAIN manifests
    /\ faults \in 0..MaxFaults /\ crashes \in 0..MaxCrashes
    /\ ownerActs \in 0..MaxOwnerActs

\* A recovery point that is offered is whole, whatever failed, crashed or was
\* resumed: every tag of a remote, and every backup a latest-successful file
\* names, is a commit of that remote's branch with the generation its manifest
\* states (Manager.pushCatalog, writeLatestSuccessful).
RecoveryPointsAreWhole ==
    \A p \in Repos :
       LET held == {branch[p][i] : i \in DOMAIN branch[p]}
       IN /\ tags[p] \subseteq {c.id : c \in held}
          /\ latest[p] # 0 =>
                /\ latest[p] \in tags[p]
                /\ [id |-> latest[p], generation |-> manifests[latest[p]].generation] \in held

\* The parts of the inductive invariant behind it (CatalogCopiesProofs). Whoever
\* waits for a backup has a repository, and so has the worker that makes one.
WorkHasRepository ==
    /\ (requests > 0 \/ worker \in {"collect", "snapshot", "retry"}) => manager # NoRepo
    /\ Running /\ snapshot.by = "worker" => worker = "snapshot"

\* A backup under way has left behind what its step says; one that was resumed is
\* the one its manifest describes, a new one is not offered yet.
BackupIsTraced ==
    Running =>
       /\ snapshot.step \in {"pushed", "tagged", "recorded"} =>
             \E i \in DOMAIN branch[snapshot.repo] :
                branch[snapshot.repo][i] = [id |-> snapshot.id, generation |-> snapshot.generation]
       /\ snapshot.step \in {"tagged", "recorded"} => snapshot.id \in tags[snapshot.repo]
       /\ snapshot.step = "recorded" => manifests[snapshot.id].generation = snapshot.generation
       /\ IF snapshot.by = "operator"
            THEN /\ snapshot.step \notin {"opened", "copied"}
                 /\ manifests[snapshot.id].generation = snapshot.generation
            ELSE \A p \in Repos : latest[p] # snapshot.id

\* The pointer that decides whether a repository is behind never goes back to
\* an older catalog, although an unfinished backup of long ago may be resumed
\* after later ones (Manager.Resume, NeedsSnapshot).
LatestNeverOlder ==
    [][\A p \in Repos : latest[p] # 0 =>
          manifests'[latest'[p]].generation >= manifests[latest[p]].generation]_backupVars

\* Nothing published stays without a recovery point: whatever requests are
\* dropped, backups fail, repositories change or servers crash, the repository
\* finally selected holds the generation published (Scheduler.Request and run,
\* RequestIfBehind).
PublishedIsBackedUp ==
    \A g \in 2..(MaxPublications + 1) :
       (generation >= g /\ selection # NoRepo)
           ~> (selection # NoRepo /\ latest[selection] # 0
                 /\ manifests[latest[selection]].generation >= g)
=============================================================================

---------------------------- MODULE MediaDelivery ----------------------------
(* The media of a component release - artifacts at file stations, images at  *)
(* registries - and how a run gets them to its environment.                  *)
(*                                                                           *)
(* A row of the draft names the digest of a medium and where it comes from.  *)
(* An upload replaces the file at a station first and writes the row later;  *)
(* an image build pushes a tag first and completes its row later; a change   *)
(* of the source probes a digest it has read before. A run locks digest,     *)
(* source and target when it is planned, transfers what its target lacked    *)
(* then, verifies all of it and only then executes. Several artifacts may    *)
(* share a path, and environments may share a station.                       *)
(*                                                                           *)
(* A content stands for its digest. A location resolves to what it serves    *)
(* `now`; a registry also keeps every digest ever pushed to it (`all`) and   *)
(* serves it by digest. File server, registry and addresses outside are      *)
(* external. A run transfers and verifies one medium after another; planning *)
(* probes all of them in one step, as what it finds is looked at again.      *)
EXTENDS Naturals, FiniteSets

CONSTANTS
  Artifacts, Images,   \* the media of the release, by alias or logical name
  Stations,            \* targets: the FILE_STATION and IMAGE_REGISTRY of an environment
  Web,                 \* locations the platform does not write
  Registries,          \* locations that serve by digest, too
  Place,               \* [medium, station] -> location a run is given it at
  Home,                \* [medium, station] -> location the owner puts it to
  Contents,
  Requests,            \* concurrent requests of the owner, image builds included
  Runs, TestRuns,      \* runs of the release; those that are component tests
  None

Media == Artifacts \cup Images
Locations == Web \cup UNION {{Place[x], Home[x]} : x \in Media \X Stations}

ASSUME MediaAssumption ==
  /\ Artifacts \cap Images = {}
  /\ DOMAIN Place = Media \X Stations /\ DOMAIN Home = Media \X Stations
  /\ \A m \in Media, s \in Stations : Place[m, s] \notin Web /\ (m \in Artifacts => Home[m, s] = Place[m, s])
  /\ Registries \subseteq Locations
  /\ TestRuns \subseteq Runs /\ None \notin Contents \cup Locations \cup Media
  /\ None \notin [digest : Contents, source : Locations]

VARIABLES
  status, candidate,   \* of the release
  row,                 \* medium -> None or [digest, source]
  at,                  \* location -> [now, all]
  request,             \* request -> None or [op, medium, digest, loc, pc]
  job                  \* run -> [pc, lock, transfers, todo, read]

mediaVars == <<status, candidate, row, at, request, job>>

NoJob == [pc |-> "none", lock |-> <<>>, transfers |-> {}, todo |-> {}, read |-> None]

MediaInit ==
  /\ status = "draft" /\ candidate = FALSE
  /\ row = [m \in Media |-> None]
  /\ at = [l \in Locations |-> [now |-> None, all |-> {}]]
  /\ request = [q \in Requests |-> None]
  /\ job = [r \in Runs |-> NoJob]

----------------------------------------------------------------------------
(* Locations: the file station and the registry.                             *)

\* Probe of a source: the content of the URL, or what the tag resolves to.
Resolves(l, d) == at[l].now = d

\* Probe of a target, and the source of a transfer: a file by its path, an
\* image by its digest.
Readable(m, l, d) == IF m \in Images THEN d \in at[l].all ELSE at[l].now = d

Missing(m, l, d) == IF m \in Images THEN d \notin at[l].all ELSE at[l].now = None

\* A file is renamed over its target after its digest was compared; a pushed
\* tag moves.
Written(l, d) ==
  at' = [at EXCEPT ![l] = [now |-> d, all |-> IF l \in Registries THEN @.all \cup ({d} \ {None})
                                                                ELSE {}]]

\* External: what an address outside changes to, and a station whose disk is lost.
WebChanges(l, d) ==
  /\ l \in Web /\ at[l].now # d
  /\ Written(l, d)
  /\ UNCHANGED <<status, candidate, row, request, job>>

----------------------------------------------------------------------------
(* Requests of the owner.                                                    *)

Active == {"queued", "delivering", "storing", "verifying", "observing", "verified", "executing"}
TestActive == \E r \in TestRuns : job[r].pc \in Active

Begin(q, op, m, d, l, pc) ==
  /\ request[q] = None
  /\ request' = [request EXCEPT ![q] = [op |-> op, medium |-> m, digest |-> d, loc |-> l, pc |-> pc]]
  /\ UNCHANGED <<status, candidate, row, at, job>>

\* UploadArtifact streams to the station of the chosen environment.
UploadArtifact(q, m, s, d) ==
  /\ m \in Artifacts /\ status = "draft" /\ ~TestActive
  /\ Begin(q, "content", m, d, Home[m, s], "sending")

\* StartImageBuild looks at the status of the release only.
StartImageBuild(q, m, s, d) ==
  /\ m \in Images /\ status = "draft"
  /\ Begin(q, "content", m, d, Home[m, s], "sending")

\* RegisterArtifact and RegisterImage probe a source that is already there.
Register(q, m, l) ==
  /\ status = "draft" /\ ~TestActive /\ at[l].now # None
  /\ Begin(q, "content", m, at[l].now, l, "probed")

\* The station has received the whole file, or the registry the image.
Store(q) ==
  /\ request[q] # None /\ request[q].pc = "sending"
  /\ Written(request[q].loc, request[q].digest)
  /\ request' = [request EXCEPT ![q].pc = "probed"]
  /\ UNCHANGED <<status, candidate, row, job>>

\* The client goes away, the digest does not match, the build fails.
GiveUp(q) ==
  /\ request[q] # None
  /\ request' = [request EXCEPT ![q] = None]
  /\ UNCHANGED <<status, candidate, row, at, job>>

\* Mutant: the status read when the request began is trusted.
SaveTrusting(q) ==
  /\ request[q] # None /\ request[q].op = "content" /\ request[q].pc = "probed"
  /\ row' = [row EXCEPT ![request[q].medium] = [digest |-> request[q].digest, source |-> request[q].loc]]
  /\ candidate' = FALSE
  /\ request' = [request EXCEPT ![q] = None]
  /\ UNCHANGED <<status, at, job>>

\* The transaction of an upload, a registration or a finished build: it is
\* refused unless the release is a draft still, and withdraws the candidate
\* unless an image keeps its digest.
SaveContent(q) ==
  LET x == request[q] IN
  /\ x # None /\ x.op = "content" /\ x.pc = "probed"
  /\ request' = [request EXCEPT ![q] = None]
  /\ IF status # "draft" THEN UNCHANGED <<row, candidate>>
     ELSE /\ row' = [row EXCEPT ![x.medium] = [digest |-> x.digest, source |-> x.loc]]
          /\ candidate' = (candidate /\ x.medium \in Images
                             /\ row[x.medium] # None /\ row[x.medium].digest = x.digest)
  /\ UNCHANGED <<status, at, job>>

\* UpdateArtifactSource and UpdateImageSource, whatever the status: the digest
\* is read and probed at the new address, the row is updated by its name.
ProbeSource(q, m, l) ==
  /\ row[m] # None /\ Resolves(l, row[m].digest)
  /\ Begin(q, "source", m, row[m].digest, l, "probed")

UpdateSource(q) ==
  LET x == request[q] IN
  /\ x # None /\ x.op = "source"
  /\ row' = IF row[x.medium] = None THEN row ELSE [row EXCEPT ![x.medium].source = x.loc]
  /\ request' = [request EXCEPT ![q] = None]
  /\ UNCHANGED <<status, candidate, at, job>>

\* DeleteArtifact and DeleteImage do not ask for an active test.
DeleteMedium(m) ==
  /\ status = "draft" /\ row[m] # None
  /\ row' = [row EXCEPT ![m] = None]
  /\ candidate' = FALSE
  /\ UNCHANGED <<status, at, request, job>>

\* What ReleaseCatalog decides: the draft is shared, or published.
Share ==
  /\ status = "draft" /\ ~candidate
  /\ candidate' = TRUE
  /\ UNCHANGED <<status, row, at, request, job>>

PublishDraft ==
  /\ status = "draft"
  /\ status' = "released" /\ candidate' = FALSE
  /\ UNCHANGED <<row, at, request, job>>

----------------------------------------------------------------------------
(* A run.                                                                    *)

Rows == {m \in Media : row[m] # None}

\* bindComponentArtifacts and bindComponentImages: another file at the target
\* stops the planning; a target that lacks the medium needs a readable source.
Bind(r, s) ==
  /\ job[r].pc = "none" /\ Rows # {}
  /\ \A m \in Rows : LET d == row[m].digest  t == Place[m, s]
                     IN Readable(m, t, d) \/ (Missing(m, t, d) /\ Resolves(row[m].source, d))
  /\ job' = [job EXCEPT ![r] = [NoJob EXCEPT
       !.pc = "bound",
       !.lock = [m \in Rows |-> [digest |-> row[m].digest, source |-> row[m].source, target |-> Place[m, s]]],
       !.todo = {m \in Rows : ~Readable(m, Place[m, s], row[m].digest)}]]
  /\ UNCHANGED <<status, candidate, row, at, request>>

\* finalizeDeliveryPlan probes the lacking targets again, then the run is created.
Finalize(r) ==
  LET lock == job[r].lock
      probed(m) == Readable(m, lock[m].target, lock[m].digest)
  IN /\ job[r].pc = "bound"
     /\ IF \A m \in job[r].todo : probed(m) \/ Missing(m, lock[m].target, lock[m].digest)
          THEN LET lacking == {m \in job[r].todo : ~probed(m)}
               IN job' = [job EXCEPT ![r].pc = "queued", ![r].transfers = lacking, ![r].todo = lacking]
          ELSE job' = [job EXCEPT ![r] = NoJob]
     /\ UNCHANGED <<status, candidate, row, at, request>>

Start(r) ==
  /\ job[r].pc = "queued"
  /\ job' = [job EXCEPT ![r].pc = "delivering"]
  /\ UNCHANGED <<status, candidate, row, at, request>>

End(r, outcome) ==
  job' = [job EXCEPT ![r] = IF outcome = "succeeded" THEN [NoJob EXCEPT !.pc = outcome]
                            ELSE [@ EXCEPT !.pc = outcome, !.read = None]]

\* mirrorRunImages, mirrorRunArtifacts: reuse what has appeared, transfer what
\* is missing, never replace another identity. The station reads the source...
Mirror(r, m) ==
  LET x == job[r].lock[m] IN
  /\ job[r].pc = "delivering" /\ m \in job[r].todo
  /\ IF Readable(m, x.target, x.digest) THEN job' = [job EXCEPT ![r].todo = @ \ {m}]
     ELSE IF Missing(m, x.target, x.digest) /\ Readable(m, x.source, x.digest)
            THEN job' = [job EXCEPT ![r].pc = "storing", ![r].read = m]
     ELSE End(r, "failed")
  /\ UNCHANGED <<status, candidate, row, at, request>>

\* ... and puts the file where it belongs.
StoreFetched(r) ==
  LET m == job[r].read  x == job[r].lock[m] IN
  /\ job[r].pc = "storing"
  /\ Written(x.target, x.digest)
  /\ job' = [job EXCEPT ![r].pc = "delivering", ![r].read = None, ![r].todo = @ \ {m}]
  /\ UNCHANGED <<status, candidate, row, request>>

StartVerify(r) ==
  /\ job[r].pc = "delivering" /\ job[r].todo = {}
  /\ job' = [job EXCEPT ![r].pc = "verifying", ![r].todo = DOMAIN job[r].lock]
  /\ UNCHANGED <<status, candidate, row, at, request>>

\* verifyLockedMedia probes all media of the plan, verifyRunMedia then once more
\* those that were not transferred, one after another.
Probed(x, m) ==
  LET left == x.todo \ {m}
      again == IF x.pc = "verifying" THEN DOMAIN x.lock \ x.transfers ELSE {}
  IN IF left # {} THEN [x EXCEPT !.todo = left]
     ELSE [x EXCEPT !.todo = again, !.pc = IF again = {} THEN "verified" ELSE "observing"]

VerifyMedium(r, m) ==
  /\ job[r].pc \in {"verifying", "observing"} /\ m \in job[r].todo
  /\ IF Readable(m, job[r].lock[m].target, job[r].lock[m].digest)
       THEN job' = [job EXCEPT ![r] = Probed(@, m)]
       ELSE End(r, "failed")
  /\ UNCHANGED <<status, candidate, row, at, request>>

Execute(r) ==
  /\ job[r].pc = "verified"
  /\ job' = [job EXCEPT ![r].pc = "executing"]
  /\ UNCHANGED <<status, candidate, row, at, request>>

Finish(r) ==
  /\ job[r].pc = "executing"
  /\ \E outcome \in {"failed", "succeeded"} : End(r, outcome)
  /\ UNCHANGED <<status, candidate, row, at, request>>

\* A retry keeps the locked plan, every transfer of it included, if the release
\* still has the content the plan has locked.
RetryRun(r) ==
  LET lock == job[r].lock IN
  /\ job[r].pc = "failed"
  /\ DOMAIN lock = Rows /\ \A m \in Rows : row[m].digest = lock[m].digest
  /\ job' = [job EXCEPT ![r].pc = "queued", ![r].todo = job[r].transfers]
  /\ UNCHANGED <<status, candidate, row, at, request>>

\* The server dies: requests and builds are gone, running runs are interrupted.
PlatformCrash ==
  /\ request' = [q \in Requests |-> None]
  /\ job' = [r \in Runs |-> IF job[r].pc = "bound" THEN NoJob
                            ELSE IF job[r].pc \in Active \ {"queued"}
                                   THEN [job[r] EXCEPT !.pc = "failed", !.read = None]
                            ELSE job[r]]
  /\ request' # request \/ job' # job
  /\ UNCHANGED <<status, candidate, row, at>>

----------------------------------------------------------------------------
MediaNext ==
  \/ \E q \in Requests :
       \/ \E m \in Media, s \in Stations, d \in Contents :
            UploadArtifact(q, m, s, d) \/ StartImageBuild(q, m, s, d)
       \/ \E m \in Media, l \in Locations : Register(q, m, l) \/ ProbeSource(q, m, l)
       \/ Store(q) \/ GiveUp(q) \/ SaveContent(q) \/ UpdateSource(q)
  \/ \E l \in Web, d \in Contents : WebChanges(l, d)
  \/ \E m \in Media : DeleteMedium(m)
  \/ Share \/ PublishDraft
  \/ \E r \in Runs :
       \/ \E s \in Stations : Bind(r, s)
       \/ Finalize(r) \/ Start(r) \/ StoreFetched(r) \/ StartVerify(r) \/ Execute(r)
       \/ \E m \in Media : Mirror(r, m) \/ VerifyMedium(r, m)
       \/ Finish(r) \/ RetryRun(r)
  \/ PlatformCrash

MediaSpec == MediaInit /\ [][MediaNext]_mediaVars

----------------------------------------------------------------------------
MediaRows == [digest : Contents, source : Locations]
MediaRequests == [op : {"content", "source"}, medium : Media, digest : Contents, loc : Locations,
                  pc : {"sending", "probed"}]
Locks == [digest : Contents, source : Locations, target : Locations]
Jobs == [pc : {"none", "bound", "failed", "succeeded"} \cup Active,
         lock : UNION {[ms -> Locks] : ms \in SUBSET Media},
         transfers : SUBSET Media, todo : SUBSET Media, read : Media \cup {None}]

MediaTypeOK ==
  /\ status \in {"draft", "released"} /\ candidate \in BOOLEAN
  /\ row \in [Media -> MediaRows \cup {None}]
  /\ at \in [Locations -> [now : Contents \cup {None}, all : SUBSET Contents]]
  /\ request \in [Requests -> MediaRequests \cup {None}]
  /\ job \in [Runs -> Jobs]
  /\ \A r \in Runs :
       /\ job[r].todo \cup job[r].transfers \subseteq DOMAIN job[r].lock
       /\ job[r].pc = "storing" <=> job[r].read # None
       /\ job[r].read # None => job[r].read \in job[r].todo

\* When the verification before an execution ends, every medium of the plan is at
\* its target as it was locked: what has changed since would refuse the execution
\* (docs/platform-manual.md, 9.6). The media are probed one after another, and
\* nothing keeps others from replacing one that was probed already.
VerifiedAsLocked ==
  [][\A r \in Runs : job[r].pc # "verified" /\ job'[r].pc = "verified" =>
       \A m \in DOMAIN job[r].lock :
         Readable(m, job[r].lock[m].target, job[r].lock[m].digest)]_mediaVars

\* The digest of a medium changes in a draft only, and takes the candidate with it,
\* however long the upload, the registration or the build has been under way.
ContentIsFixed ==
  [][\A m \in Media :
       (row'[m] = None) # (row[m] = None) \/ (row[m] # None /\ row'[m].digest # row[m].digest)
         => status' = "draft" /\ ~candidate']_mediaVars
=============================================================================

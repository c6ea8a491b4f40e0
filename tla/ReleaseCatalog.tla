--------------------------- MODULE ReleaseCatalog ---------------------------
(***************************************************************************)
(* Component releases: editing a draft, collecting test evidence, sharing  *)
(* a draft as a candidate, publishing it on its own, deprecating and       *)
(* restoring it (internal/service/components.go, readiness.go,             *)
(* release_coordinator.go, internal/store/components.go,                   *)
(* release_coordinator.go).                                                *)
(*                                                                         *)
(* A publication reads for a long time outside any transaction and commits *)
(* in one; what protects it are optimistic guards, a snapshot of every     *)
(* release it depends on and the epoch of the released graph.  A component *)
(* test locks its plan, names its subject and creates its run one after    *)
(* another as well.  A release's content stands for everything its         *)
(* specification digest covers; it determines the releases it depends on   *)
(* (configuration dependencies, which neither readiness nor the search for *)
(* cycles follows, are left out).                                          *)
(***************************************************************************)
EXTENDS Integers, FiniteSets

CONSTANTS
  Releases,      \* component releases
  Components,
  ComponentOf,   \* the component a release belongs to
  Contents,      \* contents a draft can be given
  Original,      \* the content of every release at first
  Upstream,      \* the releases locked by a release with some content
  Baseline,      \* releases that are published from the start
  Publishers,    \* publication requests being served
  ComponentTests, \* component tests at a time
  NoRelease,
  Edited, Tested, Shared, \* bound: the drafts somebody edits, tests and shares
  MaxGeneration  \* bound: publication_generation of a release

ASSUME CatalogAssumption ==
  /\ ComponentOf \in [Releases -> Components]
  /\ Original \in Contents
  /\ Upstream \in [Releases -> [Contents -> SUBSET Releases]]
  /\ Baseline \subseteq Releases
  /\ NoRelease \notin Releases
  /\ MaxGeneration \in Nat \ {0}

VARIABLES
  release,   \* component_releases: the row of every release
  evidence,  \* succeeded component tests: release, subject, content executed
  epoch,     \* publication_state.generation
  retained,  \* releases named by the plan of some scenario run, cleaned or not
  editing,   \* drafts with an edit that has passed its checks
  ctest,     \* component tests, from the request to the end of the run
  sharing,   \* requests to share a draft: the generation they have checked
  publisher  \* publication requests

rows == <<release, evidence, epoch, retained>>
drafting == <<editing, ctest, sharing>>
catalogVars == <<rows, drafting, publisher>>

Rows == [status : {"draft", "released", "deprecated"}, candidate : BOOLEAN,
         content : Contents, generation : 1..MaxGeneration, published : BOOLEAN]
Steps == {"idle", "capture", "validate", "commit"}
NoGuards == [c \in {} |-> NoRelease]
TestSteps == {"idle", "planned", "stamped", "queued", "running"}
NoComponentTest == [step |-> "idle", release |-> NoRelease, plan |-> Original, subject |-> Original]
Idle == [step |-> "idle", root |-> NoRelease, epoch |-> 0, guards |-> NoGuards]

-----------------------------------------------------------------------------
(* Queries *)

Needs(c) == Upstream[c][release[c].content]
IsDraft(c) == release[c].status = "draft"
IsReleased(c) == release[c].status = "released"
IsCandidate(c) == IsDraft(c) /\ release[c].candidate

\* lookupComponentEvidence asks for the subject of a test, not for its plan.
EvidenceFor(c, content) == \E x \in Contents : <<c, content, x>> \in evidence
HasEvidence(c) == EvidenceFor(c, release[c].content)

HasActiveComponentTest(c) ==
  \E k \in ComponentTests : ctest[k].release = c /\ ctest[k].step \in {"queued", "running"}

\* The releases reachable from R through what the releases of R need, following
\* only those in Through.
Closure(R, Through) ==
  {d \in Releases :
     \A S \in SUBSET Releases :
       (R \subseteq S /\ \A x \in S \cap Through : Needs(x) \subseteq S) => d \in S}

Unreleased == {c \in Releases : ~IsReleased(c)}

\* releaseReadiness: evidence for the current content, and the same of every
\* candidate it depends on; no cycle among them.
IsReady(c) ==
  \A x \in Closure({c}, Unreleased) \ {y \in Releases : IsReleased(y) /\ y # c} :
    /\ HasEvidence(x)
    /\ \A u \in Needs(x) : IsReleased(u) \/ IsCandidate(u)
    /\ x \notin Closure(Needs(x) \cap Unreleased, Unreleased)

\* ListReleasedDependencyLinks, on components.
Links ==
  {l \in Components \X Components :
     \E c \in Releases : IsReleased(c) /\ ComponentOf[c] = l[1]
       /\ \E u \in Needs(c) : ComponentOf[u] = l[2]}

\* dependencyPathExists
PathExists(links, from, to) ==
  \A S \in SUBSET Components :
    (from \in S /\ \A l \in links : l[1] \in S => l[2] \in S) => to \in S

\* verifyReleasePublicationGuards
GuardsHold(guards) == \A c \in DOMAIN guards : guards[c] = release[c]

-----------------------------------------------------------------------------
(* Drafts *)

\* Bound: a row changes until its generation reaches MaxGeneration.
Changeable(c) == release[c].generation < MaxGeneration

\* An edit of a draft, of its artifacts, images or playbooks first looks whether
\* a test of it is under way ...
EditCheck(c) ==
  /\ c \in Edited \ editing
  /\ IsDraft(c) /\ ~HasActiveComponentTest(c)
  /\ editing' = editing \cup {c}
  /\ UNCHANGED <<rows, ctest, sharing, publisher>>

\* ... and is saved later: the content is replaced, the candidate withdrawn, the
\* generation advanced.  UpdateDraftRelease refuses if the generation has moved
\* meanwhile, the others only if the release is no draft any more.
EditDraft(c, d) ==
  /\ c \in editing /\ IsDraft(c) /\ Changeable(c)
  /\ release' = [release EXCEPT ![c].content = d, ![c].candidate = FALSE,
                                ![c].generation = @ + 1]
  /\ editing' = editing \ {c}
  /\ UNCHANGED <<evidence, epoch, retained, ctest, sharing, publisher>>

EditRefused(c) ==
  /\ c \in editing
  /\ editing' = editing \ {c}
  /\ UNCHANGED <<rows, ctest, sharing, publisher>>

\* setReleaseCandidate checks readiness, then commits if the row is the same.
ShareCheck(c) ==
  /\ c \in Shared /\ IsDraft(c) /\ IsReady(c)
  /\ sharing' = [sharing EXCEPT ![c] = release[c].generation]
  /\ UNCHANGED <<rows, editing, ctest, publisher>>

\* Withdrawing asks for nothing; the bound: only a candidate is withdrawn.
SetReleaseCandidate(c, candidate) ==
  /\ IsDraft(c) /\ Changeable(c)
  /\ IF candidate THEN sharing[c] = release[c].generation ELSE IsCandidate(c)
  /\ release' = [release EXCEPT ![c].candidate = candidate, ![c].generation = @ + 1]
  /\ sharing' = [sharing EXCEPT ![c] = 0]
  /\ UNCHANGED <<evidence, epoch, retained, editing, ctest, publisher>>

-----------------------------------------------------------------------------
(* Component tests *)

\* prepareComponentTest and prepareLockedPlan lock the content of the steps ...
PlanComponentTest(k, c) ==
  /\ ctest[k].step = "idle" /\ c \in Tested
  /\ ctest' = [ctest EXCEPT ![k] = [NoComponentTest EXCEPT !.step = "planned", !.release = c,
                                      !.plan = release[c].content]]
  /\ UNCHANGED <<rows, editing, sharing, publisher>>

\* ... RunCreator.createRun reads the release again to name the subject ...
StampComponentTest(k) ==
  /\ ctest[k].step = "planned"
  /\ ctest' = [ctest EXCEPT ![k].step = "stamped", ![k].subject = release[ctest[k].release].content]
  /\ UNCHANGED <<rows, editing, sharing, publisher>>

\* ... and CreateRun compares the steps, not the subject, with the release as it
\* is then (validateRunAdaptationTx, validateRunReleaseLifecycle).
CreateComponentTest(k) ==
  LET c == ctest[k].release IN
  /\ ctest[k].step = "stamped"
  /\ ctest[k].plan = release[c].content
  /\ release[c].status = "deprecated" => release[c].published
  /\ ctest' = [ctest EXCEPT ![k].step = "queued"]
  /\ UNCHANGED <<rows, editing, sharing, publisher>>

\* Claimed and started, with the steps compared once more (ClaimNextRun,
\* verifyLockedWorkspaceDigests).
StartComponentTest(k) ==
  LET c == ctest[k].release IN
  /\ ctest[k].step = "queued"
  /\ ctest[k].plan = release[c].content
  /\ release[c].status = "deprecated" => release[c].published
  /\ ctest' = [ctest EXCEPT ![k].step = "running"]
  /\ UNCHANGED <<rows, editing, sharing, publisher>>

PassComponentTest(k) ==
  /\ ctest[k].step = "running"
  /\ evidence' = evidence \cup {<<ctest[k].release, ctest[k].subject, ctest[k].plan>>}
  /\ ctest' = [ctest EXCEPT ![k] = NoComponentTest]
  /\ UNCHANGED <<release, epoch, retained, editing, sharing, publisher>>

\* Refused, failed, cancelled, interrupted or found invalid.
EndComponentTest(k) ==
  /\ ctest[k].step # "idle"
  /\ ctest' = [ctest EXCEPT ![k] = NoComponentTest]
  /\ UNCHANGED <<rows, editing, sharing, publisher>>

-----------------------------------------------------------------------------
(* Deprecation *)

\* Mutant: forgets that scenario runs retain a release.
DeprecateUsed(c) ==
  /\ Changeable(c)
  /\ IsDraft(c) \/ IsReleased(c)
  /\ release' = [release EXCEPT ![c].status = "deprecated", ![c].candidate = FALSE,
                                ![c].generation = @ + 1]
  /\ epoch' = epoch + 1
  /\ UNCHANGED <<evidence, retained, drafting, publisher>>

\* A released release stays while a scenario run is known to have used it.
DeprecateComponentRelease(c) ==
  /\ Changeable(c)
  /\ IsDraft(c) \/ (IsReleased(c) /\ c \notin retained)
  /\ release' = [release EXCEPT ![c].status = "deprecated", ![c].candidate = FALSE,
                                ![c].generation = @ + 1]
  /\ epoch' = epoch + 1
  /\ UNCHANGED <<evidence, retained, drafting, publisher>>

RestoreDeprecatedComponentRelease(c) ==
  /\ Changeable(c)
  /\ release[c].status = "deprecated" /\ ~release[c].published
  /\ release' = [release EXCEPT ![c].status = "draft", ![c].candidate = FALSE,
                                ![c].generation = @ + 1]
  /\ epoch' = epoch + 1
  /\ UNCHANGED <<evidence, retained, drafting, publisher>>

-----------------------------------------------------------------------------
(* PublishRelease: epoch, guards, validation and commit are separate reads.  *)

PublishBegin(p) ==
  /\ publisher[p].step = "idle"
  /\ publisher' = [publisher EXCEPT ![p].step = "capture", ![p].epoch = epoch]
  /\ UNCHANGED <<rows, drafting>>

\* captureReleasePublicationState: the release and everything below it.  It reads
\* row by row; a mixture of older and newer rows can only commit if every guard
\* equals its row then, hence if it was the state at one moment as well.
PublishCapture(p, c) ==
  /\ publisher[p].step = "capture"
  /\ IsDraft(c)
  /\ publisher' = [publisher EXCEPT ![p] =
       [step |-> "validate", root |-> c, epoch |-> @.epoch,
        guards |-> [x \in Closure({c}, Releases) |-> release[x]]]]
  /\ UNCHANGED <<rows, drafting>>

\* Mutant: looks at the evidence only.
ValidateEvidenceOnly(p) ==
  LET c == publisher[p].root IN
  /\ publisher[p].step = "validate"
  /\ EvidenceFor(c, publisher[p].guards[c].content)
  /\ publisher' = [publisher EXCEPT ![p].step = "commit"]
  /\ UNCHANGED <<rows, drafting>>

\* validateReleaseForPublish and validateReleaseEvidence, on the captured release.
PublishValidate(p) ==
  LET c == publisher[p].root
      content == publisher[p].guards[c].content IN
  /\ publisher[p].step = "validate"
  /\ EvidenceFor(c, content)
  /\ \A u \in Upstream[c][content] :
       IsReleased(u) /\ ~PathExists(Links, ComponentOf[u], ComponentOf[c])
  /\ publisher' = [publisher EXCEPT ![p].step = "commit"]
  /\ UNCHANGED <<rows, drafting>>

\* Refused by a check, abandoned by its client, or lost with the process.
PublishRefused(p) ==
  /\ publisher[p].step # "idle"
  /\ publisher' = [publisher EXCEPT ![p] = Idle]
  /\ UNCHANGED <<rows, drafting>>

\* What a committed publication leaves behind.
Published(p, c) ==
  /\ release' = [release EXCEPT ![c].status = "released", ![c].candidate = FALSE,
                                ![c].published = TRUE, ![c].generation = @ + 1]
  /\ epoch' = epoch + 1
  /\ publisher' = [publisher EXCEPT ![p] = Idle]
  /\ UNCHANGED <<evidence, retained, drafting>>

\* Mutant: trusts what was validated before the transaction.
CommitUnguarded(p) ==
  /\ publisher[p].step = "commit"
  /\ publisher[p].epoch = epoch
  /\ IsDraft(publisher[p].root) /\ Changeable(publisher[p].root)
  /\ Published(p, publisher[p].root)

\* Mutant: compares the guards but not the epoch.
CommitWithoutEpoch(p) ==
  /\ publisher[p].step = "commit"
  /\ GuardsHold(publisher[p].guards)
  /\ Changeable(publisher[p].root)
  /\ Published(p, publisher[p].root)

\* PublishComponentRelease, one transaction.
PublishCommit(p) ==
  /\ publisher[p].step = "commit"
  /\ GuardsHold(publisher[p].guards)
  /\ publisher[p].epoch = epoch
  /\ Changeable(publisher[p].root)
  /\ Published(p, publisher[p].root)

-----------------------------------------------------------------------------
\* A scenario run is created whose plan names the releases R.
RetainReleases(R) ==
  /\ R \subseteq {c \in Releases : IsCandidate(c) \/ release[c].published}
  /\ retained' = retained \cup R
  /\ UNCHANGED <<release, evidence, epoch, drafting, publisher>>

-----------------------------------------------------------------------------
CatalogInit ==
  /\ release = [c \in Releases |->
       [status |-> IF c \in Baseline THEN "released" ELSE "draft", candidate |-> FALSE,
        content |-> Original, generation |-> 1, published |-> c \in Baseline]]
  /\ evidence = {<<c, Original, Original>> : c \in Baseline}
  /\ epoch = 0
  /\ retained = {}
  /\ editing = {}
  /\ ctest = [k \in ComponentTests |-> NoComponentTest]
  /\ sharing = [c \in Releases |-> 0]
  /\ publisher = [p \in Publishers |-> Idle]

ReleaseStep(c) ==
  \/ EditCheck(c) \/ (\E d \in Contents : EditDraft(c, d)) \/ EditRefused(c)
  \/ ShareCheck(c) \/ SetReleaseCandidate(c, TRUE) \/ SetReleaseCandidate(c, FALSE)
  \/ DeprecateComponentRelease(c) \/ RestoreDeprecatedComponentRelease(c)

ComponentTestStep(k) ==
  \/ \E c \in Releases : PlanComponentTest(k, c)
  \/ StampComponentTest(k) \/ CreateComponentTest(k) \/ StartComponentTest(k)
  \/ PassComponentTest(k) \/ EndComponentTest(k)

PublishStep(p) ==
  \/ PublishBegin(p) \/ (\E c \in Releases : PublishCapture(p, c)) \/ PublishValidate(p)
  \/ PublishRefused(p) \/ PublishCommit(p)

CatalogNext ==
  \/ \E c \in Releases : ReleaseStep(c)
  \/ \E k \in ComponentTests : ComponentTestStep(k)
  \/ \E p \in Publishers : PublishStep(p)

CatalogSpec == CatalogInit /\ [][CatalogNext]_catalogVars

-----------------------------------------------------------------------------
(* Properties *)

CatalogTypeOK ==
  /\ release \in [Releases -> Rows]
  /\ evidence \subseteq Releases \X Contents \X Contents
  /\ epoch \in Nat
  /\ retained \subseteq Releases
  /\ editing \subseteq Releases
  /\ ctest \in [ComponentTests -> [step : TestSteps, release : Releases \cup {NoRelease},
                                     plan : Contents, subject : Contents]]
  /\ sharing \in [Releases -> 0..MaxGeneration]
  /\ \A p \in Publishers :
       /\ publisher[p].step \in Steps
       /\ publisher[p].root \in Releases \cup {NoRelease}
       /\ publisher[p].epoch \in Nat
       /\ DOMAIN publisher[p].guards \subseteq Releases
       /\ \A c \in DOMAIN publisher[p].guards : publisher[p].guards[c] \in Rows

\* What was published has a successful test on record whose subject is exactly
\* the content it has, whatever was edited while the publication was under way.
PublishedHasEvidence == \A c \in Releases : release[c].published => HasEvidence(c)

\* What was published has been executed by a successful test: evidence for another
\* content has become void with the change ("Draft 规格摘要变化会让全部旧证据失效",
\* docs/backend-design.md:228).
PublishedWasExecuted ==
  \A c \in Releases : release[c].published => <<c, release[c].content, release[c].content>> \in evidence

\* A release becomes released only when everything it needs is released at that
\* moment, although that was checked before the transaction.
PublishesOnReleased ==
  [][\A c \in Releases : (IsDraft(c) /\ IsReleased(c)') =>
       \A u \in Upstream[c][release'[c].content] : IsReleased(u)']_release

\* Two releases published side by side never close a cycle of components: each
\* has seen the other's links or is refused.
NoCycleClosed ==
  [][\A c \in Releases : (IsDraft(c) /\ IsReleased(c)') =>
       \A u \in Upstream[c][release'[c].content] :
         ~PathExists(Links, ComponentOf[u], ComponentOf[c])]_release

\* What a reader of the catalog sees of it.
VisibleRow ==
  [c \in Releases |-> [status |-> release[c].status, candidate |-> release[c].candidate,
                       content |-> release[c].content, published |-> release[c].published]]
Subjects == {<<t[1], t[2]>> : t \in evidence}

Atomic == INSTANCE AtomicPublication WITH row <- VisibleRow, tested <- Subjects

\* The four steps of a publication, between which everything may change, look like one
\* publication that has locked the whole catalog.
PublishesAtomically == Atomic!DirectSpec

\* The parts of the inductive invariant behind the properties above
\* (ScenarioLifecycleProofs).  A draft has never been published.
PublishedIsNoDraft == \A c \in Releases : IsDraft(c) => ~release[c].published

\* A guard is the row as it is now or an older one, the epoch likewise.
SnapshotsArePast ==
  \A p \in Publishers :
    /\ publisher[p].epoch <= epoch
    /\ \A c \in DOMAIN publisher[p].guards :
         release[c] = publisher[p].guards[c] \/ publisher[p].guards[c].generation < release[c].generation

\* The guards cover the draft to be published and what it needs.
GuardsCover ==
  \A p \in Publishers : publisher[p].step \in {"validate", "commit"} =>
    LET c == publisher[p].root
        guards == publisher[p].guards IN
    /\ c \in DOMAIN guards /\ guards[c].status = "draft"
    /\ Upstream[c][guards[c].content] \subseteq DOMAIN guards

\* What was validated is true at the commit, or the guards or the epoch tell.
ValidatedOrOutdated ==
  \A p \in Publishers : publisher[p].step = "commit" =>
    LET c == publisher[p].root
        guards == publisher[p].guards IN
    /\ EvidenceFor(c, guards[c].content)
    /\ \A u \in Upstream[c][guards[c].content] :
         /\ release[u] = guards[u] => IsReleased(u)
         /\ publisher[p].epoch = epoch => ~PathExists(Links, ComponentOf[u], ComponentOf[c])
=============================================================================

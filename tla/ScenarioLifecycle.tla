-------------------------- MODULE ScenarioLifecycle --------------------------
(***************************************************************************)
(* The revisions of a scenario: editing, complete tests, the joint         *)
(* publication of a tested revision with its candidate releases, cloning,  *)
(* abandoning and deprecating (internal/store/scenario_lifecycle.go,       *)
(* scenario_execution.go, scenarios.go, release_coordinator.go, runs.go    *)
(* and the services above them), on top of the release catalog.            *)
(*                                                                         *)
(* A test is a run: RunQueue models how runs are queued and executed, here *)
(* only its status matters.  The status of a test that did not succeed and *)
(* the reset of its revision are two statements, hence two steps.          *)
(***************************************************************************)
EXTENDS ReleaseCatalog

CONSTANTS
  Revisions,    \* revision numbers; 1 is the first
  Definitions,  \* what a revision can be defined as
  GraphOf,      \* the releases locked by the nodes of a definition
  FirstDefinition,
  Tests,        \* scenario test runs
  ModeOf,       \* install or upgrade
  NoDefinition, NoTest,
  MaxRevisionGeneration  \* bound: publication_generation of a revision

ASSUME ScenarioAssumption ==
  /\ Revisions \subseteq Nat /\ 1 \in Revisions
  /\ GraphOf \in [Definitions -> SUBSET Releases]
  /\ FirstDefinition \in Definitions /\ NoDefinition \notin Definitions
  /\ ModeOf \in [Tests -> {"install", "upgrade"}] /\ NoTest \notin Tests
  /\ MaxRevisionGeneration \in Nat \ {0}

VARIABLES
  revision,   \* scenario_revisions
  current,    \* scenarios.current_revision_id
  formal,     \* revisions with a successful formal run of their definition
  test,       \* scenario tests: status, revision, definition and locked contents
  late,       \* tests that ended without success and whose revision is not reset yet
  joint       \* the joint publication in progress, under the workspace lock

scenarioVars == <<revision, current, formal, test, late, joint>>
vars == <<catalogVars, scenarioVars>>

RevisionStatuses == {"absent", "draft", "testing", "test_passed", "released", "deprecated"}
Mutable == {"draft", "testing", "test_passed"}
ActiveTest == {"queued", "running"}
TestStatuses == {"none", "planned", "succeeded", "failed", "cancelled", "interrupted"} \cup ActiveTest
NoLocks == [c \in {} |-> Original]
Unplanned == [status |-> "none", revision |-> 1, definition |-> NoDefinition, locks |-> NoLocks]
NoJoint == [step |-> "idle", revision |-> 1, generation |-> 0, definition |-> NoDefinition,
            epoch |-> 0, guards |-> NoGuards, candidates |-> {}, evidence |-> NoTest]

-----------------------------------------------------------------------------
(* Queries *)

Graph(r) == GraphOf[revision[r].definition]
HasActiveTest(r) == \E t \in Tests : test[t].revision = r /\ test[t].status \in ActiveTest

\* Mutant: forgets the tests that are queued or running.
EditableWhileTested(r) == revision[r].status \in Mutable /\ current = r

\* validateScenarioEditableTx
Editable(r) == revision[r].status \in Mutable /\ current = r /\ ~HasActiveTest(r)

\* Validate: the graph holds what its releases need, without a cycle; each of
\* them is released or a candidate that is ready.
GraphValid(G) ==
  /\ G # {}
  /\ \A c \in G :
       /\ IsReleased(c) \/ (IsCandidate(c) /\ IsReady(c))
       /\ Needs(c) \subseteq G
       /\ c \notin Closure(Needs(c), Releases)

\* scenarioTestEvidenceMatches: the test is about this definition and about the
\* contents its releases have now.
Matches(t, r) ==
  /\ test[t].revision = r
  /\ test[t].definition = revision[r].definition
  /\ \A c \in DOMAIN test[t].locks : test[t].locks[c] = release[c].content
  /\ \A c \in Graph(r) : c \in DOMAIN test[t].locks /\ (IsReleased(c) \/ IsCandidate(c))

\* A first revision needs an install test, a later one an upgrade test as well.
RequiredModes(r) == IF r = 1 THEN {"install"} ELSE {"install", "upgrade"}

\* scenarioRequiredEvidenceTx, when the tests in S have succeeded.
RequiredEvidence(r, S) ==
  \A m \in RequiredModes(r) : \E t \in S : ModeOf[t] = m /\ Matches(t, r)

Succeeded == {t \in Tests : test[t].status = "succeeded"}

\* workspace.mu: one test is planned or one revision published at a time.
WorkspaceFree == joint.step = "idle" /\ \A t \in Tests : test[t].status # "planned"

-----------------------------------------------------------------------------
(* Revisions *)

\* Mutant: a new definition keeps the status the old one had earned.
SaveKeepsStatus(r, d) ==
  /\ Editable(r)
  /\ revision[r].generation < MaxRevisionGeneration
  /\ revision' = [revision EXCEPT ![r].definition = d, ![r].generation = @ + 1]
  /\ UNCHANGED <<catalogVars, current, formal, test, late, joint>>

\* SaveScenarioRevisionDefinition; with the same definition it is ReopenRevision.
\* What the service checks about the graph it reads before the transaction, so a
\* definition that is saved need not be installable any more.
SaveRevision(r, d) ==
  /\ Editable(r)
  /\ revision[r].generation < MaxRevisionGeneration
  /\ revision' = [revision EXCEPT ![r].status = "draft", ![r].definition = d,
                                  ![r].generation = @ + 1]
  /\ UNCHANGED <<catalogVars, current, formal, test, late, joint>>

\* CreateScenarioRevisionFromSource; the index idx_scenario_revisions_one_active.
CloneRevision(r, source) ==
  /\ revision[r].status = "absent" /\ \A q \in Revisions : q < r => revision[q].status # "absent"
  /\ revision[source].status = "released" /\ source \in formal
  /\ \A q \in Revisions : revision[q].status \notin Mutable
  /\ revision' = [revision EXCEPT ![r] = [status |-> "draft", generation |-> 1,
                    definition |-> revision[source].definition, abandoned |-> FALSE]]
  /\ current' = r
  /\ UNCHANGED <<catalogVars, formal, test, late, joint>>

\* The scenario falls back to its newest immutable revision.
AbandonRevision(r, restored) ==
  /\ current = r /\ revision[r].status = "draft"
  /\ LET immutable == {q \in Revisions \ {r} : revision[q].status \in {"released", "deprecated"}
                                                 /\ ~revision[q].abandoned}
     IN restored \in immutable /\ \A q \in immutable : q <= restored
  /\ revision' = [revision EXCEPT ![r].status = "deprecated", ![r].abandoned = TRUE]
  /\ current' = restored
  /\ UNCHANGED <<catalogVars, formal, test, late, joint>>

DeprecateRevision(r) ==
  /\ revision[r].status = "released"
  /\ revision[r].generation < MaxRevisionGeneration
  /\ revision' = [revision EXCEPT ![r].status = "deprecated", ![r].generation = @ + 1]
  /\ epoch' = epoch + 1
  /\ UNCHANGED <<release, evidence, retained, drafting, publisher>>
  /\ UNCHANGED <<current, formal, test, late, joint>>

\* A formal run of a released revision succeeds.
FormalRun(r) ==
  /\ revision[r].status = "released" /\ r \notin formal
  /\ formal' = formal \cup {r}
  /\ RetainReleases(Graph(r))
  /\ UNCHANGED <<revision, current, test, late, joint>>

-----------------------------------------------------------------------------
(* Tests *)

\* StartScenarioExecution plans under the workspace lock ...
PlanScenarioTest(t, r) ==
  /\ WorkspaceFree
  /\ test[t].status = "none"
  /\ current = r /\ revision[r].status # "released"
  /\ ModeOf[t] = "upgrade" => r # 1
  /\ GraphValid(Graph(r))
  /\ test' = [test EXCEPT ![t] = [status |-> "planned", revision |-> r,
                definition |-> revision[r].definition,
                locks |-> [c \in Graph(r) |-> release[c].content]]]
  /\ UNCHANGED <<catalogVars, revision, current, formal, late, joint>>

\* ... and creates the run in one transaction: validateScenarioRunCreationTx,
\* validateRunAdaptationTx and validateRunReleaseLifecycle.
CreateScenarioTest(t) ==
  LET r == test[t].revision IN
  /\ test[t].status = "planned"
  /\ test[t].definition = revision[r].definition
  /\ Editable(r)
  /\ \A c \in DOMAIN test[t].locks : test[t].locks[c] = release[c].content
  /\ RetainReleases(DOMAIN test[t].locks)
  /\ test' = [test EXCEPT ![t].status = "queued"]
  /\ revision' = [revision EXCEPT ![r].status = "testing"]
  /\ UNCHANGED <<current, formal, late, joint>>

RefuseScenarioTest(t) ==
  /\ test[t].status = "planned"
  /\ test' = [test EXCEPT ![t] = Unplanned]
  /\ UNCHANGED <<catalogVars, revision, current, formal, late, joint>>

ClaimTest(t) ==
  /\ test[t].status = "queued"
  /\ test' = [test EXCEPT ![t].status = "running"]
  /\ UNCHANGED <<catalogVars, revision, current, formal, late, joint>>

\* UpdateRunStatus to succeeded: the run and its evidence in one transaction,
\* refused as a whole if the definition is another one.
SucceedTest(t) ==
  LET r == test[t].revision IN
  /\ test[t].status = "running"
  /\ test[t].definition = revision[r].definition
  /\ test' = [test EXCEPT ![t].status = "succeeded"]
  /\ revision' = IF revision[r].status # "testing" THEN revision
                 ELSE [revision EXCEPT ![r].status =
                         IF Matches(t, r) /\ RequiredEvidence(r, Succeeded \cup {t})
                           THEN "test_passed" ELSE "draft"]
  /\ UNCHANGED <<catalogVars, current, formal, late, joint>>

\* A queued test whose row no longer validates: ClaimNextRun or
\* FailInvalidActiveRuns fails it and resets its revision in one transaction.
FailInvalidTest(t) ==
  LET r == test[t].revision IN
  /\ test[t].status = "queued"
  /\ test' = [test EXCEPT ![t].status = "failed"]
  /\ revision' = IF revision[r].status = "testing"
                   THEN [revision EXCEPT ![r].status = "draft"] ELSE revision
  /\ UNCHANGED <<catalogVars, current, formal, late, joint>>

\* Any other end is a statement of its own (finishRun, CancelRun) ...
EndTestUnsuccessfully(t, status) ==
  /\ \/ test[t].status = "running" /\ status \in {"failed", "cancelled"}
     \/ test[t].status = "queued" /\ status = "cancelled"
  /\ test' = [test EXCEPT ![t].status = status]
  /\ late' = late \cup {t}
  /\ UNCHANGED <<catalogVars, revision, current, formal, joint>>

\* ... followed by SetScenarioRevisionStatus(testing -> draft).
ResetRevision(t) ==
  LET r == test[t].revision IN
  /\ t \in late
  /\ late' = late \ {t}
  /\ revision' = IF revision[r].status = "testing"
                   THEN [revision EXCEPT ![r].status = "draft"] ELSE revision
  /\ UNCHANGED <<catalogVars, current, formal, test, joint>>

\* The process dies and starts again: everything under way in it is lost, then
\* MarkRunningInterrupted ends the running tests and resets their revisions.
Restart ==
  /\ test' = [t \in Tests |-> CASE test[t].status = "running" -> [test[t] EXCEPT !.status = "interrupted"]
                                [] test[t].status = "planned" -> Unplanned
                                [] OTHER -> test[t]]
  /\ revision' = [r \in Revisions |->
       IF revision[r].status = "testing" /\ \E t \in Tests : test[t].status = "running" /\ test[t].revision = r
         THEN [revision[r] EXCEPT !.status = "draft"] ELSE revision[r]]
  /\ late' = {} /\ joint' = NoJoint
  /\ ctest' = [k \in ComponentTests |-> IF ctest[k].step = "queued" THEN ctest[k] ELSE NoComponentTest]
  /\ editing' = {}
  /\ sharing' = [c \in Releases |-> 0]
  /\ publisher' = [p \in Publishers |-> Idle]
  /\ UNCHANGED <<rows, current, formal>>

-----------------------------------------------------------------------------
(* PublishScenario, under the workspace lock *)

JointBegin(r) ==
  /\ WorkspaceFree
  /\ current = r /\ revision[r].status = "test_passed"
  /\ joint' = [NoJoint EXCEPT !.step = "capture", !.revision = r, !.epoch = epoch,
                 !.generation = revision[r].generation, !.definition = revision[r].definition]
  /\ UNCHANGED <<catalogVars, revision, current, formal, test, late>>

JointCapture ==
  /\ joint.step = "capture"
  /\ joint' = [joint EXCEPT !.step = "validate",
       !.guards = [c \in Closure(GraphOf[joint.definition], Releases) |-> release[c]]]
  /\ UNCHANGED <<catalogVars, revision, current, formal, test, late>>

\* Validate, CandidateReleaseSet and the latest successful test, read anew.
JointValidate(t) ==
  LET r == joint.revision IN
  /\ joint.step = "validate"
  /\ GraphValid(Graph(r))
  /\ t \in Succeeded /\ Matches(t, r)
  /\ joint' = [joint EXCEPT !.step = "commit", !.evidence = t,
       !.candidates = {c \in Graph(r) : IsCandidate(c)}]
  /\ UNCHANGED <<catalogVars, revision, current, formal, test, late>>

JointRefused ==
  /\ joint.step # "idle"
  /\ joint' = NoJoint
  /\ UNCHANGED <<catalogVars, revision, current, formal, test, late>>

\* What a committed joint publication leaves behind.
JointlyPublished(r) ==
  /\ release' = [c \in Releases |-> IF c \notin joint.candidates THEN release[c]
       ELSE [release[c] EXCEPT !.status = "released", !.candidate = FALSE, !.published = TRUE,
                               !.generation = @ + 1]]
  /\ revision' = [revision EXCEPT ![r].status = "released"]
  /\ epoch' = epoch + 1
  /\ joint' = NoJoint
  /\ UNCHANGED <<evidence, retained, drafting, publisher>>
  /\ UNCHANGED <<current, formal, test, late>>

\* Mutant: trusts what was validated before the transaction about the releases.
JointCommitTrusting ==
  LET r == joint.revision IN
  /\ joint.step = "commit"
  /\ revision[r].status = "test_passed"
  /\ revision[r].generation = joint.generation /\ revision[r].definition = joint.definition
  /\ joint.epoch = epoch
  /\ \A c \in joint.candidates : IsDraft(c)
  /\ JointlyPublished(r)

\* PublishCandidateReleaseSet, one transaction.
JointCommit ==
  LET r == joint.revision IN
  /\ joint.step = "commit"
  /\ revision[r].status = "test_passed"
  /\ revision[r].generation = joint.generation /\ revision[r].definition = joint.definition
  /\ RequiredEvidence(r, Succeeded) /\ Matches(joint.evidence, r)
  /\ GuardsHold(joint.guards)
  /\ joint.candidates = {c \in Graph(r) : IsCandidate(c)}
  /\ joint.epoch = epoch
  /\ \A c \in joint.candidates : Changeable(c)
  /\ JointlyPublished(r)

-----------------------------------------------------------------------------
Init ==
  /\ CatalogInit
  /\ revision = [r \in Revisions |->
       [status |-> IF r = 1 THEN "draft" ELSE "absent", generation |-> 1,
        definition |-> FirstDefinition, abandoned |-> FALSE]]
  /\ current = 1
  /\ formal = {}
  /\ test = [t \in Tests |-> Unplanned]
  /\ late = {}
  /\ joint = NoJoint

RevisionStep(r) ==
  \/ \E d \in Definitions : SaveRevision(r, d)
  \/ \E q \in Revisions : CloneRevision(r, q) \/ AbandonRevision(r, q)
  \/ DeprecateRevision(r) \/ FormalRun(r) \/ JointBegin(r)

TestStep(t) ==
  \/ \E r \in Revisions : PlanScenarioTest(t, r)
  \/ CreateScenarioTest(t) \/ RefuseScenarioTest(t) \/ ClaimTest(t) \/ SucceedTest(t)
  \/ FailInvalidTest(t)
  \/ \E s \in {"failed", "cancelled"} : EndTestUnsuccessfully(t, s)
  \/ ResetRevision(t)

JointStep == JointCapture \/ JointRefused \/ JointCommit \/ \E t \in Tests : JointValidate(t)

Next ==
  \/ CatalogNext /\ UNCHANGED scenarioVars
  \/ \E r \in Revisions : RevisionStep(r)
  \/ \E t \in Tests : TestStep(t)
  \/ JointStep
  \/ Restart

Spec == Init /\ [][Next]_vars

-----------------------------------------------------------------------------
(* Properties *)

TypeOK ==
  /\ CatalogTypeOK
  /\ \A r \in Revisions :
       /\ revision[r].status \in RevisionStatuses
       /\ revision[r].definition \in Definitions
       /\ revision[r].generation \in 1..MaxRevisionGeneration
       /\ revision[r].abandoned \in BOOLEAN
  /\ current \in Revisions
  /\ formal \subseteq Revisions
  /\ \A t \in Tests :
       /\ test[t].status \in TestStatuses
       /\ test[t].revision \in Revisions
       /\ test[t].definition \in Definitions \cup {NoDefinition}
       /\ test[t].locks \in [DOMAIN test[t].locks -> Contents]
       /\ DOMAIN test[t].locks \subseteq Releases
  /\ late \subseteq Tests
  /\ joint.step \in Steps /\ joint.revision \in Revisions
  /\ joint.candidates \subseteq Releases /\ joint.evidence \in Tests \cup {NoTest}

\* A revision that counts as tested has a successful test of every mode it
\* needs, of the definition it has now.
PassedHasEvidence ==
  \A r \in Revisions : revision[r].status = "test_passed" =>
    \A m \in RequiredModes(r) : \E t \in Succeeded :
      ModeOf[t] = m /\ test[t].revision = r /\ test[t].definition = revision[r].definition

\* A released revision stays installable as it was tested: for every mode one
\* test covered all its releases with exactly the contents they have, and none
\* of them is withdrawn while the revision is offered.
ReleasedAsTested ==
  \A r \in Revisions : revision[r].status = "released" =>
    /\ \A c \in Graph(r) : IsReleased(c)
    /\ \A m \in RequiredModes(r) : \E t \in Succeeded : ModeOf[t] = m /\ Matches(t, r)

\* Nobody changes what a test has locked while it is queued or running
\* (validateScenarioEditableTx).
ActiveTestIsCurrent ==
  \A t \in Tests : test[t].status \in ActiveTest =>
    test[t].definition = revision[test[t].revision].definition

\* The joint publication as well: candidates and revision are released as if
\* nothing else happened between its first read and its commit.
PublishesJointlyAtomically == Atomic!Spec

\* The only revision that can still change is the one the scenario points to.
MutableIsCurrent ==
  \A r \in Revisions : revision[r].status \in Mutable => r = current

\* However saves, clones, withdrawals and tests follow each other, a scenario
\* has one revision that changes, and none that changes under a test.
ChangesAreOwned == MutableIsCurrent /\ ActiveTestIsCurrent

\* The parts of the inductive invariant behind the properties above
\* (ScenarioLifecycleProofs).  Whatever points to a revision points to one that exists.
RevisionsExist ==
  /\ revision[current].status # "absent"
  /\ \A t \in Tests : test[t].status # "none" => revision[test[t].revision].status # "absent"
  /\ joint.step # "idle" => revision[joint.revision].status # "absent"

\* A test locks what its definition names, and what a test locks is retained from
\* the moment its run exists.
LocksAreRetained ==
  \A t \in Tests :
    /\ test[t].status # "none" =>
         test[t].definition \in Definitions /\ DOMAIN test[t].locks = GraphOf[test[t].definition]
    /\ test[t].status \in ActiveTest \cup {"succeeded"} => DOMAIN test[t].locks \subseteq retained

\* What a joint publication read of its revision and its releases is as it is now
\* or an older state of it.
JointReadThePast ==
  joint.step # "idle" =>
    LET r == joint.revision
        guards == joint.guards IN
    /\ joint.definition \in Definitions
    /\ joint.generation < revision[r].generation
         \/ (joint.generation = revision[r].generation /\ joint.definition = revision[r].definition)
    /\ joint.step # "capture" => GraphOf[joint.definition] \subseteq DOMAIN guards
    /\ \A c \in DOMAIN guards :
         release[c] = guards[c] \/ guards[c].generation < release[c].generation

\* What it validated is true at the commit, or a generation tells.
JointValidatedOrOutdated ==
  (joint.step = "commit" /\ joint.generation = revision[joint.revision].generation) =>
    LET G == GraphOf[joint.definition] IN
    \A c \in G : release[c] = joint.guards[c] =>
      Needs(c) \subseteq G /\ (IsCandidate(c) => HasEvidence(c))

\* "A scenario test owns the Testing state while it is queued/running."
\* (internal/store/runs.go:412)
TestOwnsTesting ==
  \A t \in Tests : test[t].status \in ActiveTest => revision[test[t].revision].status = "testing"
=============================================================================

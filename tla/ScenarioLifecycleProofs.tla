----------------------- MODULE ScenarioLifecycleProofs -----------------------
(***************************************************************************)
(* Theorems about ReleaseCatalog and about ScenarioLifecycle, which builds *)
(* on it, for every catalog of releases, every dependency relation and any *)
(* number of publications, revisions, definitions and tests.               *)
(***************************************************************************)
EXTENDS ScenarioLifecycle, TLAPS

-----------------------------------------------------------------------------
(* Releases of components: ReleaseCatalog.                                   *)

\* CatalogTypeOK as memberships in sets, which TLC could not enumerate.
Guards == UNION {[D -> Rows] : D \in SUBSET Releases}
Requests == [step : Steps, root : Releases \cup {NoRelease}, epoch : Nat, guards : Guards]

TestTable ==
  [ComponentTests -> [step : TestSteps, release : Releases \cup {NoRelease},
                      plan : Contents, subject : Contents]]

\* Beyond the types: a component test under way is the test of a release.
CatalogTyped ==
  /\ release \in [Releases -> Rows]
  /\ evidence \subseteq Releases \X Contents \X Contents
  /\ epoch \in Nat
  /\ retained \subseteq Releases
  /\ editing \subseteq Releases
  /\ ctest \in TestTable
  /\ \A k \in ComponentTests : ctest[k].step # "idle" => ctest[k].release \in Releases
  /\ sharing \in [Releases -> 0..MaxGeneration]
  /\ publisher \in [Publishers -> Requests]

LEMMA TypedIsTypeOK == CatalogTyped => CatalogTypeOK
<1> SUFFICES ASSUME CatalogTyped PROVE CatalogTypeOK
  OBVIOUS
<1>1. ASSUME NEW p \in Publishers
      PROVE  /\ publisher[p].step \in Steps
             /\ publisher[p].root \in Releases \cup {NoRelease}
             /\ publisher[p].epoch \in Nat
             /\ DOMAIN publisher[p].guards \subseteq Releases
             /\ \A c \in DOMAIN publisher[p].guards : publisher[p].guards[c] \in Rows
  BY DEF CatalogTyped, Requests, Guards
<1>2. QED
  BY <1>1 DEF CatalogTyped, CatalogTypeOK, TestTable

\* The inductive invariant.
CatalogInv ==
  CatalogTyped /\ PublishedHasEvidence /\ PublishedIsNoDraft /\ SnapshotsArePast
    /\ GuardsCover /\ ValidatedOrOutdated

\* A row keeps its form when its draft is edited, shared, withdrawn, deprecated,
\* restored or published.
LEMMA RowTypes ==
  ASSUME CatalogTyped, NEW c \in Releases, Changeable(c),
         NEW s \in {"draft", "released", "deprecated"}, NEW k \in BOOLEAN,
         NEW d \in Contents, NEW b \in BOOLEAN
  PROVE  /\ release[c].generation + 1 \in 1..MaxGeneration
         /\ [release EXCEPT ![c].content = d, ![c].candidate = k,
                            ![c].generation = @ + 1] \in [Releases -> Rows]
         /\ [release EXCEPT ![c].candidate = k, ![c].generation = @ + 1] \in [Releases -> Rows]
         /\ [release EXCEPT ![c].status = s, ![c].candidate = k,
                            ![c].generation = @ + 1] \in [Releases -> Rows]
         /\ [release EXCEPT ![c].status = s, ![c].candidate = k, ![c].published = b,
                            ![c].generation = @ + 1] \in [Releases -> Rows]
<1> USE CatalogAssumption DEF CatalogTyped, Changeable, Rows
<1>1. release[c] \in Rows
  OBVIOUS
<1>2. release[c].generation + 1 \in 1..MaxGeneration
  BY <1>1
<1>3. QED
  BY <1>1, <1>2

\* What a publication captures is a table of rows.
LEMMA CapturedTypes ==
  ASSUME CatalogTyped, NEW c \in Releases
  PROVE  [x \in Closure({c}, Releases) |-> release[x]] \in Guards
<1>1. Closure({c}, Releases) \in SUBSET Releases
  BY DEF Closure
<1>2. \A x \in Closure({c}, Releases) : release[x] \in Rows
  BY <1>1 DEF CatalogTyped
<1>3. QED
  BY <1>1, <1>2 DEF Guards

LEMMA NoGuardsTypes == Idle \in Requests
<1>1. NoGuards \in [{} -> Rows]
  BY DEF NoGuards
<1>2. NoGuards \in Guards
  BY <1>1 DEF Guards
<1>3. QED
  BY <1>2 DEF Idle, Requests, Steps

\* A component test changes nothing but its own request and the evidence, which
\* only grows.
TestFrame ==
  /\ UNCHANGED <<release, epoch, retained, editing, sharing, publisher>>
  /\ evidence \subseteq evidence'
  /\ evidence' \subseteq Releases \X Contents \X Contents
  /\ ctest' \in TestTable
  /\ \A k \in ComponentTests : ctest'[k].step # "idle" => ctest'[k].release \in Releases

LEMMA TestStepFrame ==
  ASSUME CatalogTyped, NEW k \in ComponentTests, ComponentTestStep(k)
  PROVE  TestFrame
<1> USE CatalogAssumption DEF CatalogTyped, TestFrame, TestTable, TestSteps, rows
<1>1. release \in [Releases -> Rows] /\ \A c \in Releases : release[c].content \in Contents
  BY DEF Rows
<1>2. ASSUME NEW c \in Releases, PlanComponentTest(k, c) PROVE TestFrame
  BY <1>1, <1>2 DEF PlanComponentTest, NoComponentTest
<1>3. CASE StampComponentTest(k)
  BY <1>1, <1>3, ZenonT(60) DEF StampComponentTest
<1>4. CASE CreateComponentTest(k) \/ StartComponentTest(k)
  <2>1. PICK s \in {"queued", "running"} :
          ctest[k].step # "idle" /\ ctest' = [ctest EXCEPT ![k].step = s]
    BY <1>4 DEF CreateComponentTest, StartComponentTest
  <2>2. UNCHANGED <<rows, editing, sharing, publisher>>
    BY <1>4 DEF CreateComponentTest, StartComponentTest
  <2>3. QED
    BY <2>1, <2>2, ZenonT(60)
<1>5. CASE PassComponentTest(k)
  BY <1>5 DEF PassComponentTest, NoComponentTest
<1>6. CASE EndComponentTest(k)
  BY <1>6 DEF EndComponentTest, NoComponentTest
<1>7. QED
  BY <1>2, <1>3, <1>4, <1>5, <1>6 DEF ComponentTestStep

\* The checks of an edit and its refusal change only the edits under way.
LEMMA EditFrame ==
  ASSUME CatalogTyped, NEW c \in Releases, EditCheck(c) \/ EditRefused(c)
  PROVE  UNCHANGED <<release, evidence, epoch, retained, ctest, sharing, publisher>>
           /\ editing' \subseteq Releases
  BY DEF CatalogTyped, EditCheck, EditRefused, rows

\* Every step keeps the types of all variables.
LEMMA TypeStep == CatalogTyped /\ [CatalogNext]_catalogVars => CatalogTyped'
<1> SUFFICES ASSUME CatalogTyped, [CatalogNext]_catalogVars PROVE CatalogTyped'
  OBVIOUS
<1> USE CatalogAssumption DEF CatalogTyped, rows, drafting
<1>1. ASSUME NEW c \in Releases, NEW d \in Contents, EditDraft(c, d) PROVE CatalogTyped'
  <2>1. /\ Changeable(c)
        /\ release' = [release EXCEPT ![c].content = d, ![c].candidate = FALSE,
                                      ![c].generation = @ + 1]
        /\ editing' = editing \ {c}
        /\ UNCHANGED <<evidence, epoch, retained, ctest, sharing, publisher>>
    BY <1>1 DEF EditDraft
  <2>2. release' \in [Releases -> Rows]
    BY <2>1, RowTypes
  <2>3. QED
    BY <2>1, <2>2
<1>2. ASSUME NEW c \in Releases, EditCheck(c) \/ EditRefused(c) PROVE CatalogTyped'
  BY <1>2, EditFrame
<1>3. ASSUME NEW k \in ComponentTests, ComponentTestStep(k) PROVE CatalogTyped'
  BY <1>3, TestStepFrame DEF TestFrame
<1>4. ASSUME NEW c \in Releases, ShareCheck(c) PROVE CatalogTyped'
  <2>1. release[c].generation \in 0..MaxGeneration
    BY DEF Rows
  <2>2. QED
    BY <1>4, <2>1 DEF ShareCheck
<1>5. ASSUME NEW c \in Releases, NEW k \in BOOLEAN, SetReleaseCandidate(c, k) PROVE CatalogTyped'
  <2>1. release' \in [Releases -> Rows]
    <3>1. release' = [release EXCEPT ![c].candidate = k, ![c].generation = @ + 1] /\ Changeable(c)
      BY <1>5 DEF SetReleaseCandidate
    <3>2. QED
      BY <3>1, RowTypes, ZenonT(60)
  <2>2. sharing' \in [Releases -> 0..MaxGeneration] /\ UNCHANGED <<evidence, epoch, retained, editing, ctest, publisher>>
    BY <1>5 DEF SetReleaseCandidate
  <2>3. QED
    BY <2>1, <2>2
<1>6. ASSUME NEW c \in Releases, DeprecateComponentRelease(c) PROVE CatalogTyped'
  <2>1. /\ Changeable(c)
        /\ release' = [release EXCEPT ![c].status = "deprecated", ![c].candidate = FALSE,
                                      ![c].generation = @ + 1]
        /\ epoch' = epoch + 1
        /\ UNCHANGED <<evidence, retained, drafting, publisher>>
    BY <1>6 DEF DeprecateComponentRelease
  <2>2. release' \in [Releases -> Rows]
    BY <2>1, RowTypes
  <2>3. QED
    BY <2>1, <2>2
<1>7. ASSUME NEW c \in Releases, RestoreDeprecatedComponentRelease(c) PROVE CatalogTyped'
  <2>1. /\ Changeable(c)
        /\ release' = [release EXCEPT ![c].status = "draft", ![c].candidate = FALSE,
                                      ![c].generation = @ + 1]
        /\ epoch' = epoch + 1
        /\ UNCHANGED <<evidence, retained, drafting, publisher>>
    BY <1>7 DEF RestoreDeprecatedComponentRelease
  <2>2. release' \in [Releases -> Rows]
    BY <2>1, RowTypes
  <2>3. QED
    BY <2>1, <2>2
<1>8. ASSUME NEW p \in Publishers, PublishBegin(p) PROVE CatalogTyped'
  BY <1>8, ZenonT(60) DEF PublishBegin, Requests, Steps
<1>9. ASSUME NEW p \in Publishers, NEW c \in Releases, PublishCapture(p, c) PROVE CatalogTyped'
  <2>1. UNCHANGED <<rows, drafting>>
    BY <1>9 DEF PublishCapture
  <2> DEFINE guards == [x \in Closure({c}, Releases) |-> release[x]]
  <2>2. guards \in Guards
    BY CapturedTypes
  <2>3. publisher' = [publisher EXCEPT ![p] =
          [step |-> "validate", root |-> c, epoch |-> publisher[p].epoch, guards |-> guards]]
    BY <1>9 DEF PublishCapture
  <2> HIDE DEF guards
  <2>4. publisher' \in [Publishers -> Requests]
    BY <2>2, <2>3 DEF Requests, Steps
  <2>5. QED
    BY <2>1, <2>4
<1>10. ASSUME NEW p \in Publishers, PublishValidate(p) PROVE CatalogTyped'
  BY <1>10 DEF PublishValidate, Requests, Steps
<1>11. ASSUME NEW p \in Publishers, PublishRefused(p) PROVE CatalogTyped'
  BY <1>11, NoGuardsTypes DEF PublishRefused
<1>12. ASSUME NEW p \in Publishers, PublishCommit(p) PROVE CatalogTyped'
  <2> DEFINE c == publisher[p].root
  <2>1. /\ Changeable(c)
        /\ release' = [release EXCEPT ![c].status = "released", ![c].candidate = FALSE,
                                      ![c].published = TRUE, ![c].generation = @ + 1]
        /\ epoch' = epoch + 1
        /\ publisher' = [publisher EXCEPT ![p] = Idle]
        /\ UNCHANGED <<evidence, retained, drafting>>
    BY <1>12 DEF PublishCommit, Published
  <2> HIDE DEF c
  <2>2. release' \in [Releases -> Rows]
    <3>1. CASE c \in Releases
      BY <2>1, <3>1, RowTypes
    <3>2. CASE c \notin Releases
      BY <2>1, <3>2
    <3>3. QED
      BY <3>1, <3>2
  <2>3. publisher' \in [Publishers -> Requests]
    BY <2>1, NoGuardsTypes
  <2>4. QED
    BY <2>1, <2>2, <2>3
<1>13. CASE UNCHANGED catalogVars
  BY <1>13 DEF catalogVars
<1>14. QED
  BY <1>1, <1>2, <1>3, <1>4, <1>5, <1>6, <1>7, <1>8, <1>9, <1>10, <1>11, <1>12, <1>13
     DEF CatalogNext, ReleaseStep, PublishStep

-----------------------------------------------------------------------------
\* What every step does to the catalog: a row that changes gets a higher
\* generation, evidence is never lost, and what is released changes only with
\* the epoch.
Evolves ==
  /\ \A c \in Releases :
       release'[c] = release[c] \/ release[c].generation < release'[c].generation
  /\ evidence \subseteq evidence'
  /\ epoch <= epoch'
  /\ epoch' = epoch => \A c \in Releases :
       (IsReleased(c) \/ IsReleased(c)') => release'[c] = release[c]

\* One row is replaced by a row with the next generation.
LEMMA RowEvolves ==
  ASSUME CatalogTyped, CatalogTyped', NEW c \in Releases,
         \A x \in Releases \ {c} : release'[x] = release[x],
         release'[c].generation = release[c].generation + 1,
         evidence' = evidence,
         \/ epoch' = epoch /\ ~IsReleased(c) /\ ~IsReleased(c)'
         \/ epoch' = epoch + 1
  PROVE  Evolves
<1>1. \A x \in Releases : release[x].generation \in Nat
  BY CatalogAssumption DEF CatalogTyped, Rows
<1>2. epoch \in Nat
  BY DEF CatalogTyped
<1>3. \A x \in Releases : release'[x] = release[x] \/ release[x].generation < release'[x].generation
  BY <1>1
<1>4. epoch' = epoch => \A x \in Releases :
        (IsReleased(x) \/ IsReleased(x)') => release'[x] = release[x]
  BY <1>2
<1>5. QED
  BY <1>2, <1>3, <1>4 DEF Evolves

\* A step that leaves the rows, the evidence and the epoch alone.
LEMMA UnchangedEvolves ==
  ASSUME CatalogTyped, UNCHANGED <<release, epoch>>, evidence \subseteq evidence'
  PROVE  Evolves
  BY DEF Evolves, CatalogTyped

LEMMA StepEvolves ==
  ASSUME CatalogTyped, CatalogTyped', GuardsCover, [CatalogNext]_catalogVars
  PROVE  Evolves
<1> USE DEF rows, drafting
<1>0. release \in [Releases -> Rows] /\ publisher \in [Publishers -> Requests]
  BY DEF CatalogTyped
<1>1. ASSUME NEW c \in Releases, NEW d \in Contents, EditDraft(c, d) PROVE Evolves
  BY <1>0, <1>1, RowEvolves DEF EditDraft, IsDraft, IsReleased, Rows
<1>2. ASSUME NEW c \in Releases, EditCheck(c) \/ EditRefused(c) PROVE Evolves
  BY <1>2, EditFrame, UnchangedEvolves
<1>3. ASSUME NEW k \in ComponentTests, ComponentTestStep(k) PROVE Evolves
  BY <1>3, TestStepFrame, UnchangedEvolves DEF TestFrame
<1>4. ASSUME NEW c \in Releases, ShareCheck(c) PROVE Evolves
  BY <1>4, UnchangedEvolves DEF ShareCheck
<1>5. ASSUME NEW c \in Releases, NEW k \in BOOLEAN, SetReleaseCandidate(c, k) PROVE Evolves
  <2>1. /\ IsDraft(c)
        /\ release' = [release EXCEPT ![c].candidate = k, ![c].generation = @ + 1]
        /\ UNCHANGED <<evidence, epoch>>
    BY <1>5 DEF SetReleaseCandidate
  <2>2. QED
    BY <1>0, <2>1, RowEvolves DEF IsDraft, IsReleased, Rows
<1>6. ASSUME NEW c \in Releases, DeprecateComponentRelease(c) PROVE Evolves
  BY <1>0, <1>6, RowEvolves DEF DeprecateComponentRelease, Rows
<1>7. ASSUME NEW c \in Releases, RestoreDeprecatedComponentRelease(c) PROVE Evolves
  BY <1>0, <1>7, RowEvolves DEF RestoreDeprecatedComponentRelease, Rows
<1>8. ASSUME NEW p \in Publishers, PublishBegin(p) PROVE Evolves
  BY <1>8, UnchangedEvolves DEF PublishBegin
<1>9. ASSUME NEW p \in Publishers, NEW c \in Releases, PublishCapture(p, c) PROVE Evolves
  BY <1>9, UnchangedEvolves DEF PublishCapture
<1>10. ASSUME NEW p \in Publishers, PublishValidate(p) PROVE Evolves
  BY <1>10, UnchangedEvolves DEF PublishValidate
<1>11. ASSUME NEW p \in Publishers, PublishRefused(p) PROVE Evolves
  BY <1>11, UnchangedEvolves DEF PublishRefused
<1>12. ASSUME NEW p \in Publishers, PublishCommit(p) PROVE Evolves
  <2> DEFINE c == publisher[p].root
  <2>1. c \in Releases
    BY <1>0, <1>12 DEF PublishCommit, GuardsCover, Requests, Guards
  <2>2. /\ release' = [release EXCEPT ![c].status = "released", ![c].candidate = FALSE,
                                      ![c].published = TRUE, ![c].generation = @ + 1]
        /\ epoch' = epoch + 1
        /\ evidence' = evidence
    BY <1>12 DEF PublishCommit, Published
  <2> HIDE DEF c
  <2>3. QED
    BY <1>0, <2>1, <2>2, RowEvolves DEF Rows
<1>13. CASE UNCHANGED catalogVars
  BY <1>13, UnchangedEvolves DEF catalogVars
<1>14. QED
  BY <1>1, <1>2, <1>3, <1>4, <1>5, <1>6, <1>7, <1>8, <1>9, <1>10, <1>11, <1>12, <1>13
     DEF CatalogNext, ReleaseStep, PublishStep

\* The links of the released releases change only with the epoch.
LEMMA SameLinks ==
  ASSUME CatalogTyped, Evolves, epoch' = epoch
  PROVE  Links' = Links
<1>1. \A c \in Releases : IsReleased(c)' <=> IsReleased(c)
  BY DEF Evolves, IsReleased
<1>2. \A c \in Releases : IsReleased(c) => Needs(c)' = Needs(c)
  BY DEF Evolves, Needs
<1>3. QED
  BY <1>1, <1>2 DEF Links

-----------------------------------------------------------------------------
\* Of a step only its effect on the requests matters to what they captured.
Unserved == publisher' = publisher
Captures(p, c) ==
  publisher' = [publisher EXCEPT ![p] =
    [step |-> "validate", root |-> c, epoch |-> publisher[p].epoch,
     guards |-> [x \in Closure({c}, Releases) |-> release[x]]]]

LEMMA TestsAreUnserved ==
  ASSUME CatalogTyped, NEW k \in ComponentTests, ComponentTestStep(k)
  PROVE  Unserved
  BY TestStepFrame DEF TestFrame, Unserved

\* A draft that is captured comes with what it needs.
LEMMA ClosureCovers ==
  ASSUME CatalogTyped, NEW c \in Releases
  PROVE  /\ Closure({c}, Releases) \subseteq Releases
         /\ c \in Closure({c}, Releases)
         /\ Upstream[c][release[c].content] \subseteq Closure({c}, Releases)
<1>1. Upstream[c][release[c].content] \subseteq Releases
  BY CatalogAssumption DEF CatalogTyped, Rows
<1>2. \A S \in SUBSET Releases :
        ({c} \subseteq S /\ \A x \in S \cap Releases : Needs(x) \subseteq S)
          => Upstream[c][release[c].content] \subseteq S
  BY DEF Needs
<1>3. QED
  BY <1>1, <1>2 DEF Closure

\* Every step leaves the snapshots of the requests in the past.
LEMMA SnapshotsStep ==
  ASSUME CatalogTyped, CatalogTyped', GuardsCover, SnapshotsArePast, [CatalogNext]_catalogVars
  PROVE  SnapshotsArePast'
<1> USE DEF rows, drafting
<1>0. /\ Evolves
      /\ publisher \in [Publishers -> Requests]
      /\ epoch \in Nat /\ epoch' \in Nat
      /\ \A c \in Releases : release[c].generation \in Nat /\ release'[c].generation \in Nat
  BY StepEvolves, CatalogAssumption DEF CatalogTyped, Rows
<1>1. \A p \in Publishers : \A c \in DOMAIN publisher[p].guards :
        c \in Releases /\ publisher[p].guards[c].generation \in Nat
  BY <1>0, CatalogAssumption DEF Requests, Guards, Rows
<1>2. \A p \in Publishers :
        /\ publisher[p].epoch \in Nat /\ publisher[p].epoch <= epoch'
        /\ \A c \in DOMAIN publisher[p].guards :
             release'[c] = publisher[p].guards[c]
               \/ publisher[p].guards[c].generation < release'[c].generation
  <2> TAKE p \in Publishers
  <2>1. publisher[p].epoch \in Nat /\ publisher[p].epoch <= epoch'
    BY <1>0 DEF SnapshotsArePast, Requests, Evolves
  <2>2. ASSUME NEW c \in DOMAIN publisher[p].guards
        PROVE  release'[c] = publisher[p].guards[c]
                 \/ publisher[p].guards[c].generation < release'[c].generation
    <3>1. release[c] = publisher[p].guards[c]
            \/ publisher[p].guards[c].generation < release[c].generation
      BY DEF SnapshotsArePast
    <3>2. release'[c] = release[c] \/ release[c].generation < release'[c].generation
      BY <1>0, <1>1 DEF Evolves
    <3>3. QED
      BY <1>0, <1>1, <3>1, <3>2
  <2>3. QED
    BY <2>1, <2>2
<1>3. CASE Unserved
  BY <1>2, <1>3 DEF Unserved, SnapshotsArePast
<1>4. ASSUME NEW p \in Publishers, PublishBegin(p) PROVE SnapshotsArePast'
  BY <1>0, <1>2, <1>4 DEF PublishBegin, SnapshotsArePast, Requests
<1>5. ASSUME NEW p \in Publishers, NEW c \in Releases, PublishCapture(p, c) PROVE SnapshotsArePast'
  <2>1. Captures(p, c) /\ release' = release
    BY <1>5 DEF PublishCapture, Captures
  <2>2. ASSUME NEW q \in Publishers
        PROVE  /\ publisher'[q].epoch <= epoch'
               /\ \A x \in DOMAIN publisher'[q].guards :
                    release'[x] = publisher'[q].guards[x]
                      \/ publisher'[q].guards[x].generation < release'[x].generation
    BY <1>0, <1>2, <2>1 DEF Captures
  <2>3. QED
    BY <2>2 DEF SnapshotsArePast
<1>6. ASSUME NEW p \in Publishers, PublishValidate(p) PROVE SnapshotsArePast'
  BY <1>0, <1>2, <1>6 DEF PublishValidate, SnapshotsArePast, Requests
<1>7. ASSUME NEW p \in Publishers, publisher' = [publisher EXCEPT ![p] = Idle]
      PROVE  SnapshotsArePast'
  BY <1>0, <1>2, <1>7 DEF SnapshotsArePast, Idle, NoGuards
<1>8. QED
  BY <1>3, <1>4, <1>5, <1>6, <1>7, TestsAreUnserved
     DEF Unserved, CatalogNext, ReleaseStep, PublishStep, EditDraft, EditCheck, EditRefused, ShareCheck,
         SetReleaseCandidate, DeprecateComponentRelease, RestoreDeprecatedComponentRelease,
         PublishRefused, PublishCommit, Published, catalogVars

\* Every step keeps the guards of a request complete.
LEMMA CoverStep ==
  ASSUME CatalogTyped, GuardsCover, [CatalogNext]_catalogVars
  PROVE  GuardsCover'
<1> USE DEF rows, drafting
<1>0. publisher \in [Publishers -> Requests]
  BY DEF CatalogTyped
<1>1. CASE Unserved
  BY <1>1 DEF Unserved, GuardsCover
<1>2. ASSUME NEW p \in Publishers, PublishBegin(p) PROVE GuardsCover'
  BY <1>0, <1>2, ZenonT(60) DEF PublishBegin, GuardsCover, Requests
<1>3. ASSUME NEW p \in Publishers, NEW c \in Releases, PublishCapture(p, c) PROVE GuardsCover'
  <2>1. Captures(p, c) /\ release[c].status = "draft"
    BY <1>3 DEF PublishCapture, Captures, IsDraft
  <2>2. QED
    BY <1>0, <2>1, ClosureCovers DEF Captures, GuardsCover
<1>4. ASSUME NEW p \in Publishers, PublishValidate(p) PROVE GuardsCover'
  BY <1>0, <1>4, ZenonT(60) DEF PublishValidate, GuardsCover, Requests
<1>5. ASSUME NEW p \in Publishers, publisher' = [publisher EXCEPT ![p] = Idle]
      PROVE  GuardsCover'
  BY <1>0, <1>5 DEF GuardsCover, Idle
<1>6. QED
  BY <1>1, <1>2, <1>3, <1>4, <1>5, TestsAreUnserved
     DEF Unserved, CatalogNext, ReleaseStep, PublishStep, EditDraft, EditCheck, EditRefused, ShareCheck,
         SetReleaseCandidate, DeprecateComponentRelease, RestoreDeprecatedComponentRelease,
         PublishRefused, PublishCommit, Published, catalogVars

\* What one request has validated stays true or is seen to be outdated.
Holds(p, u) ==
  LET c == publisher[p].root
      guards == publisher[p].guards IN
  /\ release[u] = guards[u] => IsReleased(u)
  /\ publisher[p].epoch = epoch => ~PathExists(Links, ComponentOf[u], ComponentOf[c])

LEMMA HoldsOn ==
  ASSUME CatalogTyped, CatalogTyped', GuardsCover, SnapshotsArePast, Evolves,
         NEW p \in Publishers, publisher[p].step = "commit", publisher'[p] = publisher[p],
         NEW u \in Upstream[publisher[p].root][publisher[p].guards[publisher[p].root].content],
         Holds(p, u)
  PROVE  Holds(p, u)'
<1>0. /\ publisher[p] \in Requests
      /\ epoch \in Nat /\ epoch' \in Nat
  BY DEF CatalogTyped
<1>1. u \in Releases /\ u \in DOMAIN publisher[p].guards
  BY <1>0 DEF GuardsCover, Requests, Guards
<1>2. publisher[p].guards[u].generation \in Nat /\ release[u].generation \in Nat
        /\ release'[u].generation \in Nat
  BY <1>0, <1>1, CatalogAssumption DEF CatalogTyped, Requests, Guards, Rows
<1>3. release[u] = publisher[p].guards[u]
        \/ publisher[p].guards[u].generation < release[u].generation
  BY <1>1 DEF SnapshotsArePast
<1>4. release'[u] = publisher'[p].guards[u] => release'[u] = release[u]
  BY <1>0, <1>1, <1>2, <1>3 DEF Evolves
<1>5. release'[u] = publisher'[p].guards[u] => IsReleased(u)'
  BY <1>4 DEF Holds, IsReleased
<1>6. publisher'[p].epoch = epoch' => epoch' = epoch
  BY <1>0 DEF SnapshotsArePast, Evolves, Requests
<1>7. publisher'[p].epoch = epoch'
        => ~PathExists(Links', ComponentOf[u], ComponentOf[publisher'[p].root])
  <2> SUFFICES ASSUME publisher'[p].epoch = epoch'
               PROVE  ~PathExists(Links', ComponentOf[u], ComponentOf[publisher'[p].root])
    OBVIOUS
  <2>1. Links' = Links
    BY <1>0, <1>6, SameLinks
  <2>2. ~PathExists(Links, ComponentOf[u], ComponentOf[publisher[p].root])
    BY <1>6 DEF Holds
  <2>3. QED
    BY <2>1, <2>2
<1>8. QED
  BY <1>5, <1>7 DEF Holds, PathExists

\* Any step that serves no request, of this module or of one that extends it, leaves
\* what the requests know intact if rows only evolve.
LEMMA UnservedStep ==
  ASSUME CatalogTyped, CatalogTyped', GuardsCover, SnapshotsArePast, ValidatedOrOutdated,
         Evolves, Unserved
  PROVE  SnapshotsArePast' /\ GuardsCover' /\ ValidatedOrOutdated'
<1>0. /\ publisher \in [Publishers -> Requests] /\ publisher' = publisher
      /\ epoch \in Nat /\ epoch' \in Nat
      /\ \A c \in Releases : release[c].generation \in Nat /\ release'[c].generation \in Nat
  BY CatalogAssumption DEF CatalogTyped, Rows, Unserved
<1>1. SnapshotsArePast'
  <2>1. \A p \in Publishers : \A c \in DOMAIN publisher[p].guards :
          c \in Releases /\ publisher[p].guards[c].generation \in Nat
    BY <1>0, CatalogAssumption DEF Requests, Guards, Rows
  <2>2. ASSUME NEW p \in Publishers
        PROVE  /\ publisher[p].epoch <= epoch'
               /\ \A c \in DOMAIN publisher[p].guards :
                    release'[c] = publisher[p].guards[c]
                      \/ publisher[p].guards[c].generation < release'[c].generation
    <3>1. publisher[p].epoch <= epoch'
      BY <1>0 DEF SnapshotsArePast, Requests, Evolves
    <3>2. ASSUME NEW c \in DOMAIN publisher[p].guards
          PROVE  release'[c] = publisher[p].guards[c]
                   \/ publisher[p].guards[c].generation < release'[c].generation
      <4>1. release[c] = publisher[p].guards[c]
              \/ publisher[p].guards[c].generation < release[c].generation
        BY DEF SnapshotsArePast
      <4>2. release'[c] = release[c] \/ release[c].generation < release'[c].generation
        BY <2>1 DEF Evolves
      <4>3. QED
        BY <1>0, <2>1, <4>1, <4>2
    <3>3. QED
      BY <3>1, <3>2
  <2>3. QED
    BY <1>0, <2>2 DEF SnapshotsArePast
<1>2. GuardsCover'
  BY <1>0 DEF GuardsCover
<1>3. ASSUME NEW p \in Publishers, publisher[p].step = "commit"
      PROVE  LET c == publisher[p].root
                 guards == publisher[p].guards IN
             /\ \E x \in Contents : <<c, guards[c].content, x>> \in evidence'
             /\ \A u \in Upstream[c][guards[c].content] : Holds(p, u)'
  <2>1. /\ EvidenceFor(publisher[p].root, publisher[p].guards[publisher[p].root].content)
        /\ \A u \in Upstream[publisher[p].root][publisher[p].guards[publisher[p].root].content] :
             Holds(p, u)
    BY <1>3 DEF ValidatedOrOutdated, Holds
  <2>2. QED
    BY <1>0, <1>3, <2>1, HoldsOn DEF Evolves, EvidenceFor
<1>4. ValidatedOrOutdated'
  BY <1>0, <1>3 DEF ValidatedOrOutdated, Holds, EvidenceFor
<1>5. QED
  BY <1>1, <1>2, <1>4

\* Every step keeps what the requests have validated, unless it outdates it.
LEMMA ValidatedStep ==
  ASSUME CatalogTyped, CatalogTyped', GuardsCover, SnapshotsArePast, ValidatedOrOutdated,
         [CatalogNext]_catalogVars
  PROVE  ValidatedOrOutdated'
<1> USE DEF rows, drafting
<1>0. /\ Evolves
      /\ publisher \in [Publishers -> Requests]
  BY StepEvolves DEF CatalogTyped
<1>1. SUFFICES ASSUME NEW p \in Publishers, publisher'[p].step = "commit"
      PROVE  LET c == publisher'[p].root
                 guards == publisher'[p].guards IN
             /\ \E x \in Contents : <<c, guards[c].content, x>> \in evidence'
             /\ \A u \in Upstream[c][guards[c].content] : Holds(p, u)'
  BY DEF ValidatedOrOutdated, Holds, EvidenceFor
<1>2. CASE publisher'[p] = publisher[p]
  <2> DEFINE c == publisher[p].root
             guards == publisher[p].guards
  <2>1. /\ EvidenceFor(c, guards[c].content)
        /\ \A u \in Upstream[c][guards[c].content] : Holds(p, u)
    BY <1>1, <1>2 DEF ValidatedOrOutdated, Holds
  <2>2. \A u \in Upstream[c][guards[c].content] : Holds(p, u)'
    BY <1>0, <1>1, <1>2, <2>1, HoldsOn
  <2>3. \E x \in Contents : <<c, guards[c].content, x>> \in evidence'
    BY <1>0, <2>1 DEF Evolves, EvidenceFor
  <2>4. QED
    BY <1>2, <2>2, <2>3
<1>3. CASE PublishValidate(p)
  <2> DEFINE c == publisher[p].root
             content == publisher[p].guards[c].content
  <2>1. /\ EvidenceFor(c, content)
        /\ \A u \in Upstream[c][content] :
             IsReleased(u) /\ ~PathExists(Links, ComponentOf[u], ComponentOf[c])
        /\ UNCHANGED <<release, evidence, epoch>>
        /\ publisher'[p] = [publisher[p] EXCEPT !.step = "commit"]
    BY <1>0, <1>3 DEF PublishValidate
  <2>2. publisher'[p].root = c /\ publisher'[p].guards = publisher[p].guards
    BY <1>0, <2>1 DEF Requests
  <2>3. Links' = Links
    BY <2>1 DEF Links, IsReleased, Needs
  <2>4. \A u \in Upstream[c][content] : IsReleased(u)' /\ ~PathExists(Links', ComponentOf[u], ComponentOf[c])
    BY <2>1, <2>3 DEF IsReleased
  <2>5. QED
    BY <2>1, <2>2, <2>4 DEF Holds, PathExists, EvidenceFor
<1>4. ASSUME NEW q \in Publishers, q # p, publisher'[p] # publisher[p] PROVE ~PublishStep(q)
  BY <1>0, <1>4 DEF PublishStep, PublishBegin, PublishCapture, PublishValidate, PublishRefused,
                    PublishCommit, Published
<1>5. PublishStep(p) => PublishValidate(p)
  <2>1. ~PublishBegin(p)
    BY <1>0, <1>1 DEF PublishBegin, Requests
  <2>2. \A c \in Releases : ~PublishCapture(p, c)
    BY <1>0, <1>1 DEF PublishCapture
  <2>3. publisher'[p] # Idle
    BY <1>1 DEF Idle
  <2>4. ~PublishRefused(p) /\ ~PublishCommit(p)
    BY <1>0, <2>3 DEF PublishRefused, PublishCommit, Published
  <2>5. QED
    BY <2>1, <2>2, <2>4 DEF PublishStep
<1>6. (\E c \in Releases : ReleaseStep(c)) \/ UNCHANGED catalogVars => publisher' = publisher
  BY DEF ReleaseStep, EditDraft, EditCheck, EditRefused, ShareCheck, SetReleaseCandidate,
         DeprecateComponentRelease, RestoreDeprecatedComponentRelease, catalogVars
<1>7. QED
  BY <1>2, <1>3, <1>4, <1>5, <1>6, TestsAreUnserved DEF Unserved, CatalogNext

-----------------------------------------------------------------------------
\* What a commit finds: the draft is the one that was captured, with its evidence, and
\* what it needs is released and leads nowhere back to it.
LEMMA CommitFinds ==
  ASSUME CatalogTyped, GuardsCover, ValidatedOrOutdated, NEW p \in Publishers, PublishCommit(p)
  PROVE  LET c == publisher[p].root IN
         /\ c \in Releases /\ IsDraft(c) /\ HasEvidence(c)
         /\ \A u \in Upstream[c][release[c].content] :
              IsReleased(u) /\ ~PathExists(Links, ComponentOf[u], ComponentOf[c])
<1> DEFINE c == publisher[p].root
           guards == publisher[p].guards
<1>1. publisher[p] \in Requests /\ publisher[p].step = "commit" /\ publisher[p].epoch = epoch
  BY DEF CatalogTyped, PublishCommit
<1>2. \A x \in DOMAIN guards : x \in Releases /\ guards[x] = release[x]
  BY <1>1 DEF PublishCommit, GuardsHold, Requests, Guards
<1>3. /\ c \in DOMAIN guards /\ guards[c].status = "draft"
      /\ Upstream[c][guards[c].content] \subseteq DOMAIN guards
  BY <1>1 DEF GuardsCover
<1>4. /\ EvidenceFor(c, guards[c].content)
      /\ \A u \in Upstream[c][guards[c].content] :
           /\ release[u] = guards[u] => IsReleased(u)
           /\ publisher[p].epoch = epoch => ~PathExists(Links, ComponentOf[u], ComponentOf[c])
  BY <1>1 DEF ValidatedOrOutdated
<1>5. guards[c] = release[c]
  BY <1>2, <1>3
<1>6. QED
  BY <1>1, <1>2, <1>3, <1>4, <1>5 DEF IsDraft, HasEvidence, EvidenceFor

\* A draft becomes released only by a commit that publishes it.
LEMMA OnlyCommitsPublish ==
  ASSUME CatalogTyped, GuardsCover, ValidatedOrOutdated, [CatalogNext]_catalogVars,
         NEW c \in Releases, IsDraft(c), release'[c].status = "released"
  PROVE  \E p \in Publishers :
           PublishCommit(p) /\ publisher[p].root = c /\ release'[c].content = release[c].content
<1> USE DEF rows, drafting, CatalogTyped, IsDraft
<1>1. ASSUME NEW x \in Releases, ReleaseStep(x) PROVE FALSE
  <2>1. \A d \in Contents : ~EditDraft(x, d)
    BY DEF EditDraft, Rows
  <2>2. ~SetReleaseCandidate(x, TRUE) /\ ~SetReleaseCandidate(x, FALSE)
    BY DEF SetReleaseCandidate, Rows
  <2>3. ~DeprecateComponentRelease(x) /\ ~RestoreDeprecatedComponentRelease(x)
    BY DEF DeprecateComponentRelease, RestoreDeprecatedComponentRelease, Rows
  <2>4. ~EditCheck(x) /\ ~EditRefused(x) /\ ~ShareCheck(x)
    BY DEF EditCheck, EditRefused, ShareCheck
  <2>5. QED
    BY <1>1, <2>1, <2>2, <2>3, <2>4 DEF ReleaseStep
<1>2. ASSUME NEW p \in Publishers, PublishStep(p)
      PROVE  PublishCommit(p) /\ publisher[p].root = c /\ release'[c].content = release[c].content
  <2>1. PublishCommit(p)
    BY <1>2 DEF PublishStep, PublishBegin, PublishCapture, PublishValidate, PublishRefused
  <2>2. publisher[p].root \in Releases
    BY <2>1, CommitFinds
  <2>3. publisher[p].root = c /\ release'[c].content = release[c].content
    BY <2>1, <2>2 DEF PublishCommit, Published, Rows
  <2>4. QED
    BY <2>1, <2>3
<1>3. ~UNCHANGED catalogVars
  BY DEF catalogVars
<1>4. ASSUME NEW k \in ComponentTests, ComponentTestStep(k) PROVE FALSE
  BY <1>4, TestStepFrame DEF TestFrame
<1>5. QED
  BY <1>1, <1>2, <1>3, <1>4 DEF CatalogNext

\* Every step keeps the evidence of what is published.
LEMMA PublishedStep ==
  ASSUME CatalogTyped, CatalogTyped', PublishedHasEvidence, PublishedIsNoDraft, GuardsCover,
         ValidatedOrOutdated, [CatalogNext]_catalogVars
  PROVE  PublishedHasEvidence' /\ PublishedIsNoDraft'
<1> USE DEF rows, drafting
<1>0. release \in [Releases -> Rows] /\ evidence \subseteq evidence'
  BY StepEvolves DEF CatalogTyped, Evolves
<1> DEFINE Kept(c) == release'[c].published =>
             release'[c].status # "draft"
               /\ \E x \in Contents : <<c, release'[c].content, x>> \in evidence'
<1>1. \A c \in Releases : release'[c] = release[c] => Kept(c)
  BY <1>0 DEF PublishedHasEvidence, PublishedIsNoDraft, IsDraft, HasEvidence, EvidenceFor
<1>2. SUFFICES \A c \in Releases : Kept(c)
  BY DEF PublishedHasEvidence, PublishedIsNoDraft, IsDraft, HasEvidence, EvidenceFor
<1>3. ASSUME NEW c \in Releases, NEW d \in Contents, EditDraft(c, d)
      PROVE  \A x \in Releases : Kept(x)
  BY <1>0, <1>1, <1>3 DEF EditDraft, PublishedIsNoDraft, IsDraft, Rows
<1>4. ASSUME NEW c \in Releases, NEW k \in BOOLEAN, SetReleaseCandidate(c, k)
      PROVE  \A x \in Releases : Kept(x)
  <2>1. IsDraft(c) /\ release' = [release EXCEPT ![c].candidate = k, ![c].generation = @ + 1]
    BY <1>4 DEF SetReleaseCandidate
  <2>2. QED
    BY <1>0, <1>1, <2>1 DEF PublishedIsNoDraft, Rows
<1>5. ASSUME NEW c \in Releases, DeprecateComponentRelease(c)
      PROVE  \A x \in Releases : Kept(x)
  BY <1>0, <1>1, <1>5 DEF DeprecateComponentRelease, PublishedHasEvidence, HasEvidence, EvidenceFor, Rows
<1>6. ASSUME NEW c \in Releases, RestoreDeprecatedComponentRelease(c)
      PROVE  \A x \in Releases : Kept(x)
  BY <1>0, <1>1, <1>6 DEF RestoreDeprecatedComponentRelease, Rows
<1>7. ASSUME NEW p \in Publishers, PublishCommit(p)
      PROVE  \A x \in Releases : Kept(x)
  <2> DEFINE c == publisher[p].root
  <2>1. c \in Releases /\ HasEvidence(c)
    BY <1>7, CommitFinds
  <2>2. release' = [release EXCEPT ![c].status = "released", ![c].candidate = FALSE,
                                   ![c].published = TRUE, ![c].generation = @ + 1]
    BY <1>7 DEF PublishCommit, Published
  <2> HIDE DEF c
  <2>3. QED
    BY <1>0, <1>1, <2>1, <2>2 DEF HasEvidence, EvidenceFor, Rows
<1>8. CASE release' = release
  BY <1>1, <1>8
<1>9. ASSUME NEW k \in ComponentTests, ComponentTestStep(k) PROVE release' = release
  BY <1>9, TestStepFrame DEF TestFrame
<1>10. QED
  BY <1>3, <1>4, <1>5, <1>6, <1>7, <1>8, <1>9
     DEF CatalogNext, ReleaseStep, PublishStep, EditCheck, EditRefused, ShareCheck, PublishBegin,
         PublishCapture, PublishValidate, PublishRefused, catalogVars

\* It holds from the start ...
LEMMA CatalogInitHolds == CatalogInit => CatalogInv
<1> SUFFICES ASSUME CatalogInit PROVE CatalogInv
  OBVIOUS
<1>1. CatalogTyped
  BY CatalogAssumption, NoGuardsTypes
     DEF CatalogInit, CatalogTyped, Rows, TestTable, TestSteps, NoComponentTest
<1>2. PublishedHasEvidence /\ PublishedIsNoDraft
  BY CatalogAssumption DEF CatalogInit, PublishedHasEvidence, PublishedIsNoDraft, IsDraft, HasEvidence, EvidenceFor
<1>3. SnapshotsArePast /\ GuardsCover /\ ValidatedOrOutdated
  BY DEF CatalogInit, SnapshotsArePast, GuardsCover, ValidatedOrOutdated, Idle, NoGuards
<1>4. QED
  BY <1>1, <1>2, <1>3 DEF CatalogInv

\* ... and every step keeps it.
LEMMA InvariantHolds == CatalogSpec => []CatalogInv
<1>1. CatalogInv /\ [CatalogNext]_catalogVars => CatalogInv'
  <2> SUFFICES ASSUME CatalogInv, [CatalogNext]_catalogVars PROVE CatalogInv'
    OBVIOUS
  <2> USE DEF CatalogInv
  <2>1. CatalogTyped'
    BY TypeStep
  <2>2. PublishedHasEvidence' /\ PublishedIsNoDraft'
    BY <2>1, PublishedStep
  <2>3. SnapshotsArePast' /\ GuardsCover' /\ ValidatedOrOutdated'
    BY <2>1, SnapshotsStep, CoverStep, ValidatedStep
  <2>4. QED
    BY <2>1, <2>2, <2>3
<1>2. QED
  BY <1>1, CatalogInitHolds, PTL DEF CatalogSpec

-----------------------------------------------------------------------------
\* The catalog is well formed in every state.
THEOREM CatalogTypeCorrect == CatalogSpec => []CatalogTypeOK
<1>1. CatalogInv => CatalogTypeOK
  BY TypedIsTypeOK DEF CatalogInv
<1>2. QED
  BY <1>1, InvariantHolds, PTL

\* A published release has a successful test on record about the content it has,
\* whatever was edited while its publication was under way.
THEOREM PublishedReleasesHaveEvidence == CatalogSpec => []PublishedHasEvidence
<1>1. CatalogInv => PublishedHasEvidence
  BY DEF CatalogInv
<1>2. QED
  BY <1>1, InvariantHolds, PTL

\* At the moment a release is published everything it needs is released.
THEOREM PublicationsStandOnReleased == CatalogSpec => PublishesOnReleased
<1>1. CatalogInv /\ [CatalogNext]_catalogVars =>
        [\A c \in Releases : (IsDraft(c) /\ IsReleased(c)') =>
           \A u \in Upstream[c][release'[c].content] : IsReleased(u)']_release
  <2> SUFFICES ASSUME CatalogInv, [CatalogNext]_catalogVars, NEW c \in Releases,
                      IsDraft(c), IsReleased(c)'
               PROVE  \A u \in Upstream[c][release'[c].content] : IsReleased(u)'
    OBVIOUS
  <2> USE DEF CatalogInv
  <2>1. PICK p \in Publishers :
          PublishCommit(p) /\ publisher[p].root = c /\ release'[c].content = release[c].content
    BY OnlyCommitsPublish DEF IsReleased
  <2>2. \A u \in Upstream[c][release'[c].content] : IsReleased(u)
    BY <2>1, CommitFinds
  <2>3. \A u \in Releases : u # c => release'[u] = release[u]
    BY <2>1 DEF PublishCommit, Published, CatalogTyped
  <2>4. Upstream[c][release[c].content] \subseteq Releases
    BY CatalogAssumption DEF CatalogTyped, Rows
  <2>5. QED
    BY <2>1, <2>2, <2>3, <2>4 DEF IsReleased
<1>2. QED
  BY <1>1, InvariantHolds, PTL DEF CatalogSpec, PublishesOnReleased

\* Publications side by side close no cycle of components.
THEOREM PublicationsCloseNoCycle == CatalogSpec => NoCycleClosed
<1>1. CatalogInv /\ [CatalogNext]_catalogVars =>
        [\A c \in Releases : (IsDraft(c) /\ IsReleased(c)') =>
           \A u \in Upstream[c][release'[c].content] :
             ~PathExists(Links, ComponentOf[u], ComponentOf[c])]_release
  <2> SUFFICES ASSUME CatalogInv, [CatalogNext]_catalogVars, NEW c \in Releases,
                      IsDraft(c), IsReleased(c)'
               PROVE  \A u \in Upstream[c][release'[c].content] :
                        ~PathExists(Links, ComponentOf[u], ComponentOf[c])
    OBVIOUS
  <2> USE DEF CatalogInv
  <2>1. PICK p \in Publishers :
          PublishCommit(p) /\ publisher[p].root = c /\ release'[c].content = release[c].content
    BY OnlyCommitsPublish DEF IsReleased
  <2>2. QED
    BY <2>1, CommitFinds
<1>2. QED
  BY <1>1, InvariantHolds, PTL DEF CatalogSpec, NoCycleClosed

---------------------------------------------------------------------------
(* Refinement: ReleaseCatalog implements AtomicPublication. The optimistic *)
(* protocol of a direct publication is indistinguishable from one that     *)
(* locks the whole catalog.                                                *)


\* The visible part of one row.
Visible(r) ==
  [status |-> r.status, candidate |-> r.candidate, content |-> r.content, published |-> r.published]

LEMMA VisibleParts ==
  ASSUME NEW c \in Releases
  PROVE  /\ VisibleRow[c] = Visible(release[c])
         /\ VisibleRow'[c] = Visible(release'[c])
         /\ VisibleRow[c].status = release[c].status
         /\ VisibleRow[c].content = release[c].content
         /\ VisibleRow[c].published = release[c].published
  BY DEF VisibleRow, Visible

\* A step that replaces the row of c replaces its visible part and no other.
LEMMA VisibleStep ==
  ASSUME NEW c \in Releases, NEW v, Visible(release'[c]) = v,
         \A x \in Releases \ {c} : release'[x] = release[x]
  PROVE  VisibleRow' = [VisibleRow EXCEPT ![c] = v]
  BY DEF VisibleRow, Visible

\* The abstract queries are those of the code.
LEMMA SameQueries ==
  ASSUME CatalogTyped
  PROVE  /\ \A c \in Releases : /\ Atomic!Draft(c) <=> IsDraft(c)
                                /\ Atomic!Released(c) <=> IsReleased(c)
                                /\ Atomic!Needed(c) = Needs(c)
         /\ Atomic!ReleasedLinks = Links
<1>1. ASSUME NEW c \in Releases
      PROVE  /\ Atomic!Draft(c) <=> IsDraft(c)
             /\ Atomic!Released(c) <=> IsReleased(c)
             /\ Atomic!Needed(c) = Needs(c)
  BY VisibleParts DEF Atomic!Draft, Atomic!Released, Atomic!Needed, IsDraft, IsReleased, Needs
<1>2. Atomic!ReleasedLinks = Links
  BY <1>1 DEF Atomic!ReleasedLinks, Links
<1>3. QED
  BY <1>1, <1>2

LEMMA SubjectsOfRecord ==
  ASSUME CatalogTyped, NEW c \in Releases, HasEvidence(c)
  PROVE  <<c, VisibleRow[c].content>> \in Subjects
<1>1. PICK x \in Contents : <<c, release[c].content, x>> \in evidence
  BY DEF HasEvidence, EvidenceFor
<1>2. <<c, release[c].content>> \in Subjects
  BY <1>1 DEF Subjects
<1>3. QED
  BY <1>2, VisibleParts

LEMMA SubjectsGrow ==
  ASSUME NEW c, NEW d, NEW x, evidence' = evidence \cup {<<c, d, x>>}
  PROVE  Subjects' = Subjects \cup {<<c, d>>}
<1>1. ASSUME NEW s, s \in Subjects' PROVE s \in Subjects \/ s = <<c, d>>
  BY <1>1 DEF Subjects
<1>2. ASSUME NEW s, s \in Subjects PROVE s \in Subjects'
  BY <1>2 DEF Subjects
<1>3. <<c, d>> \in Subjects'
  <2>1. <<c, d, x>> \in evidence'
    OBVIOUS
  <2>2. <<c, d, x>>[1] = c /\ <<c, d, x>>[2] = d
    OBVIOUS
  <2>3. \E t \in evidence' : <<c, d>> = <<t[1], t[2]>>
    BY <2>1, <2>2
  <2>4. QED
    BY <2>3 DEF Subjects
<1>4. QED
  BY <1>1, <1>2, <1>3

\* A step that readers do not see.
Hidden == UNCHANGED <<VisibleRow, Subjects>>
LEMMA UnchangedIsHidden ==
  ASSUME UNCHANGED <<release, evidence>>
  PROVE  Hidden
  BY DEF Hidden, VisibleRow, Subjects

\* The steps of a draft and of its component tests, one by one.
LEMMA DraftSteps ==
  ASSUME CatalogTyped, NEW c \in Releases, ReleaseStep(c)
  PROVE  Atomic!DirectNext \/ Hidden
<1> USE DEF rows, drafting
<1>0. release \in [Releases -> Rows] /\ VisibleRow = [x \in Releases |-> Visible(release[x])]
  BY DEF CatalogTyped, VisibleRow, Visible
<1>1. ASSUME NEW d \in Contents, EditDraft(c, d) PROVE Atomic!Edit(c, d)
  <2>1. /\ IsDraft(c)
        /\ release' = [release EXCEPT ![c].content = d, ![c].candidate = FALSE, ![c].generation = @ + 1]
        /\ evidence' = evidence
    BY <1>1 DEF EditDraft
  <2>2. Visible(release'[c]) = [Visible(release[c]) EXCEPT !.content = d, !.candidate = FALSE]
    BY <1>0, <2>1 DEF Visible, Rows
  <2>3. VisibleRow' = [VisibleRow EXCEPT ![c] = [@ EXCEPT !.content = d, !.candidate = FALSE]]
    BY <1>0, <2>1, <2>2, VisibleStep
  <2>4. QED
    BY <2>1, <2>3, SameQueries DEF Atomic!Edit, Subjects
<1>2. CASE EditCheck(c) \/ EditRefused(c) \/ ShareCheck(c)
  BY <1>2, UnchangedIsHidden DEF EditCheck, EditRefused, ShareCheck
<1>3. ASSUME NEW k \in BOOLEAN, SetReleaseCandidate(c, k) PROVE Atomic!Offer(c, k)
  <2>1. /\ IsDraft(c)
        /\ release' = [release EXCEPT ![c].candidate = k, ![c].generation = @ + 1]
        /\ evidence' = evidence
    BY <1>3 DEF SetReleaseCandidate
  <2>2. Visible(release'[c]) = [Visible(release[c]) EXCEPT !.candidate = k]
    BY <1>0, <2>1 DEF Visible, Rows
  <2>3. VisibleRow' = [VisibleRow EXCEPT ![c] = [@ EXCEPT !.candidate = k]]
    BY <1>0, <2>1, <2>2, VisibleStep
  <2>4. QED
    BY <2>1, <2>3, SameQueries DEF Atomic!Offer, Subjects
<1>4. CASE DeprecateComponentRelease(c)
  <2>1. /\ IsDraft(c) \/ IsReleased(c)
        /\ release' = [release EXCEPT ![c].status = "deprecated", ![c].candidate = FALSE,
                                      ![c].generation = @ + 1]
        /\ evidence' = evidence
    BY <1>4 DEF DeprecateComponentRelease
  <2>2. Visible(release'[c]) = [Visible(release[c]) EXCEPT !.status = "deprecated", !.candidate = FALSE]
    BY <1>0, <2>1 DEF Visible, Rows
  <2>3. VisibleRow' = [VisibleRow EXCEPT ![c] = [@ EXCEPT !.status = "deprecated", !.candidate = FALSE]]
    BY <1>0, <2>1, <2>2, VisibleStep
  <2>4. Atomic!Withdraw(c)
    BY <2>1, <2>3, SameQueries DEF Atomic!Withdraw, Subjects
  <2>5. QED
    BY <2>4 DEF Atomic!DirectNext
<1>5. CASE RestoreDeprecatedComponentRelease(c)
  <2>1. /\ release[c].status = "deprecated" /\ ~release[c].published
        /\ release' = [release EXCEPT ![c].status = "draft", ![c].candidate = FALSE,
                                      ![c].generation = @ + 1]
        /\ evidence' = evidence
    BY <1>5 DEF RestoreDeprecatedComponentRelease
  <2>2. Visible(release'[c]) = [Visible(release[c]) EXCEPT !.status = "draft", !.candidate = FALSE]
    BY <1>0, <2>1 DEF Visible, Rows
  <2>3. VisibleRow' = [VisibleRow EXCEPT ![c] = [@ EXCEPT !.status = "draft", !.candidate = FALSE]]
    BY <1>0, <2>1, <2>2, VisibleStep
  <2>4. Atomic!Restore(c)
    BY <2>1, <2>3, VisibleParts DEF Atomic!Restore, Subjects
  <2>5. QED
    BY <2>4 DEF Atomic!DirectNext
<1>6. (\E d \in Contents : EditDraft(c, d)) => Atomic!DirectNext
  BY <1>1 DEF Atomic!DirectNext
<1>7. SetReleaseCandidate(c, TRUE) \/ SetReleaseCandidate(c, FALSE) => Atomic!DirectNext
  BY <1>3 DEF Atomic!DirectNext
<1>8. QED
  BY <1>2, <1>4, <1>5, <1>6, <1>7 DEF ReleaseStep

\* The end of a test that succeeded is the only one of its steps that is seen.
LEMMA ComponentTestSteps ==
  ASSUME CatalogTyped, NEW k \in ComponentTests, ComponentTestStep(k)
  PROVE  Atomic!DirectNext \/ Hidden
<1> USE DEF rows, drafting
<1>1. CASE PassComponentTest(k)
  <2> DEFINE c == ctest[k].release
             d == ctest[k].subject
             x == ctest[k].plan
  <2>1. c \in Releases /\ d \in Contents
    BY <1>1 DEF PassComponentTest, CatalogTyped, TestTable
  <2>2. evidence' = evidence \cup {<<c, d, x>>} /\ release' = release
    BY <1>1 DEF PassComponentTest
  <2> HIDE DEF c, d, x
  <2>3. Subjects' = Subjects \cup {<<c, d>>}
    BY <2>2, SubjectsGrow
  <2>4. Atomic!Pass(c, d)
    BY <2>2, <2>3 DEF Atomic!Pass, VisibleRow
  <2>5. QED
    BY <2>1, <2>4 DEF Atomic!DirectNext
<1>2. CASE ~PassComponentTest(k)
  BY <1>2, UnchangedIsHidden
     DEF ComponentTestStep, PlanComponentTest, StampComponentTest, CreateComponentTest,
         StartComponentTest, EndComponentTest
<1>3. QED
  BY <1>1, <1>2

\* Of a publication only the commit is seen, and it finds what it asks for.
LEMMA PublicationSteps ==
  ASSUME CatalogInv, NEW p \in Publishers, PublishStep(p)
  PROVE  Atomic!DirectNext \/ Hidden
<1> USE DEF rows, drafting, CatalogInv
<1>0. release \in [Releases -> Rows] /\ VisibleRow = [x \in Releases |-> Visible(release[x])]
  BY DEF CatalogTyped, VisibleRow, Visible
<1>1. CASE PublishCommit(p)
  <2> DEFINE c == publisher[p].root
  <2>1. /\ c \in Releases /\ IsDraft(c) /\ HasEvidence(c)
        /\ \A u \in Upstream[c][release[c].content] :
             IsReleased(u) /\ ~PathExists(Links, ComponentOf[u], ComponentOf[c])
    BY <1>1, CommitFinds
  <2>2. /\ release' = [release EXCEPT ![c].status = "released", ![c].candidate = FALSE,
                                      ![c].published = TRUE, ![c].generation = @ + 1]
        /\ evidence' = evidence
    BY <1>1 DEF PublishCommit, Published
  <2> HIDE DEF c
  <2>3. Visible(release'[c]) = Atomic!AsReleased(Visible(release[c]))
    BY <1>0, <2>1, <2>2 DEF Visible, Rows, Atomic!AsReleased
  <2>4. VisibleRow' = [VisibleRow EXCEPT ![c] = Atomic!AsReleased(@)]
    BY <1>0, <2>1, <2>2, <2>3, VisibleStep
  <2>5. Upstream[c][release[c].content] \subseteq Releases
    BY <1>0, <2>1, CatalogAssumption DEF Rows
  <2>6. \A u \in Atomic!Needed(c) :
          /\ Atomic!Released(u)
          /\ ~Atomic!Leads(Atomic!ReleasedLinks, ComponentOf[u], ComponentOf[c])
    BY <2>1, <2>5, SameQueries DEF Needs, Atomic!Leads, PathExists
  <2>7. Atomic!PublishAlone(c)
    BY <2>1, <2>2, <2>4, <2>6, SameQueries, SubjectsOfRecord DEF Atomic!PublishAlone, Subjects
  <2>8. QED
    BY <2>1, <2>7 DEF Atomic!DirectNext
<1>2. CASE ~PublishCommit(p)
  BY <1>2, UnchangedIsHidden
     DEF PublishStep, PublishBegin, PublishCapture, PublishValidate, PublishRefused
<1>3. QED
  BY <1>1, <1>2

-----------------------------------------------------------------------------
\* The initial state of the catalog is one of the atomic catalog.
LEMMA CatalogInitIsAtomic == CatalogInit => Atomic!Init
<1> SUFFICES ASSUME CatalogInit PROVE Atomic!Init
  OBVIOUS
<1>1. VisibleRow = [c \in Releases |->
        [status |-> IF c \in Baseline THEN "released" ELSE "draft", candidate |-> FALSE,
         content |-> Original, published |-> c \in Baseline]]
  BY DEF CatalogInit, VisibleRow
<1>2. Subjects = {<<c, Original>> : c \in Baseline}
  <2>1. evidence = {<<c, Original, Original>> : c \in Baseline}
    BY DEF CatalogInit
  <2>2. ASSUME NEW s, s \in Subjects PROVE s \in {<<c, Original>> : c \in Baseline}
    <3>1. PICK t \in evidence : s = <<t[1], t[2]>>
      BY <2>2 DEF Subjects
    <3>2. PICK c \in Baseline : t = <<c, Original, Original>>
      BY <2>1
    <3>3. QED
      BY <3>1, <3>2
  <2>3. ASSUME NEW c \in Baseline PROVE <<c, Original>> \in Subjects
    <3>1. <<c, Original, Original>> \in evidence
      BY <2>1
    <3>2. QED
      BY <3>1 DEF Subjects
  <2>4. QED
    BY <2>2, <2>3
<1>3. QED
  BY <1>1, <1>2 DEF Atomic!Init

\* Every step of the catalog is one of the atomic catalog, or hidden.
LEMMA CatalogStepIsAtomic ==
  CatalogInv /\ [CatalogNext]_catalogVars => [Atomic!DirectNext]_<<VisibleRow, Subjects>>
<1> SUFFICES ASSUME CatalogInv, [CatalogNext]_catalogVars PROVE Atomic!DirectNext \/ Hidden
  BY DEF Hidden
<1>1. CASE \E c \in Releases : ReleaseStep(c)
  BY <1>1, DraftSteps DEF CatalogInv
<1>2. CASE \E k \in ComponentTests : ComponentTestStep(k)
  BY <1>2, ComponentTestSteps DEF CatalogInv
<1>3. CASE \E p \in Publishers : PublishStep(p)
  BY <1>3, PublicationSteps
<1>4. CASE UNCHANGED catalogVars
  BY <1>4, UnchangedIsHidden DEF catalogVars, rows
<1>5. QED
  BY <1>1, <1>2, <1>3, <1>4 DEF CatalogNext

\* Every behaviour of the catalog, seen by a reader, is one in which publications
\* are atomic: validated and committed at one moment (PublishRelease).
THEOREM PublicationsAreAtomic == CatalogSpec => PublishesAtomically
  BY CatalogInitIsAtomic, CatalogStepIsAtomic, InvariantHolds, PTL
     DEF CatalogSpec, PublishesAtomically, Atomic!DirectSpec, Atomic!catalog

-----------------------------------------------------------------------------
(* Revisions of a scenario: ScenarioLifecycle.                               *)

\* TypeOK as memberships in sets, which TLC could not enumerate.
LockTables == UNION {[D -> Contents] : D \in SUBSET Releases}
RevisionRows == [status : RevisionStatuses, generation : 1..MaxRevisionGeneration,
                 definition : Definitions, abandoned : BOOLEAN]
TestRows == [status : TestStatuses, revision : Revisions,
             definition : Definitions \cup {NoDefinition}, locks : LockTables]
Joints == [step : Steps, revision : Revisions, generation : Nat,
           definition : Definitions \cup {NoDefinition}, epoch : Nat, guards : Guards,
           candidates : SUBSET Releases, evidence : Tests \cup {NoTest}]

ScenarioTyped ==
  /\ revision \in [Revisions -> RevisionRows]
  /\ current \in Revisions
  /\ formal \subseteq Revisions
  /\ test \in [Tests -> TestRows]
  /\ late \subseteq Tests
  /\ joint \in Joints

Typed == CatalogTyped /\ ScenarioTyped

\* The inductive invariant.
ScenarioInv ==
  /\ CatalogInv /\ ScenarioTyped /\ RevisionsExist /\ LocksAreRetained
  /\ ChangesAreOwned /\ PassedHasEvidence /\ ReleasedAsTested
  /\ JointReadThePast /\ JointValidatedOrOutdated

LEMMA ScenarioTypedIsTypeOK == Typed => TypeOK
<1> SUFFICES ASSUME Typed PROVE TypeOK
  OBVIOUS
<1> USE DEF Typed, ScenarioTyped
<1>1. CatalogTypeOK
  BY TypedIsTypeOK
<1>2. ASSUME NEW r \in Revisions
      PROVE  /\ revision[r].status \in RevisionStatuses
             /\ revision[r].definition \in Definitions
             /\ revision[r].generation \in 1..MaxRevisionGeneration
             /\ revision[r].abandoned \in BOOLEAN
  BY DEF RevisionRows
<1>3. ASSUME NEW t \in Tests
      PROVE  /\ test[t].status \in TestStatuses
             /\ test[t].revision \in Revisions
             /\ test[t].definition \in Definitions \cup {NoDefinition}
             /\ test[t].locks \in [DOMAIN test[t].locks -> Contents]
             /\ DOMAIN test[t].locks \subseteq Releases
  BY DEF TestRows, LockTables
<1>4. /\ joint.step \in Steps /\ joint.revision \in Revisions
      /\ joint.candidates \subseteq Releases /\ joint.evidence \in Tests \cup {NoTest}
  BY DEF Joints
<1>5. QED
  BY <1>1, <1>2, <1>3, <1>4 DEF TypeOK

LEMMA UnplannedTypes == Unplanned \in TestRows /\ NoJoint \in Joints
<1>1. NoLocks \in LockTables
  <2>1. NoLocks \in [{} -> Contents]
    BY DEF NoLocks
  <2>2. QED
    BY <2>1 DEF LockTables
<1>2. NoGuards \in Guards
  <2>1. NoGuards \in [{} -> Rows]
    BY DEF NoGuards
  <2>2. QED
    BY <2>1 DEF Guards
<1>3. QED
  BY <1>1, <1>2, ScenarioAssumption DEF Unplanned, NoJoint, TestRows, Joints, Steps, TestStatuses

\* What a test is planned with is a table of contents, what a joint publication
\* captures a table of rows.
LEMMA LockedTypes ==
  ASSUME CatalogTyped, NEW D \in SUBSET Releases
  PROVE  /\ [c \in D |-> release[c].content] \in LockTables
         /\ [c \in D |-> release[c]] \in Guards
<1>1. \A c \in D : release[c] \in Rows /\ release[c].content \in Contents
  BY DEF CatalogTyped, Rows
<1>2. [c \in D |-> release[c].content] \in [D -> Contents] /\ [c \in D |-> release[c]] \in [D -> Rows]
  BY <1>1
<1>3. QED
  BY <1>2 DEF LockTables, Guards

-----------------------------------------------------------------------------
\* The steps of a scenario, by what they do to the catalog: nothing, a run
\* retains releases, the graph moves on, everything in flight is lost, or
\* candidates are published.
Retains == UNCHANGED <<release, evidence, epoch, drafting, publisher>> /\ retained \subseteq retained'
Advances == UNCHANGED <<release, evidence, retained, drafting, publisher>> /\ epoch' = epoch + 1

LEMMA CatalogEffects ==
  ASSUME Next
  PROVE  \/ CatalogNext /\ UNCHANGED scenarioVars
         \/ UNCHANGED catalogVars
         \/ Retains /\ retained' \subseteq retained \cup Releases
         \/ Advances
         \/ Restart
         \/ JointCommit
<1>1. ASSUME NEW r \in Revisions, RevisionStep(r)
      PROVE  \/ UNCHANGED catalogVars
             \/ Retains /\ retained' \subseteq retained \cup Releases
             \/ Advances
  BY <1>1 DEF RevisionStep, SaveRevision, CloneRevision, AbandonRevision, DeprecateRevision, FormalRun,
              JointBegin, RetainReleases, Retains, Advances
<1>2. ASSUME NEW t \in Tests, TestStep(t)
      PROVE  \/ UNCHANGED catalogVars
             \/ Retains /\ retained' \subseteq retained \cup Releases
  BY <1>2 DEF TestStep, PlanScenarioTest, CreateScenarioTest, RefuseScenarioTest, ClaimTest, SucceedTest,
              FailInvalidTest, EndTestUnsuccessfully, ResetRevision, RetainReleases, Retains
<1>3. JointStep => UNCHANGED catalogVars \/ JointCommit
  BY DEF JointStep, JointCapture, JointRefused, JointValidate
<1>4. QED
  BY <1>1, <1>2, <1>3 DEF Next

\* What a joint publication finds at its commit: complete candidates that were
\* tested as they are.
LEMMA JointCommitFinds ==
  ASSUME ScenarioInv, JointCommit
  PROVE  LET C == joint.candidates IN
         /\ C \subseteq Releases
         /\ \A c \in C : /\ IsCandidate(c) /\ Changeable(c) /\ HasEvidence(c)
                         /\ \A u \in Needs(c) : IsReleased(u) \/ u \in C
<1> DEFINE r == joint.revision
           C == joint.candidates
<1>1. /\ joint.step = "commit" /\ joint.definition = revision[r].definition
      /\ joint.generation = revision[r].generation
      /\ GuardsHold(joint.guards) /\ Matches(joint.evidence, r)
      /\ C = {c \in Graph(r) : IsCandidate(c)}
      /\ \A c \in C : Changeable(c)
  BY DEF JointCommit
<1>2. r \in Revisions /\ Graph(r) = GraphOf[joint.definition] /\ Graph(r) \subseteq Releases
  BY <1>1, ScenarioAssumption DEF ScenarioInv, ScenarioTyped, RevisionRows, Joints, Graph
<1>3. \A c \in Graph(r) : release[c] = joint.guards[c]
  BY <1>1, <1>2 DEF ScenarioInv, JointReadThePast, GuardsHold
<1>4. \A c \in Graph(r) : Needs(c) \subseteq Graph(r) /\ (IsCandidate(c) => HasEvidence(c))
  BY <1>1, <1>2, <1>3 DEF ScenarioInv, JointValidatedOrOutdated
<1>5. \A u \in Graph(r) : IsReleased(u) \/ u \in C
  BY <1>1 DEF Matches
<1>6. QED
  BY <1>1, <1>2, <1>4, <1>5

\* What becomes of a row that is published together with others.
LEMMA PublishedRow ==
  ASSUME NEW row \in Rows, NEW n, row.generation + 1 \in 1..MaxGeneration,
         n = [row EXCEPT !.status = "released", !.candidate = FALSE, !.published = TRUE, !.generation = @ + 1]
  PROVE  /\ n \in Rows
         /\ n.status = "released" /\ n.content = row.content /\ n.published
         /\ row.generation < n.generation
         /\ Visible(n) = Atomic!AsReleased(Visible(row))
<1>1. n = [status |-> "released", candidate |-> FALSE, content |-> row.content,
           generation |-> row.generation + 1, published |-> TRUE]
  BY DEF Rows
<1>2. n \in Rows
  BY <1>1 DEF Rows
<1>3. row.generation < n.generation
  BY <1>1, CatalogAssumption DEF Rows
<1>4. Visible(n) = Atomic!AsReleased(Visible(row))
  <2> DEFINE v == [status |-> "released", candidate |-> FALSE, content |-> row.content, published |-> TRUE]
  <2>1. Visible(n) = v
    BY ONLY <1>1 DEF Visible
  <2>2. Atomic!AsReleased(Visible(row)) = v
    <3> SUFFICES ASSUME NEW w, w = Atomic!AsReleased(Visible(row)) PROVE w = v
      OBVIOUS
    <3> DEFINE old == Visible(row)
    <3>1. old \in [status : {row.status}, candidate : {row.candidate}, content : {row.content},
                   published : {row.published}] /\ old.content = row.content
      BY DEF Visible
    <3>2. w = Atomic!AsReleased(old)
      OBVIOUS
    <3> HIDE DEF old
    <3>3. QED
      BY ONLY <3>1, <3>2 DEF Atomic!AsReleased
  <2>3. QED
    BY <2>1, <2>2
<1>5. QED
  BY <1>1, <1>2, <1>3, <1>4

\* What a step of a scenario leaves of the catalog is well formed, and its rows
\* have only evolved.
LEMMA CatalogTypeStep ==
  ASSUME ScenarioInv, [Next]_vars
  PROVE  CatalogTyped' /\ Evolves
<1> USE DEF ScenarioInv, CatalogInv
<1>1. CASE CatalogNext
  BY <1>1, TypeStep, StepEvolves
<1>2. CASE UNCHANGED catalogVars
  BY <1>2, UnchangedEvolves DEF catalogVars, rows, drafting, CatalogTyped
<1>3. CASE Retains /\ retained' \subseteq retained \cup Releases
  BY <1>3, UnchangedEvolves DEF Retains, drafting, CatalogTyped
<1>4. CASE Advances
  BY <1>4 DEF Advances, drafting, CatalogTyped, Evolves
<1>5. CASE Restart
  <2>1. UNCHANGED <<release, evidence, epoch, retained>>
    BY <1>5 DEF Restart, rows
  <2>2. Evolves
    BY <2>1, UnchangedEvolves
  <2>3. ctest' \in TestTable /\ \A k \in ComponentTests : ctest'[k].step # "idle" => ctest'[k].release \in Releases
    BY <1>5, CatalogAssumption DEF Restart, CatalogTyped, TestTable, TestSteps, NoComponentTest
  <2>4. sharing' \in [Releases -> 0..MaxGeneration] /\ publisher' \in [Publishers -> Requests] /\ editing' = {}
    BY <1>5, NoGuardsTypes, CatalogAssumption DEF Restart
  <2>5. QED
    BY <2>1, <2>2, <2>3, <2>4 DEF CatalogTyped
<1>6. CASE JointCommit
  <2>1. /\ joint.candidates \subseteq Releases
        /\ \A c \in joint.candidates : Changeable(c)
    BY <1>6, JointCommitFinds
  <2>2. /\ release' = [c \in Releases |-> IF c \notin joint.candidates THEN release[c]
             ELSE [release[c] EXCEPT !.status = "released", !.candidate = FALSE, !.published = TRUE,
                                     !.generation = @ + 1]]
        /\ epoch' = epoch + 1
        /\ UNCHANGED <<evidence, retained, drafting, publisher>>
    BY <1>6 DEF JointCommit, JointlyPublished
  <2>3. ASSUME NEW c \in Releases
        PROVE  /\ release'[c] \in Rows
               /\ release'[c] = release[c] \/ release[c].generation < release'[c].generation
    <3>1. release[c] \in Rows
      BY DEF CatalogTyped
    <3>2. CASE c \in joint.candidates
      <4>1. release[c].generation \in 1..MaxGeneration /\ release[c].generation + 1 \in 1..MaxGeneration
        BY <2>1, <3>1, <3>2, CatalogAssumption DEF Changeable, Rows
      <4>2. release'[c] = [release[c] EXCEPT !.status = "released", !.candidate = FALSE, !.published = TRUE,
                                     !.generation = @ + 1]
        BY <2>2, <3>2
      <4>3. QED
        BY <3>1, <4>1, <4>2, PublishedRow
    <3>3. CASE c \notin joint.candidates
      BY <2>2, <3>1, <3>3
    <3>4. QED
      BY <3>2, <3>3
  <2>4. release' \in [Releases -> Rows]
    BY <2>2, <2>3
  <2>5. /\ epoch' = epoch + 1 /\ epoch \in Nat /\ evidence' = evidence
        /\ UNCHANGED <<retained, editing, ctest, sharing, publisher>>
    BY <2>2 DEF CatalogTyped, drafting
  <2>6. CatalogTyped'
    BY ONLY CatalogTyped, <2>4, <2>5 DEF CatalogTyped
  <2>7. Evolves
    BY ONLY <2>3, <2>5 DEF Evolves
  <2>8. QED
    BY <2>6, <2>7
<1>7. QED
  BY <1>1, <1>2, <1>3, <1>4, <1>5, <1>6, CatalogEffects DEF vars

\* The tables of the scenario keep their form.
LEMMA ScenarioTypeStep ==
  ASSUME ScenarioInv, [Next]_vars
  PROVE  ScenarioTyped'
<1> USE ScenarioAssumption DEF ScenarioTyped, catalogVars, rows, drafting, scenarioVars
<1>0. ScenarioTyped /\ CatalogTyped
  BY DEF ScenarioInv, CatalogInv
<1>1. ASSUME NEW r \in Revisions, NEW d \in Definitions, SaveRevision(r, d) PROVE ScenarioTyped'
  BY <1>0, <1>1 DEF SaveRevision, RevisionRows, RevisionStatuses
<1>2. ASSUME NEW r \in Revisions, NEW q \in Revisions, CloneRevision(r, q) PROVE ScenarioTyped'
  BY <1>0, <1>2 DEF CloneRevision, RevisionRows, RevisionStatuses
<1>3. ASSUME NEW r \in Revisions, NEW q \in Revisions, AbandonRevision(r, q) PROVE ScenarioTyped'
  BY <1>0, <1>3, ZenonT(60) DEF AbandonRevision, RevisionRows, RevisionStatuses
<1>4. ASSUME NEW r \in Revisions, DeprecateRevision(r) PROVE ScenarioTyped'
  BY <1>0, <1>4 DEF DeprecateRevision, RevisionRows, RevisionStatuses
<1>5. ASSUME NEW r \in Revisions, FormalRun(r) PROVE ScenarioTyped'
  BY <1>0, <1>5 DEF FormalRun
<1>6. ASSUME NEW r \in Revisions, JointBegin(r) PROVE ScenarioTyped'
  <2>1. epoch \in Nat /\ revision[r].generation \in Nat /\ revision[r].definition \in Definitions
    BY <1>0 DEF CatalogTyped, RevisionRows
  <2>2. joint' \in Joints
    <3>1. joint' = [NoJoint EXCEPT !.step = "capture", !.revision = r, !.epoch = epoch,
             !.generation = revision[r].generation, !.definition = revision[r].definition]
      BY <1>6 DEF JointBegin
    <3>2. NoJoint \in Joints
      BY UnplannedTypes
    <3>3. QED
      BY <2>1, <3>1, <3>2 DEF Joints, Steps
  <2>3. QED
    BY <1>0, <1>6, <2>2 DEF JointBegin
<1>7. ASSUME NEW t \in Tests, NEW r \in Revisions, PlanScenarioTest(t, r) PROVE ScenarioTyped'
  <2> DEFINE locks == [c \in Graph(r) |-> release[c].content]
  <2>1. Graph(r) \in SUBSET Releases /\ revision[r].definition \in Definitions
    BY <1>0 DEF Graph, RevisionRows
  <2>2. locks \in LockTables
    BY <1>0, <2>1, LockedTypes
  <2>3. test' = [test EXCEPT ![t] = [status |-> "planned", revision |-> r,
                   definition |-> revision[r].definition, locks |-> locks]]
    BY <1>7 DEF PlanScenarioTest
  <2> HIDE DEF locks
  <2>4. test' \in [Tests -> TestRows]
    BY <1>0, <2>1, <2>2, <2>3 DEF TestRows, TestStatuses
  <2>5. QED
    BY <1>0, <1>7, <2>4 DEF PlanScenarioTest
<1>8. ASSUME NEW t \in Tests, NEW s \in TestStatuses, test' = [test EXCEPT ![t].status = s]
      PROVE  test' \in [Tests -> TestRows]
  BY <1>0, <1>8 DEF TestRows
<1>9. ASSUME NEW r \in Revisions, NEW s \in RevisionStatuses, revision' = [revision EXCEPT ![r].status = s]
      PROVE  revision' \in [Revisions -> RevisionRows]
  BY <1>0, <1>9 DEF RevisionRows
<1>10. \A t \in Tests : test[t].revision \in Revisions
  BY <1>0 DEF TestRows
<1>11. ASSUME NEW t \in Tests, CreateScenarioTest(t) PROVE ScenarioTyped'
  <2>1. test' \in [Tests -> TestRows]
    BY <1>8, <1>11 DEF CreateScenarioTest, TestStatuses, ActiveTest
  <2>2. revision' \in [Revisions -> RevisionRows]
    BY <1>9, <1>10, <1>11 DEF CreateScenarioTest, RevisionStatuses
  <2>3. QED
    BY <1>0, <1>11, <2>1, <2>2 DEF CreateScenarioTest
<1>12. ASSUME NEW t \in Tests, RefuseScenarioTest(t) PROVE ScenarioTyped'
  BY <1>0, <1>12, UnplannedTypes DEF RefuseScenarioTest
<1>13. ASSUME NEW t \in Tests, ClaimTest(t) PROVE ScenarioTyped'
  <2>1. test' \in [Tests -> TestRows]
    BY <1>8, <1>13 DEF ClaimTest, TestStatuses, ActiveTest
  <2>2. QED
    BY <1>0, <1>13, <2>1 DEF ClaimTest
<1>14. ASSUME NEW t \in Tests, SucceedTest(t) PROVE ScenarioTyped'
  <2>1. test' \in [Tests -> TestRows]
    BY <1>8, <1>14 DEF SucceedTest, TestStatuses
  <2>2. revision' = revision \/ \E s \in {"test_passed", "draft"} :
          revision' = [revision EXCEPT ![test[t].revision].status = s]
    BY <1>14 DEF SucceedTest
  <2>3. revision' \in [Revisions -> RevisionRows]
    BY <1>0, <1>9, <1>10, <2>2 DEF RevisionStatuses
  <2>4. QED
    BY <1>0, <1>14, <2>1, <2>3 DEF SucceedTest
<1>15. ASSUME NEW t \in Tests, FailInvalidTest(t) PROVE ScenarioTyped'
  <2>1. test' \in [Tests -> TestRows]
    BY <1>8, <1>15 DEF FailInvalidTest, TestStatuses
  <2>2. revision' = revision \/ revision' = [revision EXCEPT ![test[t].revision].status = "draft"]
    BY <1>15 DEF FailInvalidTest
  <2>3. revision' \in [Revisions -> RevisionRows]
    BY <1>0, <1>9, <1>10, <2>2 DEF RevisionStatuses
  <2>4. QED
    BY <1>0, <1>15, <2>1, <2>3 DEF FailInvalidTest
<1>16. ASSUME NEW t \in Tests, NEW s \in {"failed", "cancelled"}, EndTestUnsuccessfully(t, s) PROVE ScenarioTyped'
  <2>1. test' \in [Tests -> TestRows]
    BY <1>8, <1>16 DEF EndTestUnsuccessfully, TestStatuses
  <2>2. QED
    BY <1>0, <1>16, <2>1 DEF EndTestUnsuccessfully
<1>17. ASSUME NEW t \in Tests, ResetRevision(t) PROVE ScenarioTyped'
  <2>1. revision' = revision \/ revision' = [revision EXCEPT ![test[t].revision].status = "draft"]
    BY <1>17 DEF ResetRevision
  <2>2. revision' \in [Revisions -> RevisionRows]
    BY <1>0, <1>9, <1>10, <2>1 DEF RevisionStatuses
  <2>3. QED
    BY <1>0, <1>17, <2>2 DEF ResetRevision
<1>18. CASE JointCapture
  <2> DEFINE guards == [c \in Closure(GraphOf[joint.definition], Releases) |-> release[c]]
  <2>1. guards \in Guards
    <3>1. Closure(GraphOf[joint.definition], Releases) \in SUBSET Releases
      BY DEF Closure
    <3>2. QED
      BY <1>0, <3>1, LockedTypes
  <2>2. joint' = [joint EXCEPT !.step = "validate", !.guards = guards]
    BY <1>18 DEF JointCapture
  <2> HIDE DEF guards
  <2>3. joint' \in Joints
    BY <1>0, <2>1, <2>2 DEF Joints, Steps
  <2>4. QED
    BY <1>0, <1>18, <2>3 DEF JointCapture
<1>19. ASSUME NEW t \in Tests, JointValidate(t) PROVE ScenarioTyped'
  <2> DEFINE C == {c \in Graph(joint.revision) : IsCandidate(c)}
  <2>1. C \in SUBSET Releases
    BY <1>0 DEF Graph, RevisionRows, Joints
  <2>2. joint' = [joint EXCEPT !.step = "commit", !.evidence = t, !.candidates = C]
    BY <1>19 DEF JointValidate
  <2> HIDE DEF C
  <2>3. joint' \in Joints
    BY <1>0, <2>1, <2>2 DEF Joints, Steps
  <2>4. QED
    BY <1>0, <1>19, <2>3 DEF JointValidate
<1>20. CASE JointRefused
  BY <1>0, <1>20, UnplannedTypes DEF JointRefused
<1>21. CASE JointCommit
  <2>1. revision' \in [Revisions -> RevisionRows]
    BY <1>0, <1>9, <1>21 DEF JointCommit, JointlyPublished, Joints, RevisionStatuses
  <2>2. UNCHANGED <<current, formal, test, late>> /\ joint' = NoJoint
    BY <1>21 DEF JointCommit, JointlyPublished
  <2>3. QED
    BY <1>0, <2>1, <2>2, UnplannedTypes
<1>22. CASE Restart
  <2>1. test' \in [Tests -> TestRows]
    <3>1. ASSUME NEW t \in Tests PROVE test'[t] \in TestRows
      <4>1. test'[t] = test[t] \/ test'[t] = Unplanned \/ test'[t] = [test[t] EXCEPT !.status = "interrupted"]
        BY <1>22 DEF Restart
      <4>2. [test[t] EXCEPT !.status = "interrupted"] \in TestRows
        BY <1>0 DEF TestRows, TestStatuses
      <4>3. QED
        BY <1>0, <4>1, <4>2, UnplannedTypes
    <3>2. QED
      BY <1>22, <3>1 DEF Restart
  <2>2. revision' \in [Revisions -> RevisionRows]
    <3>1. ASSUME NEW r \in Revisions PROVE revision'[r] \in RevisionRows
      <4>1. revision'[r] = revision[r] \/ revision'[r] = [revision[r] EXCEPT !.status = "draft"]
        BY <1>22 DEF Restart
      <4>2. [revision[r] EXCEPT !.status = "draft"] \in RevisionRows
        BY <1>0 DEF RevisionRows, RevisionStatuses
      <4>3. QED
        BY <1>0, <4>1, <4>2
    <3>2. QED
      BY <1>22, <3>1 DEF Restart
  <2>3. QED
    BY <1>0, <1>22, <2>1, <2>2, UnplannedTypes DEF Restart
<1>23. CASE UNCHANGED scenarioVars
  BY <1>0, <1>23
<1>24. QED
  BY <1>1, <1>2, <1>3, <1>4, <1>5, <1>6, <1>7, <1>11, <1>12, <1>13, <1>14, <1>15, <1>16, <1>17, <1>18,
     <1>19, <1>20, <1>21, <1>22, <1>23 DEF Next, RevisionStep, TestStep, JointStep, vars

-----------------------------------------------------------------------------
\* Every step of a scenario keeps the invariant of the catalog below it.
LEMMA CatalogInvStep ==
  ASSUME ScenarioInv, [Next]_vars
  PROVE  CatalogInv'
<1>0. CatalogTyped' /\ Evolves
  BY CatalogTypeStep
<1> USE DEF ScenarioInv, CatalogInv
<1>1. CASE [CatalogNext]_catalogVars
  BY <1>0, <1>1, PublishedStep, SnapshotsStep, CoverStep, ValidatedStep
<1>2. CASE UNCHANGED <<release, evidence>> /\ Unserved
  <2>1. PublishedHasEvidence' /\ PublishedIsNoDraft'
    BY <1>2 DEF PublishedHasEvidence, PublishedIsNoDraft, HasEvidence, EvidenceFor, IsDraft
  <2>2. QED
    BY <1>0, <1>2, <2>1, UnservedStep
<1>3. CASE Restart
  <2>1. UNCHANGED <<release, evidence>> /\ publisher' = [p \in Publishers |-> Idle]
    BY <1>3 DEF Restart, rows
  <2>2. PublishedHasEvidence' /\ PublishedIsNoDraft'
    BY <2>1 DEF PublishedHasEvidence, PublishedIsNoDraft, HasEvidence, EvidenceFor, IsDraft
  <2>3. SnapshotsArePast' /\ GuardsCover' /\ ValidatedOrOutdated'
    <3>1. \A p \in Publishers : publisher'[p] = Idle
      BY <2>1
    <3>2. Idle.step = "idle" /\ Idle.epoch = 0 /\ DOMAIN Idle.guards = {}
      BY DEF Idle, NoGuards
    <3>3. epoch' \in Nat
      BY <1>0 DEF CatalogTyped
    <3>4. SnapshotsArePast'
      BY <3>1, <3>2, <3>3 DEF SnapshotsArePast
    <3>5. QED
      BY <3>1, <3>2, <3>4 DEF GuardsCover, ValidatedOrOutdated
  <2>4. QED
    BY <1>0, <2>2, <2>3
<1>4. CASE JointCommit
  <2>1. UNCHANGED <<evidence, publisher>>
    BY <1>4 DEF JointCommit, JointlyPublished
  <2>2. ASSUME NEW c \in Releases
        PROVE  release'[c].published =>
                 release'[c].status # "draft" /\ \E x \in Contents : <<c, release'[c].content, x>> \in evidence
    <3>1. CASE c \in joint.candidates
      <4>1. HasEvidence(c) /\ release[c] \in Rows
        BY <1>4, <3>1, JointCommitFinds DEF CatalogTyped
      <4>2. release[c].generation + 1 \in 1..MaxGeneration
        BY <1>4, <3>1, <4>1, JointCommitFinds, CatalogAssumption DEF Changeable, Rows
      <4>3. release'[c] = [release[c] EXCEPT !.status = "released", !.candidate = FALSE,
                                             !.published = TRUE, !.generation = @ + 1]
        BY <1>4, <3>1 DEF JointCommit, JointlyPublished
      <4>4. release'[c].status = "released" /\ release'[c].content = release[c].content
        BY <4>1, <4>2, <4>3, PublishedRow
      <4>5. QED
        BY <4>1, <4>4 DEF HasEvidence, EvidenceFor
    <3>2. CASE c \notin joint.candidates
      <4>1. release'[c] = release[c]
        BY <1>4, <3>2 DEF JointCommit, JointlyPublished
      <4>2. QED
        BY <4>1 DEF PublishedHasEvidence, PublishedIsNoDraft, HasEvidence, EvidenceFor, IsDraft
    <3>3. QED
      BY <3>1, <3>2
  <2>3. PublishedHasEvidence' /\ PublishedIsNoDraft'
    BY <2>1, <2>2 DEF PublishedHasEvidence, PublishedIsNoDraft, HasEvidence, EvidenceFor, IsDraft
  <2>4. QED
    BY <1>0, <2>1, <2>3, UnservedStep DEF Unserved
<1>5. QED
  BY <1>1, <1>2, <1>3, <1>4, CatalogEffects
     DEF vars, catalogVars, rows, drafting, Retains, Advances, Unserved

\* What is released and retained stays released, with the content it has; what is
\* retained stays retained.
Kept ==
  /\ retained \subseteq retained'
  /\ \A c \in retained : IsReleased(c) => IsReleased(c)' /\ release'[c].content = release[c].content

LEMMA KeptStep ==
  ASSUME ScenarioInv, [Next]_vars
  PROVE  Kept
<1> USE DEF rows, drafting
<1>0. /\ release \in [Releases -> Rows] /\ retained \subseteq Releases /\ CatalogTyped
      /\ publisher \in [Publishers -> Requests]
  BY DEF ScenarioInv, CatalogInv, CatalogTyped
<1>1. CASE release' = release /\ retained \subseteq retained'
  BY <1>1 DEF Kept, IsReleased
<1>2. ASSUME NEW c \in Releases, IsDraft(c) \/ release[c].status = "deprecated" \/ c \notin retained,
             retained' = retained, \A x \in Releases \ {c} : release'[x] = release[x]
      PROVE  Kept
  BY <1>0, <1>2 DEF Kept, IsDraft, IsReleased
<1>3. ASSUME NEW c \in Releases, ReleaseStep(c) PROVE Kept
  <2>1. (\E d \in Contents : EditDraft(c, d)) => Kept
    BY <1>0, <1>2 DEF EditDraft
  <2>2. EditCheck(c) \/ EditRefused(c) \/ ShareCheck(c) => Kept
    BY <1>1 DEF EditCheck, EditRefused, ShareCheck
  <2>3. ASSUME NEW k \in BOOLEAN, SetReleaseCandidate(c, k) PROVE Kept
    BY <1>0, <1>2, <2>3 DEF SetReleaseCandidate
  <2>4. DeprecateComponentRelease(c) => Kept
    BY <1>0, <1>2 DEF DeprecateComponentRelease
  <2>5. RestoreDeprecatedComponentRelease(c) => Kept
    BY <1>0, <1>2 DEF RestoreDeprecatedComponentRelease
  <2>6. QED
    BY <1>3, <2>1, <2>2, <2>3, <2>4, <2>5 DEF ReleaseStep
<1>4. ASSUME NEW k \in ComponentTests, ComponentTestStep(k) PROVE Kept
  BY <1>0, <1>1, <1>4, TestStepFrame DEF TestFrame
<1>5. ASSUME NEW p \in Publishers, PublishStep(p) PROVE Kept
  <2>1. CASE PublishCommit(p)
    <3>1. publisher[p].root \in Releases /\ IsDraft(publisher[p].root)
      BY <2>1, CommitFinds DEF ScenarioInv, CatalogInv
    <3>2. QED
      BY <1>0, <1>2, <2>1, <3>1 DEF PublishCommit, Published
  <2>2. CASE ~PublishCommit(p)
    BY <1>1, <1>5, <2>2 DEF PublishStep, PublishBegin, PublishCapture, PublishValidate, PublishRefused
  <2>3. QED
    BY <2>1, <2>2
<1>6. CASE JointCommit
  <2>1. retained' = retained /\ \A c \in Releases \ joint.candidates : release'[c] = release[c]
    BY <1>6 DEF JointCommit, JointlyPublished
  <2>2. \A c \in joint.candidates : ~IsReleased(c)
    BY <1>6, JointCommitFinds DEF IsCandidate, IsDraft, IsReleased
  <2>3. QED
    BY <1>0, <2>1, <2>2 DEF Kept, IsReleased
<1>7. QED
  BY <1>1, <1>3, <1>4, <1>5, <1>6, CatalogEffects
     DEF vars, catalogVars, Retains, Advances, Restart, CatalogNext

-----------------------------------------------------------------------------
\* What a step may do to a revision: nothing; put it under test, back to draft or,
\* with evidence of every mode it needs, to tested; release it by the joint
\* publication; deprecate it; create it from another one; give it a new definition.
Evidenced(r) ==
  \A m \in RequiredModes(r) : \E t \in Tests :
    /\ test'[t].status = "succeeded" /\ ModeOf[t] = m
    /\ test'[t].revision = r /\ test'[t].definition = revision[r].definition

RevisionEvolves(r) ==
  LET old == revision[r]
      new == revision'[r]
      same == new.definition = old.definition /\ new.generation = old.generation IN
  \/ new = old
  \/ same /\ old.status \in Mutable /\ new.status \in {"draft", "testing"}
  \/ same /\ old.status = "testing" /\ new.status = "test_passed" /\ Evidenced(r)
  \/ same /\ old.status = "test_passed" /\ new.status = "released" /\ JointCommit /\ joint.revision = r
  \/ /\ old.status \in Mutable \cup {"released"} /\ new.status = "deprecated"
     /\ new.definition = old.definition /\ old.generation <= new.generation
  \/ old.status = "absent" /\ new.status = "draft" /\ current' = r
  \/ Editable(r) /\ new.status = "draft" /\ old.generation < new.generation

\* The pointer to the current revision moves only while no other one can change.
CurrentEvolves ==
  \/ current' = current
  \/ /\ revision'[current'].status # "absent"
     /\ \A r \in Revisions : revision'[r].status \in Mutable => r = current'

LEMMA RevisionsEvolve ==
  ASSUME ScenarioInv, [Next]_vars
  PROVE  CurrentEvolves /\ \A r \in Revisions : RevisionEvolves(r)
<1> DEFINE Good == CurrentEvolves /\ \A r \in Revisions : RevisionEvolves(r)
<1>0. /\ revision \in [Revisions -> RevisionRows] /\ test \in [Tests -> TestRows]
      /\ joint.revision \in Revisions
      /\ \A r \in Revisions : revision[r].generation \in Nat
      /\ \A t \in Tests : test[t].revision \in Revisions
  BY DEF ScenarioInv, ScenarioTyped, RevisionRows, TestRows, Joints
<1>1. CASE UNCHANGED <<revision, current>>
  BY <1>1 DEF CurrentEvolves, RevisionEvolves
<1>2. ASSUME NEW r \in Revisions, current' = current, RevisionEvolves(r),
             \A q \in Revisions \ {r} : revision'[q] = revision[q]
      PROVE  Good
  <2>1. ASSUME NEW q \in Revisions PROVE RevisionEvolves(q)
    <3>1. CASE q = r
      BY <1>2, <3>1
    <3>2. CASE q # r
      BY <1>2, <3>2 DEF RevisionEvolves
    <3>3. QED
      BY <3>1, <3>2
  <2>2. QED
    BY <1>2, <2>1 DEF CurrentEvolves
<1>3. ASSUME NEW r \in Revisions, NEW d \in Definitions, SaveRevision(r, d) PROVE Good
  <2>1. /\ Editable(r) /\ current' = current
        /\ revision' = [revision EXCEPT ![r].status = "draft", ![r].definition = d, ![r].generation = @ + 1]
    BY <1>3 DEF SaveRevision
  <2>2. revision'[r].status = "draft" /\ revision'[r].generation = revision[r].generation + 1
    BY <1>0, <2>1 DEF RevisionRows
  <2>3. RevisionEvolves(r)
    BY <1>0, <2>1, <2>2 DEF RevisionEvolves
  <2>4. QED
    BY <1>0, <1>2, <2>1, <2>3
<1>4. ASSUME NEW r \in Revisions, NEW q \in Revisions, CloneRevision(r, q) PROVE Good
  <2>1. /\ revision[r].status = "absent" /\ revision'[r].status = "draft" /\ current' = r
        /\ \A x \in Revisions : revision[x].status \notin Mutable
        /\ \A x \in Revisions \ {r} : revision'[x] = revision[x]
    BY <1>0, <1>4 DEF CloneRevision
  <2>2. ASSUME NEW x \in Revisions PROVE RevisionEvolves(x)
    BY <2>1 DEF RevisionEvolves
  <2>3. CurrentEvolves
    BY <2>1 DEF CurrentEvolves
  <2>4. QED
    BY <2>2, <2>3
<1>5. ASSUME NEW r \in Revisions, NEW q \in Revisions, AbandonRevision(r, q) PROVE Good
  <2>1. /\ current = r /\ revision[r].status = "draft" /\ current' = q
        /\ q # r /\ revision[q].status \in {"released", "deprecated"}
        /\ revision'[r].status = "deprecated"
        /\ revision'[r].definition = revision[r].definition /\ revision'[r].generation = revision[r].generation
        /\ \A x \in Revisions \ {r} : revision'[x] = revision[x]
    BY <1>0, <1>5 DEF AbandonRevision, RevisionRows
  <2>2. ASSUME NEW x \in Revisions PROVE RevisionEvolves(x)
    BY <1>0, <2>1 DEF RevisionEvolves, Mutable
  <2>3. CurrentEvolves
    BY <2>1 DEF CurrentEvolves, ScenarioInv, ChangesAreOwned, MutableIsCurrent, Mutable
  <2>4. QED
    BY <2>2, <2>3
<1>6. ASSUME NEW r \in Revisions, DeprecateRevision(r) PROVE Good
  <2>1. /\ revision[r].status = "released" /\ current' = current
        /\ revision' = [revision EXCEPT ![r].status = "deprecated", ![r].generation = @ + 1]
    BY <1>6 DEF DeprecateRevision
  <2>2. RevisionEvolves(r)
    BY <1>0, <2>1 DEF RevisionEvolves, RevisionRows
  <2>3. QED
    BY <1>0, <1>2, <2>1, <2>2
\* The remaining steps only set the status of one revision.
<1>7. ASSUME NEW r \in Revisions, NEW s, revision' = [revision EXCEPT ![r].status = s], current' = current,
             \/ revision[r].status \in Mutable /\ s \in {"draft", "testing"}
             \/ revision[r].status = "testing" /\ s = "test_passed" /\ Evidenced(r)
             \/ revision[r].status = "test_passed" /\ s = "released" /\ JointCommit /\ joint.revision = r
      PROVE  Good
  <2>1. /\ revision'[r].status = s /\ revision'[r].definition = revision[r].definition
        /\ revision'[r].generation = revision[r].generation
    BY <1>0, <1>7 DEF RevisionRows
  <2>2. RevisionEvolves(r)
    BY <1>7, <2>1 DEF RevisionEvolves
  <2>3. QED
    BY <1>0, <1>2, <1>7, <2>2
<1>8. ASSUME NEW t \in Tests, CreateScenarioTest(t) PROVE Good
  BY <1>0, <1>7, <1>8 DEF CreateScenarioTest, Editable
<1>9. ASSUME NEW t \in Tests, SucceedTest(t) PROVE Good
  <2> DEFINE r == test[t].revision
  <2>1. CASE revision[r].status = "testing" /\ Matches(t, r) /\ RequiredEvidence(r, Succeeded \cup {t})
    <3>1. revision' = [revision EXCEPT ![r].status = "test_passed"] /\ current' = current
      BY <1>9, <2>1 DEF SucceedTest
    <3>2. Evidenced(r)
      <4>1. \A x \in Succeeded \cup {t} : x \in Tests /\ test'[x].status = "succeeded"
                 /\ test'[x].revision = test[x].revision /\ test'[x].definition = test[x].definition
        BY <1>0, <1>9 DEF SucceedTest, Succeeded, TestRows
      <4>2. ASSUME NEW m \in RequiredModes(r)
            PROVE  \E x \in Tests : /\ test'[x].status = "succeeded" /\ ModeOf[x] = m
                                     /\ test'[x].revision = r /\ test'[x].definition = revision[r].definition
        <5>1. PICK x \in Succeeded \cup {t} : ModeOf[x] = m /\ Matches(x, r)
          BY <2>1 DEF RequiredEvidence
        <5>2. test[x].revision = r /\ test[x].definition = revision[r].definition
          BY <5>1 DEF Matches
        <5>3. QED
          BY <4>1, <5>1, <5>2
      <4>3. QED
        BY <4>2 DEF Evidenced
    <3>3. QED
      BY <1>0, <1>7, <2>1, <3>1, <3>2
  <2>2. CASE revision[r].status = "testing" /\ ~(Matches(t, r) /\ RequiredEvidence(r, Succeeded \cup {t}))
    <3>1. revision' = [revision EXCEPT ![r].status = "draft"] /\ current' = current
      BY <1>9, <2>2 DEF SucceedTest
    <3>2. QED
      BY <1>0, <1>7, <2>2, <3>1 DEF Mutable
  <2>3. CASE revision[r].status # "testing"
    BY <1>1, <1>9, <2>3 DEF SucceedTest
  <2>4. QED
    BY <2>1, <2>2, <2>3
<1>10. ASSUME NEW t \in Tests, FailInvalidTest(t) \/ ResetRevision(t) PROVE Good
  <2>1. /\ current' = current
        /\ \/ revision' = revision
           \/ /\ revision[test[t].revision].status = "testing"
              /\ revision' = [revision EXCEPT ![test[t].revision].status = "draft"]
    BY <1>10 DEF FailInvalidTest, ResetRevision
  <2>2. QED
    BY <1>0, <1>1, <1>7, <2>1 DEF Mutable
<1>11. CASE JointCommit
  BY <1>0, <1>7, <1>11 DEF JointCommit, JointlyPublished
<1>12. CASE Restart
  <2>1. ASSUME NEW r \in Revisions PROVE RevisionEvolves(r)
    <3>1. revision'[r] = revision[r]
            \/ (revision[r].status = "testing" /\ revision'[r] = [revision[r] EXCEPT !.status = "draft"])
      BY <1>12 DEF Restart
    <3>2. QED
      BY <1>0, <3>1 DEF RevisionEvolves, RevisionRows, Mutable
  <2>2. QED
    BY <1>12, <2>1 DEF Restart, CurrentEvolves
<1>13. ASSUME NEW r \in Revisions, RevisionStep(r) PROVE Good
  BY <1>1, <1>3, <1>4, <1>5, <1>6, <1>13 DEF RevisionStep, FormalRun, JointBegin
<1>14. ASSUME NEW t \in Tests, TestStep(t) PROVE Good
  BY <1>1, <1>8, <1>9, <1>10, <1>14
     DEF TestStep, PlanScenarioTest, RefuseScenarioTest, ClaimTest, EndTestUnsuccessfully
<1>15. JointStep => Good
  BY <1>1, <1>11 DEF JointStep, JointCapture, JointRefused, JointValidate
<1>16. QED
  BY <1>1, <1>12, <1>13, <1>14, <1>15 DEF Next, vars, scenarioVars

\* What a step may do to a test: nothing; plan it, locking the contents of the graph
\* of the current definition; create its run, when that is still so and retains what
\* it locked; forget it; or move an active one on.
TestEvolves(t) ==
  LET old == test[t]
      new == test'[t]
      same == /\ new.revision = old.revision /\ new.definition = old.definition
              /\ new.locks = old.locks IN
  \/ new = old
  \/ /\ old.status = "none" /\ new.status = "planned" /\ new.definition = revision[new.revision].definition
     /\ new.revision = current /\ DOMAIN new.locks = GraphOf[new.definition]
  \/ old.status = "planned" /\ new.status = "none"
  \/ /\ same /\ old.status = "planned" /\ new.status = "queued"
     /\ DOMAIN old.locks \subseteq retained'
     /\ revision'[old.revision].definition = old.definition
  \/ same /\ old.status \in ActiveTest /\ new.status \notin {"none", "planned"}

LEMMA TestsEvolve ==
  ASSUME ScenarioInv, [Next]_vars
  PROVE  \A t \in Tests : TestEvolves(t)
<1> DEFINE Good == \A t \in Tests : TestEvolves(t)
<1>0. test \in [Tests -> TestRows] /\ revision \in [Revisions -> RevisionRows]
  BY DEF ScenarioInv, ScenarioTyped
<1>1. CASE test' = test
  BY <1>1 DEF TestEvolves
<1>2. ASSUME NEW t \in Tests, TestEvolves(t), \A u \in Tests \ {t} : test'[u] = test[u] PROVE Good
  BY <1>2 DEF TestEvolves
<1>3. ASSUME NEW t \in Tests, NEW r \in Revisions, PlanScenarioTest(t, r) PROVE Good
  <2>1. test'[t] = [status |-> "planned", revision |-> r, definition |-> revision[r].definition,
                    locks |-> [c \in Graph(r) |-> release[c].content]]
    BY <1>0, <1>3 DEF PlanScenarioTest
  <2>2. TestEvolves(t)
    BY <1>3, <2>1 DEF TestEvolves, Graph, PlanScenarioTest
  <2>3. QED
    BY <1>0, <1>2, <1>3, <2>2 DEF PlanScenarioTest
<1>4. ASSUME NEW t \in Tests, NEW s, test' = [test EXCEPT ![t].status = s]
      PROVE  /\ test'[t].status = s /\ test'[t].revision = test[t].revision
             /\ test'[t].definition = test[t].definition /\ test'[t].locks = test[t].locks
             /\ \A u \in Tests \ {t} : test'[u] = test[u]
  BY <1>0, <1>4 DEF TestRows
<1>5. ASSUME NEW t \in Tests, CreateScenarioTest(t) PROVE Good
  <2>1. test' = [test EXCEPT ![t].status = "queued"]
    BY <1>5 DEF CreateScenarioTest
  <2>2. /\ test[t].status = "planned" /\ DOMAIN test[t].locks \subseteq retained'
        /\ test[t].definition = revision[test[t].revision].definition
    BY <1>5 DEF CreateScenarioTest, RetainReleases
  <2>3. revision'[test[t].revision].definition = revision[test[t].revision].definition
    BY <1>0, <1>5 DEF CreateScenarioTest, RevisionRows, TestRows
  <2>4. TestEvolves(t)
    BY <1>4, <2>1, <2>2, <2>3 DEF TestEvolves
  <2>5. QED
    BY <1>2, <1>4, <2>1, <2>4
<1>6. ASSUME NEW t \in Tests, RefuseScenarioTest(t) PROVE Good
  BY <1>0, <1>2, <1>6 DEF RefuseScenarioTest, Unplanned, TestEvolves
<1>7. ASSUME NEW t \in Tests, test[t].status \in ActiveTest,
             NEW s, s \notin {"none", "planned"}, test' = [test EXCEPT ![t].status = s]
      PROVE  Good
  <2>1. TestEvolves(t)
    BY <1>4, <1>7 DEF TestEvolves
  <2>2. QED
    BY <1>2, <1>4, <1>7, <2>1
<1>8. ASSUME NEW t \in Tests, NEW s \in {"failed", "cancelled"},
             ClaimTest(t) \/ SucceedTest(t) \/ FailInvalidTest(t) \/ EndTestUnsuccessfully(t, s)
      PROVE  Good
  <2>1. test[t].status \in ActiveTest
    BY <1>8 DEF ClaimTest, SucceedTest, FailInvalidTest, EndTestUnsuccessfully, ActiveTest
  <2>2. \E v \in {"running", "succeeded", "failed", "cancelled"} : test' = [test EXCEPT ![t].status = v]
    BY <1>8 DEF ClaimTest, SucceedTest, FailInvalidTest, EndTestUnsuccessfully
  <2>3. QED
    BY <1>7, <2>1, <2>2
<1>9. CASE Restart
  <2>1. ASSUME NEW t \in Tests PROVE TestEvolves(t)
    <3>1. CASE test[t].status = "running"
      <4>1. test'[t] = [test[t] EXCEPT !.status = "interrupted"]
        BY <1>9, <3>1 DEF Restart
      <4>2. QED
        BY <1>0, <3>1, <4>1 DEF TestRows, TestEvolves, ActiveTest
    <3>2. CASE test[t].status = "planned"
      <4>1. test'[t] = Unplanned
        BY <1>9, <3>2 DEF Restart
      <4>2. QED
        BY <3>2, <4>1 DEF TestEvolves, Unplanned
    <3>3. CASE test[t].status \notin {"running", "planned"}
      <4>1. test'[t] = test[t]
        BY <1>9, <3>3 DEF Restart
      <4>2. QED
        BY <4>1 DEF TestEvolves
    <3>4. QED
      BY <3>1, <3>2, <3>3
  <2>2. QED
    BY <2>1
<1>10. ASSUME NEW r \in Revisions, RevisionStep(r) PROVE Good
  BY <1>1, <1>10 DEF RevisionStep, SaveRevision, CloneRevision, AbandonRevision, DeprecateRevision,
                     FormalRun, JointBegin
<1>11. ASSUME NEW t \in Tests, TestStep(t) PROVE Good
  <2>1. ResetRevision(t) => Good
    BY <1>1 DEF ResetRevision
  <2>2. QED
    BY <1>3, <1>5, <1>6, <1>8, <1>11, <2>1 DEF TestStep
<1>12. JointStep => Good
  BY <1>1 DEF JointStep, JointCapture, JointRefused, JointCommit, JointlyPublished, JointValidate
<1>13. QED
  BY <1>1, <1>9, <1>10, <1>11, <1>12 DEF Next, vars, scenarioVars

\* What a step may do to the joint publication.
LEMMA JointEvolves ==
  ASSUME [Next]_vars
  PROVE  \/ joint' = joint
         \/ joint' = NoJoint
         \/ \E r \in Revisions : JointBegin(r)
         \/ JointCapture
         \/ \E t \in Tests : JointValidate(t)
<1>1. ASSUME NEW r \in Revisions, RevisionStep(r), ~JointBegin(r) PROVE joint' = joint
  BY <1>1 DEF RevisionStep, SaveRevision, CloneRevision, AbandonRevision, DeprecateRevision, FormalRun
<1>2. ASSUME NEW t \in Tests, TestStep(t) PROVE joint' = joint
  BY <1>2 DEF TestStep, PlanScenarioTest, CreateScenarioTest, RefuseScenarioTest, ClaimTest, SucceedTest,
              FailInvalidTest, EndTestUnsuccessfully, ResetRevision
<1>3. Restart \/ JointRefused \/ JointCommit => joint' = NoJoint
  BY DEF Restart, JointRefused, JointCommit, JointlyPublished
<1>4. QED
  BY <1>1, <1>2, <1>3 DEF Next, JointStep, vars, scenarioVars

-----------------------------------------------------------------------------
\* A revision that exists goes on to exist, and so does whatever points to it.
LEMMA ExistsOn ==
  ASSUME ScenarioTyped, NEW r \in Revisions, RevisionEvolves(r), revision[r].status # "absent"
  PROVE  /\ revision'[r].status # "absent"
         /\ \/ /\ revision'[r].definition = revision[r].definition
               /\ revision[r].generation <= revision'[r].generation
            \/ Editable(r) /\ revision[r].generation < revision'[r].generation
<1>1. revision[r].generation \in Nat
  BY DEF ScenarioTyped, RevisionRows
<1>2. QED
  BY <1>1 DEF RevisionEvolves, Mutable

LEMMA RevisionsExistStep ==
  ASSUME ScenarioInv, [Next]_vars
  PROVE  RevisionsExist'
<1>0. /\ CurrentEvolves /\ \A r \in Revisions : RevisionEvolves(r)
      /\ \A t \in Tests : TestEvolves(t)
      /\ current \in Revisions /\ joint \in Joints /\ \A t \in Tests : test[t].revision \in Revisions
      /\ ScenarioTyped
  BY RevisionsEvolve, TestsEvolve DEF ScenarioInv, ScenarioTyped, TestRows
<1>1. RevisionsExist
  BY DEF ScenarioInv
<1>2. revision'[current'].status # "absent"
  BY <1>0, <1>1, ExistsOn DEF CurrentEvolves, RevisionsExist
<1>3. ASSUME NEW t \in Tests, test'[t].status # "none"
      PROVE  revision'[test'[t].revision].status # "absent"
  <2>1. CASE test[t].status # "none" /\ test'[t].revision = test[t].revision
    BY <1>0, <1>1, <2>1, ExistsOn DEF RevisionsExist
  <2>2. CASE test'[t].revision = current
    BY <1>0, <1>1, <2>2, ExistsOn DEF RevisionsExist
  <2>3. QED
    BY <1>0, <1>3, <2>1, <2>2 DEF TestEvolves, ActiveTest
<1>4. ASSUME joint'.step # "idle"
      PROVE  revision'[joint'.revision].status # "absent"
  <2>1. CASE joint' = joint
    BY <1>0, <1>1, <1>4, <2>1, ExistsOn DEF RevisionsExist, Joints
  <2>2. ASSUME NEW r \in Revisions, JointBegin(r) PROVE revision'[joint'.revision].status # "absent"
    <3>1. joint'.revision = r /\ revision[r].status # "absent"
      BY <2>2 DEF JointBegin, NoJoint
    <3>2. QED
      BY <1>0, <3>1, ExistsOn
  <2>3. CASE joint.step # "idle" /\ joint'.revision = joint.revision
    BY <1>0, <1>1, <2>3, ExistsOn DEF RevisionsExist, Joints
  <2>4. JointCapture \/ (\E t \in Tests : JointValidate(t))
          => joint.step # "idle" /\ joint'.revision = joint.revision
    BY <1>0 DEF JointCapture, JointValidate, Joints
  <2>5. joint' # NoJoint
    BY <1>4 DEF NoJoint
  <2>6. QED
    BY <2>1, <2>2, <2>3, <2>4, <2>5, JointEvolves
<1>5. QED
  BY <1>2, <1>3, <1>4 DEF RevisionsExist

\* What a test locks is what its definition names, and stays retained.
LEMMA LocksStep ==
  ASSUME ScenarioInv, [Next]_vars
  PROVE  LocksAreRetained'
<1>0. /\ \A t \in Tests : TestEvolves(t)
      /\ retained \subseteq retained'
      /\ current \in Revisions /\ revision[current].definition \in Definitions
      /\ LocksAreRetained
  BY TestsEvolve, KeptStep DEF ScenarioInv, ScenarioTyped, RevisionRows, Kept
<1>1. SUFFICES ASSUME NEW t \in Tests
      PROVE  /\ test'[t].status # "none" =>
                  test'[t].definition \in Definitions /\ DOMAIN test'[t].locks = GraphOf[test'[t].definition]
             /\ test'[t].status \in ActiveTest \cup {"succeeded"} => DOMAIN test'[t].locks \subseteq retained'
  BY DEF LocksAreRetained
<1>2. /\ test[t].status # "none" =>
           test[t].definition \in Definitions /\ DOMAIN test[t].locks = GraphOf[test[t].definition]
      /\ test[t].status \in ActiveTest \cup {"succeeded"} => DOMAIN test[t].locks \subseteq retained'
  BY <1>0 DEF LocksAreRetained
<1>3. TestEvolves(t)
  BY <1>0
<1>4. QED
  BY <1>0, <1>2, <1>3 DEF TestEvolves, ActiveTest

\* One revision changes, the current one, and none changes under its test.
LEMMA OwnedStep ==
  ASSUME ScenarioInv, [Next]_vars
  PROVE  ChangesAreOwned'
<1>0. /\ CurrentEvolves /\ \A r \in Revisions : RevisionEvolves(r)
      /\ \A t \in Tests : TestEvolves(t)
      /\ \A t \in Tests : test[t].revision \in Revisions
      /\ MutableIsCurrent /\ ActiveTestIsCurrent /\ RevisionsExist /\ ScenarioTyped
  BY RevisionsEvolve, TestsEvolve DEF ScenarioInv, ScenarioTyped, TestRows, ChangesAreOwned
<1>1. MutableIsCurrent'
  <2>1. CASE current' = current
    <3>1. ASSUME NEW r \in Revisions, revision'[r].status \in Mutable PROVE r = current'
      <4>1. RevisionEvolves(r) /\ (revision[r].status \in Mutable => r = current)
        BY <1>0 DEF MutableIsCurrent
      <4>2. QED
        BY <2>1, <3>1, <4>1 DEF RevisionEvolves, Editable, Mutable
    <3>2. QED
      BY <3>1 DEF MutableIsCurrent
  <2>2. CASE current' # current
    BY <1>0, <2>2 DEF CurrentEvolves, MutableIsCurrent
  <2>3. QED
    BY <2>1, <2>2
<1>2. ActiveTestIsCurrent'
  <2>1. SUFFICES ASSUME NEW t \in Tests, test'[t].status \in ActiveTest
                 PROVE  test'[t].definition = revision'[test'[t].revision].definition
    BY DEF ActiveTestIsCurrent
  <2>2. TestEvolves(t)
    BY <1>0
  <2>3. CASE test[t].status \in ActiveTest
    <3>1. /\ test'[t].revision = test[t].revision /\ test'[t].definition = test[t].definition
          /\ test[t].definition = revision[test[t].revision].definition
      BY <1>0, <2>1, <2>2, <2>3 DEF TestEvolves, ActiveTest, ActiveTestIsCurrent
    <3>2. revision[test[t].revision].status # "absent" /\ ~Editable(test[t].revision)
      BY <1>0, <2>3 DEF RevisionsExist, ActiveTest, Editable, HasActiveTest
    <3>3. revision'[test[t].revision].definition = revision[test[t].revision].definition
      BY <1>0, <3>2, ExistsOn
    <3>4. QED
      BY <3>1, <3>3
  <2>4. CASE test[t].status \notin ActiveTest
    BY <2>1, <2>2, <2>4 DEF TestEvolves, ActiveTest
  <2>5. QED
    BY <2>3, <2>4
<1>3. QED
  BY <1>1, <1>2 DEF ChangesAreOwned

\* A test that has succeeded stays as it is.
LEMMA SucceededStays ==
  ASSUME ScenarioInv, [Next]_vars, NEW t \in Succeeded
  PROVE  t \in Tests /\ test'[t] = test[t] /\ t \in Succeeded'
<1>1. t \in Tests /\ test[t].status = "succeeded"
  BY DEF Succeeded
<1>2. TestEvolves(t) \/ test'[t] = test[t]
  BY <1>1, TestsEvolve
<1>3. QED
  BY <1>1, <1>2 DEF TestEvolves, ActiveTest, Succeeded

\* A revision becomes tested only by evidence that stays.
LEMMA PassedStep ==
  ASSUME ScenarioInv, [Next]_vars
  PROVE  PassedHasEvidence'
<1>1. SUFFICES ASSUME NEW r \in Revisions, revision'[r].status = "test_passed", NEW m \in RequiredModes(r)
               PROVE  \E t \in Succeeded' : /\ ModeOf[t] = m /\ test'[t].revision = r
                                            /\ test'[t].definition = revision'[r].definition
  BY DEF PassedHasEvidence, RequiredModes
<1>2. RevisionEvolves(r)
  BY RevisionsEvolve
<1>3. CASE revision'[r] = revision[r]
  <2>1. PICK t \in Succeeded : /\ ModeOf[t] = m /\ test[t].revision = r
                               /\ test[t].definition = revision[r].definition
    BY <1>1, <1>3 DEF ScenarioInv, PassedHasEvidence
  <2>2. t \in Succeeded' /\ test'[t] = test[t]
    BY SucceededStays
  <2>3. QED
    BY <1>3, <2>1, <2>2
<1>4. CASE revision'[r].definition = revision[r].definition /\ Evidenced(r)
  BY <1>4 DEF Evidenced, Succeeded
<1>5. QED
  BY <1>1, <1>2, <1>3, <1>4 DEF RevisionEvolves

\* What a successful test has locked, with its releases released, matches for good.
LEMMA MatchesOn ==
  ASSUME ScenarioInv, [Next]_vars, NEW r \in Revisions, revision'[r].definition = revision[r].definition,
         NEW t \in Succeeded, Matches(t, r), \A c \in Graph(r) : release'[c].content = release[c].content,
         \A c \in Graph(r) : IsReleased(c)'
  PROVE  Matches(t, r)'
<1>1. test'[t] = test[t] /\ Graph(r)' = Graph(r)
  BY SucceededStays DEF Graph
<1>2. DOMAIN test[t].locks = Graph(r)
  <2>1. t \in Tests /\ test[t].status # "none" /\ test[t].definition = revision[r].definition
    BY DEF Succeeded, Matches
  <2>2. QED
    BY <2>1 DEF ScenarioInv, LocksAreRetained, Graph
<1>3. \A c \in DOMAIN test'[t].locks : test'[t].locks[c] = release'[c].content
  BY <1>1, <1>2 DEF Matches
<1>4. test'[t].revision = r /\ test'[t].definition = revision'[r].definition
  BY <1>1 DEF Matches
<1>5. \A c \in Graph(r)' : c \in DOMAIN test'[t].locks /\ (IsReleased(c)' \/ IsCandidate(c)')
  BY <1>1, <1>2
<1>6. QED
  BY <1>3, <1>4, <1>5 DEF Matches

\* A released revision stays installable as it was tested.
LEMMA ReleasedStep ==
  ASSUME ScenarioInv, [Next]_vars
  PROVE  ReleasedAsTested'
<1>1. SUFFICES ASSUME NEW r \in Revisions, revision'[r].status = "released"
               PROVE  /\ \A c \in Graph(r)' : IsReleased(c)'
                      /\ \A m \in RequiredModes(r) : \E t \in Succeeded' : ModeOf[t] = m /\ Matches(t, r)'
  BY DEF ReleasedAsTested, RequiredModes
<1>2. RevisionEvolves(r)
  BY RevisionsEvolve
<1>3. SUFFICES ASSUME revision'[r].definition = revision[r].definition,
                      \A m \in RequiredModes(r) : \E t \in Succeeded : ModeOf[t] = m /\ Matches(t, r),
                      \A c \in Graph(r) : IsReleased(c)' /\ release'[c].content = release[c].content
               PROVE  /\ \A c \in Graph(r)' : IsReleased(c)'
                      /\ \A m \in RequiredModes(r) : \E t \in Succeeded' : ModeOf[t] = m /\ Matches(t, r)'
  <2>1. CASE revision'[r] = revision[r]
    <3>1. /\ \A c \in Graph(r) : IsReleased(c)
          /\ \A m \in RequiredModes(r) : \E t \in Succeeded : ModeOf[t] = m /\ Matches(t, r)
      BY <1>1, <2>1 DEF ScenarioInv, ReleasedAsTested
    <3>2. PICK t \in Succeeded : Matches(t, r)
      BY <3>1 DEF RequiredModes
    <3>3. Graph(r) \subseteq retained
      BY <3>2 DEF ScenarioInv, LocksAreRetained, Matches, Succeeded
    <3>4. \A c \in Graph(r) : IsReleased(c)' /\ release'[c].content = release[c].content
      BY <3>1, <3>3, KeptStep DEF Kept
    <3>5. QED
      BY <1>3, <2>1, <3>1, <3>4
  <2>2. CASE /\ JointCommit /\ joint.revision = r /\ revision'[r].definition = revision[r].definition
    <3>1. /\ \A m \in RequiredModes(r) : \E t \in Succeeded : ModeOf[t] = m /\ Matches(t, r)
          /\ Matches(joint.evidence, r)
          /\ joint.candidates = {c \in Graph(r) : IsCandidate(c)}
      BY <2>2 DEF JointCommit, RequiredEvidence
    <3>2. Graph(r) \subseteq Releases
      BY ScenarioAssumption DEF ScenarioInv, ScenarioTyped, RevisionRows, Graph
    <3>3. ASSUME NEW c \in Graph(r) PROVE IsReleased(c)' /\ release'[c].content = release[c].content
      <4>1. CASE c \in joint.candidates
        <5>1. release[c] \in Rows /\ release[c].generation + 1 \in 1..MaxGeneration
          BY <2>2, <3>2, <4>1, JointCommitFinds, CatalogAssumption
             DEF ScenarioInv, CatalogInv, CatalogTyped, Changeable, Rows
        <5>2. release'[c] = [release[c] EXCEPT !.status = "released", !.candidate = FALSE,
                                               !.published = TRUE, !.generation = @ + 1]
          BY <2>2, <3>2, <4>1 DEF JointCommit, JointlyPublished
        <5>3. QED
          BY <5>1, <5>2, PublishedRow DEF IsReleased
      <4>2. CASE c \notin joint.candidates
        <5>1. release'[c] = release[c]
          BY <2>2, <3>2, <4>2 DEF JointCommit, JointlyPublished
        <5>2. QED
          BY <3>1, <4>2, <5>1 DEF Matches, IsReleased
      <4>3. QED
        BY <4>1, <4>2
    <3>4. QED
      BY <1>3, <2>2, <3>1, <3>3
  <2>3. QED
    BY <1>1, <1>2, <2>1, <2>2 DEF RevisionEvolves
<1>4. Graph(r)' = Graph(r)
  BY <1>3 DEF Graph
<1>5. ASSUME NEW m \in RequiredModes(r) PROVE \E t \in Succeeded' : ModeOf[t] = m /\ Matches(t, r)'
  <2>1. PICK t \in Succeeded : ModeOf[t] = m /\ Matches(t, r)
    BY <1>3
  <2>2. Matches(t, r)'
    BY <1>3, <2>1, MatchesOn
  <2>3. t \in Succeeded'
    BY SucceededStays
  <2>4. QED
    BY <2>1, <2>2, <2>3
<1>6. QED
  BY <1>3, <1>4, <1>5

-----------------------------------------------------------------------------
\* What a joint publication has read stays true of the past.
LEMMA JointReadStep ==
  ASSUME ScenarioInv, [Next]_vars
  PROVE  JointReadThePast'
<1>0. /\ \A r \in Revisions : RevisionEvolves(r)
      /\ CatalogTyped /\ CatalogTyped' /\ Evolves /\ ScenarioTyped
      /\ joint \in Joints /\ joint.revision \in Revisions /\ joint.generation \in Nat
      /\ \A r \in Revisions : revision[r].generation \in Nat /\ revision[r].definition \in Definitions
  BY RevisionsEvolve, CatalogTypeStep DEF ScenarioInv, CatalogInv, ScenarioTyped, RevisionRows, Joints
<1>1. JointReadThePast /\ RevisionsExist
  BY DEF ScenarioInv
<1>2. \A c \in DOMAIN joint.guards : c \in Releases /\ joint.guards[c].generation \in Nat
  BY <1>0, CatalogAssumption DEF Joints, Guards, Rows
<1>3. \A c \in Releases : release[c].generation \in Nat /\ release'[c].generation \in Nat
  BY <1>0, CatalogAssumption DEF CatalogTyped, Rows
<1>4. CASE joint' = joint
  <2>1. SUFFICES ASSUME joint.step # "idle" PROVE JointReadThePast'
    BY <1>4 DEF JointReadThePast
  <2> DEFINE r == joint.revision
  <2>2. revision'[r].generation \in Nat
    BY <1>0, ScenarioTypeStep DEF ScenarioTyped, RevisionRows
  <2>3. revision[r].status # "absent"
    BY <1>1, <2>1 DEF RevisionsExist
  <2>4. joint.generation < revision'[r].generation
          \/ (joint.generation = revision'[r].generation /\ joint.definition = revision'[r].definition)
    BY <1>0, <1>1, <2>1, <2>2, <2>3, ExistsOn DEF JointReadThePast
  <2>5. ASSUME NEW c \in DOMAIN joint.guards
        PROVE  release'[c] = joint.guards[c] \/ joint.guards[c].generation < release'[c].generation
    <3>1. release[c] = joint.guards[c] \/ joint.guards[c].generation < release[c].generation
      BY <1>1, <2>1 DEF JointReadThePast
    <3>2. release'[c] = release[c] \/ release[c].generation < release'[c].generation
      BY <1>0, <1>2 DEF Evolves
    <3>3. QED
      BY <1>2, <1>3, <3>1, <3>2
  <2>6. QED
    BY <1>1, <1>4, <2>1, <2>4, <2>5 DEF JointReadThePast
<1>5. CASE joint' = NoJoint
  BY <1>5 DEF NoJoint, JointReadThePast
<1>6. ASSUME NEW r \in Revisions, JointBegin(r) PROVE JointReadThePast'
  <2>1. /\ joint'.step = "capture" /\ joint'.revision = r /\ joint'.generation = revision[r].generation
        /\ joint'.definition = revision[r].definition /\ joint'.guards = NoGuards
        /\ revision' = revision
    BY <1>6 DEF JointBegin, NoJoint
  <2>2. QED
    BY <1>0, <2>1 DEF JointReadThePast, NoGuards
<1>7. CASE JointCapture
  <2> DEFINE D == Closure(GraphOf[joint.definition], Releases)
  <2>1. /\ joint.step = "capture"
        /\ joint'.revision = joint.revision /\ joint'.generation = joint.generation
        /\ joint'.definition = joint.definition /\ joint'.guards = [c \in D |-> release[c]]
        /\ UNCHANGED <<revision, release>>
    BY <1>0, <1>7 DEF JointCapture, Joints, catalogVars, rows
  <2>2. joint.definition \in Definitions
    BY <1>1, <2>1 DEF JointReadThePast
  <2>3. GraphOf[joint.definition] \subseteq D
    BY <2>2, ScenarioAssumption DEF Closure
  <2>4. \A c \in DOMAIN joint'.guards : release'[c] = joint'.guards[c]
    BY <2>1
  <2>5. QED
    BY <1>1, <2>1, <2>3, <2>4 DEF JointReadThePast
<1>8. ASSUME NEW t \in Tests, JointValidate(t) PROVE JointReadThePast'
  <2>1. /\ joint.step = "validate"
        /\ joint'.revision = joint.revision /\ joint'.generation = joint.generation
        /\ joint'.definition = joint.definition /\ joint'.guards = joint.guards
        /\ UNCHANGED <<revision, release>>
    BY <1>0, <1>8 DEF JointValidate, Joints, catalogVars, rows
  <2>2. QED
    BY <1>1, <2>1 DEF JointReadThePast
<1>9. QED
  BY <1>4, <1>5, <1>6, <1>7, <1>8, JointEvolves

\* What it has validated is true at its commit, or outdated.
LEMMA JointValidatedStep ==
  ASSUME ScenarioInv, [Next]_vars
  PROVE  JointValidatedOrOutdated'
<1>0. /\ \A r \in Revisions : RevisionEvolves(r)
      /\ CatalogTyped /\ CatalogTyped' /\ Evolves /\ ScenarioTyped /\ ScenarioTyped'
      /\ joint \in Joints /\ joint.revision \in Revisions /\ joint.generation \in Nat
  BY RevisionsEvolve, CatalogTypeStep, ScenarioTypeStep DEF ScenarioInv, CatalogInv, ScenarioTyped, Joints
<1>1. JointReadThePast /\ RevisionsExist /\ JointValidatedOrOutdated
  BY DEF ScenarioInv
<1>2. CASE joint' = joint
  <2> DEFINE r == joint.revision
             G == GraphOf[joint.definition]
  <2>1. SUFFICES ASSUME joint.step = "commit", joint.generation = revision'[r].generation,
                        NEW c \in G, release'[c] = joint.guards[c]
                 PROVE  Needs(c)' \subseteq G /\ (IsCandidate(c)' => HasEvidence(c)')
    BY <1>2 DEF JointValidatedOrOutdated
  <2>2. joint.generation = revision[r].generation
    <3>1. revision[r].generation \in Nat /\ revision'[r].generation \in Nat /\ revision[r].status # "absent"
      BY <1>0, <1>1, <2>1 DEF ScenarioTyped, RevisionRows, RevisionsExist
    <3>2. revision[r].generation <= revision'[r].generation
      BY <1>0, <3>1, ExistsOn
    <3>3. joint.generation <= revision[r].generation
      BY <1>0, <1>1, <2>1, <3>1 DEF JointReadThePast
    <3>4. QED
      BY <1>0, <2>1, <3>1, <3>2, <3>3
  <2>3. c \in DOMAIN joint.guards /\ c \in Releases
    BY <1>0, <1>1, <2>1 DEF JointReadThePast, Joints, Guards
  <2>4. release[c] = joint.guards[c] /\ release'[c] = release[c]
    <3>1. release[c].generation \in Nat /\ release'[c].generation \in Nat
             /\ joint.guards[c].generation \in Nat
      BY <1>0, <2>3, CatalogAssumption DEF CatalogTyped, Rows, Joints, Guards
    <3>2. release[c] = joint.guards[c] \/ joint.guards[c].generation < release[c].generation
      BY <1>1, <2>1, <2>3 DEF JointReadThePast
    <3>3. release'[c] = release[c] \/ release[c].generation < release'[c].generation
      BY <1>0, <2>3 DEF Evolves
    <3>4. QED
      BY <2>1, <3>1, <3>2, <3>3
  <2>5. Needs(c) \subseteq G /\ (IsCandidate(c) => HasEvidence(c))
    BY <1>1, <2>1, <2>2, <2>4 DEF JointValidatedOrOutdated
  <2>6. QED
    BY <1>0, <2>4, <2>5 DEF Needs, IsCandidate, IsDraft, HasEvidence, EvidenceFor, Evolves
<1>3. joint'.step # "commit" => JointValidatedOrOutdated'
  BY DEF JointValidatedOrOutdated
<1>4. ASSUME NEW t \in Tests, JointValidate(t) PROVE JointValidatedOrOutdated'
  <2> DEFINE r == joint.revision
             G == GraphOf[joint.definition]
  <2>1. /\ joint.step = "validate" /\ GraphValid(Graph(r))
        /\ joint'.revision = joint.revision /\ joint'.generation = joint.generation
        /\ joint'.definition = joint.definition /\ joint'.guards = joint.guards
        /\ UNCHANGED <<revision, release, evidence>>
    BY <1>0, <1>4 DEF JointValidate, Joints, catalogVars, rows
  <2>2. SUFFICES ASSUME joint.generation = revision[r].generation, NEW c \in G
                 PROVE  Needs(c)' \subseteq G /\ (IsCandidate(c)' => HasEvidence(c)')
    BY <2>1 DEF JointValidatedOrOutdated
  <2>3. Graph(r) = G /\ c \in Releases
    <3>1. joint.definition = revision[r].definition /\ joint.definition \in Definitions
      BY <1>0, <1>1, <2>1, <2>2 DEF JointReadThePast
    <3>2. QED
      BY <3>1, ScenarioAssumption DEF Graph
  <2>4. Needs(c) \subseteq G /\ (IsReleased(c) \/ (IsCandidate(c) /\ IsReady(c)))
    BY <2>1, <2>3 DEF GraphValid
  <2>5. IsCandidate(c) => HasEvidence(c)
    <3>1. c \in Closure({c}, Unreleased)
      BY <2>3 DEF Closure
    <3>2. IsReady(c) => HasEvidence(c)
      BY <3>1 DEF IsReady
    <3>3. QED
      BY <2>4, <3>2 DEF IsReleased, IsCandidate, IsDraft
  <2>6. QED
    BY <2>1, <2>4, <2>5 DEF Needs, IsCandidate, IsDraft, HasEvidence, EvidenceFor
<1>5. joint' = NoJoint \/ (\E r \in Revisions : JointBegin(r)) \/ JointCapture => joint'.step # "commit"
  <2>1. joint' = NoJoint => joint'.step # "commit"
    BY DEF NoJoint
  <2>2. ASSUME NEW r \in Revisions, JointBegin(r) PROVE joint'.step # "commit"
    BY <2>2 DEF JointBegin, NoJoint
  <2>3. JointCapture => joint'.step # "commit"
    BY <1>0 DEF JointCapture, Joints
  <2>4. QED
    BY <2>1, <2>2, <2>3
<1>6. QED
  BY <1>2, <1>3, <1>4, <1>5, JointEvolves

-----------------------------------------------------------------------------
\* The invariant holds from the start and every step keeps it.
LEMMA ScenarioInit == Init => ScenarioInv
<1> SUFFICES ASSUME Init PROVE ScenarioInv
  OBVIOUS
<1> USE ScenarioAssumption
<1>1. CatalogInv
  BY CatalogInitHolds DEF Init
<1>2. ScenarioTyped
  BY UnplannedTypes DEF Init, ScenarioTyped, RevisionRows, RevisionStatuses
<1>3. RevisionsExist /\ LocksAreRetained
  BY DEF Init, RevisionsExist, LocksAreRetained, Unplanned, NoJoint, ActiveTest
<1>4. ChangesAreOwned /\ PassedHasEvidence /\ ReleasedAsTested
  BY DEF Init, ChangesAreOwned, MutableIsCurrent, ActiveTestIsCurrent, PassedHasEvidence, ReleasedAsTested,
         Unplanned, ActiveTest, Mutable
<1>5. JointReadThePast /\ JointValidatedOrOutdated
  BY DEF Init, JointReadThePast, JointValidatedOrOutdated, NoJoint
<1>6. QED
  BY <1>1, <1>2, <1>3, <1>4, <1>5 DEF ScenarioInv

LEMMA ScenarioInvariantHolds == Spec => []ScenarioInv
<1>1. ScenarioInv /\ [Next]_vars => ScenarioInv'
  BY CatalogInvStep, ScenarioTypeStep, RevisionsExistStep, LocksStep, OwnedStep, PassedStep, ReleasedStep,
     JointReadStep, JointValidatedStep DEF ScenarioInv
<1>2. QED
  BY <1>1, ScenarioInit, PTL DEF Spec

\* The catalog and the scenario above it are well formed in every state.
THEOREM ScenarioTypeCorrect == Spec => []TypeOK
<1>1. ScenarioInv => TypeOK
  BY ScenarioTypedIsTypeOK DEF ScenarioInv, CatalogInv, Typed
<1>2. QED
  BY <1>1, ScenarioInvariantHolds, PTL

\* However saves, clones, withdrawals and tests follow each other, a scenario has one
\* revision that changes, and none that changes under a test.
THEOREM ChangesStayOwned == Spec => []ChangesAreOwned
<1>1. ScenarioInv => ChangesAreOwned
  BY DEF ScenarioInv
<1>2. QED
  BY <1>1, ScenarioInvariantHolds, PTL

\* A revision that counts as tested has a successful test of every mode it needs, of
\* the definition it has now.
THEOREM PassedRevisionsHaveEvidence == Spec => []PassedHasEvidence
<1>1. ScenarioInv => PassedHasEvidence
  BY DEF ScenarioInv
<1>2. QED
  BY <1>1, ScenarioInvariantHolds, PTL

\* A released revision stays installable as it was tested, whatever happens to the
\* catalog later.
THEOREM ReleasedRevisionsStayAsTested == Spec => []ReleasedAsTested
<1>1. ScenarioInv => ReleasedAsTested
  BY DEF ScenarioInv
<1>2. QED
  BY <1>1, ScenarioInvariantHolds, PTL

\* What was published, alone or jointly, has evidence: the catalog's invariant is
\* one of the scenario's specification as well.
THEOREM JointlyPublishedHasEvidence == Spec => []PublishedHasEvidence
<1>1. ScenarioInv => PublishedHasEvidence
  BY DEF ScenarioInv, CatalogInv
<1>2. QED
  BY <1>1, ScenarioInvariantHolds, PTL

-----------------------------------------------------------------------------
\* The commit of a joint publication is the publication of its candidates at one
\* moment.
LEMMA JointCommitPublishes ==
  ASSUME ScenarioInv, JointCommit
  PROVE  joint.candidates \in SUBSET Releases /\ Atomic!PublishTogether(joint.candidates)
<1> DEFINE C == joint.candidates
<1>1. /\ C \subseteq Releases
      /\ \A c \in C : /\ IsCandidate(c) /\ Changeable(c) /\ HasEvidence(c)
                      /\ \A u \in Needs(c) : IsReleased(u) \/ u \in C
  BY JointCommitFinds
<1>2. CatalogTyped /\ release \in [Releases -> Rows]
  BY DEF ScenarioInv, CatalogInv, CatalogTyped
<1>3. /\ release' = [c \in Releases |-> IF c \notin C THEN release[c]
           ELSE [release[c] EXCEPT !.status = "released", !.candidate = FALSE, !.published = TRUE,
                                   !.generation = @ + 1]]
      /\ evidence' = evidence
  BY DEF JointCommit, JointlyPublished
<1> HIDE DEF C
<1>4. ASSUME NEW c \in Releases
      PROVE  Visible(release'[c]) = IF c \in C THEN Atomic!AsReleased(VisibleRow[c]) ELSE VisibleRow[c]
  <2>1. CASE c \in C
    <3>1. release[c] \in Rows /\ release[c].generation + 1 \in 1..MaxGeneration
      BY <1>1, <1>2, <2>1, CatalogAssumption DEF Changeable, Rows
    <3>2. release'[c] = [release[c] EXCEPT !.status = "released", !.candidate = FALSE, !.published = TRUE,
                                           !.generation = @ + 1]
      BY <1>3, <2>1
    <3>3. Visible(release'[c]) = Atomic!AsReleased(Visible(release[c]))
      BY <3>1, <3>2, PublishedRow
    <3>4. QED
      BY <2>1, <3>3, VisibleParts
  <2>2. CASE c \notin C
    <3>1. release'[c] = release[c]
      BY <1>3, <2>2
    <3>2. QED
      BY <2>2, <3>1, VisibleParts
  <2>3. QED
    BY <2>1, <2>2
<1>5. VisibleRow' = [c \in Releases |-> IF c \in C THEN Atomic!AsReleased(VisibleRow[c]) ELSE VisibleRow[c]]
  BY <1>4 DEF VisibleRow, Visible
<1>6. ASSUME NEW c \in C
      PROVE  /\ Atomic!Draft(c) /\ VisibleRow[c].candidate /\ <<c, VisibleRow[c].content>> \in Subjects
             /\ \A u \in Atomic!Needed(c) : Atomic!Released(u) \/ u \in C
  <2>1. c \in Releases /\ IsDraft(c) /\ release[c].candidate
    BY <1>1 DEF IsCandidate
  <2>2. Needs(c) \subseteq Releases
    BY <1>2, <2>1, CatalogAssumption DEF Needs, Rows
  <2>3. VisibleRow[c].candidate
    BY <2>1 DEF VisibleRow
  <2>4. QED
    BY <1>1, <1>2, <2>1, <2>2, <2>3, SameQueries, SubjectsOfRecord
<1>7. QED
  BY <1>1, <1>3, <1>5, <1>6 DEF Atomic!PublishTogether, Subjects, C

\* The joint publication of a scenario revision is atomic as well: its candidates
\* become released at one moment, tested and complete at that very moment, although
\* they were captured and validated in separate steps (PublishScenario).
THEOREM JointPublicationsAreAtomic == Spec => PublishesJointlyAtomically
<1>1. Init => Atomic!Init
  BY CatalogInitIsAtomic DEF Init
<1>2. ScenarioInv /\ [Next]_vars => [Atomic!Next]_<<VisibleRow, Subjects>>
  <2> SUFFICES ASSUME ScenarioInv, [Next]_vars PROVE Atomic!Next \/ Hidden
    BY DEF Hidden
  <2>1. CASE [CatalogNext]_catalogVars
    <3>1. [Atomic!DirectNext]_<<VisibleRow, Subjects>>
      BY <2>1, CatalogStepIsAtomic DEF ScenarioInv
    <3>2. QED
      BY <3>1 DEF Atomic!Next, Hidden
  <2>2. CASE JointCommit
    BY <2>2, JointCommitPublishes DEF Atomic!Next
  <2>3. CASE UNCHANGED <<release, evidence>>
    BY <2>3, UnchangedIsHidden
  <2>4. QED
    BY <2>1, <2>2, <2>3, CatalogEffects
       DEF vars, catalogVars, rows, Retains, Advances, Restart
<1>3. QED
  BY <1>1, <1>2, ScenarioInvariantHolds, PTL
     DEF Spec, PublishesJointlyAtomically, Atomic!Spec, Atomic!catalog
=============================================================================

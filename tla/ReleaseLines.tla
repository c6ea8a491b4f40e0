--------------------------- MODULE ReleaseLines ---------------------------
(* The release lines of one component and the recovery points taken of them.*)
(* A release is a draft, is published, is deprecated, or is an abandoned    *)
(* draft, which the code stores as 'deprecated' without a released_at.      *)
(* Creating a draft reads the catalog in a preview and inserts the row in a *)
(* later transaction, where only the foreign keys and the two partial       *)
(* unique indexes of the table are left to refuse it.                       *)
(*                                                                          *)
(* A backup exports the rows that are 'released' or 'deprecated' and checks *)
(* nothing about how they refer to each other; a restore refuses a catalog  *)
(* whose references do not hold (backup/restore.go).                        *)
EXTENDS Naturals, FiniteSets

CONSTANTS Releases,      \* identities a release may be created with
          NoRelease

ASSUME LinesAssumption == NoRelease \notin Releases

VARIABLES releases,      \* release -> its row; "none" when there is none
          previewed,     \* release -> the plan of a creation under way
          publications   \* how many releases were published so far

lineVars == <<releases, previewed, publications>>

NoPlan == [line |-> NoRelease, parent |-> NoRelease,
           template |-> NoRelease, complete |-> FALSE]

\* A line is named after the release that opened it. `published` is the
\* position of released_at in time, 0 when it is NULL; `complete` says that the
\* release has its install and rollback actions with their checks.
Row(plan, status, published) ==
    [status |-> status, published |-> published, line |-> plan.line,
     parent |-> plan.parent, template |-> plan.template,
     complete |-> plan.complete]

Absent == Row(NoPlan, "none", 0)

LinesInit == /\ releases = [r \in Releases |-> Absent]
             /\ previewed = [r \in Releases |-> NoPlan]
             /\ publications = 0

Exists(r)    == releases[r].status # "none"
Retained     == {r \in Releases : releases[r].status \in {"released", "deprecated"}}
Drafts       == {r \in Releases : releases[r].status = "draft"}
WasPublished(r) == releases[r].published > 0
Abandoned    == {r \in Retained : ~WasPublished(r)}

HasActiveDraftInLine(l) == \E d \in Drafts : releases[d].line = l

LatestPublishedInLine(l) ==
    {r \in Releases : /\ WasPublished(r) /\ releases[r].line = l
                      /\ \A q \in Releases :
                            WasPublished(q) /\ releases[q].line = l =>
                                releases[q].published <= releases[r].published}

\* What idx_releases_one_successor counts.
Successors(p) == {r \in Releases : /\ releases[r].parent = p
                                   /\ \/ releases[r].status \in {"draft", "released"}
                                      \/ WasPublished(r)}
HasRetainedSuccessor(p) == Successors(p) # {}

---------------------------------------------------------------------------
\* PreviewReleaseDraft, as createReleaseDraft calls it before the insert.

PreviewNewLine(r, t) ==
    /\ ~Exists(r) /\ previewed[r] = NoPlan
    /\ t \in Retained \cup {NoRelease}
    /\ previewed' = [previewed EXCEPT ![r] =
          [line |-> r, parent |-> NoRelease, template |-> t,
           complete |-> t # NoRelease /\ releases[t].complete]]
    /\ UNCHANGED <<releases, publications>>

PreviewEvolution(r, p) ==
    /\ ~Exists(r) /\ previewed[r] = NoPlan
    /\ releases[p].status = "released"
    /\ ~HasActiveDraftInLine(releases[p].line)
    /\ p \in LatestPublishedInLine(releases[p].line)
    /\ ~HasRetainedSuccessor(p)
    /\ previewed' = [previewed EXCEPT ![r] =
          [line |-> releases[p].line, parent |-> p, template |-> p,
           complete |-> releases[p].complete]]
    /\ UNCHANGED <<releases, publications>>

ForeignKeysHold(plan) ==
    \A ref \in {plan.parent, plan.template} : ref = NoRelease \/ Exists(ref)

\* Mutant: the insert trusts what the preview saw.
IndexesTrustPreview(plan) == TRUE

\* idx_releases_one_draft_per_line and idx_releases_one_successor.
IndexesAllow(plan) ==
    /\ ~HasActiveDraftInLine(plan.line)
    /\ plan.parent = NoRelease \/ ~HasRetainedSuccessor(plan.parent)

CreateClonedComponentRelease(r) ==
    /\ previewed[r] # NoPlan
    /\ releases' = IF ForeignKeysHold(previewed[r]) /\ IndexesAllow(previewed[r])
                   THEN [releases EXCEPT ![r] = Row(previewed[r], "draft", 0)]
                   ELSE releases
    /\ previewed' = [previewed EXCEPT ![r] = NoPlan]
    /\ UNCHANGED publications

\* Actions are saved and deleted one by one through their own endpoint.
EditActions(r, complete) ==
    /\ r \in Drafts /\ complete # releases[r].complete
    /\ releases' = [releases EXCEPT ![r].complete = complete]
    /\ UNCHANGED <<previewed, publications>>

\* A publication validates the complete contract of the release.
PublishRelease(r) ==
    /\ r \in Drafts /\ releases[r].complete
    /\ publications' = publications + 1
    /\ releases' = [releases EXCEPT ![r].status = "released",
                                    ![r].published = publications + 1]
    /\ UNCHANGED previewed

DeprecateRelease(r) ==
    /\ releases[r].status \in {"draft", "released"}
    /\ releases' = [releases EXCEPT ![r].status = "deprecated"]
    /\ UNCHANGED <<previewed, publications>>

\* What RestoreDeprecatedComponentRelease refuses: another draft of the line,
\* another successor of the parent.
RestoreAllowed(r) ==
    /\ r \in Abandoned
    /\ ~HasActiveDraftInLine(releases[r].line)
    /\ releases[r].parent = NoRelease \/ ~HasRetainedSuccessor(releases[r].parent)

RestoreDeprecatedRelease(r) ==
    /\ RestoreAllowed(r)
    /\ releases' = [releases EXCEPT ![r].status = "draft"]
    /\ UNCHANGED <<previewed, publications>>

ReferencedBy(r) == {q \in Releases \ {r} : r \in {releases[q].parent, releases[q].template}}

DeleteRelease(r) ==
    /\ r \in Abandoned /\ ReferencedBy(r) = {}
    /\ releases' = [releases EXCEPT ![r] = Absent]
    /\ UNCHANGED <<previewed, publications>>

LinesNext ==
    \E r \in Releases :
       \/ \E t \in Releases \cup {NoRelease} : PreviewNewLine(r, t)
       \/ \E p \in Releases : PreviewEvolution(r, p)
       \/ CreateClonedComponentRelease(r)
       \/ \E complete \in BOOLEAN : EditActions(r, complete)
       \/ PublishRelease(r)
       \/ DeprecateRelease(r)
       \/ RestoreDeprecatedRelease(r)
       \/ DeleteRelease(r)

LinesSpec == LinesInit /\ [][LinesNext]_lineVars

---------------------------------------------------------------------------
\* The rows ExportCatalog writes to the recovery point.
ExportedReleases == Retained

\* The rules validateCatalogReferences applies to the releases it finds.
ParentsHold(E) ==
    \A r \in E : releases[r].parent # NoRelease =>
        /\ releases[r].parent \in E \ {r}
        /\ releases[releases[r].parent].line = releases[r].line

OneRetainedSuccessor(E) ==
    \A r, q \in E :
       /\ releases[r].parent # NoRelease /\ releases[r].parent = releases[q].parent
       /\ WasPublished(r) /\ WasPublished(q)
       => r = q

NoParentCycle(E) ==
    \A S \in SUBSET E : S # {} => \E r \in S : releases[r].parent \notin S

TemplatesHold(E) ==
    \A r \in E : releases[r].template # NoRelease => releases[r].template \in E \ {r}

ActionsComplete(E) == \A r \in E : releases[r].complete

CatalogReferencesHold(E) ==
    /\ ParentsHold(E) /\ OneRetainedSuccessor(E) /\ NoParentCycle(E)
    /\ TemplatesHold(E) /\ ActionsComplete(E)

---------------------------------------------------------------------------
LinesTypeOK ==
    /\ releases \in [Releases ->
          [status : {"none", "draft", "released", "deprecated"},
           published : Nat, line : Releases \cup {NoRelease},
           parent : Releases \cup {NoRelease},
           template : Releases \cup {NoRelease}, complete : BOOLEAN]]
    /\ previewed \in [Releases ->
          [line : Releases \cup {NoRelease}, parent : Releases \cup {NoRelease},
           template : Releases \cup {NoRelease}, complete : BOOLEAN]]
    /\ publications \in Nat

\* The published releases of a line are one chain: each one that does not open
\* its line evolves exactly the release published before it in that line,
\* whatever drafts were previewed, abandoned and restored meanwhile. Upgrades
\* and rollbacks follow these edges (store/components.go, schema indexes).
PublishedChain ==
    \A r \in Releases : WasPublished(r) =>
        LET earlier == {q \in Releases : /\ WasPublished(q)
                                         /\ releases[q].line = releases[r].line
                                         /\ releases[q].published < releases[r].published}
        IN IF earlier = {} THEN releases[r].parent = NoRelease
           ELSE /\ releases[r].parent \in earlier
                /\ \A q \in earlier : releases[q].published <= releases[releases[r].parent].published

\* Only an abandoned draft can spoil a recovery point: a restore refuses the
\* exported rows only because an abandoned draft is among them without its
\* install and rollback actions, or because a template that was exported while
\* abandoned is a draft again.
RefusedOnlyForAbandoned ==
    ~CatalogReferencesHold(ExportedReleases) =>
        \/ \E r \in Abandoned : ~releases[r].complete
        \/ \E r \in Retained : releases[r].template \in Drafts

\* The parts of the inductive invariant behind PublishedChain
\* (CatalogCopiesProofs). A publication is later than those before it.
PublishedInOrder ==
    /\ \A r \in Releases :
          /\ releases[r].published <= publications
          /\ WasPublished(r) => r \in Retained
          /\ releases[r].status = "released" => WasPublished(r)
    /\ \A r, q \in Releases :
          WasPublished(r) /\ releases[r].published = releases[q].published => r = q

\* A release opens a line of its own or evolves a published one of its line; so
\* does every plan, as long as its release does not exist.
Rooted(r, plan) ==
    IF plan.parent = NoRelease THEN plan.line = r
    ELSE WasPublished(plan.parent) /\ releases[plan.parent].line = plan.line

LinesAreRooted ==
    \A r \in Releases :
       /\ Exists(r) => Rooted(r, releases[r])
       /\ previewed[r] # NoPlan => ~Exists(r) /\ Rooted(r, previewed[r])
       /\ WasPublished(r) => releases[r].line \in Releases /\ WasPublished(releases[r].line)

\* A line has one draft, which evolves the latest release of the line; only the
\* latest one has no successor that was published.
OneDraftPerLine == \A r, q \in Drafts : releases[r].line = releases[q].line => r = q

DraftsFollowLatest ==
    \A r \in Drafts : releases[r].parent # NoRelease =>
       releases[r].parent \in LatestPublishedInLine(releases[r].line)

OnlyLatestIsFree ==
    \A r, q \in Releases :
       /\ WasPublished(r) /\ WasPublished(q) /\ releases[r].line = releases[q].line
       /\ releases[r].published < releases[q].published
       => \E s \in Releases : WasPublished(s) /\ releases[s].parent = r

\* docs/catalog-backup-and-restore.md:3 promises that the manifest of the
\* latest success stands for a recovery point that can be committed to: every
\* catalog a backup can export is one that a restore accepts.
BackupRestores == CatalogReferencesHold(ExportedReleases)
=============================================================================

------------------------ MODULE CatalogCopiesProofs ------------------------
(***************************************************************************)
(* Theorems about what becomes of a catalog besides its rows: the release  *)
(* lines a backup exports (ReleaseLines), the recovery points themselves   *)
(* (CatalogBackup) and their restoration (CatalogRestore), the media on    *)
(* their way to a run (MediaDelivery) and the files of MCP clients         *)
(* (Transfers), for any number of releases, repositories, playbooks,       *)
(* media, runs and transfers.                                              *)
(***************************************************************************)
EXTENDS MCCatalogCopies, DataTheorems, SequenceTheorems

LineRows == [status : {"none", "draft", "released", "deprecated"}, published : Nat,
             line : Releases \cup {NoRelease}, parent : Releases \cup {NoRelease},
             template : Releases \cup {NoRelease}, complete : BOOLEAN]
Plans == [line : Releases \cup {NoRelease}, parent : Releases \cup {NoRelease},
          template : Releases \cup {NoRelease}, complete : BOOLEAN]

\* The inductive invariant of the release lines.
LinesInv ==
  /\ LinesTypeOK /\ PublishedInOrder /\ LinesAreRooted
  /\ OneDraftPerLine /\ DraftsFollowLatest /\ OnlyLatestIsFree /\ PublishedChain

LEMMA LineTypes ==
  ASSUME LinesTypeOK
  PROVE  /\ releases \in [Releases -> LineRows] /\ previewed \in [Releases -> Plans]
         /\ publications \in Nat
         /\ \A r \in Releases : releases[r].published \in Nat
         /\ NoPlan \in Plans
  BY DEF LinesTypeOK, LineRows, Plans, NoPlan

\* A published release without a retained successor is the latest of its line.
LEMMA FreeIsLatest ==
  ASSUME LinesTypeOK, OnlyLatestIsFree, NEW p \in Releases, WasPublished(p), ~HasRetainedSuccessor(p)
  PROVE  p \in LatestPublishedInLine(releases[p].line)
<1>1. ASSUME NEW q \in Releases, WasPublished(q), releases[q].line = releases[p].line
      PROVE  releases[q].published <= releases[p].published
  <2>1. ~(releases[p].published < releases[q].published)
    BY <1>1 DEF OnlyLatestIsFree, HasRetainedSuccessor, Successors
  <2>2. QED
    BY <2>1, LineTypes
<1>2. QED
  BY <1>1 DEF LatestPublishedInLine

\* A step that changes neither lines nor parents nor what was published.
SameShape ==
  /\ \A r \in Releases : /\ releases'[r].published = releases[r].published
                         /\ releases'[r].line = releases[r].line
                         /\ releases'[r].parent = releases[r].parent
  /\ publications' = publications

LEMMA SameShapeKeeps ==
  ASSUME LinesInv, SameShape
  PROVE  /\ OnlyLatestIsFree' /\ PublishedChain'
         /\ \A r \in Releases : WasPublished(r)' <=> WasPublished(r)
         /\ \A l : LatestPublishedInLine(l)' = LatestPublishedInLine(l)
<1> USE DEF LinesInv, SameShape
<1>1. \A r \in Releases : WasPublished(r)' <=> WasPublished(r)
  BY DEF WasPublished
<1>2. OnlyLatestIsFree'
  BY <1>1 DEF OnlyLatestIsFree
<1>3. \A l : LatestPublishedInLine(l)' = LatestPublishedInLine(l)
  BY <1>1 DEF LatestPublishedInLine
<1>4. PublishedChain'
  <2> DEFINE Earlier(r) == {q \in Releases : /\ WasPublished(q) /\ releases[q].line = releases[r].line
                                              /\ releases[q].published < releases[r].published}
  <2>1. ASSUME NEW r \in Releases PROVE Earlier(r)' = Earlier(r)
    BY <1>1
  <2>2. ASSUME NEW r \in Releases, WasPublished(r)
        PROVE  IF Earlier(r) = {} THEN releases[r].parent = NoRelease
               ELSE /\ releases[r].parent \in Earlier(r)
                    /\ \A q \in Earlier(r) : releases[q].published <= releases[releases[r].parent].published
    BY <2>2 DEF PublishedChain
  <2>3. ASSUME NEW r \in Releases, WasPublished(r)'
        PROVE  IF Earlier(r)' = {} THEN releases'[r].parent = NoRelease
               ELSE /\ releases'[r].parent \in Earlier(r)'
                    /\ \A q \in Earlier(r)' : releases'[q].published <= releases'[releases'[r].parent].published
    BY <1>1, <2>1, <2>2, <2>3
  <2>4. QED
    BY <2>3 DEF PublishedChain
<1>5. QED
  BY <1>1, <1>2, <1>3, <1>4

\* A preview keeps the invariant: its plan opens a line or evolves a published
\* release of the line.
LEMMA PreviewStep ==
  ASSUME LinesInv, NEW r \in Releases, NEW pl \in Plans, ~Exists(r), Rooted(r, pl),
         previewed' = [previewed EXCEPT ![r] = pl], UNCHANGED <<releases, publications>>
  PROVE  LinesInv'
<1> USE DEF LinesInv
<1>1. LinesTypeOK'
  BY DEF LinesTypeOK, Plans
<1>2. SameShape
  BY DEF SameShape
<1>3. PublishedInOrder' /\ OneDraftPerLine' /\ DraftsFollowLatest'
  BY <1>2, SameShapeKeeps DEF PublishedInOrder, WasPublished, Retained, OneDraftPerLine, Drafts, DraftsFollowLatest
<1>4. LinesAreRooted'
  BY DEF LinesAreRooted, LinesTypeOK, Exists, Rooted, WasPublished
<1>5. QED
  BY <1>1, <1>2, <1>3, <1>4, SameShapeKeeps

\* A step that sets the status of one existing release, or whether it is complete.
LEMMA StatusStep ==
  ASSUME LinesInv, NEW r \in Releases, Exists(r), NEW n \in LineRows,
         n.published = releases[r].published, n.line = releases[r].line, n.parent = releases[r].parent,
         \/ n.status = releases[r].status
         \/ n.status = "deprecated"
         \/ n.status = "draft" /\ RestoreAllowed(r),
         releases' = [releases EXCEPT ![r] = n], UNCHANGED <<previewed, publications>>
  PROVE  LinesInv'
<1> USE LinesAssumption DEF LinesInv
<1>1. LinesTypeOK'
  BY DEF LinesTypeOK, LineRows
<1>2. SameShape /\ releases'[r] = n /\ \A q \in Releases \ {r} : releases'[q] = releases[q]
  BY DEF SameShape, LinesTypeOK
<1>3. \A q \in Releases : Exists(q)' <=> Exists(q)
  BY <1>2 DEF Exists
<1>4. PublishedInOrder'
  BY <1>2, SameShapeKeeps DEF PublishedInOrder, Retained, SameShape, RestoreAllowed, Abandoned
<1>5. LinesAreRooted'
  BY <1>2, <1>3, SameShapeKeeps DEF LinesAreRooted, Rooted, SameShape, LinesTypeOK
<1>6. OneDraftPerLine' /\ DraftsFollowLatest'
  <2>1. CASE n.status # "draft" \/ releases[r].status = "draft"
    <3>1. Drafts' \subseteq Drafts
      BY <1>2, <2>1 DEF Drafts
    <3>2. QED
      BY <1>2, <3>1, SameShapeKeeps DEF OneDraftPerLine, DraftsFollowLatest, SameShape, Drafts
  <2>2. CASE n.status = "draft" /\ RestoreAllowed(r)
    <3>1. Drafts' = Drafts \cup {r}
      BY <1>2, <2>2 DEF Drafts
    <3>2. \A d \in Drafts : releases[d].line # releases[r].line
      BY <2>2 DEF RestoreAllowed, HasActiveDraftInLine
    <3>3. OneDraftPerLine'
      BY <1>2, <3>1, <3>2 DEF OneDraftPerLine, SameShape, Drafts
    <3>4. ASSUME releases[r].parent # NoRelease
          PROVE  releases[r].parent \in LatestPublishedInLine(releases[r].line)
      <4>1. /\ releases[r].parent \in Releases /\ WasPublished(releases[r].parent)
            /\ releases[releases[r].parent].line = releases[r].line
        BY <3>4 DEF LinesAreRooted, Rooted, LinesTypeOK
      <4>2. ~HasRetainedSuccessor(releases[r].parent)
        BY <2>2, <3>4 DEF RestoreAllowed
      <4>3. QED
        BY <4>1, <4>2, FreeIsLatest
    <3>5. DraftsFollowLatest'
      BY <1>2, <3>1, <3>4, SameShapeKeeps DEF DraftsFollowLatest, SameShape, Drafts
    <3>6. QED
      BY <3>3, <3>5
  <2>3. QED
    BY <2>1, <2>2
<1>7. QED
  BY <1>1, <1>2, <1>4, <1>5, <1>6, SameShapeKeeps

\* A release that was never published comes or goes: nothing refers to it as a parent.
LEMMA NoParent ==
  ASSUME LinesInv, NEW r \in Releases, ~WasPublished(r)
  PROVE  /\ \A q \in Releases : Exists(q) => releases[q].parent # r
         /\ \A q \in Releases : previewed[q] # NoPlan => previewed[q].parent # r
  BY LinesAssumption DEF LinesInv, LinesAreRooted, Rooted

\* ... so what is published stays as it was.
LEMMA UnpublishedChange ==
  ASSUME LinesInv, NEW r \in Releases, ~WasPublished(r), releases'[r].published = 0,
         \A q \in Releases \ {r} : releases'[q] = releases[q], publications' = publications
  PROVE  /\ OnlyLatestIsFree' /\ PublishedChain'
         /\ \A q \in Releases : WasPublished(q)' <=> WasPublished(q)
         /\ \A q \in Releases : WasPublished(q) => releases'[q] = releases[q]
         /\ \A l : LatestPublishedInLine(l)' = LatestPublishedInLine(l)
<1> USE DEF LinesInv
<1>1. \A q \in Releases : WasPublished(q)' <=> WasPublished(q)
  BY DEF WasPublished
<1>2. \A q \in Releases : WasPublished(q) => releases'[q] = releases[q]
  OBVIOUS
<1>3. OnlyLatestIsFree'
  BY <1>1, <1>2 DEF OnlyLatestIsFree
<1>4. \A l : LatestPublishedInLine(l)' = LatestPublishedInLine(l)
  BY <1>1, <1>2 DEF LatestPublishedInLine
<1>5. PublishedChain'
  <2> DEFINE Earlier(x) == {q \in Releases : /\ WasPublished(q) /\ releases[q].line = releases[x].line
                                              /\ releases[q].published < releases[x].published}
  <2>1. ASSUME NEW x \in Releases, WasPublished(x) PROVE Earlier(x)' = Earlier(x)
    BY <1>1, <1>2, <2>1
  <2>2. ASSUME NEW x \in Releases, WasPublished(x)
        PROVE  IF Earlier(x) = {} THEN releases[x].parent = NoRelease
               ELSE /\ releases[x].parent \in Earlier(x)
                    /\ \A q \in Earlier(x) : releases[q].published <= releases[releases[x].parent].published
    BY <2>2 DEF PublishedChain
  <2>3. ASSUME NEW x \in Releases, WasPublished(x)'
        PROVE  IF Earlier(x)' = {} THEN releases'[x].parent = NoRelease
               ELSE /\ releases'[x].parent \in Earlier(x)'
                    /\ \A q \in Earlier(x)' : releases'[q].published <= releases'[releases'[x].parent].published
    <3>1. WasPublished(x) /\ releases'[x] = releases[x] /\ Earlier(x)' = Earlier(x)
      BY <1>1, <1>2, <2>1, <2>3
    <3>2. \A q \in Earlier(x) : releases'[q] = releases[q]
      BY <1>2
    <3>3. QED
      BY <2>2, <3>1, <3>2
  <2>4. QED
    BY <2>3 DEF PublishedChain
<1>6. QED
  BY <1>1, <1>2, <1>3, <1>4, <1>5

\* The row of a release that was never published changes or goes: what was
\* published keeps its shape, and so does the rest of the catalog.
LEMMA InsertedOrDeleted ==
  ASSUME LinesInv, NEW r \in Releases, ~WasPublished(r), NEW n \in LineRows, n.published = 0,
         n.status \in {"none", "draft"}, n.status = "draft" => Rooted(r, n),
         releases' = [releases EXCEPT ![r] = n],
         previewed' \in [Releases -> Plans], previewed'[r] = NoPlan,
         \A q \in Releases \ {r} : previewed'[q] = previewed[q],
         publications' = publications,
         n.status = "draft" => /\ ~HasActiveDraftInLine(n.line)
                               /\ n.parent = NoRelease \/ ~HasRetainedSuccessor(n.parent)
  PROVE  LinesInv'
<1> USE LinesAssumption DEF LinesInv
<1>1. LinesTypeOK'
  BY DEF LinesTypeOK, LineRows, Plans
<1>2. releases'[r] = n /\ \A q \in Releases \ {r} : releases'[q] = releases[q]
  BY DEF LinesTypeOK
<1>3. /\ OnlyLatestIsFree' /\ PublishedChain'
      /\ \A q \in Releases : WasPublished(q)' <=> WasPublished(q)
      /\ \A q \in Releases : WasPublished(q) => releases'[q] = releases[q]
      /\ \A l : LatestPublishedInLine(l)' = LatestPublishedInLine(l)
  BY <1>2, UnpublishedChange
<1>4. PublishedInOrder'
  <2>1. \A q \in Releases : /\ releases'[q].published <= publications
                            /\ WasPublished(q)' => q \in Retained'
                            /\ releases'[q].status = "released" => WasPublished(q)'
    BY <1>2, <1>3, LineTypes DEF PublishedInOrder, Retained
  <2>2. ASSUME NEW x \in Releases, NEW q \in Releases, WasPublished(x)',
               releases'[x].published = releases'[q].published
        PROVE  x = q
    BY <1>2, <1>3, <2>2 DEF PublishedInOrder, WasPublished
  <2>3. QED
    BY <2>1, <2>2 DEF PublishedInOrder
<1>5. LinesAreRooted'
  <2>1. \A q \in Releases, pl \in Plans \cup LineRows : Rooted(q, pl) => Rooted(q, pl)'
    <3> SUFFICES ASSUME NEW q \in Releases, NEW pl \in Plans \cup LineRows, Rooted(q, pl)
                 PROVE  Rooted(q, pl)'
      OBVIOUS
    <3>1. CASE pl.parent = NoRelease
      BY <3>1 DEF Rooted
    <3>2. CASE pl.parent # NoRelease
      <4>1. pl.parent \in Releases
        BY <3>2 DEF Plans, LineRows
      <4>2. QED
        BY <1>3, <3>2, <4>1 DEF Rooted
    <3>3. QED
      BY <3>1, <3>2
  <2>2. ASSUME NEW q \in Releases, Exists(q)' PROVE Rooted(q, releases[q])'
    <3>1. CASE q = r
      BY <1>2, <2>1, <2>2, <3>1 DEF Exists
    <3>2. CASE q # r
      BY <1>2, <2>1, <2>2, <3>2, LineTypes DEF Exists, LinesAreRooted
    <3>3. QED
      BY <3>1, <3>2
  <2>3. ASSUME NEW q \in Releases, previewed'[q] # NoPlan
        PROVE  ~Exists(q)' /\ Rooted(q, previewed[q])'
    <3>1. q # r /\ previewed'[q] = previewed[q] /\ releases'[q] = releases[q]
      BY <1>2, <2>3
    <3>2. QED
      BY <2>1, <2>3, <3>1, LineTypes DEF LinesAreRooted, Exists
  <2>4. ASSUME NEW q \in Releases, WasPublished(q)'
        PROVE  releases'[q].line \in Releases /\ WasPublished(releases[q].line)'
    <3>1. releases'[q] = releases[q] /\ WasPublished(q)
      BY <1>3, <2>4
    <3>2. releases[q].line \in Releases /\ WasPublished(releases[q].line)
      BY <3>1 DEF LinesAreRooted
    <3>3. QED
      BY <1>3, <3>1, <3>2
  <2>5. QED
    BY <2>2, <2>3, <2>4 DEF LinesAreRooted
<1>6. OneDraftPerLine'
  BY <1>2 DEF OneDraftPerLine, Drafts, HasActiveDraftInLine
<1>7. DraftsFollowLatest'
  <2>1. ASSUME n.status = "draft", n.parent # NoRelease
        PROVE  n.parent \in LatestPublishedInLine(n.line)
    <3>1. n.parent \in Releases /\ WasPublished(n.parent) /\ releases[n.parent].line = n.line
      BY <2>1 DEF Rooted, LineRows
    <3>2. QED
      BY <2>1, <3>1, FreeIsLatest
  <2>2. QED
    BY <1>2, <1>3, <2>1 DEF DraftsFollowLatest, Drafts
<1>8. QED
  BY <1>1, <1>3, <1>4, <1>5, <1>6, <1>7

LEMMA CreateStep ==
  ASSUME LinesInv, NEW r \in Releases, CreateClonedComponentRelease(r)
  PROVE  LinesInv'
<1> DEFINE n == Row(previewed[r], "draft", 0)
<1> USE DEF LinesInv
<1>1. ~Exists(r) /\ ~WasPublished(r) /\ Rooted(r, previewed[r])
  BY DEF CreateClonedComponentRelease, LinesAreRooted, PublishedInOrder, Retained, Exists
<1>2. /\ n \in LineRows /\ n.published = 0 /\ n.status = "draft"
      /\ n.line = previewed[r].line /\ n.parent = previewed[r].parent
  BY LineTypes DEF Row, LineRows, Plans
<1>3. /\ previewed' \in [Releases -> Plans] /\ previewed'[r] = NoPlan
      /\ \A q \in Releases \ {r} : previewed'[q] = previewed[q]
      /\ publications' = publications
  BY LineTypes DEF CreateClonedComponentRelease
<1>4. CASE ForeignKeysHold(previewed[r]) /\ IndexesAllow(previewed[r])
  <2>1. releases' = [releases EXCEPT ![r] = n]
    BY <1>4 DEF CreateClonedComponentRelease
  <2>2. Rooted(r, n) /\ ~HasActiveDraftInLine(n.line) /\ (n.parent = NoRelease \/ ~HasRetainedSuccessor(n.parent))
    BY <1>1, <1>2, <1>4 DEF Rooted, IndexesAllow
  <2> HIDE DEF n
  <2>3. QED
    BY <1>1, <1>2, <1>3, <2>1, <2>2, InsertedOrDeleted
<1>5. CASE ~(ForeignKeysHold(previewed[r]) /\ IndexesAllow(previewed[r]))
  <2>1. UNCHANGED <<releases, publications>>
    BY <1>5 DEF CreateClonedComponentRelease
  <2>2. SameShape /\ LinesTypeOK'
    BY <1>3, <2>1 DEF SameShape, LinesTypeOK, Plans
  <2>3. PublishedInOrder' /\ OneDraftPerLine' /\ DraftsFollowLatest'
    BY <2>1, <2>2, SameShapeKeeps DEF PublishedInOrder, WasPublished, Retained, OneDraftPerLine, Drafts, DraftsFollowLatest
  <2>4. LinesAreRooted'
    BY <1>3, <2>1 DEF LinesAreRooted, LinesTypeOK, Exists, Rooted, WasPublished
  <2>5. QED
    BY <2>2, <2>3, <2>4, SameShapeKeeps
<1>6. QED
  BY <1>4, <1>5

LEMMA DeleteStep ==
  ASSUME LinesInv, NEW r \in Releases, DeleteRelease(r)
  PROVE  LinesInv'
<1> USE DEF LinesInv
<1>1. ~WasPublished(r) /\ previewed[r] = NoPlan
  BY DEF DeleteRelease, Abandoned, Retained, LinesAreRooted, Exists
<1>2. Absent \in LineRows /\ Absent.published = 0 /\ Absent.status = "none"
  BY DEF Absent, Row, NoPlan, LineRows
<1>3. releases' = [releases EXCEPT ![r] = Absent] /\ UNCHANGED <<previewed, publications>>
  BY DEF DeleteRelease
<1>4. previewed' \in [Releases -> Plans]
  BY <1>3, LineTypes
<1> HIDE DEF LinesInv
<1>5. QED
  BY <1>1, <1>2, <1>3, <1>4, InsertedOrDeleted

LEMMA PreviewedStep ==
  ASSUME LinesInv, NEW r \in Releases,
         \/ \E t \in Releases \cup {NoRelease} : PreviewNewLine(r, t)
         \/ \E p \in Releases : PreviewEvolution(r, p)
  PROVE  LinesInv'
<1>1. CASE \E t \in Releases \cup {NoRelease} : PreviewNewLine(r, t)
  <2>1. PICK t \in Releases \cup {NoRelease} : PreviewNewLine(r, t)
    BY <1>1
  <2> DEFINE pl == [line |-> r, parent |-> NoRelease, template |-> t,
                    complete |-> t # NoRelease /\ releases[t].complete]
  <2>2. (t # NoRelease /\ releases[t].complete) \in BOOLEAN
    BY LineTypes DEF LinesInv, LineRows
  <2>3. pl \in Plans /\ pl.parent = NoRelease /\ pl.line = r
    BY <2>2 DEF Plans
  <2>4. previewed' = [previewed EXCEPT ![r] = pl] /\ UNCHANGED <<releases, publications>> /\ ~Exists(r)
    BY <2>1 DEF PreviewNewLine
  <2> HIDE DEF pl
  <2>5. Rooted(r, pl)
    BY <2>3 DEF Rooted
  <2>6. QED
    BY <2>3, <2>4, <2>5, PreviewStep
<1>2. CASE \E p \in Releases : PreviewEvolution(r, p)
  <2>1. PICK p \in Releases : PreviewEvolution(r, p)
    BY <1>2
  <2> DEFINE pl == [line |-> releases[p].line, parent |-> p, template |-> p,
                    complete |-> releases[p].complete]
  <2>2. pl \in Plans /\ pl.parent = p /\ pl.line = releases[p].line
    BY LineTypes DEF LinesInv, LineRows, Plans
  <2>3. previewed' = [previewed EXCEPT ![r] = pl] /\ UNCHANGED <<releases, publications>> /\ ~Exists(r)
    BY <2>1 DEF PreviewEvolution
  <2>4. WasPublished(p) /\ p # NoRelease
    BY <2>1, LinesAssumption DEF PreviewEvolution, LinesInv, PublishedInOrder
  <2> HIDE DEF pl
  <2>5. Rooted(r, pl)
    BY <2>2, <2>4 DEF Rooted
  <2>6. QED
    BY <2>2, <2>3, <2>5, PreviewStep
<1>3. QED
  BY <1>1, <1>2

\* Editing the actions of a draft, deprecating a release and restoring an
\* abandoned draft only set its status or whether it is complete.
LEMMA StatusActions ==
  ASSUME LinesInv, NEW r \in Releases,
         \/ \E complete \in BOOLEAN : EditActions(r, complete)
         \/ DeprecateRelease(r)
         \/ RestoreDeprecatedRelease(r)
  PROVE  LinesInv'
<1>1. releases[r] \in LineRows
  BY LineTypes DEF LinesInv
<1>2. CASE \E complete \in BOOLEAN : EditActions(r, complete)
  <2>1. PICK complete \in BOOLEAN : EditActions(r, complete)
    BY <1>2
  <2>2. /\ Exists(r) /\ UNCHANGED <<previewed, publications>>
        /\ releases' = [releases EXCEPT ![r].complete = complete]
    BY <2>1 DEF EditActions, Drafts, Exists
  <2>3. SUFFICES ASSUME NEW n, n = [releases[r] EXCEPT !.complete = complete]
                 PROVE  LinesInv'
    OBVIOUS
  <2>4. /\ n \in LineRows /\ n.status = releases[r].status /\ n.published = releases[r].published
        /\ n.line = releases[r].line /\ n.parent = releases[r].parent
    BY <1>1, <2>3 DEF LineRows
  <2>5. releases' = [releases EXCEPT ![r] = n]
    BY <2>2, <2>3
  <2>6. QED
    BY <2>2, <2>4, <2>5, StatusStep
<1>3. ASSUME NEW s \in {"draft", "deprecated"}, Exists(r), s = "draft" => RestoreAllowed(r),
             releases' = [releases EXCEPT ![r].status = s], UNCHANGED <<previewed, publications>>
      PROVE  LinesInv'
  <2>1. SUFFICES ASSUME NEW n, n = [releases[r] EXCEPT !.status = s]
                 PROVE  LinesInv'
    OBVIOUS
  <2>2. /\ n \in LineRows /\ n.status = s /\ n.published = releases[r].published
        /\ n.line = releases[r].line /\ n.parent = releases[r].parent
    BY <1>1, <2>1 DEF LineRows
  <2>3. releases' = [releases EXCEPT ![r] = n]
    BY <1>3, <2>1
  <2>4. n.status = "deprecated" \/ (n.status = "draft" /\ RestoreAllowed(r))
    BY <1>3, <2>2
  <2>5. QED
    BY <1>3, <2>2, <2>3, <2>4, StatusStep
<1>4. CASE DeprecateRelease(r)
  BY <1>3, <1>4 DEF DeprecateRelease, Exists
<1>5. CASE RestoreDeprecatedRelease(r)
  BY <1>3, <1>5 DEF RestoreDeprecatedRelease, RestoreAllowed, Abandoned, Retained, Exists
<1>6. QED
  BY <1>2, <1>4, <1>5

\* What a publication does: the draft gets the latest place in time.
LEMMA PublishEffect ==
  ASSUME LinesInv, NEW r \in Releases, PublishRelease(r)
  PROVE  /\ LinesTypeOK' /\ ~WasPublished(r) /\ r \in Drafts /\ WasPublished(r)'
         /\ releases'[r].status = "released" /\ releases'[r].published = publications + 1
         /\ releases'[r].line = releases[r].line /\ releases'[r].parent = releases[r].parent
         /\ \A q \in Releases \ {r} : releases'[q] = releases[q]
         /\ \A q \in Releases \ {r} : WasPublished(q)' <=> WasPublished(q)
         /\ \A q \in Releases : releases[q].published \in Nat /\ releases[q].published < publications + 1
         /\ publications' = publications + 1 /\ publications \in Nat
         /\ previewed' = previewed
<1> USE DEF LinesInv
<1>1. releases[r] \in LineRows /\ publications \in Nat /\ r \in Drafts
  BY LineTypes DEF PublishRelease
<1>2. /\ releases' = [releases EXCEPT ![r] = [releases[r] EXCEPT !.status = "released", !.published = publications + 1]]
      /\ publications' = publications + 1 /\ previewed' = previewed
  BY LineTypes DEF PublishRelease
<1>3. SUFFICES ASSUME NEW n, n = [releases[r] EXCEPT !.status = "released", !.published = publications + 1],
                      releases' = [releases EXCEPT ![r] = n]
               PROVE  /\ LinesTypeOK' /\ ~WasPublished(r) /\ WasPublished(r)'
                      /\ releases'[r].status = "released" /\ releases'[r].published = publications + 1
                      /\ releases'[r].line = releases[r].line /\ releases'[r].parent = releases[r].parent
                      /\ \A q \in Releases \ {r} : releases'[q] = releases[q]
                      /\ \A q \in Releases \ {r} : WasPublished(q)' <=> WasPublished(q)
                      /\ \A q \in Releases : releases[q].published \in Nat /\ releases[q].published < publications + 1
  BY <1>1, <1>2
<1>4. /\ n \in LineRows /\ n.status = "released" /\ n.published = publications + 1
      /\ n.line = releases[r].line /\ n.parent = releases[r].parent
  <2>1. n = [[releases[r] EXCEPT !.status = "released"] EXCEPT !.published = publications + 1]
    BY <1>3, Zenon
  <2>2. SUFFICES ASSUME NEW m, m = [releases[r] EXCEPT !.status = "released"],
                        n = [m EXCEPT !.published = publications + 1]
                 PROVE  /\ n \in LineRows /\ n.status = "released" /\ n.published = publications + 1
                        /\ n.line = releases[r].line /\ n.parent = releases[r].parent
    BY <2>1
  <2>3. m \in LineRows /\ m.status = "released" /\ m.line = releases[r].line /\ m.parent = releases[r].parent
    BY ONLY <1>1, <2>2 DEF LineRows
  <2>4. publications + 1 \in Nat
    BY <1>1
  <2>5. QED
    BY ONLY <2>2, <2>3, <2>4 DEF LineRows
<1>5. releases'[r] = n /\ \A q \in Releases \ {r} : releases'[q] = releases[q]
  BY <1>3, LineTypes
<1>6. LinesTypeOK'
  BY <1>1, <1>2, <1>3, <1>4 DEF LinesTypeOK, LineRows
<1>7. ~WasPublished(r)
  BY <1>1 DEF PublishedInOrder, Drafts, Retained
<1>8. \A q \in Releases : releases[q].published \in Nat /\ releases[q].published < publications + 1
  BY <1>1, LineTypes DEF PublishedInOrder
<1>9. WasPublished(r)' /\ \A q \in Releases \ {r} : WasPublished(q)' <=> WasPublished(q)
  BY <1>1, <1>4, <1>5 DEF WasPublished
<1>10. QED
  BY <1>4, <1>5, <1>6, <1>7, <1>8, <1>9

\* What was published in the line of a draft: nothing when the draft opens the
\* line, and nothing later than its parent when it has one.
LEMMA DraftComesNext ==
  ASSUME LinesInv, NEW r \in Drafts
  PROVE  /\ releases[r].parent = NoRelease =>
              \A q \in Releases : WasPublished(q) => releases[q].line # releases[r].line
         /\ releases[r].parent # NoRelease =>
              /\ releases[r].parent \in Releases \ {r} /\ WasPublished(releases[r].parent)
              /\ releases[releases[r].parent].line = releases[r].line
              /\ \A q \in Releases : WasPublished(q) /\ releases[q].line = releases[r].line =>
                    releases[q].published <= releases[releases[r].parent].published
<1> USE LinesAssumption DEF LinesInv
<1>1. r \in Releases /\ Exists(r) /\ ~WasPublished(r)
  BY DEF Drafts, PublishedInOrder, Retained, Exists
<1>2. ASSUME releases[r].parent = NoRelease, NEW q \in Releases, WasPublished(q)
      PROVE  releases[q].line # releases[r].line
  <2>1. releases[r].line = r
    BY <1>1, <1>2 DEF LinesAreRooted, Rooted
  <2>2. WasPublished(releases[q].line)
    BY <1>2 DEF LinesAreRooted
  <2>3. QED
    BY <1>1, <2>1, <2>2
<1>3. ASSUME releases[r].parent # NoRelease
      PROVE  releases[r].parent \in LatestPublishedInLine(releases[r].line)
  BY <1>3 DEF DraftsFollowLatest
<1>4. QED
  BY <1>1, <1>2, <1>3 DEF LatestPublishedInLine

LEMMA PublishKeepsShape ==
  ASSUME LinesInv, NEW r \in Releases, PublishRelease(r)
  PROVE  /\ LinesTypeOK' /\ PublishedInOrder' /\ LinesAreRooted'
         /\ OneDraftPerLine' /\ DraftsFollowLatest'
<1> USE LinesAssumption DEF LinesInv
<1>1. /\ LinesTypeOK' /\ ~WasPublished(r) /\ r \in Drafts /\ WasPublished(r)'
      /\ releases'[r].status = "released" /\ releases'[r].published = publications + 1
      /\ releases'[r].line = releases[r].line /\ releases'[r].parent = releases[r].parent
      /\ \A q \in Releases \ {r} : releases'[q] = releases[q]
      /\ \A q \in Releases \ {r} : WasPublished(q)' <=> WasPublished(q)
      /\ \A q \in Releases : releases[q].published \in Nat /\ releases[q].published < publications + 1
      /\ publications' = publications + 1 /\ publications \in Nat
      /\ previewed' = previewed
  BY PublishEffect
<1>2. PublishedInOrder'
  <2>1. ASSUME NEW q \in Releases
        PROVE  /\ releases'[q].published <= publications'
               /\ WasPublished(q)' => q \in Retained'
               /\ releases'[q].status = "released" => WasPublished(q)'
    BY <1>1 DEF PublishedInOrder, Retained
  <2>2. ASSUME NEW x \in Releases, NEW q \in Releases, WasPublished(x)',
               releases'[x].published = releases'[q].published
        PROVE  x = q
    <3>1. CASE x = r \/ q = r
      BY <1>1, <2>2, <3>1
    <3>2. CASE x # r /\ q # r
      BY <1>1, <2>2, <3>2 DEF PublishedInOrder
    <3>3. QED
      BY <3>1, <3>2
  <2>3. QED
    BY <2>1, <2>2 DEF PublishedInOrder
<1>3. LinesAreRooted'
  <2>1. \A q \in Releases : WasPublished(q) => WasPublished(q)' /\ releases'[q].line = releases[q].line
    BY <1>1
  <2>2. \A q \in Releases, pl \in Plans \cup LineRows : Rooted(q, pl) => Rooted(q, pl)'
    <3> SUFFICES ASSUME NEW q \in Releases, NEW pl \in Plans \cup LineRows, Rooted(q, pl)
                 PROVE  Rooted(q, pl)'
      OBVIOUS
    <3>1. CASE pl.parent = NoRelease
      BY <3>1 DEF Rooted
    <3>2. CASE pl.parent # NoRelease
      <4>1. pl.parent \in Releases
        BY <3>2 DEF Plans, LineRows
      <4>2. QED
        BY <2>1, <3>2, <4>1 DEF Rooted
    <3>3. QED
      BY <3>1, <3>2
  <2>3. ASSUME NEW q \in Releases, Exists(q)' PROVE Rooted(q, releases[q])'
    <3>1. Exists(q) /\ releases'[q].line = releases[q].line /\ releases'[q].parent = releases[q].parent
      BY <1>1, <2>3 DEF Exists, Drafts
    <3>2. Rooted(q, releases[q])'
      <4>1. Rooted(q, releases[q])
        BY <3>1 DEF LinesAreRooted
      <4>2. releases[q].parent = NoRelease \/ releases[q].parent \in Releases
        BY LineTypes DEF LineRows
      <4>3. QED
        BY <2>1, <3>1, <4>1, <4>2 DEF Rooted
    <3>3. QED
      BY <3>2
  <2>4. ASSUME NEW q \in Releases, previewed'[q] # NoPlan
        PROVE  ~Exists(q)' /\ Rooted(q, previewed[q])'
    <3>1. ~Exists(q) /\ Rooted(q, previewed[q]) /\ previewed[q] \in Plans
      BY <1>1, <2>4, LineTypes DEF LinesAreRooted
    <3>2. q # r
      BY <1>1, <3>1 DEF Drafts, Exists
    <3>3. QED
      BY <1>1, <2>2, <3>1, <3>2 DEF Exists
  <2>5. ASSUME NEW q \in Releases, WasPublished(q)'
        PROVE  releases'[q].line \in Releases /\ WasPublished(releases[q].line)'
    <3>1. CASE q # r
      BY <1>1, <2>1, <2>5, <3>1 DEF LinesAreRooted
    <3>2. CASE q = r /\ releases[r].parent = NoRelease
      BY <1>1, <3>2 DEF LinesAreRooted, Rooted, Drafts, Exists
    <3>3. CASE q = r /\ releases[r].parent # NoRelease
      BY <1>1, <2>1, <3>3, DraftComesNext DEF LinesAreRooted
    <3>4. QED
      BY <3>1, <3>2, <3>3
  <2>6. QED
    BY <1>1, <2>3, <2>4, <2>5 DEF LinesAreRooted
<1>4. Drafts' = Drafts \ {r}
  BY <1>1 DEF Drafts
<1>5. OneDraftPerLine'
  BY <1>1, <1>4 DEF OneDraftPerLine, Drafts
<1>6. DraftsFollowLatest'
  <2>1. ASSUME NEW d \in Drafts', releases'[d].parent # NoRelease
        PROVE  releases'[d].parent \in LatestPublishedInLine(releases[d].line)'
    <3>1. /\ d \in Drafts /\ d # r /\ releases'[d] = releases[d] /\ releases[d].line # releases[r].line
      BY <1>1, <1>4, <2>1 DEF OneDraftPerLine, Drafts
    <3>2. releases[d].parent \in LatestPublishedInLine(releases[d].line)
      BY <2>1, <3>1 DEF DraftsFollowLatest
    <3>3. LatestPublishedInLine(releases[d].line)' = LatestPublishedInLine(releases[d].line)
      BY <1>1, <3>1 DEF LatestPublishedInLine
    <3>4. QED
      BY <3>1, <3>2, <3>3
  <2>2. QED
    BY <2>1 DEF DraftsFollowLatest
<1>7. QED
  BY <1>1, <1>2, <1>3, <1>5, <1>6

LEMMA PublishKeepsChain ==
  ASSUME LinesInv, NEW r \in Releases, PublishRelease(r)
  PROVE  OnlyLatestIsFree' /\ PublishedChain'
<1> USE LinesAssumption DEF LinesInv
<1>1. /\ ~WasPublished(r) /\ r \in Drafts /\ WasPublished(r)'
      /\ releases'[r].published = publications + 1
      /\ releases'[r].line = releases[r].line /\ releases'[r].parent = releases[r].parent
      /\ \A q \in Releases \ {r} : releases'[q] = releases[q]
      /\ \A q \in Releases \ {r} : WasPublished(q)' <=> WasPublished(q)
      /\ \A q \in Releases : releases[q].published \in Nat /\ releases[q].published < publications + 1
      /\ publications \in Nat
  BY PublishEffect
<1>2. OnlyLatestIsFree'
  <2> SUFFICES ASSUME NEW x \in Releases, NEW q \in Releases, WasPublished(x)', WasPublished(q)',
                      releases'[x].line = releases'[q].line, releases'[x].published < releases'[q].published
               PROVE  \E s \in Releases : WasPublished(s)' /\ releases'[s].parent = x
    BY DEF OnlyLatestIsFree
  <2>1. x # r /\ WasPublished(x) /\ releases'[x] = releases[x]
    BY <1>1
  <2>2. ASSUME NEW s \in Releases, WasPublished(s), releases[s].parent = x
        PROVE  \E y \in Releases : WasPublished(y)' /\ releases'[y].parent = x
    BY <1>1, <2>2
  <2>3. CASE q # r
    BY <1>1, <2>1, <2>2, <2>3 DEF OnlyLatestIsFree
  <2>4. CASE q = r
    <3>1. releases[x].line = releases[r].line
      BY <1>1, <2>1, <2>4
    <3>2. /\ releases[r].parent \in Releases \ {r} /\ WasPublished(releases[r].parent)
          /\ releases[releases[r].parent].line = releases[r].line
          /\ releases[x].published <= releases[releases[r].parent].published
      BY <1>1, <2>1, <3>1, DraftComesNext
    <3>3. CASE x = releases[r].parent
      BY <1>1, <3>3
    <3>4. CASE x # releases[r].parent
      <4>1. releases[x].published # releases[releases[r].parent].published
        BY <2>1, <3>2, <3>4 DEF PublishedInOrder
      <4>2. releases[x].published < releases[releases[r].parent].published
        BY <1>1, <3>2, <4>1
      <4>3. QED
        BY <2>1, <2>2, <3>1, <3>2, <4>2 DEF OnlyLatestIsFree
    <3>5. QED
      BY <3>3, <3>4
  <2>5. QED
    BY <2>3, <2>4
<1>3. PublishedChain'
  <2> DEFINE Earlier(x) == {q \in Releases : /\ WasPublished(q) /\ releases[q].line = releases[x].line
                                              /\ releases[q].published < releases[x].published}
  <2>1. ASSUME NEW x \in Releases, WasPublished(x)'
        PROVE  IF Earlier(x)' = {} THEN releases'[x].parent = NoRelease
               ELSE /\ releases'[x].parent \in Earlier(x)'
                    /\ \A q \in Earlier(x)' : releases'[q].published <= releases'[releases'[x].parent].published
    <3>1. CASE x # r
      <4>1. WasPublished(x) /\ releases'[x] = releases[x]
        BY <1>1, <2>1, <3>1
      <4>2. Earlier(x)' = Earlier(x) /\ \A q \in Earlier(x) : releases'[q] = releases[q]
        BY <1>1, <4>1
      <4>3. IF Earlier(x) = {} THEN releases[x].parent = NoRelease
            ELSE /\ releases[x].parent \in Earlier(x)
                 /\ \A q \in Earlier(x) : releases[q].published <= releases[releases[x].parent].published
        BY <4>1 DEF PublishedChain
      <4>4. QED
        BY <4>1, <4>2, <4>3
    <3>2. CASE x = r
      <4>1. Earlier(r)' = {q \in Releases : WasPublished(q) /\ releases[q].line = releases[r].line}
        BY <1>1
      <4>2. \A q \in Earlier(r)' : releases'[q] = releases[q]
        BY <1>1, <4>1
      <4>3. CASE releases[r].parent = NoRelease
        BY <1>1, <3>2, <4>1, <4>3, DraftComesNext
      <4>4. CASE releases[r].parent # NoRelease
        BY <1>1, <3>2, <4>1, <4>2, <4>4, DraftComesNext
      <4>5. QED
        BY <4>3, <4>4
    <3>3. QED
      BY <3>1, <3>2
  <2>2. QED
    BY <2>1 DEF PublishedChain
<1>4. QED
  BY <1>2, <1>3

LEMMA LinesStart ==
  ASSUME LinesInit
  PROVE  LinesInv
<1> USE LinesAssumption DEF LinesInit
<1>1. Absent \in LineRows /\ Absent.status = "none" /\ Absent.published = 0 /\ NoPlan \in Plans
  BY DEF Absent, Row, NoPlan, LineRows, Plans
<1>2. LinesTypeOK
  BY <1>1 DEF LinesTypeOK, LineRows, Plans
<1>3. \A r \in Releases : ~Exists(r) /\ ~WasPublished(r) /\ releases[r] = Absent /\ previewed[r] = NoPlan
  BY <1>1 DEF Exists, WasPublished
<1>4. PublishedInOrder /\ LinesAreRooted /\ OneDraftPerLine /\ DraftsFollowLatest
  BY <1>1, <1>3 DEF PublishedInOrder, LinesAreRooted, OneDraftPerLine, DraftsFollowLatest, Drafts
<1>5. OnlyLatestIsFree /\ PublishedChain
  BY <1>3 DEF OnlyLatestIsFree, PublishedChain
<1>6. QED
  BY <1>2, <1>4, <1>5 DEF LinesInv

LEMMA LinesStep ==
  ASSUME LinesInv, [LinesNext]_lineVars
  PROVE  LinesInv'
<1>1. ASSUME NEW r \in Releases, PublishRelease(r) PROVE LinesInv'
  BY <1>1, PublishKeepsShape, PublishKeepsChain DEF LinesInv
<1>2. CASE LinesNext
  <2>1. PICK r \in Releases :
           \/ \E t \in Releases \cup {NoRelease} : PreviewNewLine(r, t)
           \/ \E p \in Releases : PreviewEvolution(r, p)
           \/ CreateClonedComponentRelease(r)
           \/ \E complete \in BOOLEAN : EditActions(r, complete)
           \/ PublishRelease(r)
           \/ DeprecateRelease(r)
           \/ RestoreDeprecatedRelease(r)
           \/ DeleteRelease(r)
    BY <1>2 DEF LinesNext
  <2>2. CASE \/ \E t \in Releases \cup {NoRelease} : PreviewNewLine(r, t)
             \/ \E p \in Releases : PreviewEvolution(r, p)
    BY <2>2, PreviewedStep
  <2>3. CASE CreateClonedComponentRelease(r)
    BY <2>3, CreateStep
  <2>4. CASE \/ \E complete \in BOOLEAN : EditActions(r, complete)
             \/ DeprecateRelease(r)
             \/ RestoreDeprecatedRelease(r)
    BY <2>4, StatusActions
  <2>5. CASE PublishRelease(r)
    BY <1>1, <2>5
  <2>6. CASE DeleteRelease(r)
    BY <2>6, DeleteStep
  <2>7. QED
    BY <2>1, <2>2, <2>3, <2>4, <2>5, <2>6
<1>3. CASE UNCHANGED lineVars
  BY <1>3 DEF lineVars, LinesInv, LinesTypeOK, PublishedInOrder, WasPublished, Retained, LinesAreRooted,
              Exists, Rooted, OneDraftPerLine, Drafts, DraftsFollowLatest, LatestPublishedInLine,
              OnlyLatestIsFree, PublishedChain
<1>4. QED
  BY <1>2, <1>3

\* Whatever drafts are previewed, created late, abandoned and restored, the
\* published releases of a line are one chain in the order they were published.
THEOREM PublishedReleasesAreAChain == LinesSpec => [](LinesTypeOK /\ PublishedChain)
<1>1. LinesInv => LinesTypeOK /\ PublishedChain
  BY DEF LinesInv
<1>2. QED
  BY LinesStart, LinesStep, <1>1, PTL DEF LinesSpec

---------------------------------------------------------------------------
(* Recovery points.                                                          *)

Commits == [id : Nat, generation : Generations]
ManifestRecords == [status : {"partial", "success"}, repo : Repos, generation : Generations,
                    committed : BOOLEAN, base : Seq(Commits)]
Snapshots == [id : Nat, by : {"none", "worker", "owner", "operator"},
              step : {"none", "opened", "copied", "committed", "pushed", "tagged", "recorded"},
              repo : Repos \cup {NoRepo}, generation : Generations, base : Seq(Commits)]

BackupTyped ==
  /\ manifests \in Seq(ManifestRecords)
  /\ snapshot \in Snapshots
  /\ Running => snapshot.id \in 1..Len(manifests) /\ snapshot.repo \in Repos
  /\ latest \in [Repos -> Nat] /\ \A p \in Repos : latest[p] <= Len(manifests)
  /\ tags \in [Repos -> SUBSET Nat] /\ \A p \in Repos : tags[p] \subseteq 1..Len(manifests)
  /\ branch \in [Repos -> Seq(Commits)]

\* Everything that is not the state of a backup.
SchedulerTyped ==
  /\ generation \in Generations /\ unasked \in BOOLEAN
  /\ selection \in Repos \cup {NoRepo} /\ manager \in Repos \cup {NoRepo}
  /\ requests \in 0..MaxRequests
  /\ worker \in {"idle", "collect", "snapshot", "retry", "down"}
  /\ faults \in 0..MaxFaults /\ crashes \in 0..MaxCrashes /\ ownerActs \in 0..MaxOwnerActs

\* The inductive invariant of the recovery points.
BackupInv ==
  /\ SchedulerTyped /\ BackupTyped
  /\ WorkHasRepository /\ BackupIsTraced /\ RecoveryPointsAreWhole

Held(p) == {branch[p][i] : i \in DOMAIN branch[p]}

LEMMA TypedIsTypeOK ==
  ASSUME SchedulerTyped, BackupTyped
  PROVE  BackupTypeOK
<1>1. DOMAIN manifests = 1..Len(manifests) /\ Len(manifests) \in Nat
  BY DEF BackupTyped
<1>2. \A id \in 1..Len(manifests) : manifests[id] \in ManifestRecords
  BY DEF BackupTyped
<1>3. snapshot.id \in {0} \cup DOMAIN manifests
  BY <1>1 DEF BackupTyped, Running, NoSnapshot
<1>4. \A p \in Repos : latest[p] \in {0} \cup DOMAIN manifests /\ tags[p] \subseteq DOMAIN manifests
  BY <1>1 DEF BackupTyped
<1>5. \A id \in DOMAIN manifests : /\ manifests[id].status \in {"partial", "success"}
                                   /\ manifests[id].repo \in Repos /\ manifests[id].generation \in Generations
  BY <1>1, <1>2 DEF ManifestRecords
<1>6. QED
  BY <1>3, <1>4, <1>5 DEF SchedulerTyped, BackupTypeOK

\* What is offered stays whole as long as branches only grow and the manifests
\* that pointers name keep their generation.
LEMMA OffersStayWhole ==
  ASSUME RecoveryPointsAreWhole, UNCHANGED <<latest, tags>>,
         \A p \in Repos : Held(p) \subseteq Held(p)',
         \A p \in Repos : latest[p] # 0 =>
            manifests'[latest[p]].generation = manifests[latest[p]].generation
  PROVE  RecoveryPointsAreWhole'
<1> SUFFICES ASSUME NEW p \in Repos
             PROVE  /\ tags[p] \subseteq {c.id : c \in Held(p)'}
                    /\ latest[p] # 0 =>
                          /\ latest[p] \in tags[p]
                          /\ [id |-> latest[p], generation |-> manifests'[latest[p]].generation] \in Held(p)'
  BY DEF RecoveryPointsAreWhole, Held
<1>1. /\ tags[p] \subseteq {c.id : c \in Held(p)}
      /\ latest[p] # 0 =>
            /\ latest[p] \in tags[p]
            /\ [id |-> latest[p], generation |-> manifests[latest[p]].generation] \in Held(p)
  BY DEF RecoveryPointsAreWhole, Held
<1>2. QED
  BY <1>1

\* The scheduler around a backup: nothing that is offered changes.
LEMMA SchedulerStep ==
  ASSUME BackupInv,
         \/ Publish \/ RequestBackup \/ (\E p \in Repos : Connect(p))
         \/ Collect \/ Join \/ BackupRefused \/ Retry \/ Restart
  PROVE  BackupInv'
<1> USE BackupAssumption DEF BackupInv
<1>1. UNCHANGED <<snapshot, manifests, latest, branch, tags>>
  BY DEF Publish, RequestBackup, Connect, Collect, Join, BackupRefused, Retry, Restart
<1>2. BackupTyped' /\ BackupIsTraced'
  BY <1>1 DEF BackupTyped, BackupIsTraced, Running
<1>3. RecoveryPointsAreWhole'
  BY <1>1 DEF RecoveryPointsAreWhole
<1>4. SchedulerTyped'
  <2> USE DEF SchedulerTyped
  <2>1. \A on \in Repos \cup {NoRepo} : Enqueue(on) \in 0..MaxRequests
    BY DEF Enqueue
  <2>2. CASE Publish
    BY <2>2 DEF Publish, Generations
  <2>3. CASE RequestBackup \/ Retry
    BY <2>1, <2>3 DEF RequestBackup, Retry
  <2>4. CASE \E p \in Repos : Connect(p)
    BY <2>1, <2>4 DEF Connect
  <2>5. CASE Collect \/ Join \/ BackupRefused
    BY <2>5 DEF Collect, Join, BackupRefused
  <2>6. CASE Restart
    BY <2>6 DEF Restart
  <2>7. QED
    BY <2>2, <2>3, <2>4, <2>5, <2>6
<1>5. WorkHasRepository'
  BY <1>1 DEF WorkHasRepository, SchedulerTyped, Publish, RequestBackup, Connect, Collect, Join,
              BackupRefused, Retry, Restart, Enqueue, Running
<1>6. QED
  BY <1>2, <1>3, <1>4, <1>5

\* A backup opens under an id that nobody has offered.
LEMMA OpenStep ==
  ASSUME BackupInv, WorkerSnapshot \/ OwnerSnapshot
  PROVE  BackupInv'
<1> USE BackupAssumption DEF BackupInv
<1>1. PICK by \in {"worker", "owner"} : Open(by) /\ (by = "worker" => worker' = "snapshot")
  BY DEF WorkerSnapshot, OwnerSnapshot
<1>2. manager \in Repos /\ UNCHANGED <<manager, requests, latest, branch, tags>>
  BY DEF WorkerSnapshot, OwnerSnapshot, Enabled, WorkHasRepository, SchedulerTyped
<1> DEFINE m == [status |-> "partial", repo |-> manager, generation |-> 0,
                 committed |-> FALSE, base |-> <<>>]
<1>3. m \in ManifestRecords /\ manifests' = Append(manifests, m)
  BY <1>1, <1>2 DEF ManifestRecords, Generations, Open
<1> HIDE DEF m
<1>4. /\ manifests' \in Seq(ManifestRecords) /\ Len(manifests') = Len(manifests) + 1 /\ Len(manifests) \in Nat
      /\ \A i \in 1..Len(manifests) : manifests'[i] = manifests[i]
  BY <1>3 DEF BackupTyped
<1>5. /\ snapshot' \in Snapshots /\ snapshot'.id = Len(manifests) + 1 /\ snapshot'.repo = manager
      /\ snapshot'.step = "opened" /\ snapshot'.by = by
  BY <1>1, <1>2, <1>4 DEF Open, Snapshots, Generations
<1>6. BackupTyped'
  BY <1>2, <1>4, <1>5 DEF BackupTyped
<1>7. SchedulerTyped' /\ WorkHasRepository'
  BY <1>1, <1>2, <1>5 DEF SchedulerTyped, WorkHasRepository, WorkerSnapshot, OwnerSnapshot
<1>8. BackupIsTraced'
  BY <1>1, <1>2, <1>4, <1>5 DEF BackupIsTraced, BackupTyped
<1>9. RecoveryPointsAreWhole'
  BY <1>2, <1>4, OffersStayWhole DEF BackupTyped, Held
<1>10. QED
  BY <1>6, <1>7, <1>8, <1>9

\* What the steps of a backup leave alone.
LEMMA SchedulerWaits ==
  ASSUME BackupInv, UNCHANGED <<generation, unasked, selection, manager, requests, crashes, ownerActs>>,
         faults' \in 0..MaxFaults,
         \/ worker' = worker
         \/ snapshot.by = "worker" /\ Running /\ worker' \in {"idle", "retry"},
         Running' => worker' = worker /\ Running /\ snapshot'.by = snapshot.by
  PROVE  SchedulerTyped' /\ WorkHasRepository'
<1> USE DEF BackupInv
<1>1. SchedulerTyped'
  BY DEF SchedulerTyped
<1>2. WorkHasRepository'
  BY DEF WorkHasRepository
<1>3. QED
  BY <1>1, <1>2

\* The copy of the database and the commit of the catalog offer nothing yet.
LEMMA CopyStep ==
  ASSUME BackupInv, CopyDatabase \/ CommitCatalog
  PROVE  BackupInv'
<1> USE DEF BackupInv
<1>1. /\ UNCHANGED <<manifests, latest, branch, tags, worker>> /\ Running
      /\ UNCHANGED <<generation, unasked, selection, manager, requests, faults, crashes, ownerActs>>
  BY DEF CopyDatabase, CommitCatalog, At
<1>2. /\ snapshot' \in Snapshots /\ snapshot'.id = snapshot.id /\ snapshot'.by = snapshot.by
      /\ snapshot'.repo = snapshot.repo /\ snapshot'.step \in {"copied", "committed"}
  <2>1. CASE CopyDatabase
    BY <2>1 DEF CopyDatabase, Snapshots, BackupTyped, SchedulerTyped
  <2>2. CASE CommitCatalog
    <3>1. branch[snapshot.repo] \in Seq(Commits)
      BY <1>1 DEF BackupTyped
    <3>2. QED
      BY <2>2, <3>1 DEF CommitCatalog, Snapshots, BackupTyped
  <2>3. QED
    BY <2>1, <2>2
<1>3. snapshot.by # "operator"
  BY DEF CopyDatabase, CommitCatalog, At, BackupIsTraced
<1>4. BackupTyped'
  BY <1>1, <1>2 DEF BackupTyped
<1>5. BackupIsTraced'
  BY <1>1, <1>2, <1>3 DEF BackupIsTraced
<1>6. RecoveryPointsAreWhole'
  BY <1>1 DEF RecoveryPointsAreWhole
<1>7. SchedulerTyped' /\ WorkHasRepository'
  BY <1>1, <1>2, SchedulerWaits DEF SchedulerTyped
<1>8. QED
  BY <1>4, <1>5, <1>6, <1>7

\* A push that is a fast forward loses no commit of the branch, and adds its own.
LEMMA PushAdds ==
  ASSUME BackupInv, PushBranch
  PROVE  /\ \A p \in Repos : Held(p) \subseteq Held(p)'
         /\ branch' \in [Repos -> Seq(Commits)]
         /\ \E i \in DOMAIN branch'[snapshot.repo] :
               branch'[snapshot.repo][i] = [id |-> snapshot.id, generation |-> snapshot.generation]
<1> SUFFICES ASSUME NEW p, p = snapshot.repo, NEW c, c = [id |-> snapshot.id, generation |-> snapshot.generation]
             PROVE  /\ \A q \in Repos : Held(q) \subseteq Held(q)'
                    /\ branch' \in [Repos -> Seq(Commits)]
                    /\ \E i \in DOMAIN branch'[p] : branch'[p][i] = c
  OBVIOUS
<1>1. /\ p \in Repos /\ snapshot.base \in Seq(Commits) /\ c \in Commits
      /\ branch[p] \in Seq(Commits) /\ FastForward(p, Commit)
      /\ branch' = [branch EXCEPT ![p] = Commit] /\ Commit = Append(snapshot.base, c)
  BY DEF PushBranch, At, BackupInv, BackupTyped, Snapshots, Commits, Commit
<1>2. /\ Commit \in Seq(Commits) /\ Len(Commit) = Len(snapshot.base) + 1 /\ Len(snapshot.base) \in Nat
      /\ Commit[Len(Commit)] = c
  BY <1>1
<1>3. /\ branch' \in [Repos -> Seq(Commits)] /\ branch'[p] = Commit
      /\ \A q \in Repos \ {p} : branch'[q] = branch[q]
  BY <1>1, <1>2 DEF BackupInv, BackupTyped
<1>4. \A i \in 1..Len(branch[p]) : Commit[i] = branch[p][i] /\ i \in 1..Len(Commit)
  <2>1. SubSeq(Commit, 1, Len(branch[p])) = branch[p] /\ Len(branch[p]) <= Len(Commit) /\ Len(branch[p]) \in Nat
    BY <1>1 DEF FastForward
  <2>2. \A i \in 1..Len(branch[p]) : SubSeq(Commit, 1, Len(branch[p]))[i] = Commit[i]
    BY <1>2, <2>1
  <2>3. QED
    BY <1>2, <2>1, <2>2
<1>5. Held(p) \subseteq Held(p)'
  <2>1. DOMAIN branch[p] = 1..Len(branch[p]) /\ DOMAIN Commit = 1..Len(Commit)
    BY <1>1, <1>2
  <2>2. ASSUME NEW i \in DOMAIN branch[p]
        PROVE  \E j \in DOMAIN branch'[p] : branch[p][i] = branch'[p][j]
    BY <1>3, <1>4, <2>1
  <2>3. QED
    BY <2>2 DEF Held
<1>6. \A q \in Repos : Held(q) \subseteq Held(q)'
  <2>1. \A q \in Repos \ {p} : Held(q)' = Held(q)
    BY <1>3 DEF Held
  <2>2. QED
    BY <1>5, <2>1
<1>7. Len(Commit) \in DOMAIN branch'[p] /\ branch'[p][Len(Commit)] = c
  BY <1>2, <1>3
<1>8. QED
  BY <1>3, <1>6, <1>7

LEMMA PushBranchStep ==
  ASSUME BackupInv, PushBranch
  PROVE  BackupInv'
<1> USE DEF BackupInv
<1>1. /\ UNCHANGED <<manifests, latest, tags, worker>> /\ Running
      /\ UNCHANGED <<generation, unasked, selection, manager, requests, faults, crashes, ownerActs>>
  BY DEF PushBranch, At
<1>2. /\ snapshot' \in Snapshots /\ snapshot'.id = snapshot.id /\ snapshot'.by = snapshot.by
      /\ snapshot'.repo = snapshot.repo /\ snapshot'.step = "pushed" /\ snapshot'.generation = snapshot.generation
  BY DEF PushBranch, Snapshots, BackupTyped
<1>3. BackupTyped'
  BY <1>1, <1>2, PushAdds DEF BackupTyped
<1>4. BackupIsTraced'
  BY <1>1, <1>2, PushAdds DEF BackupIsTraced, PushBranch, At
<1>5. RecoveryPointsAreWhole'
  BY <1>1, PushAdds, OffersStayWhole
<1>6. SchedulerTyped' /\ WorkHasRepository'
  BY <1>1, <1>2, SchedulerWaits DEF SchedulerTyped
<1>7. QED
  BY <1>3, <1>4, <1>5, <1>6

LEMMA PushTagStep ==
  ASSUME BackupInv, PushTag
  PROVE  BackupInv'
<1> USE DEF BackupInv
<1>1. /\ UNCHANGED <<manifests, latest, branch, worker>> /\ Running
      /\ UNCHANGED <<generation, unasked, selection, manager, requests, faults, crashes, ownerActs>>
      /\ tags' = [tags EXCEPT ![snapshot.repo] = @ \cup {snapshot.id}]
      /\ snapshot.id \in 1..Len(manifests) /\ snapshot.repo \in Repos
  BY DEF PushTag, At, BackupTyped
<1>2. /\ snapshot' \in Snapshots /\ snapshot'.id = snapshot.id /\ snapshot'.by = snapshot.by
      /\ snapshot'.repo = snapshot.repo /\ snapshot'.step = "tagged" /\ snapshot'.generation = snapshot.generation
  BY DEF PushTag, Snapshots, BackupTyped
<1>3. \A p \in Repos : tags'[p] = IF p = snapshot.repo THEN tags[p] \cup {snapshot.id} ELSE tags[p]
  BY <1>1 DEF BackupTyped
<1>4. BackupTyped'
  BY <1>1, <1>2, <1>3 DEF BackupTyped
<1>5. PICK i \in DOMAIN branch[snapshot.repo] :
         branch[snapshot.repo][i] = [id |-> snapshot.id, generation |-> snapshot.generation]
  BY <1>1 DEF BackupIsTraced, PushTag, At
<1>6. BackupIsTraced'
  BY <1>1, <1>2, <1>3, <1>5 DEF BackupIsTraced, PushTag, At
<1>7. RecoveryPointsAreWhole'
  <2> SUFFICES ASSUME NEW p \in Repos
               PROVE  /\ tags'[p] \subseteq {c.id : c \in Held(p)'}
                      /\ latest'[p] # 0 =>
                            /\ latest'[p] \in tags'[p]
                            /\ [id |-> latest'[p], generation |-> manifests'[latest'[p]].generation] \in Held(p)'
    BY DEF RecoveryPointsAreWhole, Held
  <2>1. /\ tags[p] \subseteq {c.id : c \in Held(p)}
        /\ latest[p] # 0 =>
              /\ latest[p] \in tags[p]
              /\ [id |-> latest[p], generation |-> manifests[latest[p]].generation] \in Held(p)
    BY DEF RecoveryPointsAreWhole, Held
  <2>2. snapshot.id \in {c.id : c \in Held(snapshot.repo)}
    <3>1. branch[snapshot.repo][i].id = snapshot.id /\ branch[snapshot.repo][i] \in Held(snapshot.repo)
      BY <1>5 DEF Held
    <3>2. QED
      BY <3>1
  <2>3. Held(p)' = Held(p)
    BY <1>1 DEF Held
  <2>4. QED
    BY <1>1, <1>3, <2>1, <2>2, <2>3
<1>8. SchedulerTyped' /\ WorkHasRepository'
  BY <1>1, <1>2, SchedulerWaits DEF SchedulerTyped
<1>9. QED
  BY <1>4, <1>6, <1>7, <1>8

\* A manifest that is rewritten keeps its generation when a pointer names it.
LEMMA ManifestWritten ==
  ASSUME BackupInv, Running, NEW kind \in {"partial", "success"}, NEW committed \in BOOLEAN,
         manifests' = [manifests EXCEPT ![snapshot.id] = Manifest(kind, committed)]
  PROVE  /\ manifests' \in Seq(ManifestRecords) /\ Len(manifests') = Len(manifests)
         /\ manifests'[snapshot.id].generation = snapshot.generation
         /\ \A p \in Repos : latest[p] # 0 =>
               manifests'[latest[p]].generation = manifests[latest[p]].generation
<1> DEFINE m == Manifest(kind, committed)
<1>1. snapshot.id \in 1..Len(manifests) /\ m \in ManifestRecords /\ m.generation = snapshot.generation
  BY DEF BackupInv, BackupTyped, Snapshots, Manifest, ManifestRecords
<1> HIDE DEF m
<1>2. manifests \in Seq(ManifestRecords) /\ manifests' = [manifests EXCEPT ![snapshot.id] = m]
  BY DEF BackupInv, BackupTyped, m
<1>3. manifests' \in Seq(ManifestRecords) /\ Len(manifests') = Len(manifests)
  BY <1>1, <1>2
<1>4. manifests'[snapshot.id] = m /\ \A i \in 1..Len(manifests) : i # snapshot.id => manifests'[i] = manifests[i]
  BY <1>1, <1>2
<1>5. ASSUME NEW p \in Repos, latest[p] # 0
      PROVE  manifests'[latest[p]].generation = manifests[latest[p]].generation
  <2>1. latest[p] \in 1..Len(manifests)
    BY <1>5, <1>2 DEF BackupInv, BackupTyped
  <2>2. CASE latest[p] # snapshot.id
    BY <1>4, <2>1, <2>2
  <2>3. CASE latest[p] = snapshot.id
    BY <1>1, <1>4, <2>3 DEF BackupInv, BackupIsTraced
  <2>4. QED
    BY <2>2, <2>3
<1>6. QED
  BY <1>1, <1>3, <1>4, <1>5

LEMMA RecordStep ==
  ASSUME BackupInv, RecordSuccess
  PROVE  BackupInv'
<1> USE DEF BackupInv
<1>1. /\ UNCHANGED <<latest, branch, tags, worker>> /\ Running /\ snapshot.step = "tagged"
      /\ UNCHANGED <<generation, unasked, selection, manager, requests, faults, crashes, ownerActs>>
  BY DEF RecordSuccess, At
<1>2. /\ snapshot' \in Snapshots /\ snapshot'.id = snapshot.id /\ snapshot'.by = snapshot.by
      /\ snapshot'.repo = snapshot.repo /\ snapshot'.step = "recorded" /\ snapshot'.generation = snapshot.generation
  BY DEF RecordSuccess, Snapshots, BackupTyped
<1>3. /\ manifests' \in Seq(ManifestRecords) /\ Len(manifests') = Len(manifests)
      /\ manifests'[snapshot.id].generation = snapshot.generation
      /\ \A p \in Repos : latest[p] # 0 =>
            manifests'[latest[p]].generation = manifests[latest[p]].generation
  <2>1. manifests' = [manifests EXCEPT ![snapshot.id] = Manifest("success", TRUE)]
    BY DEF RecordSuccess
  <2>2. QED
    BY <1>1, <2>1, ManifestWritten
<1>4. BackupTyped'
  BY <1>1, <1>2, <1>3 DEF BackupTyped
<1>5. BackupIsTraced'
  BY <1>1, <1>2, <1>3 DEF BackupIsTraced
<1>6. RecoveryPointsAreWhole'
  BY <1>1, <1>3, OffersStayWhole DEF Held
<1>7. SchedulerTyped' /\ WorkHasRepository'
  BY <1>1, <1>2, SchedulerWaits DEF SchedulerTyped
<1>8. QED
  BY <1>4, <1>5, <1>6, <1>7

LEMMA NoSnapshotTyped == NoSnapshot \in Snapshots /\ NoSnapshot.step = "none" /\ NoSnapshot.by = "none"
<1>1. <<>> \in Seq(Commits) /\ 0 \in Generations
  BY BackupAssumption DEF Generations
<1>2. QED
  BY <1>1 DEF NoSnapshot, Snapshots

\* The pointer moves to a backup whose tag and commit are at the remote.
LEMMA PointerStep ==
  ASSUME BackupInv, WriteLatestSuccessful
  PROVE  BackupInv'
<1> USE DEF BackupInv
<1>1. /\ UNCHANGED <<manifests, branch, tags>> /\ Running /\ snapshot.step = "recorded" /\ snapshot' = NoSnapshot
      /\ UNCHANGED <<generation, unasked, selection, manager, requests, faults, crashes, ownerActs>>
      /\ latest' = [latest EXCEPT ![snapshot.repo] = snapshot.id]
      /\ snapshot.id \in 1..Len(manifests) /\ snapshot.repo \in Repos /\ Len(manifests) \in Nat
      /\ worker' = IF snapshot.by = "worker" THEN "idle" ELSE worker
  BY DEF WriteLatestSuccessful, At, BackupTyped
<1>2. ~Running'
  BY <1>1 DEF Running
<1>3. \A p \in Repos : latest'[p] = IF p = snapshot.repo THEN snapshot.id ELSE latest[p]
  BY <1>1 DEF BackupTyped
<1>4. BackupTyped'
  BY <1>1, <1>2, <1>3, NoSnapshotTyped DEF BackupTyped
<1>5. BackupIsTraced'
  BY <1>2 DEF BackupIsTraced
<1>6. RecoveryPointsAreWhole'
  <2> SUFFICES ASSUME NEW p \in Repos
               PROVE  /\ tags'[p] \subseteq {c.id : c \in Held(p)'}
                      /\ latest'[p] # 0 =>
                            /\ latest'[p] \in tags'[p]
                            /\ [id |-> latest'[p], generation |-> manifests'[latest'[p]].generation] \in Held(p)'
    BY DEF RecoveryPointsAreWhole, Held
  <2>1. Held(p)' = Held(p) /\ tags' = tags /\ manifests' = manifests
    BY <1>1 DEF Held
  <2>2. /\ tags[p] \subseteq {c.id : c \in Held(p)}
        /\ latest[p] # 0 =>
              /\ latest[p] \in tags[p]
              /\ [id |-> latest[p], generation |-> manifests[latest[p]].generation] \in Held(p)
    BY DEF RecoveryPointsAreWhole, Held
  <2>3. /\ snapshot.id \in tags[snapshot.repo] /\ manifests[snapshot.id].generation = snapshot.generation
        /\ [id |-> snapshot.id, generation |-> snapshot.generation] \in Held(snapshot.repo)
    BY <1>1 DEF BackupIsTraced, Held
  <2>4. CASE p = snapshot.repo
    BY <1>3, <2>1, <2>2, <2>3, <2>4
  <2>5. CASE p # snapshot.repo
    BY <1>3, <2>1, <2>2, <2>5
  <2>6. QED
    BY <2>4, <2>5
<1>7. SchedulerTyped' /\ WorkHasRepository'
  BY <1>1, <1>2, SchedulerWaits DEF SchedulerTyped
<1>8. QED
  BY <1>4, <1>5, <1>6, <1>7

\* A failure writes a manifest that offers no more than before.
LEMMA FailStep ==
  ASSUME BackupInv, BackupFails
  PROVE  BackupInv'
<1> USE DEF BackupInv
<1>1. /\ UNCHANGED <<latest, branch, tags>> /\ Running /\ snapshot' = NoSnapshot
      /\ UNCHANGED <<generation, unasked, selection, manager, requests, crashes, ownerActs>>
      /\ worker' = IF snapshot.by = "worker" THEN "retry" ELSE worker
      /\ snapshot.id \in 1..Len(manifests)
  BY DEF BackupFails, BackupTyped
<1>2. ~Running'
  BY <1>1 DEF Running
<1>3. faults' \in 0..MaxFaults
  BY BackupAssumption DEF BackupFails, SchedulerTyped
<1>4. /\ manifests' \in Seq(ManifestRecords) /\ Len(manifests') = Len(manifests)
      /\ \A p \in Repos : latest[p] # 0 =>
            manifests'[latest[p]].generation = manifests[latest[p]].generation
  <2> DEFINE kind == IF snapshot.by = "operator" THEN manifests[snapshot.id].status ELSE "partial"
             committed == snapshot.step \in {"committed", "pushed", "tagged", "recorded"}
  <2>1. manifests[snapshot.id] \in ManifestRecords
    BY <1>1 DEF BackupTyped
  <2>2. kind \in {"partial", "success"} /\ committed \in BOOLEAN
    BY <2>1 DEF ManifestRecords
  <2>3. manifests' = [manifests EXCEPT ![snapshot.id] = Manifest(kind, committed)]
    BY DEF BackupFails
  <2> HIDE DEF kind, committed
  <2>4. QED
    BY <1>1, <2>2, <2>3, ManifestWritten
<1>5. BackupTyped'
  BY <1>1, <1>2, <1>4, NoSnapshotTyped DEF BackupTyped
<1>6. BackupIsTraced'
  BY <1>2 DEF BackupIsTraced
<1>7. RecoveryPointsAreWhole'
  BY <1>1, <1>4, OffersStayWhole DEF Held
<1>8. SchedulerTyped' /\ WorkHasRepository'
  BY <1>1, <1>2, <1>3, SchedulerWaits
<1>9. QED
  BY <1>5, <1>6, <1>7, <1>8

\* An operator resumes the backup its manifest describes.
LEMMA ResumeStep ==
  ASSUME BackupInv, NEW id \in DOMAIN manifests, Resume(id)
  PROVE  BackupInv'
<1> USE DEF BackupInv
<1>1. /\ UNCHANGED <<manifests, latest, branch, tags>>
      /\ UNCHANGED <<generation, unasked, selection, manager, requests, worker, faults, crashes>>
      /\ ownerActs < MaxOwnerActs /\ ownerActs' = ownerActs + 1
  BY DEF Resume
<1>2. id \in 1..Len(manifests) /\ manifests[id] \in ManifestRecords
  BY DEF BackupTyped
<1>3. /\ snapshot' \in Snapshots /\ snapshot'.id = id /\ snapshot'.by = "operator" /\ snapshot'.step = "committed"
      /\ snapshot'.repo \in Repos /\ snapshot'.generation = manifests[id].generation
  BY <1>2 DEF Resume, Snapshots, ManifestRecords
<1>4. BackupTyped'
  BY <1>1, <1>2, <1>3 DEF BackupTyped
<1>5. BackupIsTraced'
  BY <1>1, <1>3 DEF BackupIsTraced
<1>6. RecoveryPointsAreWhole'
  BY <1>1 DEF RecoveryPointsAreWhole
<1>7. SchedulerTyped' /\ WorkHasRepository'
  BY <1>1, <1>3, BackupAssumption DEF SchedulerTyped, WorkHasRepository
<1>8. QED
  BY <1>4, <1>5, <1>6, <1>7

\* A crash takes the request and the server's own backup, nothing that is stored.
LEMMA CrashStep ==
  ASSUME BackupInv, Crash
  PROVE  BackupInv'
<1> USE DEF BackupInv
<1>1. /\ UNCHANGED <<manifests, latest, branch, tags>>
      /\ \/ snapshot' = NoSnapshot
         \/ snapshot' = snapshot /\ snapshot.by = "operator" /\ Running
  BY DEF Crash
<1>2. SchedulerTyped'
  <2>1. 0 \in 0..MaxRequests /\ crashes' \in 0..MaxCrashes
    BY BackupAssumption DEF SchedulerTyped, Crash
  <2>2. /\ UNCHANGED <<generation, selection, faults, ownerActs>>
        /\ worker' = "down" /\ requests' = 0 /\ unasked' = FALSE /\ manager' = NoRepo
    BY DEF Crash
  <2>3. QED
    BY <2>1, <2>2 DEF SchedulerTyped
<1>3. BackupTyped' /\ BackupIsTraced' /\ WorkHasRepository'
  <2>1. CASE snapshot' = NoSnapshot
    <3>1. ~Running'
      BY <2>1 DEF Running
    <3>2. QED
      BY <1>1, <2>1, <3>1, NoSnapshotTyped DEF BackupTyped, BackupIsTraced, WorkHasRepository, Crash
  <2>2. CASE snapshot' = snapshot /\ snapshot.by = "operator" /\ Running
    BY <1>1, <2>2 DEF BackupTyped, BackupIsTraced, WorkHasRepository, Crash, Running
  <2>3. QED
    BY <1>1, <2>1, <2>2
<1>4. RecoveryPointsAreWhole'
  BY <1>1 DEF RecoveryPointsAreWhole
<1>5. QED
  BY <1>2, <1>3, <1>4

LEMMA BackupStart ==
  ASSUME BackupInit
  PROVE  BackupInv
<1> USE BackupAssumption DEF BackupInit
<1>1. ~Running /\ manifests \in Seq(ManifestRecords) /\ Len(manifests) = 0
  BY DEF Running
<1>2. BackupTyped
  <2>1. <<>> \in Seq(Commits)
    OBVIOUS
  <2>2. QED
    BY <1>1, <2>1, NoSnapshotTyped DEF BackupTyped
<1>3. SchedulerTyped
  <2>1. 1 \in Generations /\ 0 \in 0..MaxRequests /\ 0 \in 0..MaxFaults /\ 0 \in 0..MaxCrashes /\ 0 \in 0..MaxOwnerActs
    BY DEF Generations
  <2>2. QED
    BY <2>1 DEF SchedulerTyped
<1>4. WorkHasRepository /\ BackupIsTraced
  BY <1>1 DEF WorkHasRepository, BackupIsTraced
<1>5. RecoveryPointsAreWhole
  BY DEF RecoveryPointsAreWhole
<1>6. QED
  BY <1>2, <1>3, <1>4, <1>5 DEF BackupInv

LEMMA BackupStepHolds ==
  ASSUME BackupInv, [BackupNext]_backupVars
  PROVE  BackupInv'
<1>1. CASE \/ Publish \/ RequestBackup \/ (\E p \in Repos : Connect(p))
           \/ Collect \/ Join \/ BackupRefused \/ Retry \/ Restart
  BY <1>1, SchedulerStep
<1>2. CASE WorkerSnapshot \/ OwnerSnapshot
  BY <1>2, OpenStep
<1>3. CASE BackupStep
  BY <1>3, CopyStep, PushBranchStep, PushTagStep, RecordStep, PointerStep DEF BackupStep
<1>4. CASE BackupFails
  BY <1>4, FailStep
<1>5. CASE \E id \in DOMAIN manifests : Resume(id)
  BY <1>5, ResumeStep
<1>6. CASE Crash
  BY <1>6, CrashStep
<1>7. CASE UNCHANGED backupVars
  <2>1. SchedulerTyped' /\ BackupTyped' /\ WorkHasRepository'
    BY <1>7 DEF backupVars, BackupInv, SchedulerTyped, BackupTyped, WorkHasRepository, Running
  <2>2. BackupIsTraced'
    BY <1>7 DEF backupVars, BackupInv, BackupIsTraced, Running
  <2>3. RecoveryPointsAreWhole'
    BY <1>7 DEF backupVars, BackupInv, RecoveryPointsAreWhole
  <2>4. QED
    BY <2>1, <2>2, <2>3 DEF BackupInv
<1>8. QED
  BY <1>1, <1>2, <1>3, <1>4, <1>5, <1>6, <1>7 DEF BackupNext, WorkerStep

\* Whatever fails, crashes or is resumed, every tag of a remote and every backup
\* a latest-successful file names is a commit of that remote's branch with the
\* generation its manifest states.
THEOREM OfferedRecoveryPointsAreWhole == BackupSpec => [](BackupTypeOK /\ RecoveryPointsAreWhole)
<1>1. BackupInv => BackupTypeOK /\ RecoveryPointsAreWhole
  BY TypedIsTypeOK DEF BackupInv
<1>2. QED
  BY BackupStart, BackupStepHolds, <1>1, PTL DEF BackupSpec

---------------------------------------------------------------------------
(* Restoration.                                                              *)

\* A catalog is restored once, which is what moves its generation last.
RestoreInv == /\ RestoreTypeOK /\ TransactionIsAlone
              /\ target # "restored" => targetGeneration <= MaxGeneration

LEMMA RestoreStarts == RestoreInit => RestoreInv
BY RestoreAssumption
   DEF RestoreInit, RestoreInv, RestoreTypeOK, TransactionIsAlone, InTransaction, NoDigest

LEMMA RestoreStepHolds ==
  ASSUME RestoreInv, [RestoreNext]_restoreVars
  PROVE  RestoreInv'
<1> USE RestoreAssumption DEF RestoreInv, RestoreTypeOK
<1>1. files' \in [Playbooks -> {"absent", "same", "other", "torn"}]
  BY DEF RestoreNext, restoreVars, Preview, StageRestore, InsertRows, Promote, CommitRestore,
         RestoreFails, CrashRestore, RestartRestore, OtherWriter, Cleanup
<1>2. TransactionIsAlone'
  BY DEF RestoreInv, TransactionIsAlone, InTransaction, StillAsPlanned, RestoreNext, restoreVars, Preview,
         StageRestore, InsertRows, Promote, CommitRestore, RestoreFails, CrashRestore, RestartRestore, OtherWriter
<1>3. /\ target' \in {"empty", "other", "restored"} /\ targetGeneration' \in 1..(MaxGeneration + 1)
      /\ target' # "restored" => targetGeneration' <= MaxGeneration
  BY DEF TransactionIsAlone, InTransaction, RestoreNext, restoreVars, Preview, StageRestore, InsertRows, Promote,
         CommitRestore, RestoreFails, CrashRestore, RestartRestore, OtherWriter
<1>4. plan' \in [target : {"none", "empty"}, generation : 0..(MaxGeneration + 1)]
  BY DEF RestoreNext, restoreVars, Preview, StageRestore, InsertRows, Promote, CommitRestore, RestoreFails,
         CrashRestore, RestartRestore, OtherWriter, NoDigest, Digest
<1>5. /\ attempt' \in {"none", "staged", "promoting", "crashed"}
      /\ created' \subseteq Playbooks /\ foreign' \subseteq Playbooks
      /\ restoreCrashes' \in 0..MaxRestoreCrashes
  BY DEF RestoreNext, restoreVars, Preview, StageRestore, InsertRows, Promote, CommitRestore, RestoreFails,
         CrashRestore, RestartRestore, OtherWriter
<1>6. QED
  BY <1>1, <1>2, <1>3, <1>4, <1>5

LEMMA RestoreArrivesWhole ==
  ASSUME RestoreInv, [RestoreNext]_restoreVars
  PROVE  /\ target' = "restored" /\ target # "restored" =>
               target = "empty" /\ \A p \in Playbooks : files'[p] = "same"
         /\ \A p \in Playbooks \ created : files[p] # "absent" => files'[p] = files[p]
<1>1. ASSUME target' = "restored", target # "restored"
      PROVE  target = "empty" /\ \A p \in Playbooks : files'[p] = "same"
  BY <1>1 DEF RestoreInv, TransactionIsAlone, InTransaction, Promoted, RestoreNext, restoreVars, Preview,
              StageRestore, InsertRows, Promote, CommitRestore, RestoreFails, CrashRestore, RestartRestore, OtherWriter
<1>2. ASSUME NEW p \in Playbooks \ created, files[p] # "absent"
      PROVE  files'[p] = files[p]
  BY <1>2 DEF RestoreInv, RestoreTypeOK, Cleanup, RestoreNext, restoreVars, Preview, StageRestore, InsertRows, Promote,
              CommitRestore, RestoreFails, CrashRestore, RestartRestore, OtherWriter
<1>3. QED
  BY <1>1, <1>2

\* Through every failed attempt, crash and other writer, rows and playbooks of a
\* restore arrive together into an empty catalog, and no playbook that was there
\* before is overwritten or taken away.
THEOREM RestoresArriveWhole == RestoreSpec => RestoreIsWhole
<1>1. RestoreInit => RestoreInv
  BY RestoreStarts
<1>2. RestoreInv /\ [RestoreNext]_restoreVars => RestoreInv'
  BY RestoreStepHolds
<1>3. RestoreInv /\ [RestoreNext]_restoreVars =>
         [target' = "restored" /\ target # "restored" =>
             target = "empty" /\ \A p \in Playbooks : files'[p] = "same"]_restoreVars
  BY RestoreArrivesWhole
<1>4. RestoreInv /\ [RestoreNext]_restoreVars =>
         [\A p \in Playbooks \ created : files[p] # "absent" => files'[p] = files[p]]_restoreVars
  BY RestoreArrivesWhole
<1>5. QED
  BY <1>1, <1>2, <1>3, <1>4, PTL DEF RestoreSpec, RestoreIsWhole

---------------------------------------------------------------------------
(* Media.                                                                    *)

\* The types of the media are inductive as they stand.
MediaInv == MediaTypeOK

LEMMA NoJobTyped == NoJob \in Jobs /\ DOMAIN NoJob.lock = {} /\ NoJob.todo = {} /\ NoJob.transfers = {}
                    /\ NoJob.pc = "none" /\ NoJob.read = None
<1>1. <<>> \in [{} -> Locks] /\ DOMAIN <<>> = {}
  OBVIOUS
<1>2. QED
  BY <1>1 DEF NoJob, Jobs

\* What is written keeps the type of a location, and nothing else changes.
LEMMA WrittenAt ==
  ASSUME MediaInv, NEW l \in Locations, NEW d \in Contents \cup {None}, Written(l, d)
  PROVE  /\ at' \in [Locations -> [now : Contents \cup {None}, all : SUBSET Contents]]
         /\ \A k \in Locations : k # l => at'[k] = at[k]
<1> DEFINE x == [now |-> d, all |-> IF l \in Registries THEN at[l].all \cup ({d} \ {None}) ELSE {}]
<1>1. x \in [now : Contents \cup {None}, all : SUBSET Contents]
  BY DEF MediaInv, MediaTypeOK
<1>2. at' = [at EXCEPT ![l] = x]
  BY DEF Written
<1>3. QED
  BY <1>1, <1>2 DEF MediaInv, MediaTypeOK

JobOf(x) == /\ x \in Jobs /\ x.todo \cup x.transfers \subseteq DOMAIN x.lock
            /\ x.pc = "storing" <=> x.read # None
            /\ x.read # None => x.read \in x.todo

\* A run goes on.
LEMMA OneJob ==
  ASSUME MediaInv, NEW r \in Runs, NEW j, JobOf(j), job' = [job EXCEPT ![r] = j],
         UNCHANGED <<status, candidate, row, at, request>>
  PROVE  MediaInv'
<1>1. job' \in [Runs -> Jobs] /\ \A q \in Runs : JobOf(job'[q])
  BY DEF MediaInv, MediaTypeOK, JobOf
<1>2. QED
  BY <1>1 DEF MediaInv, MediaTypeOK, JobOf

LEMMA PlacesTyped == \A m \in Media, s \in Stations : Place[m, s] \in Locations /\ Home[m, s] \in Locations
<1>1. \A x \in Media \X Stations : Place[x] \in Locations /\ Home[x] \in Locations
  BY DEF Locations
<1>2. QED
  BY <1>1

LEMMA RunStep ==
  ASSUME MediaInv, NEW r \in Runs,
         \/ \E s \in Stations : Bind(r, s)
         \/ Finalize(r) \/ Start(r) \/ StartVerify(r) \/ Execute(r)
         \/ \E m \in Media : Mirror(r, m) \/ VerifyMedium(r, m)
         \/ Finish(r) \/ RetryRun(r)
  PROVE  MediaInv'
<1>1. PICK x \in Jobs : x = job[r]
  BY DEF MediaInv, MediaTypeOK
<1>2. JobOf(x) /\ job \in [Runs -> Jobs] /\ JobOf(NoJob) /\ NoJob \in Jobs
  BY <1>1, NoJobTyped DEF MediaInv, MediaTypeOK, JobOf
<1>3. ASSUME NEW s \in Stations, Bind(r, s) PROVE MediaInv'
  <2> DEFINE lock == [m \in Rows |-> [digest |-> row[m].digest, source |-> row[m].source, target |-> Place[m, s]]]
             todo == {m \in Rows : ~Readable(m, Place[m, s], row[m].digest)}
  <2>1. lock \in [Rows -> Locks] /\ Rows \in SUBSET Media
    <3>1. \A m \in Rows : m \in Media /\ row[m] \in MediaRows
      BY DEF Rows, MediaInv, MediaTypeOK
    <3>2. \A m \in Media : Place[m, s] \in Locations
      BY PlacesTyped
    <3>3. QED
      BY <3>1, <3>2 DEF MediaRows, Locks
  <2>2. todo \subseteq Rows /\ DOMAIN lock = Rows
    OBVIOUS
  <2>3. job' = [job EXCEPT ![r] = [NoJob EXCEPT !.pc = "bound", !.lock = lock, !.todo = todo]]
    BY <1>3 DEF Bind
  <2> HIDE DEF lock, todo
  <2>4. JobOf([NoJob EXCEPT !.pc = "bound", !.lock = lock, !.todo = todo])
    BY <2>1, <2>2 DEF JobOf, Jobs, NoJob
  <2>5. [NoJob EXCEPT !.pc = "bound", !.lock = lock, !.todo = todo].pc = "bound"
    BY DEF NoJob
  <2>6. QED
    BY <1>3, <2>3, <2>4, <2>5, OneJob DEF Bind
<1>4. ASSUME Finalize(r) PROVE MediaInv'
  <2>1. CASE job' = [job EXCEPT ![r] = NoJob]
    BY <1>2, <1>4, <2>1, NoJobTyped, OneJob DEF Finalize
  <2>2. ASSUME NEW L \in SUBSET x.todo,
               job' = [job EXCEPT ![r].pc = "queued", ![r].transfers = L, ![r].todo = L]
        PROVE  MediaInv'
    <3> DEFINE j == [x EXCEPT !.pc = "queued", !.transfers = L, !.todo = L]
    <3>1. JobOf(j) /\ j.pc = "queued"
      BY <1>1, <1>2, <1>4, <2>2 DEF JobOf, Jobs, Active, Finalize
    <3>2. job' = [job EXCEPT ![r] = [[[job[r] EXCEPT !.pc = "queued"] EXCEPT !.transfers = L] EXCEPT !.todo = L]]
      BY <1>2, <2>2
    <3>3. [[[x EXCEPT !.pc = "queued"] EXCEPT !.transfers = L] EXCEPT !.todo = L] = j
      OBVIOUS
    <3>4. job' = [job EXCEPT ![r] = j]
      BY <1>1, <3>2, <3>3
    <3> HIDE DEF j
    <3>5. UNCHANGED <<status, candidate, row, at, request>>
      BY <1>4 DEF Finalize
    <3>6. QED
      BY <3>1, <3>4, <3>5, OneJob
  <2> DEFINE L == {m \in x.todo : ~Readable(m, x.lock[m].target, x.lock[m].digest)}
  <2>3. \/ job' = [job EXCEPT ![r] = NoJob]
        \/ job' = [job EXCEPT ![r].pc = "queued", ![r].transfers = L, ![r].todo = L]
    BY <1>1, <1>4 DEF Finalize
  <2>4. L \in SUBSET x.todo
    OBVIOUS
  <2> HIDE DEF L
  <2>5. QED
    BY <2>1, <2>2, <2>3, <2>4
<1>5. ASSUME Start(r) PROVE MediaInv'
  <2>1. JobOf([x EXCEPT !.pc = "delivering"]) /\ [x EXCEPT !.pc = "delivering"].pc = "delivering"
    BY <1>1, <1>2, <1>5 DEF JobOf, Jobs, Active, Start
  <2>2. QED
    BY <1>1, <1>5, <2>1, OneJob DEF Start
<1>6. ASSUME NEW outcome \in {"failed", "succeeded"}, End(r, outcome),
             UNCHANGED <<status, candidate, row, at, request>>
      PROVE  MediaInv'
  <2> DEFINE j == IF outcome = "succeeded" THEN [NoJob EXCEPT !.pc = outcome]
                  ELSE [x EXCEPT !.pc = outcome, !.read = None]
  <2>1. JobOf([NoJob EXCEPT !.pc = "succeeded"]) /\ [NoJob EXCEPT !.pc = "succeeded"].pc = "succeeded"
    BY <1>2 DEF JobOf, Jobs, NoJob
  <2>2. JobOf([x EXCEPT !.pc = "failed", !.read = None])
        /\ [x EXCEPT !.pc = "failed", !.read = None].pc = "failed"
    BY <1>2 DEF JobOf, Jobs
  <2>3. job' = [job EXCEPT ![r] = j]
    BY <1>1, <1>6 DEF End
  <2>4. JobOf(j) /\ j.pc # "executing"
    BY <2>1, <2>2
  <2> HIDE DEF j
  <2>5. QED
    BY <1>6, <2>3, <2>4, OneJob
<1>7. ASSUME StartVerify(r) \/ Execute(r) PROVE MediaInv'
  <2>1. CASE StartVerify(r)
    <3> DEFINE j == [x EXCEPT !.pc = "verifying", !.todo = DOMAIN x.lock]
    <3>1. DOMAIN x.lock \in SUBSET Media
      BY DEF Jobs
    <3>2. JobOf(j)
      BY <1>1, <1>2, <2>1, <3>1 DEF JobOf, Jobs, Active, StartVerify
    <3>3. job' = [job EXCEPT ![r] = j]
      BY <1>1, <1>2, <2>1 DEF StartVerify
    <3> HIDE DEF j
    <3>4. QED
      BY <2>1, <3>2, <3>3, OneJob DEF StartVerify
  <2>2. CASE Execute(r)
    <3>1. JobOf([x EXCEPT !.pc = "executing"])
      BY <1>1, <1>2, <2>2 DEF JobOf, Jobs, Active, Execute
    <3>2. QED
      BY <1>1, <2>2, <3>1, OneJob DEF Execute
  <2>3. QED
    BY <1>7, <2>1, <2>2
<1>12. ASSUME NEW m \in Media, VerifyMedium(r, m) PROVE MediaInv'
  <2>1. CASE End(r, "failed")
    BY <1>6, <1>12, <2>1 DEF VerifyMedium
  <2>2. CASE job' = [job EXCEPT ![r] = Probed(@, m)]
    <3>1. DOMAIN x.lock \in SUBSET Media
      BY DEF Jobs
    <3>2. JobOf(Probed(x, m))
      BY <1>1, <1>2, <1>12, <3>1 DEF JobOf, Jobs, Active, Probed, VerifyMedium
    <3>3. job' = [job EXCEPT ![r] = Probed(x, m)]
      BY <1>1, <2>2
    <3>4. QED
      BY <1>12, <3>2, <3>3, OneJob DEF VerifyMedium
  <2>3. QED
    BY <1>12, <2>1, <2>2 DEF VerifyMedium
<1>8. ASSUME NEW m \in Media, Mirror(r, m) PROVE MediaInv'
  <2>1. CASE job' = [job EXCEPT ![r].todo = @ \ {m}]
    <3> DEFINE j == [x EXCEPT !.todo = x.todo \ {m}]
    <3>1. JobOf(j) /\ j.pc = "delivering"
      BY <1>1, <1>2, <1>8 DEF JobOf, Jobs, Active, Mirror
    <3>2. job' = [job EXCEPT ![r] = j]
      BY <1>1, <2>1
    <3> HIDE DEF j
    <3>3. QED
      BY <1>8, <3>1, <3>2, OneJob DEF Mirror
  <2>2. CASE job' = [job EXCEPT ![r].pc = "storing", ![r].read = m]
    <3> DEFINE j == [x EXCEPT !.pc = "storing", !.read = m]
    <3>1. JobOf(j) /\ j.pc = "storing"
      BY <1>1, <1>2, <1>8, MediaAssumption DEF JobOf, Jobs, Active, Mirror
    <3>2. job' = [job EXCEPT ![r] = j]
      BY <1>1, <1>2, <2>2
    <3> HIDE DEF j
    <3>3. QED
      BY <1>8, <3>1, <3>2, OneJob DEF Mirror
  <2>3. QED
    BY <1>6, <1>8, <2>1, <2>2 DEF Mirror
<1>9. ASSUME Finish(r) PROVE MediaInv'
  BY <1>6, <1>9 DEF Finish
<1>10. ASSUME RetryRun(r) PROVE MediaInv'
  <2> DEFINE j == [x EXCEPT !.pc = "queued", !.todo = x.transfers]
  <2>1. JobOf(j) /\ j.pc = "queued"
    BY <1>1, <1>2, <1>10 DEF JobOf, Jobs, Active, RetryRun
  <2>2. job' = [job EXCEPT ![r] = j]
    BY <1>1, <1>2, <1>10 DEF RetryRun
  <2> HIDE DEF j
  <2>3. QED
    BY <1>10, <2>1, <2>2, OneJob DEF RetryRun
<1>11. QED
  BY <1>3, <1>4, <1>5, <1>7, <1>8, <1>9, <1>10, <1>12

LEMMA StoreFetchedStep ==
  ASSUME MediaInv, NEW r \in Runs, StoreFetched(r)
  PROVE  MediaInv'
<1> DEFINE m == job[r].read
           x == job[r].lock[m]
<1>1. PICK j \in Jobs : j = job[r]
  BY DEF MediaInv, MediaTypeOK
<1>2. JobOf(j)
  BY <1>1 DEF MediaInv, MediaTypeOK, JobOf
<1>3. m \in DOMAIN job[r].lock /\ x \in Locks
  <2>1. j.read # None /\ j.read \in j.todo /\ j.todo \subseteq DOMAIN j.lock
    BY <1>1, <1>2 DEF StoreFetched, JobOf
  <2>2. PICK ms \in SUBSET Media : j.lock \in [ms -> Locks]
    BY DEF Jobs
  <2>3. QED
    BY <1>1, <2>1, <2>2
<1>4. x.target \in Locations /\ x.digest \in Contents /\ Written(x.target, x.digest)
  BY <1>3 DEF Locks, StoreFetched
<1>5. at' \in [Locations -> [now : Contents \cup {None}, all : SUBSET Contents]]
  BY <1>4, WrittenAt
<1> DEFINE k == [j EXCEPT !.pc = "delivering", !.read = None, !.todo = j.todo \ {m}]
<1>6. job' = [job EXCEPT ![r] = k]
  BY <1>1 DEF StoreFetched, MediaInv, MediaTypeOK
<1>7. JobOf(k)
  BY <1>2 DEF JobOf, Jobs, Active
<1> HIDE DEF k
<1>8. job' \in [Runs -> Jobs] /\ \A q \in Runs : JobOf(job'[q])
  BY <1>6, <1>7 DEF JobOf, MediaInv, MediaTypeOK
<1>9. QED
  BY <1>5, <1>8 DEF MediaInv, MediaTypeOK, JobOf, StoreFetched

\* What the owner does while nothing is written or run leaves the runs alone.
LEMMA OwnerStep ==
  ASSUME MediaInv, UNCHANGED <<at, job>>,
         status' \in {"draft", "released"}, candidate' \in BOOLEAN,
         row' \in [Media -> MediaRows \cup {None}],
         request' \in [Requests -> MediaRequests \cup {None}]
  PROVE  MediaInv'
BY DEF MediaInv, MediaTypeOK

LEMMA RequestTyped ==
  ASSUME MediaInv, NEW q \in Requests, request[q] # None
  PROVE  /\ request[q] \in MediaRequests
         /\ [digest |-> request[q].digest, source |-> request[q].loc] \in MediaRows
BY DEF MediaInv, MediaTypeOK, MediaRequests, MediaRows

LEMMA BeginStep ==
  ASSUME MediaInv, NEW q \in Requests, NEW op \in {"content", "source"}, NEW m \in Media,
         NEW d \in Contents, NEW l \in Locations, NEW pc \in {"sending", "probed"},
         Begin(q, op, m, d, l, pc)
  PROVE  MediaInv'
<1>1. [op |-> op, medium |-> m, digest |-> d, loc |-> l, pc |-> pc] \in MediaRequests
  BY DEF MediaRequests
<1>2. request' \in [Requests -> MediaRequests \cup {None}]
  BY <1>1 DEF Begin, MediaInv, MediaTypeOK
<1>3. QED
  BY <1>2, OwnerStep DEF Begin, MediaInv, MediaTypeOK

LEMMA RequestStep ==
  ASSUME MediaInv, NEW q \in Requests,
         \/ \E m \in Media, s \in Stations, d \in Contents :
               UploadArtifact(q, m, s, d) \/ StartImageBuild(q, m, s, d)
         \/ \E m \in Media, l \in Locations : Register(q, m, l) \/ ProbeSource(q, m, l)
         \/ GiveUp(q) \/ SaveContent(q) \/ UpdateSource(q)
  PROVE  MediaInv'
<1>1. ASSUME NEW m \in Media, NEW s \in Stations, NEW d \in Contents,
             UploadArtifact(q, m, s, d) \/ StartImageBuild(q, m, s, d)
      PROVE  MediaInv'
  BY <1>1, PlacesTyped, BeginStep DEF UploadArtifact, StartImageBuild
<1>2. ASSUME NEW m \in Media, NEW l \in Locations, Register(q, m, l) PROVE MediaInv'
  <2>1. at[l].now \in Contents
    BY <1>2 DEF Register, MediaInv, MediaTypeOK
  <2>2. QED
    BY <1>2, <2>1, BeginStep DEF Register
<1>3. ASSUME NEW m \in Media, NEW l \in Locations, ProbeSource(q, m, l) PROVE MediaInv'
  <2>1. row[m].digest \in Contents
    BY <1>3 DEF ProbeSource, MediaInv, MediaTypeOK, MediaRows
  <2>2. QED
    BY <1>3, <2>1, BeginStep DEF ProbeSource
<1>4. CASE GiveUp(q)
  BY <1>4, OwnerStep DEF GiveUp, MediaInv, MediaTypeOK
<1>5. CASE SaveContent(q)
  <2>1. /\ request' \in [Requests -> MediaRequests \cup {None}]
        /\ row' \in [Media -> MediaRows \cup {None}]
    BY <1>5, RequestTyped DEF SaveContent, MediaInv, MediaTypeOK
  <2>2. candidate' \in BOOLEAN /\ UNCHANGED <<status, at, job>>
    BY <1>5 DEF SaveContent, MediaInv, MediaTypeOK
  <2>3. QED
    BY <2>1, <2>2, OwnerStep DEF MediaInv, MediaTypeOK
<1>6. CASE UpdateSource(q)
  <2>1. request' \in [Requests -> MediaRequests \cup {None}]
    BY <1>6 DEF UpdateSource, MediaInv, MediaTypeOK
  <2>2. PICK x \in MediaRequests : x = request[q]
    BY <1>6, RequestTyped DEF UpdateSource
  <2>3. x.loc \in Locations /\ x.medium \in Media
    BY DEF MediaRequests
  <2>4. row[x.medium] # None => [row[x.medium] EXCEPT !.source = x.loc] \in MediaRows
    BY <2>3 DEF MediaInv, MediaTypeOK, MediaRows
  <2>5. row' \in [Media -> MediaRows \cup {None}]
    BY <1>6, <2>2, <2>3, <2>4 DEF UpdateSource, MediaInv, MediaTypeOK
  <2>6. QED
    BY <1>6, <2>1, <2>5, OwnerStep DEF UpdateSource, MediaInv, MediaTypeOK
<1>7. QED
  BY <1>1, <1>2, <1>3, <1>4, <1>5, <1>6

LEMMA OtherMediaStep ==
  ASSUME MediaInv,
         \/ \E q \in Requests : Store(q)
         \/ \E l \in Web, d \in Contents : WebChanges(l, d)
         \/ \E m \in Media : DeleteMedium(m)
         \/ Share \/ PublishDraft \/ PlatformCrash
  PROVE  MediaInv'
<1>1. ASSUME NEW q \in Requests, Store(q) PROVE MediaInv'
  <2>1. PICK x \in MediaRequests : x = request[q]
    BY <1>1, RequestTyped DEF Store
  <2>2. x.loc \in Locations /\ x.digest \in Contents /\ [x EXCEPT !.pc = "probed"] \in MediaRequests
    BY DEF MediaRequests
  <2>3. at' \in [Locations -> [now : Contents \cup {None}, all : SUBSET Contents]]
    BY <1>1, <2>1, <2>2, WrittenAt DEF Store
  <2>4. request' \in [Requests -> MediaRequests \cup {None}]
    BY <1>1, <2>1, <2>2 DEF Store, MediaInv, MediaTypeOK
  <2>5. QED
    BY <1>1, <2>3, <2>4 DEF Store, MediaInv, MediaTypeOK
<1>2. ASSUME NEW l \in Web, NEW d \in Contents, WebChanges(l, d) PROVE MediaInv'
  <2>1. l \in Locations
    BY DEF Locations
  <2>2. at' \in [Locations -> [now : Contents \cup {None}, all : SUBSET Contents]]
    BY <1>2, <2>1, WrittenAt DEF WebChanges
  <2>3. QED
    BY <1>2, <2>2 DEF WebChanges, MediaInv, MediaTypeOK
<1>3. ASSUME NEW m \in Media, DeleteMedium(m) PROVE MediaInv'
  BY <1>3, OwnerStep DEF DeleteMedium, MediaInv, MediaTypeOK
<1>4. ASSUME Share \/ PublishDraft PROVE MediaInv'
  BY <1>4, OwnerStep DEF Share, PublishDraft, MediaInv, MediaTypeOK
<1>5. ASSUME PlatformCrash PROVE MediaInv'
  <2>1. ASSUME NEW r \in Runs
        PROVE  JobOf(job'[r])
    <3>1. PICK x \in Jobs : x = job[r]
      BY DEF MediaInv, MediaTypeOK
    <3>2. JobOf(x)
      BY <3>1 DEF MediaInv, MediaTypeOK, JobOf
    <3>3. job'[r] = IF x.pc = "bound" THEN NoJob
                    ELSE IF x.pc \in Active \ {"queued"}
                           THEN [x EXCEPT !.pc = "failed", !.read = None]
                    ELSE x
      BY <1>5, <3>1 DEF PlatformCrash
    <3>4. CASE x.pc = "bound"
      BY <3>3, <3>4, NoJobTyped DEF JobOf
    <3>5. CASE x.pc # "bound"
      BY <3>2, <3>3, <3>5 DEF JobOf, Jobs, Active
    <3>6. QED
      BY <3>4, <3>5
  <2>2. job' \in [Runs -> Jobs]
    BY <1>5, <2>1 DEF PlatformCrash, JobOf
  <2>3. request' \in [Requests -> MediaRequests \cup {None}]
    BY <1>5 DEF PlatformCrash
  <2>4. QED
    BY <1>5, <2>1, <2>2, <2>3 DEF PlatformCrash, MediaInv, MediaTypeOK, JobOf
<1>6. QED
  BY <1>1, <1>2, <1>3, <1>4, <1>5

LEMMA MediaStarts == MediaInit => MediaInv
<1>1. [l \in Locations |-> [now |-> None, all |-> {}]]
        \in [Locations -> [now : Contents \cup {None}, all : SUBSET Contents]]
  OBVIOUS
<1>2. QED
  BY <1>1, NoJobTyped DEF MediaInit, MediaTypeOK, MediaInv

LEMMA MediaStep == MediaInv /\ [MediaNext]_mediaVars => MediaInv'
<1>1. MediaInv /\ UNCHANGED mediaVars => MediaInv'
  BY DEF mediaVars, MediaInv, MediaTypeOK
<1>2. MediaInv /\ MediaNext => MediaInv'
  BY RequestStep, OtherMediaStep, RunStep, StoreFetchedStep DEF MediaNext
<1>3. QED
  BY <1>1, <1>2

\* The digest of a medium changes in drafts only, and takes the candidate with it.
LEMMA ContentStep ==
  ASSUME MediaInv, [MediaNext]_mediaVars, NEW m \in Media,
         (row'[m] = None) # (row[m] = None) \/ (row[m] # None /\ row'[m].digest # row[m].digest)
  PROVE  status' = "draft" /\ ~candidate'
<1>1. ASSUME NEW q \in Requests, SaveContent(q)
      PROVE  status' = "draft" /\ ~candidate'
  <2>1. [digest |-> request[q].digest, source |-> request[q].loc] \in MediaRows /\ request[q].medium \in Media
    BY <1>1, RequestTyped DEF SaveContent, MediaRequests
  <2>2. [digest |-> request[q].digest, source |-> request[q].loc] # None
    BY <2>1, MediaAssumption DEF MediaRows
  <2>3. /\ status = "draft" /\ m = request[q].medium
        /\ row'[m] = [digest |-> request[q].digest, source |-> request[q].loc]
    BY <1>1, <2>1 DEF SaveContent, MediaInv, MediaTypeOK
  <2>4. row[m] = None \/ row[m].digest # request[q].digest
    BY <2>2, <2>3
  <2>5. QED
    BY <1>1, <2>3, <2>4 DEF SaveContent
<1>2. ASSUME NEW q \in Requests, UpdateSource(q) PROVE FALSE
  <2>1. PICK n \in Media, l \in Locations : n = request[q].medium /\ l = request[q].loc
    BY <1>2, RequestTyped DEF UpdateSource, MediaRequests
  <2>2. row[n] # None => /\ [row[n] EXCEPT !.source = l] \in MediaRows
                         /\ [row[n] EXCEPT !.source = l].digest = row[n].digest
    BY <2>1 DEF MediaInv, MediaTypeOK, MediaRows
  <2>3. row[n] # None => [row[n] EXCEPT !.source = l] # None
    BY <2>2, MediaAssumption DEF MediaRows
  <2>4. row' = row \/ (row[n] # None /\ row' = [row EXCEPT ![n] = [row[n] EXCEPT !.source = l]])
    BY <1>2, <2>1 DEF UpdateSource
  <2>5. QED
    BY <2>2, <2>3, <2>4 DEF MediaInv, MediaTypeOK
<1>3. ASSUME NEW n \in Media, DeleteMedium(n) PROVE status' = "draft" /\ ~candidate'
  BY <1>3 DEF DeleteMedium
<1>4. CASE UNCHANGED row
  BY <1>4
<1>5. QED
  BY <1>1, <1>2, <1>3, <1>4, ZenonT(60) DEF MediaNext, mediaVars, UploadArtifact, StartImageBuild, Register, ProbeSource,
     Begin, Store, GiveUp, WebChanges, Share, PublishDraft, Bind, Finalize, Start, StoreFetched, StartVerify,
     VerifyMedium, Execute, Mirror, Finish, RetryRun, PlatformCrash

\* However long an upload, a registration or a build was under way, the digest of a
\* medium changes in a draft only and never under a shared candidate.
THEOREM MediaContentIsFixed == MediaSpec => ContentIsFixed
<1>1. MediaInv /\ [MediaNext]_mediaVars =>
         [\A m \in Media :
            (row'[m] = None) # (row[m] = None) \/ (row[m] # None /\ row'[m].digest # row[m].digest)
              => status' = "draft" /\ ~candidate']_mediaVars
  BY ContentStep
<1>2. QED
  BY MediaStarts, MediaStep, <1>1, PTL DEF MediaSpec, ContentIsFixed

---------------------------------------------------------------------------
(* Transfers.                                                                *)

Pinning(i) == {c \in Calls : call[c].in = i}

\* A call has reserved its result before its operation runs, under a name of its own.
CallsFit ==
  /\ \A c \in Calls : /\ call[c].pc = "idle" => call[c] = NoCall
                      /\ call[c].pc = "open" => call[c].in # NoTransfer /\ call[c].out = NoTransfer
                      /\ call[c].pc \in {"ready", "done"} => call[c].out # NoTransfer
  /\ \A c, d \in Calls : c # d /\ call[c].out # NoTransfer => call[d].out # call[c].out
\* The readers of a transfer are the calls that stream it.
PinsAreCounted == \A i \in Live : entry[i].readers = Cardinality(Pinning(i))
\* A reserved result has what its operation wrote, as far as it was allowed to.
OutputsWait ==
  \A c \in Calls : call[c].out \in Live =>
    /\ ~entry[call[c].out].complete
    /\ call[c].pc = "done" /\ call[c].size <= entry[call[c].out].size
         => Len(disk[call[c].out]) = call[c].size
\* An upload has what was written.
UploadsGrow ==
  \A i \in Live : entry[i].complete \/ entry[i].expired \/ Output(i) \/ Len(disk[i]) = entry[i].written
\* A server that is down holds nothing.
DownIsEmpty == ~serving => Live = {} /\ reserved = 0 /\ \A c \in Calls : call[c] = NoCall

TransfersInv ==
  /\ StoredTypeOK /\ CallsFit /\ PinsAreCounted /\ OutputsWait /\ UploadsGrow /\ DownIsEmpty
  /\ QuotaIsHeld /\ FilesAreTracked /\ FinishedAreWhole /\ InputsStay

CallRecords == [pc : {"idle", "open", "ready", "done"}, in : Ids \cup {NoTransfer},
                out : Ids \cup {NoTransfer}, size : 0..MaxFile + 1]

LEMMA FileFacts == \A f : f \in Files <=> f \in Seq(Units) /\ Len(f) <= MaxFile
<1>1. ASSUME NEW f \in Files PROVE f \in Seq(Units) /\ Len(f) <= MaxFile
  <2>1. PICK n \in 0..MaxFile : f \in [1..n -> Units]
    BY DEF Files
  <2>2. n \in Nat
    BY TransfersAssumption
  <2>3. f \in Seq(Units) /\ Len(f) = n
    BY <2>1, <2>2
  <2>4. QED
    BY <2>3
<1>2. ASSUME NEW f, f \in Seq(Units), Len(f) <= MaxFile PROVE f \in Files
  <2>1. Len(f) \in 0..MaxFile /\ f \in [1..Len(f) -> Units]
    BY <1>2, TransfersAssumption
  <2>2. QED
    BY <2>1 DEF Files
<1>3. QED
  BY <1>1, <1>2

LEMMA SizesAreNat ==
  ASSUME entry \in [Ids -> Entries \cup {NoTransfer}]
  PROVE  NatOn(Size, Ids) /\ IsFiniteSet(Ids)
<1>1. ASSUME NEW i \in Ids PROVE Size[i] \in Nat
  BY TransfersAssumption DEF Size, Entries
<1>2. QED
  BY <1>1, TransfersAssumption DEF NatOn

\* Nothing is reserved or given back.
LEMMA QuotaStays ==
  ASSUME TransfersInv, entry' \in [Ids -> Entries \cup {NoTransfer}], reserved' = reserved,
         \A i \in Ids : /\ entry'[i] = NoTransfer <=> entry[i] = NoTransfer
                        /\ entry[i] # NoTransfer => entry'[i].size = entry[i].size
  PROVE  QuotaIsHeld'
<1>1. Size' = Size
  BY DEF Size
<1>2. QED
  BY <1>1 DEF TransfersInv, QuotaIsHeld

LEMMA PinsFinite == \A i : IsFiniteSet(Pinning(i)) /\ Cardinality(Pinning(i)) \in Nat
                           /\ Cardinality(Pinning(i)) <= Cardinality(Calls)
<1>1. SUFFICES ASSUME NEW S \in SUBSET Calls
               PROVE  IsFiniteSet(S) /\ Cardinality(S) \in Nat /\ Cardinality(S) <= Cardinality(Calls)
  BY DEF Pinning
<1>2. QED
  BY TransfersAssumption, FS_Subset, FS_CardinalityType

\* Nobody pins what is not read.
LEMMA UnreadIsFree ==
  ASSUME TransfersInv, NEW i \in Live, entry[i].readers = 0
  PROVE  \A c \in Calls : call[c].in # i
<1>1. Cardinality(Pinning(i)) = 0
  BY DEF TransfersInv, PinsAreCounted
<1>2. PICK S : S = Pinning(i)
  OBVIOUS
<1>3. S = {}
  BY <1>1, <1>2, PinsFinite, FS_EmptySet
<1>4. QED
  BY <1>2, <1>3 DEF Pinning


\* The calls stream what they did; what is new is not streamed.
LEMMA PinsStay ==
  ASSUME TransfersInv, \A c \in Calls : call'[c].in = call[c].in,
         \A i \in Ids : entry'[i] # NoTransfer =>
           IF entry[i] = NoTransfer THEN entry'[i].readers = 0 ELSE entry'[i].readers = entry[i].readers
  PROVE  PinsAreCounted'
<1>1. SUFFICES ASSUME NEW i \in Ids, entry'[i] # NoTransfer
               PROVE  entry'[i].readers = Cardinality(Pinning(i)')
  BY DEF PinsAreCounted, Live, Pinning
<1>2. Pinning(i)' = Pinning(i)
  BY DEF Pinning
<1>3. CASE entry[i] # NoTransfer
  BY <1>1, <1>2, <1>3 DEF TransfersInv, PinsAreCounted, Live
<1>4. CASE entry[i] = NoTransfer
  <2>1. i # NoTransfer /\ i \notin Live
    BY <1>4, TransfersAssumption DEF Live
  <2>2. Pinning(i) = {}
    BY <2>1 DEF TransfersInv, InputsStay, Pinning
  <2>3. QED
    BY <1>1, <1>2, <1>4, <2>2, FS_EmptySet
<1>5. QED
  BY <1>3, <1>4

\* A call ends: what it streamed has one reader less.
LEMMA PinsAreGivenBack ==
  ASSUME TransfersInv, NEW c \in Calls, call' = [call EXCEPT ![c] = NoCall],
         \A i \in Ids : entry'[i] # NoTransfer =>
           /\ entry[i] # NoTransfer
           /\ entry'[i].readers = IF i = call[c].in THEN entry[i].readers - 1 ELSE entry[i].readers
  PROVE  PinsAreCounted'
<1>1. SUFFICES ASSUME NEW i \in Ids, entry'[i] # NoTransfer
               PROVE  entry'[i].readers = Cardinality(Pinning(i)')
  BY DEF PinsAreCounted, Live, Pinning
<1>2. i # NoTransfer /\ entry[i].readers = Cardinality(Pinning(i))
  BY <1>1, TransfersAssumption DEF TransfersInv, PinsAreCounted, Live
<1>3. Pinning(i)' = Pinning(i) \ {c}
  BY <1>2 DEF Pinning, TransfersInv, StoredTypeOK, NoCall
<1>4. PICK S : S = Pinning(i)
  OBVIOUS
<1>5. IsFiniteSet(S)
  BY <1>4, PinsFinite
<1>6. Cardinality(S \ {c}) = IF c \in S THEN Cardinality(S) - 1 ELSE Cardinality(S)
  BY <1>5, FS_RemoveElement
<1>7. c \in S <=> i = call[c].in
  BY <1>4 DEF Pinning
<1>8. QED
  BY <1>1, <1>2, <1>3, <1>4, <1>6, <1>7

LEMMA TransfersStarts == TransfersInit => TransfersInv /\ limits \in Limits
<1>1. SUFFICES ASSUME TransfersInit PROVE TransfersInv /\ limits \in Limits
  OBVIOUS
<1>2. Live = {} /\ (\A c \in Calls : call[c] = NoCall)
  BY <1>1 DEF TransfersInit, Live
<1>3. StoredTypeOK
  BY <1>1, <1>2, TransfersAssumption DEF TransfersInit, StoredTypeOK, NoCall
<1>4. CallsFit
  BY <1>2 DEF CallsFit, NoCall
<1>5. QuotaIsHeld
  <2>1. PICK f : f = Size
    OBVIOUS
  <2>2. IsFiniteSet(Ids) /\ NatOn(f, Ids) /\ Agree(f, Cleared(f, Ids, Ids), Ids)
    BY <1>1, <2>1, TransfersAssumption DEF NatOn, Agree, Cleared, Size, TransfersInit
  <2>3. SumFunctionOnSet(f, Ids) = 0
    BY <2>2, SumOfAllCleared
  <2>4. QED
    BY <1>1, <2>1, <2>3, TransfersAssumption DEF QuotaIsHeld, TransfersInit
<1>6. PinsAreCounted /\ OutputsWait /\ UploadsGrow /\ FinishedAreWhole /\ InputsStay
  <2>1. \A c \in Calls : call[c].in = NoTransfer /\ call[c].out = NoTransfer
    BY <1>2 DEF NoCall
  <2>2. QED
    BY <1>2, <2>1, TransfersAssumption
       DEF PinsAreCounted, OutputsWait, UploadsGrow, FinishedAreWhole, InputsStay, Live
<1>7. FilesAreTracked /\ DownIsEmpty
  BY <1>1, <1>2 DEF FilesAreTracked, DownIsEmpty, TransfersInit
<1>8. limits \in Limits
  BY <1>1, TransfersAssumption DEF TransfersInit, Limits
<1>9. QED
  BY <1>3, <1>4, <1>5, <1>6, <1>7, <1>8 DEF TransfersInv

\* A new transfer takes its allowance from the quota; the others are as they were.
LEMMA NewEntryHolds ==
  ASSUME TransfersInv, limits \in Limits, serving, serving', NEW i \in Ids, Fresh(i),
         NEW size \in 0..MaxFile, Fits(size), NEW sha \in Files \cup {NoTransfer},
         NewEntry(i, size, sha), \A j : Output(j) => Output(j)' \/ j = NoTransfer
  PROVE  /\ reserved' \in Nat /\ QuotaIsHeld'
         /\ entry' \in [Ids -> Entries \cup {NoTransfer}] /\ disk' \in [Ids -> Files \cup {NoTransfer}]
         /\ (\A j \in Live : entry[j].written <= entry[j].size)'
         /\ Live' = Live \cup {i}
         /\ \A j \in Ids : j # i => entry'[j] = entry[j] /\ disk'[j] = disk[j]
         /\ entry'[i].size = size /\ entry'[i].readers = 0 /\ ~entry'[i].complete
         /\ UploadsGrow' /\ FilesAreTracked' /\ FinishedAreWhole' /\ DownIsEmpty'
<1> DEFINE r == [size |-> size, sha |-> sha, written |-> 0, readers |-> 0,
                 complete |-> FALSE, expired |-> FALSE]
<1>1. r \in Entries /\ r # NoTransfer
  <2>1. 0 \in 0..MaxFile /\ 0 \in 0..Cardinality(Calls)
    BY TransfersAssumption, FS_CardinalityType
  <2>2. r \in Entries
    BY <2>1 DEF Entries
  <2>3. QED
    BY <2>2, TransfersAssumption
<1>2. <<>> \in Files /\ <<>> # NoTransfer /\ Len(<<>>) = 0
  <2>1. PICK e : e = <<>>
    OBVIOUS
  <2>2. e \in Seq(Units) /\ Len(e) = 0
    BY <2>1
  <2>3. 0 <= MaxFile
    BY TransfersAssumption
  <2>4. e \in Files
    BY <2>2, <2>3, FileFacts
  <2>5. QED
    BY <2>1, <2>2, <2>4, TransfersAssumption
<1>3. entry' = [entry EXCEPT ![i] = r] /\ disk' = [disk EXCEPT ![i] = <<>>] /\ reserved' = reserved + size
  BY DEF NewEntry
<1>4. /\ entry' \in [Ids -> Entries \cup {NoTransfer}] /\ disk' \in [Ids -> Files \cup {NoTransfer}]
      /\ entry'[i] = r /\ disk'[i] = <<>>
      /\ \A j \in Ids : j # i => entry'[j] = entry[j] /\ disk'[j] = disk[j]
  BY <1>1, <1>2, <1>3 DEF TransfersInv, StoredTypeOK
<1>5. r.size = size /\ r.readers = 0 /\ ~r.complete /\ ~r.expired /\ r.written = 0 /\ r.written <= r.size
  BY TransfersAssumption
<1> HIDE DEF r
<1>6. Live' = Live \cup {i}
  BY <1>1, <1>4 DEF Live
<1>7. reserved' \in Nat
  BY <1>3, TransfersAssumption DEF TransfersInv, StoredTypeOK
<1>8. QuotaIsHeld'
  <2>1. PICK f, h : f = Size /\ h = Size'
    OBVIOUS
  <2>2. f[i] = 0 /\ h[i] = size /\ AgreeBut(f, h, Ids, i)
    BY <2>1, <1>1, <1>4, <1>5 DEF Size, Fresh, AgreeBut
  <2>3. NatOn(f, Ids) /\ IsFiniteSet(Ids) /\ h[i] \in Nat
    BY <2>1, <2>2, SizesAreNat, TransfersAssumption DEF TransfersInv, StoredTypeOK
  <2>4. SumFunctionOnSet(h, Ids) = SumFunctionOnSet(f, Ids) - f[i] + h[i]
    BY <2>2, <2>3, SumChanges
  <2>5. QED
    BY <1>3, <2>1, <2>2, <2>4, TransfersAssumption DEF TransfersInv, StoredTypeOK, QuotaIsHeld, Fits, Limits
<1>9. (\A j \in Live : entry[j].written <= entry[j].size)'
  BY <1>4, <1>5, <1>6 DEF TransfersInv, StoredTypeOK, Live
<1>10. UploadsGrow'
  <2>1. NoTransfer \notin Live'
    BY TransfersAssumption DEF Live
  <2>2. QED
    BY <1>2, <1>4, <1>5, <1>6, <2>1 DEF TransfersInv, UploadsGrow, Live
<1>11. FilesAreTracked'
  BY <1>2, <1>4, <1>5, <1>6 DEF TransfersInv, FilesAreTracked, Live
<1>12. FinishedAreWhole'
  BY <1>4, <1>5, <1>6 DEF TransfersInv, FinishedAreWhole, Live
<1>13. QED
  BY <1>4, <1>5, <1>6, <1>7, <1>8, <1>9, <1>10, <1>11, <1>12 DEF DownIsEmpty

LEMMA CreateUploadKeeps ==
  ASSUME TransfersInv, limits \in Limits, NEW i \in Ids, NEW f \in Files, CreateUpload(i, f)
  PROVE  TransfersInv'
<1>1. Len(f) \in 0..MaxFile /\ f \in Files \cup {NoTransfer}
  BY FileFacts, TransfersAssumption
<1>2. /\ serving /\ serving' /\ Fresh(i) /\ Fits(Len(f)) /\ NewEntry(i, Len(f), f)
      /\ call' = call /\ \A j : Output(j) => Output(j)' \/ j = NoTransfer
  BY DEF CreateUpload, Output
<1>3. /\ reserved' \in Nat /\ QuotaIsHeld'
      /\ entry' \in [Ids -> Entries \cup {NoTransfer}] /\ disk' \in [Ids -> Files \cup {NoTransfer}]
      /\ (\A j \in Live : entry[j].written <= entry[j].size)'
      /\ Live' = Live \cup {i}
      /\ \A j \in Ids : j # i => entry'[j] = entry[j] /\ disk'[j] = disk[j]
      /\ entry'[i].size = Len(f) /\ entry'[i].readers = 0 /\ ~entry'[i].complete
      /\ UploadsGrow' /\ FilesAreTracked' /\ FinishedAreWhole' /\ DownIsEmpty'
  BY <1>1, <1>2, NewEntryHolds
<1>4. StoredTypeOK'
  BY <1>2, <1>3 DEF TransfersInv, StoredTypeOK
<1>5. CallsFit'
  BY <1>2 DEF TransfersInv, CallsFit
<1>6. PinsAreCounted'
  BY <1>2, <1>3, PinsStay DEF Fresh, Live
<1>7. OutputsWait'
  BY <1>2, <1>3 DEF TransfersInv, OutputsWait, Fresh, Output, Live
<1>8. InputsStay'
  BY <1>2, <1>3 DEF TransfersInv, InputsStay, Fresh, Live
<1>9. QED
  BY <1>3, <1>4, <1>5, <1>6, <1>7, <1>8 DEF TransfersInv

\* What a live transfer is.
LEMMA LiveFacts ==
  ASSUME TransfersInv, NEW i \in Live
  PROVE  /\ i \in Ids /\ i # NoTransfer /\ serving
         /\ entry[i] \in Entries /\ entry[i] # NoTransfer
         /\ disk[i] \in Files /\ disk[i] # NoTransfer
         /\ entry[i].size \in 0..MaxFile /\ entry[i].written \in 0..MaxFile
         /\ entry[i].written <= entry[i].size
         /\ entry[i].readers \in 0..Cardinality(Calls)
         /\ entry[i].complete \in BOOLEAN /\ entry[i].expired \in BOOLEAN
<1>1. i \in Ids /\ entry[i] # NoTransfer /\ entry[i] \in Entries /\ serving
  BY DEF Live, TransfersInv, StoredTypeOK, DownIsEmpty
<1>2. disk[i] # NoTransfer /\ disk[i] \in Files /\ entry[i].written <= entry[i].size
  BY <1>1 DEF TransfersInv, StoredTypeOK, FilesAreTracked
<1>3. i # NoTransfer
  BY <1>1, TransfersAssumption
<1>4. QED
  BY <1>1, <1>2, <1>3 DEF Entries

LEMMA WriteChunkKeeps ==
  ASSUME TransfersInv, NEW i \in Ids, NEW data \in Files, WriteChunk(i, data)
  PROVE  TransfersInv'
<1>1. PICK e : e = entry[i]
  OBVIOUS
<1>2. PICK n \in 0..Len(data) :
        /\ disk' = [disk EXCEPT ![i] = @ \o SubSeq(data, 1, n)]
        /\ entry' = [entry EXCEPT ![i].written = @ + n]
  BY DEF WriteChunk
<1>3. /\ i \in Live /\ ~Output(i) /\ ~e.complete /\ ~e.expired /\ e.written + Len(data) <= e.size
      /\ serving' /\ serving' = serving /\ reserved' = reserved /\ call' = call
  BY <1>1 DEF WriteChunk, Valid
<1>4. /\ e \in Entries /\ disk[i] \in Files /\ e.size \in 0..MaxFile /\ e.written \in 0..MaxFile
      /\ Len(disk[i]) = e.written
  BY <1>1, <1>3, LiveFacts DEF TransfersInv, UploadsGrow
<1>5. PICK g, d : g = SubSeq(data, 1, n) /\ d = disk[i] \o g
  OBVIOUS
<1>6. d \in Files /\ Len(d) = e.written + n /\ d # NoTransfer
  <2>1. data \in Seq(Units) /\ disk[i] \in Seq(Units)
    BY <1>4, FileFacts
  <2>2. g \in Seq(Units) /\ Len(g) = n
    BY <1>5, <2>1
  <2>3. d \in Seq(Units) /\ Len(d) = e.written + n
    <3>1. PICK b : b = disk[i]
      OBVIOUS
    <3>2. b \in Seq(Units) /\ Len(b) = e.written /\ d = b \o g
      BY <1>4, <1>5, <2>1, <3>1
    <3>3. b \o g \in Seq(Units) /\ Len(b \o g) = Len(b) + Len(g)
      BY <2>2, <3>2, ConcatProperties
    <3>4. QED
      BY <2>2, <3>2, <3>3
  <2>4. Len(d) <= MaxFile
    BY <1>3, <1>4, <2>1, <2>3, TransfersAssumption
  <2>5. QED
    BY <2>3, <2>4, FileFacts, TransfersAssumption
<1>7. PICK x : x = [e EXCEPT !.written = e.written + n]
  OBVIOUS
<1>8. e.written + n <= e.size /\ e.written + n \in 0..MaxFile /\ n \in Nat
  <2>1. Len(data) \in Nat
    BY FileFacts
  <2>2. QED
    BY <1>3, <1>4, <2>1, TransfersAssumption, SMTT(30)
<1>9. /\ x \in Entries /\ x.written = e.written + n /\ x.size = e.size /\ x.readers = e.readers
      /\ x.complete = e.complete /\ x.expired = e.expired
  BY <1>4, <1>7, <1>8 DEF Entries
<1>10. /\ entry' = [entry EXCEPT ![i] = x] /\ disk' = [disk EXCEPT ![i] = d]
  BY <1>1, <1>2, <1>5, <1>7
<1>11. /\ entry'[i] = x /\ disk'[i] = d /\ x # NoTransfer
       /\ \A j \in Ids : j # i => entry'[j] = entry[j] /\ disk'[j] = disk[j]
       /\ entry' \in [Ids -> Entries \cup {NoTransfer}] /\ disk' \in [Ids -> Files \cup {NoTransfer}]
       /\ Live' = Live
  BY <1>3, <1>6, <1>9, <1>10, TransfersAssumption DEF TransfersInv, StoredTypeOK, Live
<1>12. StoredTypeOK'
  <2>1. \A j \in Live' : entry'[j].written <= entry'[j].size
    BY <1>3, <1>8, <1>9, <1>11 DEF TransfersInv, StoredTypeOK, Live
  <2>2. QED
    BY <1>3, <1>11, <2>1 DEF TransfersInv, StoredTypeOK
<1>13. QuotaIsHeld'
  BY <1>1, <1>3, <1>9, <1>11, QuotaStays DEF Live
<1>14. PinsAreCounted'
  BY <1>1, <1>3, <1>9, <1>11, PinsStay DEF Live
<1>15. CallsFit' /\ InputsStay'
  BY <1>1, <1>3, <1>9, <1>11 DEF TransfersInv, CallsFit, InputsStay, Live
<1>16. OutputsWait'
  BY <1>3, <1>11 DEF TransfersInv, OutputsWait, Output, Live
<1>17. UploadsGrow'
  BY <1>3, <1>6, <1>9, <1>11 DEF TransfersInv, UploadsGrow, Output, Live
<1>18. FilesAreTracked'
  BY <1>3, <1>6, <1>8, <1>9, <1>11 DEF TransfersInv, FilesAreTracked, Live
<1>19. FinishedAreWhole'
  BY <1>1, <1>3, <1>9, <1>11 DEF TransfersInv, FinishedAreWhole, Live
<1>20. DownIsEmpty'
  BY <1>3 DEF DownIsEmpty
<1>21. QED
  BY <1>12, <1>13, <1>14, <1>15, <1>16, <1>17, <1>18, <1>19, <1>20 DEF TransfersInv

LEMMA FinishUploadKeeps ==
  ASSUME TransfersInv, NEW i \in Ids, FinishUpload(i)
  PROVE  TransfersInv'
<1>1. PICK e, x : e = entry[i] /\ x = [e EXCEPT !.complete = TRUE]
  OBVIOUS
<1>2. /\ i \in Live /\ ~Output(i) /\ ~e.complete /\ ~e.expired /\ e.written = e.size /\ disk[i] = e.sha
      /\ entry' = [entry EXCEPT ![i] = x] /\ serving' /\ serving' = serving
      /\ reserved' = reserved /\ call' = call /\ disk' = disk
  BY <1>1 DEF FinishUpload, Valid
<1>3. e \in Entries /\ Len(disk[i]) = e.size /\ e.written <= e.size
  BY <1>1, <1>2, LiveFacts DEF TransfersInv, UploadsGrow
<1>4. /\ x \in Entries /\ x.written = e.written /\ x.size = e.size /\ x.readers = e.readers
      /\ x.sha = e.sha /\ x.complete /\ x.expired = e.expired
  BY <1>1, <1>3 DEF Entries
<1>5. /\ entry'[i] = x /\ x # NoTransfer
      /\ \A j \in Ids : j # i => entry'[j] = entry[j]
      /\ entry' \in [Ids -> Entries \cup {NoTransfer}] /\ Live' = Live
  BY <1>2, <1>4, TransfersAssumption DEF TransfersInv, StoredTypeOK, Live
<1>6. StoredTypeOK'
  BY <1>1, <1>2, <1>3, <1>4, <1>5 DEF TransfersInv, StoredTypeOK
<1>7. QuotaIsHeld'
  BY <1>1, <1>2, <1>4, <1>5, QuotaStays DEF Live
<1>8. PinsAreCounted'
  BY <1>1, <1>2, <1>4, <1>5, PinsStay DEF Live
<1>9. CallsFit' /\ InputsStay'
  BY <1>1, <1>2, <1>4, <1>5 DEF TransfersInv, CallsFit, InputsStay, Live
<1>10. OutputsWait'
  BY <1>2, <1>5 DEF TransfersInv, OutputsWait, Output, Live
<1>11. UploadsGrow'
  BY <1>2, <1>4, <1>5 DEF TransfersInv, UploadsGrow, Output, Live
<1>12. FilesAreTracked'
  BY <1>1, <1>2, <1>4, <1>5 DEF TransfersInv, FilesAreTracked, Live
<1>13. FinishedAreWhole'
  BY <1>2, <1>3, <1>4, <1>5 DEF TransfersInv, FinishedAreWhole, Live
<1>14. DownIsEmpty'
  BY <1>2 DEF DownIsEmpty
<1>15. QED
  BY <1>6, <1>7, <1>8, <1>9, <1>10, <1>11, <1>12, <1>13, <1>14 DEF TransfersInv

LEMMA ExpireTransferKeeps ==
  ASSUME TransfersInv, NEW i \in Ids, ExpireTransfer(i)
  PROVE  TransfersInv'
<1>1. PICK e, x : e = entry[i] /\ x = [e EXCEPT !.expired = TRUE]
  OBVIOUS
<1>2. /\ i \in Live /\ entry' = [entry EXCEPT ![i] = x] /\ serving' /\ serving' = serving
      /\ reserved' = reserved /\ call' = call /\ disk' = disk
  BY <1>1 DEF ExpireTransfer, Valid
<1>3. e \in Entries /\ e.written <= e.size
  BY <1>1, <1>2, LiveFacts
<1>4. /\ x \in Entries /\ x.written = e.written /\ x.size = e.size /\ x.readers = e.readers
      /\ x.sha = e.sha /\ x.complete = e.complete /\ x.expired
  BY <1>1, <1>3 DEF Entries
<1>5. /\ entry'[i] = x /\ x # NoTransfer
      /\ \A j \in Ids : j # i => entry'[j] = entry[j]
      /\ entry' \in [Ids -> Entries \cup {NoTransfer}] /\ Live' = Live
  BY <1>2, <1>4, TransfersAssumption DEF TransfersInv, StoredTypeOK, Live
<1>6. StoredTypeOK'
  BY <1>1, <1>2, <1>3, <1>4, <1>5 DEF TransfersInv, StoredTypeOK
<1>7. QuotaIsHeld'
  BY <1>1, <1>2, <1>4, <1>5, QuotaStays DEF Live
<1>8. PinsAreCounted'
  BY <1>1, <1>2, <1>4, <1>5, PinsStay DEF Live
<1>9. CallsFit' /\ InputsStay'
  BY <1>1, <1>2, <1>4, <1>5 DEF TransfersInv, CallsFit, InputsStay, Live
<1>10. OutputsWait'
  BY <1>1, <1>2, <1>4, <1>5 DEF TransfersInv, OutputsWait, Live
<1>11. UploadsGrow'
  BY <1>2, <1>4, <1>5 DEF TransfersInv, UploadsGrow, Output, Live
<1>12. FilesAreTracked'
  BY <1>1, <1>2, <1>4, <1>5 DEF TransfersInv, FilesAreTracked, Live
<1>13. FinishedAreWhole'
  BY <1>1, <1>2, <1>4, <1>5 DEF TransfersInv, FinishedAreWhole, Live
<1>14. DownIsEmpty'
  BY <1>2 DEF DownIsEmpty
<1>15. QED
  BY <1>6, <1>7, <1>8, <1>9, <1>10, <1>11, <1>12, <1>13, <1>14 DEF TransfersInv

\* What is removed gives its allowance back.
LEMMA RemovedKeeps ==
  ASSUME TransfersInv, NEW gone \in SUBSET Live, \A i \in gone : entry[i].readers = 0,
         Removed(gone), UNCHANGED <<serving, call>>
  PROVE  TransfersInv'
<1>1. /\ \A i \in Ids : /\ entry'[i] = IF i \in gone THEN NoTransfer ELSE entry[i]
                        /\ disk'[i] = IF i \in gone THEN NoTransfer ELSE disk[i]
      /\ gone \in SUBSET Ids
      /\ reserved' = reserved - SumFunctionOnSet(Size, gone)
      /\ serving' = serving /\ call' = call
  BY DEF Removed, Live
<1>2. /\ entry' \in [Ids -> Entries \cup {NoTransfer}] /\ disk' \in [Ids -> Files \cup {NoTransfer}]
      /\ Live' = Live \ gone
  BY <1>1 DEF Removed, TransfersInv, StoredTypeOK, Live
<1>3. QuotaIsHeld' /\ reserved' \in Nat
  <2>1. PICK f, h : f = Size /\ h = Size'
    OBVIOUS
  <2>2. IsFiniteSet(Ids) /\ NatOn(f, Ids)
    BY <2>1, SizesAreNat DEF TransfersInv, StoredTypeOK
  <2>3. h = Cleared(f, Ids, gone)
    BY <1>1, <2>1 DEF Size, Cleared
  <2>4. /\ SumFunctionOnSet(h, Ids) = SumFunctionOnSet(f, Ids) - SumFunctionOnSet(f, gone)
        /\ SumFunctionOnSet(f, gone) <= SumFunctionOnSet(f, Ids)
    BY <1>1, <2>2, <2>3, SumCleared
  <2>5. SumFunctionOnSet(f, gone) \in Nat /\ SumFunctionOnSet(f, Ids) \in Nat
    <3>1. IsFiniteSet(gone) /\ NatOn(f, gone)
      BY <1>1, <2>2, FS_Subset DEF NatOn
    <3>2. QED
      BY <2>2, <3>1, SumTyped
  <2>6. reserved = SumFunctionOnSet(f, Ids) /\ reserved <= MaxTotal
    BY <2>1 DEF TransfersInv, QuotaIsHeld
  <2>7. reserved' = reserved - SumFunctionOnSet(f, gone)
    BY <1>1, <2>1
  <2>8. reserved' = SumFunctionOnSet(h, Ids) /\ reserved' <= MaxTotal /\ reserved' \in Nat
    BY <2>4, <2>5, <2>6, <2>7, TransfersAssumption
  <2>9. QED
    BY <2>1, <2>8 DEF QuotaIsHeld
<1>4. \A c \in Calls : call[c].in # NoTransfer => call[c].in \in Ids /\ call[c].in \notin gone
  <2>1. SUFFICES ASSUME NEW i \in gone, NEW c \in Calls, call[c].in = i PROVE FALSE
    BY DEF TransfersInv, InputsStay, Live
  <2>2. QED
    BY <2>1, UnreadIsFree
<1>5. StoredTypeOK'
  <2>1. \A j \in Live' : entry'[j].written <= entry'[j].size
    BY <1>1, <1>2 DEF TransfersInv, StoredTypeOK, Live
  <2>2. QED
    BY <1>1, <1>2, <1>3, <2>1 DEF TransfersInv, StoredTypeOK
<1>6. PinsAreCounted'
  BY <1>1, PinsStay
<1>7. CallsFit'
  BY <1>1 DEF TransfersInv, CallsFit
<1>8. InputsStay'
  BY <1>1, <1>2, <1>4 DEF TransfersInv, InputsStay
<1>9. OutputsWait'
  BY <1>1, <1>2 DEF TransfersInv, OutputsWait, Live
<1>10. UploadsGrow'
  BY <1>1, <1>2 DEF TransfersInv, UploadsGrow, Output, Live
<1>11. FilesAreTracked'
  BY <1>1, <1>2 DEF TransfersInv, FilesAreTracked, Live
<1>12. FinishedAreWhole'
  BY <1>1, <1>2 DEF TransfersInv, FinishedAreWhole, Live
<1>13. DownIsEmpty'
  <2>1. serving \/ gone = {}
    BY DEF TransfersInv, DownIsEmpty
  <2>2. CASE serving
    BY <1>1, <2>2 DEF DownIsEmpty
  <2>3. CASE gone = {}
    BY <1>1, <1>2, <2>3, SumOfNone DEF TransfersInv, DownIsEmpty
  <2>4. QED
    BY <2>1, <2>2, <2>3
<1>14. QED
  BY <1>3, <1>5, <1>6, <1>7, <1>8, <1>9, <1>10, <1>11, <1>12, <1>13 DEF TransfersInv

LEMMA OpenInputKeeps ==
  ASSUME TransfersInv, NEW c \in Calls, NEW i \in Ids, OpenInput(c, i)
  PROVE  TransfersInv'
<1>1. PICK e, x : e = entry[i] /\ x = [e EXCEPT !.readers = @ + 1]
  OBVIOUS
<1>2. /\ i \in Live /\ ~Output(i) /\ e.complete /\ call[c] = NoCall
      /\ entry' = [entry EXCEPT ![i] = x] /\ serving' /\ serving' = serving
      /\ call' = [call EXCEPT ![c] = [NoCall EXCEPT !.pc = "open", !.in = i]]
      /\ reserved' = reserved /\ disk' = disk
  BY <1>1 DEF OpenInput, Valid
<1>3. /\ \A d \in Calls : d # c => call'[d] = call[d]
      /\ call'[c].pc = "open" /\ call'[c].in = i /\ call'[c].out = NoTransfer
      /\ call' \in [Calls -> CallRecords]
      /\ call[c].in = NoTransfer /\ call[c].out = NoTransfer /\ i # NoTransfer
  <2>1. PICK r : r = [NoCall EXCEPT !.pc = "open", !.in = i]
    OBVIOUS
  <2>2. r.pc = "open" /\ r.in = i /\ r.out = NoTransfer /\ r \in CallRecords
    <3>1. r = [pc |-> "open", in |-> i, out |-> NoTransfer, size |-> 0]
      BY <2>1 DEF NoCall
    <3>2. 0 \in 0..MaxFile + 1
      BY TransfersAssumption
    <3>3. QED
      BY <3>1, <3>2 DEF CallRecords
  <2>3. call \in [Calls -> CallRecords] /\ call' = [call EXCEPT ![c] = r]
    BY <1>2, <2>1 DEF TransfersInv, StoredTypeOK, CallRecords
  <2>4. call'[c] = r /\ call' \in [Calls -> CallRecords] /\ \A d \in Calls : d # c => call'[d] = call[d]
    BY <2>2, <2>3
  <2>5. QED
    BY <1>2, <2>2, <2>4, TransfersAssumption DEF NoCall
<1>4. e \in Entries /\ e.written <= e.size /\ e.readers = Cardinality(Pinning(i))
  BY <1>1, <1>2, LiveFacts DEF TransfersInv, PinsAreCounted
<1>5. /\ Pinning(i)' = Pinning(i) \cup {c} /\ c \notin Pinning(i)
      /\ \A j \in Ids : j # i => Pinning(j)' = Pinning(j)
  <2>1. \A j \in Ids : j # NoTransfer
    BY TransfersAssumption
  <2>2. QED
    BY <1>3, <2>1 DEF Pinning
<1>6. Cardinality(Pinning(i)') = e.readers + 1 /\ e.readers + 1 \in 0..Cardinality(Calls)
  <2>1. PICK S : S = Pinning(i) \cup {c}
    OBVIOUS
  <2>2. Cardinality(S) = Cardinality(Pinning(i)) + 1
    BY <1>5, <2>1, PinsFinite, FS_AddElement
  <2>3. S \in SUBSET Calls
    BY <2>1 DEF Pinning
  <2>4. Cardinality(S) \in Nat /\ Cardinality(S) <= Cardinality(Calls) /\ Cardinality(Calls) \in Nat
    BY <2>3, TransfersAssumption, FS_Subset, FS_CardinalityType
  <2>5. QED
    BY <1>4, <1>5, <2>1, <2>2, <2>4
<1>7. /\ x \in Entries /\ x.written = e.written /\ x.size = e.size /\ x.readers = e.readers + 1
      /\ x.sha = e.sha /\ x.complete = e.complete /\ x.expired = e.expired
  BY <1>1, <1>4, <1>6 DEF Entries
<1>8. /\ entry'[i] = x /\ x # NoTransfer
      /\ \A j \in Ids : j # i => entry'[j] = entry[j]
      /\ entry' \in [Ids -> Entries \cup {NoTransfer}] /\ Live' = Live
  BY <1>2, <1>7, TransfersAssumption DEF TransfersInv, StoredTypeOK, Live
<1>9. StoredTypeOK'
  <2>1. \A j \in Live' : entry'[j].written <= entry'[j].size
    BY <1>1, <1>2, <1>7, <1>8 DEF TransfersInv, StoredTypeOK, Live
  <2>2. QED
    BY <1>2, <1>3, <1>8, <2>1 DEF TransfersInv, StoredTypeOK, CallRecords
<1>10. QuotaIsHeld'
  BY <1>1, <1>2, <1>7, <1>8, QuotaStays DEF Live
<1>11. PinsAreCounted'
  BY <1>2, <1>5, <1>6, <1>7, <1>8 DEF TransfersInv, PinsAreCounted, Live
<1>12. CallsFit'
  BY <1>2, <1>3 DEF TransfersInv, CallsFit
<1>13. InputsStay'
  BY <1>1, <1>2, <1>3, <1>7, <1>8 DEF TransfersInv, InputsStay, Live
<1>14. OutputsWait'
  <2>1. NoTransfer \notin Live
    BY TransfersAssumption DEF Live
  <2>2. QED
    BY <1>2, <1>3, <1>8, <2>1 DEF TransfersInv, OutputsWait, Output
<1>15. UploadsGrow'
  BY <1>1, <1>2, <1>3, <1>7, <1>8 DEF TransfersInv, UploadsGrow, Output, Live
<1>16. FilesAreTracked'
  BY <1>1, <1>2, <1>7, <1>8 DEF TransfersInv, FilesAreTracked, Live
<1>17. FinishedAreWhole'
  BY <1>1, <1>2, <1>7, <1>8 DEF TransfersInv, FinishedAreWhole, Live
<1>18. DownIsEmpty'
  BY <1>2 DEF DownIsEmpty
<1>19. QED
  BY <1>9, <1>10, <1>11, <1>12, <1>13, <1>14, <1>15, <1>16, <1>17, <1>18 DEF TransfersInv

LEMMA ReserveOutputKeeps ==
  ASSUME TransfersInv, limits \in Limits, NEW c \in Calls, NEW o \in Ids, ReserveOutput(c, o)
  PROVE  TransfersInv'
<1>1. /\ serving /\ serving' /\ Fresh(o) /\ Fits(limits.file) /\ NewEntry(o, limits.file, NoTransfer)
      /\ call[c].pc \in {"idle", "open"} /\ call' = [call EXCEPT ![c].pc = "ready", ![c].out = o]
      /\ limits.file \in 0..MaxFile /\ o # NoTransfer
  BY TransfersAssumption DEF ReserveOutput, Limits
<1>2. /\ \A d \in Calls : d # c => call'[d] = call[d]
      /\ call'[c].pc = "ready" /\ call'[c].in = call[c].in /\ call'[c].out = o
      /\ call' \in [Calls -> CallRecords]
      /\ call[c].out = NoTransfer /\ \A d \in Calls : call[d].out # o
  BY <1>1 DEF NoCall, CallRecords, TransfersInv, StoredTypeOK, CallsFit, Fresh, Output
<1>3. \A j : Output(j) => Output(j)' \/ j = NoTransfer
  BY <1>2 DEF Output
<1>4. /\ reserved' \in Nat /\ QuotaIsHeld'
      /\ entry' \in [Ids -> Entries \cup {NoTransfer}] /\ disk' \in [Ids -> Files \cup {NoTransfer}]
      /\ (\A j \in Live : entry[j].written <= entry[j].size)'
      /\ Live' = Live \cup {o}
      /\ \A j \in Ids : j # o => entry'[j] = entry[j] /\ disk'[j] = disk[j]
      /\ entry'[o].size = limits.file /\ entry'[o].readers = 0 /\ ~entry'[o].complete
      /\ UploadsGrow' /\ FilesAreTracked' /\ FinishedAreWhole' /\ DownIsEmpty'
  BY <1>1, <1>3, NewEntryHolds
<1>5. StoredTypeOK'
  BY <1>1, <1>2, <1>4 DEF TransfersInv, StoredTypeOK, CallRecords
<1>6. CallsFit'
  BY <1>1, <1>2 DEF TransfersInv, CallsFit
<1>7. PinsAreCounted'
  BY <1>2, <1>4, <1>1, PinsStay DEF Fresh, Live
<1>8. OutputsWait'
  BY <1>1, <1>2, <1>4 DEF TransfersInv, OutputsWait, Live
<1>9. InputsStay'
  BY <1>1, <1>2, <1>4 DEF TransfersInv, InputsStay, Fresh, Live
<1>10. QED
  BY <1>4, <1>5, <1>6, <1>7, <1>8, <1>9 DEF TransfersInv

LEMMA OperateKeeps ==
  ASSUME TransfersInv, NEW c \in Calls, NEW n \in 0..MaxFile + 1, Operate(c, n)
  PROVE  TransfersInv'
<1>1. PICK o, kept, w : /\ o = call[c].out /\ kept = (IF n > Size[o] THEN Size[o] ELSE n)
                        /\ w = [k \in 1..kept |-> CHOOSE u \in Units : TRUE]
  OBVIOUS
<1>2. /\ call[c].pc = "ready"
      /\ disk' = IF disk[o] = NoTransfer THEN disk ELSE [disk EXCEPT ![o] = w]
      /\ call' = [call EXCEPT ![c].pc = "done", ![c].size = n]
      /\ serving' = serving /\ entry' = entry /\ reserved' = reserved
  BY <1>1 DEF Operate
<1>3. /\ o \in Ids /\ o # NoTransfer
      /\ \A d \in Calls : d # c => call'[d] = call[d]
      /\ call'[c].pc = "done" /\ call'[c].in = call[c].in /\ call'[c].out = o /\ call'[c].size = n
      /\ call' \in [Calls -> CallRecords]
  <2>1. PICK k, r : k = call[c] /\ r = [[k EXCEPT !.pc = "done"] EXCEPT !.size = n]
    OBVIOUS
  <2>2. call \in [Calls -> CallRecords] /\ k \in CallRecords /\ call' = [call EXCEPT ![c] = r]
    BY <1>2, <2>1 DEF TransfersInv, StoredTypeOK, CallRecords
  <2>3. r \in CallRecords /\ r.pc = "done" /\ r.size = n /\ r.in = k.in /\ r.out = k.out
    BY <2>1, <2>2 DEF CallRecords
  <2>4. call'[c] = r /\ call' \in [Calls -> CallRecords] /\ \A d \in Calls : d # c => call'[d] = call[d]
    BY <2>2, <2>3
  <2>5. k.out # NoTransfer /\ k.out \in Ids
    BY <1>2, <2>1, <2>2 DEF TransfersInv, CallsFit, CallRecords
  <2>6. QED
    BY <1>1, <2>1, <2>3, <2>4, <2>5
<1>4. /\ kept \in 0..MaxFile /\ kept <= Size[o] /\ (n <= Size[o] => kept = n)
      /\ o \in Live => Size[o] = entry[o].size
  <2>1. Size[o] \in 0..MaxFile /\ (o \in Live => Size[o] = entry[o].size)
    BY <1>3, TransfersAssumption DEF TransfersInv, StoredTypeOK, Entries, Size, Live
  <2>2. QED
    BY <1>1, <2>1, TransfersAssumption
<1>5. w \in Files /\ Len(w) = kept /\ w # NoTransfer
  <2>1. (CHOOSE u \in Units : TRUE) \in Units
    BY TransfersAssumption
  <2>2. w \in [1..kept -> Units] /\ Len(w) = kept
    BY <1>1, <1>4, <2>1
  <2>3. w \in Files
    BY <1>4, <2>2 DEF Files
  <2>4. QED
    BY <2>2, <2>3, TransfersAssumption
<1>6. /\ disk' \in [Ids -> Files \cup {NoTransfer}]
      /\ \A j \in Ids : j # o => disk'[j] = disk[j]
      /\ disk'[o] = NoTransfer <=> disk[o] = NoTransfer
      /\ disk[o] # NoTransfer => disk'[o] = w
  BY <1>2, <1>3, <1>5 DEF TransfersInv, StoredTypeOK
<1>7. serving /\ Live' = Live /\ (o \in Live => ~entry[o].complete)
  <2>1. serving
    BY <1>2 DEF TransfersInv, DownIsEmpty, NoCall
  <2>2. QED
    BY <1>1, <1>2, <2>1 DEF TransfersInv, OutputsWait, Live
<1>8. StoredTypeOK'
  BY <1>2, <1>3, <1>6, <1>7 DEF TransfersInv, StoredTypeOK, CallRecords
<1>9. CallsFit'
  BY <1>1, <1>2, <1>3 DEF TransfersInv, CallsFit
<1>10. PinsAreCounted'
  BY <1>2, <1>3, PinsStay
<1>11. OutputsWait'
  <2>1. SUFFICES ASSUME NEW d \in Calls, call'[d].out \in Live
                 PROVE  /\ ~entry[call'[d].out].complete
                        /\ call'[d].pc = "done" /\ call'[d].size <= entry[call'[d].out].size
                             => Len(disk'[call'[d].out]) = call'[d].size
    BY <1>2, <1>7 DEF OutputsWait
  <2>2. CASE d = c
    <3>1. disk[o] # NoTransfer
      BY <1>3, <2>1, <2>2, LiveFacts
    <3>2. QED
      BY <1>3, <1>4, <1>5, <1>6, <1>7, <2>1, <2>2, <3>1
  <2>3. CASE d # c
    <3>1. call'[d] = call[d] /\ call[d].out # o /\ call[d].out \in Ids
      BY <1>1, <1>3, <2>1, <2>3 DEF TransfersInv, CallsFit, Live
    <3>2. QED
      BY <1>6, <2>1, <3>1 DEF TransfersInv, OutputsWait
  <2>4. QED
    BY <2>2, <2>3
<1>12. UploadsGrow'
  <2>1. Output(o) /\ \A j : Output(j) => Output(j)'
    BY <1>1, <1>3 DEF Output
  <2>2. \A j \in Live : j = o \/ disk'[j] = disk[j]
    BY <1>6 DEF Live
  <2>3. QED
    BY <1>2, <1>7, <2>1, <2>2 DEF TransfersInv, UploadsGrow
<1>13. QuotaIsHeld'
  BY <1>2, QuotaStays DEF TransfersInv, StoredTypeOK
<1>14. FilesAreTracked'
  <2>1. o \in Live => Len(disk'[o]) <= entry[o].size
    <3>1. SUFFICES ASSUME o \in Live PROVE Len(disk'[o]) <= entry[o].size
      OBVIOUS
    <3>2. disk'[o] = w
      BY <1>6, <3>1, LiveFacts
    <3>3. QED
      BY <1>4, <1>5, <1>7, <3>1, <3>2, TransfersAssumption
  <2>2. QED
    BY <1>2, <1>3, <1>6, <1>7, <2>1 DEF TransfersInv, FilesAreTracked, Live
<1>15. FinishedAreWhole'
  BY <1>2, <1>3, <1>6, <1>7 DEF TransfersInv, FinishedAreWhole, Live
<1>16. InputsStay'
  BY <1>2, <1>3, <1>7 DEF TransfersInv, InputsStay
<1>17. DownIsEmpty'
  BY <1>2, <1>7 DEF DownIsEmpty
<1>18. QED
  BY <1>8, <1>9, <1>10, <1>11, <1>12, <1>13, <1>14, <1>15, <1>16, <1>17 DEF TransfersInv

\* A call ends: its input has one reader less, its result is told.
LEMMA CallEnds ==
  ASSUME TransfersInv, NEW c \in Calls, call[c].pc # "idle",
         NEW e, e \in [Ids -> Entries \cup {NoTransfer}],
         \A i \in Ids : /\ e[i] # NoTransfer => entry[i] # NoTransfer /\ e[i].readers = entry[i].readers
                        /\ i \in Live /\ entry[i].complete => e[i] # NoTransfer /\ e[i].complete,
         entry' = Released(e, c), call' = [call EXCEPT ![c] = NoCall], serving' = serving
  PROVE  /\ serving' /\ entry' \in [Ids -> Entries \cup {NoTransfer}]
         /\ \A i \in Ids :
              /\ entry'[i] = NoTransfer <=> e[i] = NoTransfer
              /\ e[i] # NoTransfer =>
                   /\ entry'[i].size = e[i].size /\ entry'[i].sha = e[i].sha
                   /\ entry'[i].written = e[i].written
                   /\ entry'[i].complete = e[i].complete /\ entry'[i].expired = e[i].expired
         /\ call' \in [Calls -> CallRecords] /\ call'[c].out = NoTransfer
         /\ \A d \in Calls : d # c => call'[d] = call[d]
         /\ \A d \in Calls : call'[d].out # NoTransfer => d # c /\ call'[d].out # call[c].out
         /\ \A i : Output(i) => Output(i)' \/ i = call[c].out
         /\ PinsAreCounted' /\ CallsFit' /\ InputsStay' /\ DownIsEmpty'
<1>1. serving
  BY DEF TransfersInv, DownIsEmpty, NoCall
<1>2. ASSUME NEW i \in Ids, i = call[c].in, e[i] # NoTransfer
      PROVE  /\ [e[i] EXCEPT !.readers = @ - 1] \in Entries
             /\ e[i].readers - 1 \in 0..Cardinality(Calls)
  <2>1. i # NoTransfer /\ i \in Live /\ e[i].readers = entry[i].readers /\ e[i] \in Entries
    BY <1>2, TransfersAssumption DEF Live
  <2>2. entry[i].readers = Cardinality(Pinning(i)) /\ entry[i].readers \in 0..Cardinality(Calls)
    BY <2>1, LiveFacts DEF TransfersInv, PinsAreCounted
  <2>3. Cardinality(Pinning(i)) # 0
    <3>1. PICK S : S = Pinning(i)
      OBVIOUS
    <3>2. c \in S /\ IsFiniteSet(S)
      BY <1>2, <3>1, PinsFinite DEF Pinning
    <3>3. QED
      BY <3>1, <3>2, FS_EmptySet
  <2>4. Cardinality(Calls) \in Nat
    BY TransfersAssumption, FS_CardinalityType
  <2>5. e[i].readers - 1 \in 0..Cardinality(Calls)
    BY <2>1, <2>2, <2>3, <2>4
  <2>6. QED
    BY <2>1, <2>5 DEF Entries
<1>3. ASSUME NEW i \in Ids
      PROVE  /\ entry'[i] \in Entries \cup {NoTransfer}
             /\ entry'[i] = NoTransfer <=> e[i] = NoTransfer
             /\ e[i] # NoTransfer =>
                  /\ entry'[i].size = e[i].size /\ entry'[i].sha = e[i].sha
                  /\ entry'[i].written = e[i].written
                  /\ entry'[i].complete = e[i].complete /\ entry'[i].expired = e[i].expired
                  /\ entry'[i].readers = IF i = call[c].in THEN entry[i].readers - 1 ELSE entry[i].readers
  <2>1. entry'[i] = IF i = call[c].in /\ e[i] # NoTransfer THEN [e[i] EXCEPT !.readers = @ - 1] ELSE e[i]
    BY DEF Released
  <2>2. CASE i = call[c].in /\ e[i] # NoTransfer
    <3>1. PICK x, y : x = e[i] /\ y = [x EXCEPT !.readers = x.readers - 1]
      OBVIOUS
    <3>2. entry'[i] = y /\ y \in Entries /\ x \in Entries
      BY <1>2, <2>1, <2>2, <3>1
    <3>3. /\ y.size = x.size /\ y.sha = x.sha /\ y.written = x.written /\ y.complete = x.complete
          /\ y.expired = x.expired /\ y.readers = x.readers - 1
      BY <3>1, <3>2 DEF Entries
    <3>4. y # NoTransfer
      BY <3>2, TransfersAssumption
    <3>5. QED
      BY <2>2, <3>1, <3>2, <3>3, <3>4
  <2>3. CASE ~(i = call[c].in /\ e[i] # NoTransfer)
    <3>1. entry'[i] = e[i]
      BY <2>1, <2>3
    <3>2. QED
      BY <2>3, <3>1
  <2>4. QED
    BY <2>2, <2>3
<1>4. entry' \in [Ids -> Entries \cup {NoTransfer}]
  BY <1>3 DEF Released
<1>5. PinsAreCounted'
  BY <1>3, PinsAreGivenBack, ZenonT(60)
<1>6. /\ call' \in [Calls -> CallRecords] /\ call'[c] = NoCall
      /\ NoCall.out = NoTransfer /\ NoCall.in = NoTransfer /\ NoCall.pc = "idle"
      /\ \A d \in Calls : d # c => call'[d] = call[d]
  <2>1. NoCall \in CallRecords
    BY TransfersAssumption DEF NoCall, CallRecords
  <2>2. call \in [Calls -> CallRecords]
    BY DEF TransfersInv, StoredTypeOK, CallRecords
  <2>3. QED
    BY <2>1, <2>2 DEF NoCall
<1>7. /\ \A d \in Calls : call'[d].out # NoTransfer => d # c /\ call'[d].out # call[c].out
      /\ \A i : Output(i) => Output(i)' \/ i = call[c].out
  BY <1>6 DEF TransfersInv, CallsFit, Output
<1>8. CallsFit'
  BY <1>6 DEF TransfersInv, CallsFit
<1>9. InputsStay'
  <2>1. SUFFICES ASSUME NEW d \in Calls, call'[d].in # NoTransfer
                 PROVE  call'[d].in \in Live' /\ entry'[call'[d].in].complete
    BY DEF InputsStay
  <2>2. PICK i : i = call'[d].in
    OBVIOUS
  <2>3. call[d].in = i /\ i \in Live /\ entry[i].complete /\ i \in Ids
    BY <1>6, <2>1, <2>2 DEF TransfersInv, InputsStay, Live
  <2>4. QED
    BY <1>3, <2>2, <2>3 DEF Live
<1>10. QED
  BY <1>1, <1>3, <1>4, <1>5, <1>6, <1>7, <1>8, <1>9 DEF DownIsEmpty

LEMMA NoCapacityKeeps ==
  ASSUME TransfersInv, NEW c \in Calls, NoCapacity(c)
  PROVE  TransfersInv'
<1>1. /\ call[c].pc # "idle" /\ entry' = Released(entry, c) /\ call' = [call EXCEPT ![c] = NoCall]
      /\ serving' = serving /\ disk' = disk /\ reserved' = reserved /\ call[c].out = NoTransfer
  BY DEF NoCapacity, TransfersInv, CallsFit
<1>2. /\ entry \in [Ids -> Entries \cup {NoTransfer}]
      /\ \A i \in Ids : i \in Live <=> entry[i] # NoTransfer
  BY DEF TransfersInv, StoredTypeOK, Live
<1>3. /\ serving' /\ entry' \in [Ids -> Entries \cup {NoTransfer}]
      /\ \A i \in Ids :
           /\ entry'[i] = NoTransfer <=> entry[i] = NoTransfer
           /\ entry[i] # NoTransfer =>
                /\ entry'[i].size = entry[i].size /\ entry'[i].sha = entry[i].sha
                /\ entry'[i].written = entry[i].written
                /\ entry'[i].complete = entry[i].complete /\ entry'[i].expired = entry[i].expired
      /\ call' \in [Calls -> CallRecords] /\ call'[c].out = NoTransfer
      /\ \A d \in Calls : d # c => call'[d] = call[d]
      /\ \A d \in Calls : call'[d].out # NoTransfer => d # c /\ call'[d].out # call[c].out
      /\ \A i : Output(i) => Output(i)' \/ i = call[c].out
      /\ PinsAreCounted' /\ CallsFit' /\ InputsStay' /\ DownIsEmpty'
  BY <1>1, <1>2, CallEnds
<1>4. Live' = Live /\ NoTransfer \notin Live
  BY <1>3, TransfersAssumption DEF Live
<1>5. StoredTypeOK'
  <2>1. \A j \in Live' : entry'[j].written <= entry'[j].size
    BY <1>3, <1>4 DEF TransfersInv, StoredTypeOK, Live
  <2>2. QED
    BY <1>1, <1>3, <2>1 DEF TransfersInv, StoredTypeOK, CallRecords
<1>6. QuotaIsHeld'
  BY <1>1, <1>3, QuotaStays
<1>7. OutputsWait'
  BY <1>1, <1>3, <1>4 DEF TransfersInv, OutputsWait, Live
<1>8. UploadsGrow'
  BY <1>1, <1>3, <1>4 DEF TransfersInv, UploadsGrow, Live
<1>9. FilesAreTracked'
  BY <1>1, <1>3, <1>4 DEF TransfersInv, FilesAreTracked, Live
<1>10. FinishedAreWhole'
  BY <1>1, <1>3, <1>4 DEF TransfersInv, FinishedAreWhole, Live
<1>11. QED
  BY <1>3, <1>5, <1>6, <1>7, <1>8, <1>9, <1>10 DEF TransfersInv

LEMMA SealOutputKeeps ==
  ASSUME TransfersInv, NEW c \in Calls, SealOutput(c)
  PROVE  TransfersInv'
<1>1. PICK o, n, w, b, x, e :
        /\ o = call[c].out /\ n = call[c].size /\ w = disk[o] /\ b = entry[o]
        /\ x = [[[[b EXCEPT !.size = n] EXCEPT !.written = n] EXCEPT !.sha = w] EXCEPT !.complete = TRUE]
        /\ e = [entry EXCEPT ![o] = x]
  OBVIOUS
<1>2. /\ call[c].pc = "done" /\ n \in 1..b.size /\ o \in Live
      /\ reserved' = reserved - (b.size - n)
      /\ call' = [call EXCEPT ![c] = NoCall] /\ serving' = serving /\ disk' = disk
  BY <1>1, LiveFacts DEF SealOutput, Valid, Size
<1>3. entry' = Released(e, c)
  <2>1. entry \in [Ids -> Entries \cup {NoTransfer}] /\ o \in Ids
    BY <1>2 DEF TransfersInv, StoredTypeOK, Live
  <2>2. [entry EXCEPT ![o].size = n, ![o].written = n, ![o].sha = w, ![o].complete = TRUE] = e
    BY <1>1, <2>1
  <2>3. QED
    BY <1>1, <2>2 DEF SealOutput
<1>4. /\ o \in Ids /\ b \in Entries /\ w \in Files /\ w # NoTransfer
      /\ ~b.complete /\ b.size \in 0..MaxFile /\ Len(w) = n
  BY <1>1, <1>2, LiveFacts DEF TransfersInv, OutputsWait
<1>5. /\ x \in Entries /\ x.size = n /\ x.written = n /\ x.sha = w /\ x.complete
      /\ x.readers = b.readers /\ x.expired = b.expired
  <2>1. n \in 0..MaxFile
    BY <1>2, <1>4, TransfersAssumption
  <2>2. QED
    BY <1>1, <1>4, <2>1 DEF Entries
<1>6. /\ e \in [Ids -> Entries \cup {NoTransfer}] /\ e[o] = x /\ x # NoTransfer
      /\ \A j \in Ids : j # o => e[j] = entry[j]
      /\ \A j \in Ids : j \in Live <=> entry[j] # NoTransfer
  BY <1>1, <1>4, <1>5, TransfersAssumption DEF TransfersInv, StoredTypeOK, Live
<1>7. \A i \in Ids : /\ e[i] # NoTransfer => entry[i] # NoTransfer /\ e[i].readers = entry[i].readers
                     /\ i \in Live /\ entry[i].complete => e[i] # NoTransfer /\ e[i].complete
  BY <1>1, <1>2, <1>5, <1>6
<1>8. /\ serving' /\ entry' \in [Ids -> Entries \cup {NoTransfer}]
      /\ \A i \in Ids :
           /\ entry'[i] = NoTransfer <=> e[i] = NoTransfer
           /\ e[i] # NoTransfer =>
                /\ entry'[i].size = e[i].size /\ entry'[i].sha = e[i].sha
                /\ entry'[i].written = e[i].written
                /\ entry'[i].complete = e[i].complete /\ entry'[i].expired = e[i].expired
      /\ call' \in [Calls -> CallRecords] /\ call'[c].out = NoTransfer
      /\ \A d \in Calls : d # c => call'[d] = call[d]
      /\ \A d \in Calls : call'[d].out # NoTransfer => d # c /\ call'[d].out # call[c].out
      /\ \A i : Output(i) => Output(i)' \/ i = call[c].out
      /\ PinsAreCounted' /\ CallsFit' /\ InputsStay' /\ DownIsEmpty'
  BY <1>2, <1>3, <1>6, <1>7, CallEnds
<1>9. Live' = Live /\ NoTransfer \notin Live
  BY <1>2, <1>6, <1>8, TransfersAssumption DEF Live
<1>10. ASSUME NEW j \in Live, j # o
       PROVE  /\ entry'[j].size = entry[j].size /\ entry'[j].sha = entry[j].sha
              /\ entry'[j].written = entry[j].written
              /\ entry'[j].complete = entry[j].complete /\ entry'[j].expired = entry[j].expired
  BY <1>6, <1>8, <1>10 DEF Live
<1>11. entry'[o].size = n /\ entry'[o].written = n /\ entry'[o].sha = w /\ entry'[o].complete
  BY <1>4, <1>5, <1>6, <1>8
<1>12. QuotaIsHeld' /\ reserved' \in Nat
  <2>1. PICK f, h : f = Size /\ h = Size'
    OBVIOUS
  <2>2. IsFiniteSet(Ids) /\ NatOn(f, Ids) /\ n \in Nat /\ b.size \in Nat /\ b.size - n \in Nat
    BY <1>2, <1>4, <2>1, SizesAreNat, TransfersAssumption DEF TransfersInv, StoredTypeOK
  <2>3. f[o] = b.size /\ h[o] = n
    BY <1>1, <1>2, <1>4, <1>6, <1>8, <1>11, <2>1 DEF Size, Live
  <2>4. AgreeBut(f, h, Ids, o)
    BY <1>6, <1>8, <1>10, <2>1 DEF Size, Live, AgreeBut
  <2>5. SumFunctionOnSet(h, Ids) = SumFunctionOnSet(f, Ids) - f[o] + h[o]
    BY <1>4, <2>2, <2>3, <2>4, SumChanges
  <2>6. reserved = SumFunctionOnSet(f, Ids) /\ reserved <= MaxTotal /\ reserved \in Nat
    BY <2>1 DEF TransfersInv, QuotaIsHeld, StoredTypeOK
  <2>7. SumFunctionOnSet(h, Ids) \in Nat
    <3>1. NatOn(h, Ids)
      BY <1>8, <2>1, TransfersAssumption DEF Size, NatOn, Entries
    <3>2. QED
      BY <2>2, <3>1, SumTyped
  <2>8. reserved' = SumFunctionOnSet(h, Ids) /\ reserved' <= MaxTotal
    BY <1>2, <2>2, <2>3, <2>5, <2>6, TransfersAssumption
  <2>9. QED
    BY <2>1, <2>7, <2>8 DEF QuotaIsHeld
<1>13. StoredTypeOK'
  <2>1. \A j \in Live' : entry'[j].written <= entry'[j].size
    <3>1. \A j \in Live : j # o => entry'[j].written = entry[j].written /\ entry'[j].size = entry[j].size
      BY <1>10
    <3>2. QED
      BY <1>2, <1>9, <1>11, <3>1 DEF TransfersInv, StoredTypeOK
  <2>2. QED
    BY <1>2, <1>8, <1>12, <2>1 DEF TransfersInv, StoredTypeOK, CallRecords
<1>14. OutputsWait'
  <2>1. SUFFICES ASSUME NEW d \in Calls, call'[d].out \in Live
                 PROVE  /\ ~entry'[call'[d].out].complete
                        /\ call'[d].pc = "done" /\ call'[d].size <= entry'[call'[d].out].size
                             => Len(disk[call'[d].out]) = call'[d].size
    BY <1>2, <1>9 DEF OutputsWait
  <2>2. d # c /\ call'[d] = call[d] /\ call[d].out # o
    BY <1>1, <1>8, <1>9, <2>1
  <2>3. QED
    BY <1>10, <2>1, <2>2 DEF TransfersInv, OutputsWait
<1>15. UploadsGrow'
  <2>1. SUFFICES ASSUME NEW j \in Live, ~entry'[j].complete, ~entry'[j].expired, ~Output(j)'
                 PROVE  Len(disk[j]) = entry'[j].written
    BY <1>2, <1>9 DEF UploadsGrow
  <2>2. j # o /\ ~Output(j)
    BY <1>1, <1>8, <1>11, <2>1
  <2>3. QED
    BY <1>10, <2>1, <2>2 DEF TransfersInv, UploadsGrow
<1>16. FilesAreTracked'
  <2>1. \A j \in Live : Len(disk[j]) <= entry'[j].size
    <3>1. SUFFICES ASSUME NEW j \in Live PROVE Len(disk[j]) <= entry'[j].size
      OBVIOUS
    <3>2. CASE j = o
      BY <1>1, <1>2, <1>4, <1>11, <3>2
    <3>3. CASE j # o
      BY <1>10, <3>3 DEF TransfersInv, FilesAreTracked
    <3>4. QED
      BY <3>2, <3>3
  <2>2. QED
    BY <1>2, <1>9, <2>1 DEF TransfersInv, FilesAreTracked
<1>17. FinishedAreWhole'
  <2>1. SUFFICES ASSUME NEW j \in Live, entry'[j].complete
                 PROVE  disk[j] = entry'[j].sha /\ Len(disk[j]) = entry'[j].size
    BY <1>2, <1>9 DEF FinishedAreWhole
  <2>2. CASE j = o
    BY <1>1, <1>4, <1>11, <2>2
  <2>3. CASE j # o
    BY <1>10, <2>1, <2>3 DEF TransfersInv, FinishedAreWhole
  <2>4. QED
    BY <2>2, <2>3
<1>18. QED
  BY <1>8, <1>12, <1>13, <1>14, <1>15, <1>16, <1>17 DEF TransfersInv

LEMMA DropOutputKeeps ==
  ASSUME TransfersInv, NEW c \in Calls, DropOutput(c)
  PROVE  TransfersInv'
<1>1. PICK o, gone, e :
        /\ o = call[c].out /\ gone = (IF Valid(o) THEN {o} ELSE {})
        /\ e = [i \in Ids |-> IF i \in gone THEN NoTransfer ELSE entry[i]]
  OBVIOUS
<1>2. /\ call[c].pc = "done" /\ entry' = Released(e, c)
      /\ disk' = [i \in Ids |-> IF i \in gone THEN NoTransfer ELSE disk[i]]
      /\ reserved' = reserved - (IF gone = {} THEN 0 ELSE Size[o])
      /\ call' = [call EXCEPT ![c] = NoCall] /\ serving' = serving
  BY <1>1 DEF DropOutput
<1>3. /\ gone \in SUBSET Live /\ gone \subseteq {o} /\ (o \in Live => o \in gone \/ entry[o].expired)
      /\ \A i \in gone : ~entry[i].complete
  <2>1. o \in Live => serving /\ ~entry[o].complete
    BY <1>1, LiveFacts DEF TransfersInv, OutputsWait
  <2>2. QED
    BY <1>1, <2>1 DEF Valid
<1>4. /\ e \in [Ids -> Entries \cup {NoTransfer}]
      /\ \A i \in Ids : e[i] = IF i \in gone THEN NoTransfer ELSE entry[i]
      /\ \A i \in Ids : i \in Live <=> entry[i] # NoTransfer
  BY <1>1 DEF TransfersInv, StoredTypeOK, Live
<1>5. \A i \in Ids : /\ e[i] # NoTransfer => entry[i] # NoTransfer /\ e[i].readers = entry[i].readers
                     /\ i \in Live /\ entry[i].complete => e[i] # NoTransfer /\ e[i].complete
  BY <1>3, <1>4
<1>6. /\ serving' /\ entry' \in [Ids -> Entries \cup {NoTransfer}]
      /\ \A i \in Ids :
           /\ entry'[i] = NoTransfer <=> e[i] = NoTransfer
           /\ e[i] # NoTransfer =>
                /\ entry'[i].size = e[i].size /\ entry'[i].sha = e[i].sha
                /\ entry'[i].written = e[i].written
                /\ entry'[i].complete = e[i].complete /\ entry'[i].expired = e[i].expired
      /\ call' \in [Calls -> CallRecords] /\ call'[c].out = NoTransfer
      /\ \A d \in Calls : d # c => call'[d] = call[d]
      /\ \A d \in Calls : call'[d].out # NoTransfer => d # c /\ call'[d].out # call[c].out
      /\ \A i : Output(i) => Output(i)' \/ i = call[c].out
      /\ PinsAreCounted' /\ CallsFit' /\ InputsStay' /\ DownIsEmpty'
  BY <1>2, <1>4, <1>5, CallEnds
<1>7. Live' = Live \ gone
  BY <1>4, <1>6 DEF Live
<1>8. ASSUME NEW j \in Live'
       PROVE  /\ j \in Live /\ j \in Ids /\ j \notin gone /\ disk'[j] = disk[j]
              /\ entry'[j].size = entry[j].size /\ entry'[j].sha = entry[j].sha
              /\ entry'[j].written = entry[j].written
              /\ entry'[j].complete = entry[j].complete /\ entry'[j].expired = entry[j].expired
  BY <1>2, <1>4, <1>6, <1>7 DEF Live
<1>9. QuotaIsHeld' /\ reserved' \in Nat
  <2>1. PICK f, h : f = Size /\ h = Size'
    OBVIOUS
  <2>2. IsFiniteSet(Ids) /\ NatOn(f, Ids)
    BY <2>1, SizesAreNat, TransfersAssumption DEF TransfersInv, StoredTypeOK
  <2>3. reserved = SumFunctionOnSet(f, Ids) /\ reserved <= MaxTotal /\ reserved \in Nat
    BY <2>1 DEF TransfersInv, QuotaIsHeld, StoredTypeOK
  <2>4. SumFunctionOnSet(h, Ids) \in Nat
    <3>1. NatOn(h, Ids)
      BY <1>6, <2>1, TransfersAssumption DEF Size, NatOn, Entries
    <3>2. QED
      BY <2>2, <3>1, SumTyped
  <2>5. SumFunctionOnSet(h, Ids) = reserved'
    <3>1. CASE gone = {}
      <4>1. Agree(f, h, Ids)
        BY <1>4, <1>6, <2>1, <3>1 DEF Agree, Size
      <4>2. SumFunctionOnSet(h, Ids) = SumFunctionOnSet(f, Ids)
        BY <2>2, <4>1, SumOfEqual
      <4>3. QED
        BY <1>2, <2>3, <3>1, <4>2
    <3>2. CASE gone # {}
      <4>1. gone = {o} /\ o \in Ids /\ o \in Live
        BY <1>3, <3>2 DEF Live
      <4>2. f[o] = Size[o] /\ f[o] \in Nat /\ h[o] = 0 /\ h[o] \in Nat
        BY <1>4, <1>6, <2>1, <2>2, <4>1 DEF Size, NatOn
      <4>3. AgreeBut(f, h, Ids, o)
        BY <1>4, <1>6, <2>1, <4>1 DEF AgreeBut, Size
      <4>4. SumFunctionOnSet(h, Ids) = SumFunctionOnSet(f, Ids) - f[o] + h[o]
        BY <2>2, <4>1, <4>2, <4>3, SumChanges
      <4>5. QED
        BY <1>2, <2>2, <2>3, <3>2, <4>2, <4>4
    <3>3. QED
      BY <3>1, <3>2
  <2>6. reserved' <= MaxTotal
    <3>1. gone = {} \/ Size[o] \in Nat
      BY <1>3, <2>1, <2>2 DEF NatOn, Live
    <3>2. QED
      BY <1>2, <2>3, <3>1, TransfersAssumption
  <2>7. QED
    BY <2>1, <2>4, <2>5, <2>6 DEF QuotaIsHeld
<1>10. StoredTypeOK'
  <2>1. \A j \in Live' : entry'[j].written <= entry'[j].size
    <3>1. SUFFICES ASSUME NEW j \in Live' PROVE entry'[j].written <= entry'[j].size
      OBVIOUS
    <3>2. j \in Live /\ entry'[j].written = entry[j].written /\ entry'[j].size = entry[j].size
      BY <1>8
    <3>3. QED
      BY <3>2 DEF TransfersInv, StoredTypeOK
  <2>2. disk' \in [Ids -> Files \cup {NoTransfer}]
    BY <1>2 DEF TransfersInv, StoredTypeOK
  <2>3. QED
    BY <1>2, <1>6, <1>9, <2>1, <2>2 DEF TransfersInv, StoredTypeOK, CallRecords
<1>11. OutputsWait'
  <2>1. SUFFICES ASSUME NEW d \in Calls, call'[d].out \in Live'
                 PROVE  /\ ~entry'[call'[d].out].complete
                        /\ call'[d].pc = "done" /\ call'[d].size <= entry'[call'[d].out].size
                             => Len(disk'[call'[d].out]) = call'[d].size
    BY DEF OutputsWait
  <2>2. PICK j \in Live' : j = call'[d].out
    BY <2>1
  <2>3. j # NoTransfer /\ d # c /\ call'[d] = call[d]
    <3>1. j # NoTransfer
      BY <1>8, LiveFacts
    <3>2. QED
      BY <1>6, <2>2, <3>1
  <2>4. QED
    BY <1>8, <2>2, <2>3 DEF TransfersInv, OutputsWait
<1>12. UploadsGrow'
  <2>1. SUFFICES ASSUME NEW j \in Live', ~entry'[j].complete, ~entry'[j].expired, ~Output(j)'
                 PROVE  Len(disk'[j]) = entry'[j].written
    BY DEF UploadsGrow
  <2>2. j \in Live /\ j \notin gone /\ ~entry[j].expired
    BY <1>8, <2>1
  <2>3. j # o /\ ~Output(j)
    BY <1>1, <1>3, <1>6, <2>1, <2>2
  <2>4. QED
    BY <1>8, <2>1, <2>2, <2>3 DEF TransfersInv, UploadsGrow
<1>13. FilesAreTracked'
  <2>1. \A j \in Live' : Len(disk'[j]) <= entry'[j].size
    BY <1>8 DEF TransfersInv, FilesAreTracked
  <2>2. \A j \in Ids : disk'[j] # NoTransfer <=> j \in Live'
    BY <1>2, <1>6, <1>7 DEF TransfersInv, FilesAreTracked
  <2>3. QED
    BY <2>1, <2>2 DEF FilesAreTracked
<1>14. FinishedAreWhole'
  BY <1>8 DEF TransfersInv, FinishedAreWhole
<1>15. QED
  BY <1>6, <1>9, <1>10, <1>11, <1>12, <1>13, <1>14 DEF TransfersInv

\* Nothing is known of a directory that nobody serves yet.
LEMMA EmptyHolds ==
  ASSUME reserved' = 0, entry' = [i \in Ids |-> NoTransfer],
         disk' \in [Ids -> Files \cup {NoTransfer}], call' = [c \in Calls |-> NoCall],
         serving' \in BOOLEAN, serving' => disk' = [i \in Ids |-> NoTransfer]
  PROVE  TransfersInv'
<1>1. Live' = {} /\ (\A c \in Calls : call'[c] = NoCall)
  BY DEF Live
<1>2. /\ \A c \in Calls : call'[c].in = NoTransfer /\ call'[c].out = NoTransfer
      /\ call' \in [Calls -> CallRecords]
  <2>1. NoCall \in CallRecords /\ NoCall.in = NoTransfer /\ NoCall.out = NoTransfer
    BY TransfersAssumption DEF NoCall, CallRecords
  <2>2. QED
    BY <2>1
<1>3. StoredTypeOK'
  BY <1>1, <1>2 DEF StoredTypeOK, CallRecords
<1>4. CallsFit'
  BY <1>1, <1>2 DEF CallsFit, NoCall
<1>5. QuotaIsHeld'
  <2>1. PICK f : f = Size'
    OBVIOUS
  <2>2. IsFiniteSet(Ids) /\ NatOn(f, Ids) /\ Agree(f, Cleared(f, Ids, Ids), Ids)
    BY <2>1, TransfersAssumption DEF NatOn, Agree, Cleared, Size
  <2>3. SumFunctionOnSet(f, Ids) = 0
    BY <2>2, SumOfAllCleared
  <2>4. QED
    BY <2>1, <2>3, TransfersAssumption DEF QuotaIsHeld
<1>6. (PinsAreCounted /\ OutputsWait /\ UploadsGrow /\ FinishedAreWhole /\ InputsStay)'
  BY <1>1, <1>2 DEF PinsAreCounted, OutputsWait, UploadsGrow, FinishedAreWhole, InputsStay
<1>7. (FilesAreTracked /\ DownIsEmpty)'
  BY <1>1 DEF FilesAreTracked, DownIsEmpty
<1>8. QED
  BY <1>3, <1>4, <1>5, <1>6, <1>7 DEF TransfersInv

\* The limits are those of a valid configuration, whichever it is by now.
LimitedInv == TransfersInv /\ limits \in Limits

LEMMA TransfersKeep == LimitedInv /\ [TransfersNext]_transferVars => TransfersInv'
<1>1. SUFFICES ASSUME TransfersInv, limits \in Limits, [TransfersNext]_transferVars PROVE TransfersInv'
  BY DEF LimitedInv
<1>2. ASSUME NEW i \in Ids, NEW f \in Files, CreateUpload(i, f) PROVE TransfersInv'
  BY <1>1, <1>2, CreateUploadKeeps
<1>3. ASSUME NEW i \in Ids, NEW f \in Files, WriteChunk(i, f) PROVE TransfersInv'
  BY <1>1, <1>3, WriteChunkKeeps
<1>4. ASSUME NEW i \in Ids, FinishUpload(i) PROVE TransfersInv'
  BY <1>1, <1>4, FinishUploadKeeps
<1>5. ASSUME NEW i \in Ids, DeleteTransfer(i) PROVE TransfersInv'
  <2>1. PICK gone : gone = {i}
    OBVIOUS
  <2>2. gone \in SUBSET Live /\ (\A j \in gone : entry[j].readers = 0) /\ Removed(gone) /\ UNCHANGED <<serving, call>>
    BY <1>5, <2>1 DEF DeleteTransfer, Valid
  <2>3. QED
    BY <1>1, <2>2, RemovedKeeps
<1>6. ASSUME NEW i \in Ids, ExpireTransfer(i) PROVE TransfersInv'
  BY <1>1, <1>6, ExpireTransferKeeps
<1>7. ASSUME Sweep PROVE TransfersInv'
  <2>1. PICK gone : gone = Swept
    OBVIOUS
  <2>2. gone \in SUBSET Live /\ (\A j \in gone : entry[j].readers = 0) /\ Removed(gone) /\ UNCHANGED <<serving, call>>
    BY <1>7, <2>1 DEF Sweep, Swept
  <2>3. QED
    BY <1>1, <2>2, RemovedKeeps
<1>8. ASSUME NEW c \in Calls, NEW i \in Ids, OpenInput(c, i) PROVE TransfersInv'
  BY <1>1, <1>8, OpenInputKeeps
<1>9. ASSUME NEW c \in Calls, NEW i \in Ids, ReserveOutput(c, i) PROVE TransfersInv'
  BY <1>1, <1>9, ReserveOutputKeeps
<1>10. ASSUME NEW c \in Calls, NoCapacity(c) PROVE TransfersInv'
  BY <1>1, <1>10, NoCapacityKeeps
<1>11. ASSUME NEW c \in Calls, SealOutput(c) PROVE TransfersInv'
  BY <1>1, <1>11, SealOutputKeeps
<1>12. ASSUME NEW c \in Calls, DropOutput(c) PROVE TransfersInv'
  BY <1>1, <1>12, DropOutputKeeps
<1>13. ASSUME NEW c \in Calls, NEW n \in 0..MaxFile + 1, Operate(c, n) PROVE TransfersInv'
  BY <1>1, <1>13, OperateKeeps
<1>14. CASE CloseTransfers
  BY <1>1, <1>14, EmptyHolds DEF CloseTransfers, EndServing
<1>15. CASE CrashServing
  BY <1>1, <1>15, EmptyHolds DEF CrashServing, EndServing, TransfersInv, StoredTypeOK
<1>16. CASE NewTransfers
  <2>1. /\ reserved = 0 /\ Live = {} /\ (\A c \in Calls : call[c] = NoCall)
        /\ entry' = entry /\ reserved' = reserved /\ call' = call
        /\ serving' = TRUE /\ disk' = [i \in Ids |-> NoTransfer]
    BY <1>1, <1>16 DEF NewTransfers, TransfersInv, DownIsEmpty
  <2>2. entry = [i \in Ids |-> NoTransfer] /\ call = [c \in Calls |-> NoCall]
    BY <1>1, <2>1 DEF TransfersInv, StoredTypeOK, Live
  <2>3. QED
    BY <2>1, <2>2, EmptyHolds
<1>17. CASE UNCHANGED transferVars \/ \E l \in Limits : SetLimits(l)
  <2>1. UNCHANGED <<serving, entry, disk, reserved, call>>
    BY <1>17 DEF transferVars, SetLimits
  <2>2. QED
    BY <1>1, <2>1
     DEF TransfersInv, StoredTypeOK, CallsFit, PinsAreCounted, Pinning, OutputsWait,
         UploadsGrow, DownIsEmpty, QuotaIsHeld, FilesAreTracked, FinishedAreWhole, InputsStay, Live, Size, Output
<1>18. QED
  BY <1>1, <1>2, <1>3, <1>4, <1>5, <1>6, <1>7, <1>8, <1>9, <1>10, <1>11, <1>12, <1>13, <1>14, <1>15,
     <1>16, <1>17 DEF TransfersNext

LEMMA TransfersStep == LimitedInv /\ [TransfersNext]_transferVars => LimitedInv'
<1>1. limits \in Limits /\ [TransfersNext]_transferVars => limits' \in Limits
  BY DEF transferVars, TransfersNext, CreateUpload, WriteChunk, FinishUpload, DeleteTransfer, ExpireTransfer,
         Sweep, OpenInput, ReserveOutput, NoCapacity, SealOutput, DropOutput, Operate, CloseTransfers,
         CrashServing, EndServing, NewTransfers, SetLimits
<1>2. QED
  BY <1>1, TransfersKeep DEF LimitedInv

\* However uploads, chunks, expiry and sweeps interleave with the calls that
\* stream their inputs and reserve their results, and wherever the server stops:
\* the quota is the sum of what is held, every transfer has its file, a finished
\* one is whole, and no input is removed under the call that reads it.
THEOREM QuotaAndFilesHold == TransfersSpec => [](TransfersTypeOK /\ TransfersAreSafe)
<1>1. TransfersInit => LimitedInv
  BY TransfersStarts DEF LimitedInv
<1>2. LimitedInv => TransfersTypeOK /\ TransfersAreSafe
  BY DEF LimitedInv, TransfersInv, TransfersTypeOK, TransfersAreSafe
<1>3. QED
  BY <1>1, <1>2, TransfersStep, PTL DEF TransfersSpec

---------------------------------------------------------------------------
(* The copies side by side.                                                  *)

CopiesInv == LinesInv /\ BackupInv /\ RestoreInv /\ MediaInv /\ LimitedInv

\* One kind of copy moves at a time, the others are left alone.
LEMMA OneCopyMoves ==
  [CopiesNext]_copiesVars =>
    /\ [LinesNext]_lineVars /\ [BackupNext]_backupVars /\ [RestoreNext]_restoreVars
    /\ [MediaNext]_mediaVars /\ [TransfersNext]_transferVars
BY DEF CopiesNext, copiesVars

\* Every variable of the copies holds what its type says, for every value of
\* the constants and any interleaving of the five.
THEOREM CopiesAreTyped == CopiesSpec => []CopiesTypeOK
<1>1. CopiesInit => CopiesInv
  BY LinesStart, BackupStart, RestoreStarts, MediaStarts, TransfersStarts DEF CopiesInit, CopiesInv, LimitedInv
<1>2. CopiesInv /\ [CopiesNext]_copiesVars => CopiesInv'
  BY OneCopyMoves, LinesStep, BackupStepHolds, RestoreStepHolds, MediaStep, TransfersStep DEF CopiesInv
<1>3. CopiesInv => CopiesTypeOK
  BY TypedIsTypeOK DEF CopiesInv, CopiesTypeOK, LinesInv, BackupInv, RestoreInv, MediaInv, LimitedInv, TransfersInv,
         TransfersTypeOK
<1>4. QED
  BY <1>1, <1>2, <1>3, PTL DEF CopiesSpec
===============================================================================

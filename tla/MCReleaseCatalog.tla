-------------------------- MODULE MCReleaseCatalog --------------------------
(* A small instance of ReleaseCatalog for TLC, in two stories.  a0 and b0   *)
(* are published.  In "cross" a1 has been edited to need b0 and b1 needs    *)
(* a0, so that publishing both would close a cycle of components.  In       *)
(* "stack" b1 is edited to need a1, which is shared.  In "alone" a1 is the  *)
(* only one somebody works on.                                              *)
EXTENDS ReleaseCatalog, TLC

CONSTANTS a0, a1, b0, b1, A, B, plain, changed, p1, p2, k1,
          Stories  \* bound: the stories that are told

VARIABLE story

SmallReleases == {a0, a1, b0, b1}
SmallComponent == (a0 :> A) @@ (a1 :> A) @@ (b0 :> B) @@ (b1 :> B)
SmallUpstream ==
  [c \in SmallReleases |-> [d \in {plain, changed} |->
     CASE c = a1 /\ d = changed -> {b0}
       [] c = b1 /\ d = plain -> {a0}
       [] c = b1 /\ d = changed -> {a1}
       [] OTHER -> {}]]

Prologue == story = "cross" /\ release[a1].content = plain
Cast == IF story = "alone" THEN {a1} ELSE {a1, b1}

\* Bound: what happens to which release, and how often.
Bounded ==
  /\ \A k \in ComponentTests : ctest'[k].release \in Cast \cup {NoRelease}
  /\ story = "cross" \/ Cardinality({p \in Publishers : publisher'[p] # Idle}) <= 1
  /\ CASE story = "cross" ->
            /\ IF Prologue THEN editing' = {a1} \/ release'[a1].content = changed ELSE editing' = {}
            /\ release'[a1].generation <= 3 /\ release'[b1].generation <= 3
            /\ sharing' = sharing
       [] story = "stack" ->
            /\ editing' \subseteq {b1} /\ sharing'[b1] = 0
            /\ release'[a1].generation <= 3 /\ release'[b1].generation <= 4
       [] story = "alone" -> editing' \subseteq {a1} /\ sharing' = sharing

StoryInit == CatalogInit /\ story \in Stories

StoryNext ==
  /\ \/ \E c \in Cast : ReleaseStep(c)
     \/ \E k \in ComponentTests : ComponentTestStep(k)
     \/ \E p \in Publishers : PublishStep(p)
  /\ Bounded
  /\ UNCHANGED story

StorySpec == StoryInit /\ [][StoryNext]_<<catalogVars, story>>
PublisherSymmetry == Permutations(Publishers)
=============================================================================

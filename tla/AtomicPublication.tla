-------------------------- MODULE AtomicPublication --------------------------
(***************************************************************************)
(* What the release catalog promises to whoever reads it: a publication    *)
(* happens at one moment, and everything it asks for is true at that very  *)
(* moment, as if the whole catalog were locked.  There are no requests, no *)
(* generations, no epoch and no guards here.                               *)
(*                                                                         *)
(* ReleaseCatalog implements DirectSpec, and ScenarioLifecycle, with the   *)
(* joint publication of a scenario revision, Spec.                         *)
(***************************************************************************)
EXTENDS FiniteSets

CONSTANTS Releases, Components, ComponentOf, Contents, Original, Upstream, Baseline

VARIABLES
  row,      \* status, candidate, content and published of every release
  tested    \* the contents of releases a succeeded test is on record for

catalog == <<row, tested>>

Draft(c) == row[c].status = "draft"
Released(c) == row[c].status = "released"
Needed(c) == Upstream[c][row[c].content]

ReleasedLinks ==
  {l \in Components \X Components :
     \E c \in Releases : Released(c) /\ ComponentOf[c] = l[1]
       /\ \E u \in Needed(c) : ComponentOf[u] = l[2]}

\* from reaches to along the links.
Leads(links, from, to) ==
  \A S \in SUBSET Components :
    (from \in S /\ \A l \in links : l[1] \in S => l[2] \in S) => to \in S

AsReleased(r) == [r EXCEPT !.status = "released", !.candidate = FALSE, !.published = TRUE]

-----------------------------------------------------------------------------
\* A draft gets another content and is withdrawn as a candidate.
Edit(c, d) ==
  /\ Draft(c)
  /\ row' = [row EXCEPT ![c] = [@ EXCEPT !.content = d, !.candidate = FALSE]]
  /\ UNCHANGED tested

Offer(c, candidate) ==
  /\ Draft(c)
  /\ row' = [row EXCEPT ![c] = [@ EXCEPT !.candidate = candidate]]
  /\ UNCHANGED tested

Pass(c, d) ==
  /\ tested' = tested \cup {<<c, d>>}
  /\ UNCHANGED row

\* What has been published once never becomes a draft again.
Withdraw(c) ==
  /\ Draft(c) \/ Released(c)
  /\ row' = [row EXCEPT ![c] = [@ EXCEPT !.status = "deprecated", !.candidate = FALSE]]
  /\ UNCHANGED tested

Restore(c) ==
  /\ row[c].status = "deprecated" /\ ~row[c].published
  /\ row' = [row EXCEPT ![c] = [@ EXCEPT !.status = "draft", !.candidate = FALSE]]
  /\ UNCHANGED tested

\* A release is published on its own: tested as it is, on released releases, and
\* without closing a cycle of components.
PublishAlone(c) ==
  /\ Draft(c) /\ <<c, row[c].content>> \in tested
  /\ \A u \in Needed(c) :
       Released(u) /\ ~Leads(ReleasedLinks, ComponentOf[u], ComponentOf[c])
  /\ row' = [row EXCEPT ![c] = AsReleased(@)]
  /\ UNCHANGED tested

\* Candidates are published together: tested as they are, and complete.
PublishTogether(C) ==
  /\ \A c \in C :
       /\ Draft(c) /\ row[c].candidate /\ <<c, row[c].content>> \in tested
       /\ \A u \in Needed(c) : Released(u) \/ u \in C
  /\ row' = [c \in Releases |-> IF c \in C THEN AsReleased(row[c]) ELSE row[c]]
  /\ UNCHANGED tested

-----------------------------------------------------------------------------
Init ==
  /\ row = [c \in Releases |->
       [status |-> IF c \in Baseline THEN "released" ELSE "draft", candidate |-> FALSE,
        content |-> Original, published |-> c \in Baseline]]
  /\ tested = {<<c, Original>> : c \in Baseline}

DirectNext ==
  \E c \in Releases :
    \/ \E d \in Contents : Edit(c, d) \/ Pass(c, d)
    \/ \E candidate \in BOOLEAN : Offer(c, candidate)
    \/ Withdraw(c) \/ Restore(c) \/ PublishAlone(c)

Next == DirectNext \/ \E C \in SUBSET Releases : PublishTogether(C)

DirectSpec == Init /\ [][DirectNext]_catalog
Spec == Init /\ [][Next]_catalog
=============================================================================

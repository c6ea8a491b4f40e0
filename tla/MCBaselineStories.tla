------------------------- MODULE MCBaselineStories -------------------------
(* Behaviours of ScenarioBaseline that need more runs than can be checked   *)
(* exhaustively.  A script fixes which runs are planned, one after another; *)
(* how each ends, and how far it comes, stays open.                         *)
EXTENDS ScenarioBaseline, TLC

CONSTANTS n1, n2, old, new, extra, v1, v2, w1, Script

NodeOrder == <<n1, n2>>
StorySource == [r \in Revisions |-> IF r = v1 THEN NoRevision ELSE v1]
\* v1 is published; the drafts v2 and w1 were derived from it.  v2 replaces the
\* release of n1, w1 has the node n2 in the place of n1.
StoryTarget == [r \in Revisions |->
  CASE r = v1 -> n1 :> old @@ n2 :> Absent
    [] r = v2 -> n1 :> new @@ n2 :> Absent
    [] r = w1 -> n1 :> Absent @@ n2 :> extra]

Chapter(kind, mode, rev, root) == [kind |-> kind, mode |-> mode, rev |-> rev, root |-> root]

\* An installation of v1 ends before its first change.  w1 is installed and a
\* reset and a rollback of n2 follow; then the installation of v1 is continued
\* and upgraded.
OverOtherNode == <<
  Chapter("scenario", "install", v1, 1), Chapter("test", "install", w1, 2),
  Chapter("reset", "none", NoRevision, 3), Chapter("rollback", "none", NoRevision, 4),
  Chapter("scenario", "install", v1, 1), Chapter("test", "upgrade", v2, 6)>>

\* v1 is installed and verified twice, and the first verification is continued.
VerifiedAgain == <<
  Chapter("scenario", "install", v1, 1), Chapter("scenario", "verify", v1, 2),
  Chapter("scenario", "verify", v1, 3), Chapter("scenario", "verify", v1, 2)>>

InScript(r) ==
  /\ Active = {} /\ NextRun <= Len(Script)
  /\ [kind |-> r.kind, mode |-> r.mode, rev |-> r.rev, root |-> r.root] = Script[NextRun]

StoryNext == Next /\ (prepared' \notin {None, prepared} => InScript(prepared'))
StorySpec == Init /\ [][StoryNext]_vars
=============================================================================

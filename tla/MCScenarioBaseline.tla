------------------------- MODULE MCScenarioBaseline -------------------------
(* Small instances of the state of an environment and its baseline, and of  *)
(* the graph of a scenario and its order.  They share no state; `focus`     *)
(* says which of the two a behaviour runs.                                  *)
EXTENDS ScenarioBaseline, MCScenarioOrder

CONSTANTS n1, n2, old, new, extra, v1, v2, t2

NodeOrder == <<n1, n2>>
\* v1 is published, v2 upgrades it, and t2 is a draft that does the same.
UpgradeSource == [r \in Revisions |-> IF r = v1 THEN NoRevision ELSE v1]
\* v2 replaces the release on n1 and adds n2; t2 replaces the node n1 by n2.
Releasing == [r \in Revisions |->
  CASE r = v1 -> n1 :> old @@ n2 :> Absent
    [] r = v2 -> n1 :> new @@ n2 :> extra
    [] r = t2 -> n1 :> Absent @@ n2 :> extra]

VARIABLE focus

ExecutionInit == Init /\ OrderInit /\ focus \in {"baseline", "order"}

\* No step of ScenarioOrder reads the plan and each replaces it or throws it
\* away: what follows a plan also happens without it.
ExecutionNext ==
  /\ \/ focus = "baseline" /\ Next /\ UNCHANGED orderVars
     \/ focus = "order" /\ plan = NoPlan /\ OrderNext /\ UNCHANGED vars
  /\ UNCHANGED focus

ExecutionSpec == ExecutionInit /\ [][ExecutionNext]_<<vars, orderVars, focus>>
=============================================================================

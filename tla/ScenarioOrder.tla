---------------------------- MODULE ScenarioOrder ----------------------------
(***************************************************************************)
(* The graph of a scenario and the order it is executed in: the            *)
(* dependency edges derived from what the locked releases need, the        *)
(* sequence edges of the scenario owner, the checks of a save and of a     *)
(* plan, and the orders an installation and an upgrade follow              *)
(* (internal/service/scenario_graph.go, scenarios.go, plan_codec.go,       *)
(* scenario_execution.go, parameters.go, parameter_graph.go,               *)
(* internal/domain/domain.go).                                             *)
(*                                                                         *)
(* Component owners change what their drafts need while scenarios lock     *)
(* them.  A scenario keeps the edges of its last save; every check derives *)
(* them again, the planner of an installation and of an upgrade does not.  *)
(* Nodes whose component occurs once are modelled, the only ones a run     *)
(* accepts; so a dependency has one possible source.                       *)
(***************************************************************************)
EXTENDS Naturals, Sequences, SequencesExt

CONSTANTS
  NodeIds,         \* ids of nodes: numbers, in the order of the ids
  Locks,           \* the releases of the component a node stands for
  Does,          \* bound: the actions the nodes may be given together
  FirstNeeds,    \* what a release needs at first, of every release
  MayNeed,       \* bound: what an edited draft may need
  Drafts,        \* releases that are drafts at first
  MaxEdition,    \* bound: editions of a contract
  MaxSaves,      \* bound: saves of a revision
  MaxSequence,   \* bound: sequence edges at a time
  MayConstrain,  \* bound: the upgrade constraints that are tried
  MaxRevisions   \* bound: revisions, of the scenario and of its branches

ASSUME GraphAssumption ==
  /\ NodeIds \subseteq Nat \ {0} /\ IsFiniteSet(NodeIds)
  /\ \A m, n \in NodeIds : m # n => Locks[m] \cap Locks[n] = {}

VARIABLES
  contract,  \* component releases: status, candidate, what they need, edition
  scenario,  \* the newest revision: number, graph, source, constraints
  plan       \* the answer to the last preview, until anything else happens

orderVars == <<contract, scenario, plan>>

\* The edges and the edition of every contract as the last save left them.
EmptyGraph == [release |-> <<>>, action |-> <<>>, sequence |-> {}, depends |-> {}, read |-> <<>>]
NoPlan == [mode |-> "none"]

-----------------------------------------------------------------------------
(* Graphs *)

Ids(g) == DOMAIN g.release
Edges(g) == g.sequence \cup g.depends
Without(g, u) == u \notin Ids(g)

\* graphReachability: the pairs with a path from the first to the second.
Reach(edges) ==
  FoldSet(LAMBDA k, R : R \cup {e \in NodeIds \X NodeIds : <<e[1], k>> \in R /\ <<k, e[2]>> \in R},
          edges, NodeIds)

Acyclic(edges) == \A n \in NodeIds : <<n, n>> \notin Reach(edges)

\* ValidateGraph
ValidGraph(g) ==
  /\ Ids(g) # {}
  /\ Edges(g) \subseteq Ids(g) \X Ids(g)
  /\ g.sequence \cap g.depends = {}
  /\ Acyclic(Edges(g))

Requires(g, n) == contract[g.release[n]].needs

\* scenarioDependenciesForNode: a verification only follows parameters.
ActiveNeeds(g, n) == {d \in Requires(g, n) : g.action[n] = "verify" => d.kind # "order"}

Providers(g, d) == {u \in Ids(g) : g.release[u] = d.on}

\* reverseScenarioDependencies, scenarioMutationDirection
Reversed(action) == action = "rollback"
Mixed(g, m, n) == {g.action[m], g.action[n]} = {"install", "rollback"}

\* The dependency edges normalizeScenarioGraph derives from the contracts.
DependencyEdges(g) ==
  UNION {{IF Reversed(g.action[n]) THEN <<n, u>> ELSE <<u, n>> :
            u \in {u \in UNION {Providers(g, d) : d \in {d \in ActiveNeeds(g, n) : d.kind # "configuration"}} :
                     ~Mixed(g, u, n)}} : n \in Ids(g)}

DependencyIssue(g) ==
  \E n \in Ids(g) : \E d \in ActiveNeeds(g, n) :
    \/ Providers(g, d) = {}
    \/ d.kind # "configuration" /\ \E u \in Providers(g, d) : Mixed(g, u, n)

Normalised(g) ==
  [g EXCEPT !.depends = DependencyEdges(g),
            !.read = [n \in Ids(g) |-> contract[g.release[n]].edition]]

\* scenarioSequenceDependencyIssues, scenarioSequenceTopologyIssues
SequenceConflict(g) == \E e \in g.sequence : <<e[2], e[1]>> \in Reach(g.depends)
SequenceRedundant(g) == \E e \in g.sequence : e \in Reach(Edges(g) \ {e})

\* scenarioParameterSources and selectDependencySource, on the edges as they
\* are: the dependencies of a contract have new ids in every edition.
ParametersResolve(g) ==
  \A n \in Ids(g) :
    (\E d \in Requires(g, n) : d.kind # "order") => g.read[n] = contract[g.release[n]].edition

-----------------------------------------------------------------------------
(* Orders *)

\* Of the nodes that wait for no other the smallest one that may be taken at
\* once, or else the only one.
NextNode(free, ready) ==
  IF ready \cap free # {} THEN <<Min(ready \cap free)>>
  ELSE IF Cardinality(ready) = 1 THEN <<Min(ready)>> ELSE <<>>

\* The nodes that wait for no other once those of `order` are taken.
Ready(nodes, edges, order) ==
  LET left == nodes \ ToSet(order)
  IN {n \in left : \A m \in left : <<m, n>> \notin edges}

\* The nodes in the order they are taken; it ends early at an open choice.
Taken(nodes, edges, free) ==
  LET order[i \in 0..Cardinality(nodes)] ==
        IF i = 0 THEN <<>>
        ELSE order[i - 1] \o NextNode(free, Ready(nodes, edges, order[i - 1]))
  IN order[Cardinality(nodes)]

\* topologicalNodes: of the nodes that are ready the smallest id.
TopologicalNodes(g) == Taken(Ids(g), Edges(g), Ids(g))

\* scenarioExecutionOrderIssues: there is never a choice.
Determined(g) == Len(Taken(Ids(g), Edges(g), {})) = Cardinality(Ids(g))

\* uniqueScenarioOperationOrder: nodes that are left alone first, then the only
\* one with an action.
UpgradeOrder(nodes, edges, acting) == Taken(nodes, edges, nodes \ acting)

\* An order without the nodes that are only barriers in it.
Only(order, acting) ==
  LET kept[i \in 0..Len(order)] ==
        IF i = 0 THEN <<>>
        ELSE IF order[i] \in acting THEN Append(kept[i - 1], order[i]) ELSE kept[i - 1]
  IN kept[Len(order)]

-----------------------------------------------------------------------------
(* Component owners *)

Private(r) == contract[r].status = "draft"
IsReleased(r) == contract[r].status = "released"

\* updateRelease: the contract of a draft is replaced, the candidate withdrawn.
EditContract(r, needs) ==
  /\ ~IsReleased(r) /\ contract[r].edition < MaxEdition
  /\ contract' = [contract EXCEPT ![r] = [status |-> "draft", needs |-> needs,
                                          edition |-> @.edition + 1]]
  /\ plan' = NoPlan
  /\ UNCHANGED scenario

\* setReleaseCandidate: what a candidate needs is released or shared itself.
ShareCandidate(r) ==
  /\ Private(r)
  /\ \A d \in contract[r].needs : d.kind = "configuration" \/ ~Private(d.on)
  /\ contract' = [contract EXCEPT ![r].status = "candidate"]
  /\ plan' = NoPlan
  /\ UNCHANGED scenario

WithdrawCandidate(r) ==
  /\ contract[r].status = "candidate"
  /\ contract' = [contract EXCEPT ![r].status = "draft"]
  /\ plan' = NoPlan
  /\ UNCHANGED scenario

-----------------------------------------------------------------------------
(* The scenario owner *)

BeingEdited == scenario.status = "draft"

Lockings(N) == {f \in [N -> UNION {Locks[n] : n \in N}] : \A n \in N : f[n] \in Locks[n]}
Sequences(N) == UNION {kSubset(k, N \X N) : k \in 0..MaxSequence}
Input(locks, does, sequence) ==
  [release |-> locks, action |-> [n \in DOMAIN locks |-> does[n]], sequence |-> sequence,
   depends |-> {}, read |-> <<>>]

\* A graph the editor may send: sequence edges among some nodes.
Inputs ==
  UNION {{Input(f, does, s) : f \in Lockings(N), does \in Does, s \in Sequences(N)} :
           N \in (SUBSET NodeIds) \ {{}}}

\* saveScenarioGraph: incomplete dependencies may be saved, an order against
\* them or for nothing may not.
SaveGraph(input) ==
  LET g == Normalised(input) IN
  /\ BeingEdited /\ scenario.saves < MaxSaves
  /\ \A h \in {scenario.graph, input} : \A n \in Ids(h) : ~Private(h.release[n])
  /\ ValidGraph(input) /\ ValidGraph(g)
  /\ ~SequenceConflict(g) /\ ~SequenceRedundant(g)
  /\ scenario' = [scenario EXCEPT !.graph = g, !.saves = @ + 1]
  /\ plan' = NoPlan
  /\ UNCHANGED contract

\* Validate has no issue.
Acceptable(g) ==
  /\ \A n \in Ids(g) : ~Private(g.release[n])
  /\ ValidGraph(Normalised(g))
  /\ ~SequenceConflict(Normalised(g)) /\ ~SequenceRedundant(Normalised(g))
  /\ ~DependencyIssue(g)
  /\ Determined(Normalised(g))

\* SaveUpgradeConstraints: among the nodes of the revision and of its source; the
\* bound: for a graph that can be planned.
SaveUpgradeConstraints(edges) ==
  /\ BeingEdited /\ scenario.source # EmptyGraph
  /\ \A e \in edges : e[1] # e[2] /\ {e[1], e[2]} \subseteq Ids(scenario.graph) \cup Ids(scenario.source)
  /\ Acceptable(scenario.graph)
  /\ scenario' = [scenario EXCEPT !.constraints = edges]
  /\ plan' = NoPlan
  /\ UNCHANGED contract

\* prepareScenarioExecution and prepareScenarioLifecycle, as far as they go for
\* every mode.
Prepared(g) == Acceptable(g) /\ ParametersResolve(g)

\* An installation goes through the graph as it was saved.
PlanInstall ==
  /\ Prepared(scenario.graph)
  /\ plan' = [mode |-> "install", order |-> TopologicalNodes(scenario.graph)]
  /\ UNCHANGED <<contract, scenario>>

\* scenarioUpgradeSteps: what the environment has and the revision changes.
Kept(g, s) == Ids(g) \cap Ids(s)
Upgraded(g, s) == {n \in Kept(g, s) : g.release[n] # s.release[n]}
Acting(g, s, configured) == (Ids(g) \ Ids(s)) \cup (Ids(s) \ Ids(g)) \cup Upgraded(g, s) \cup configured

\* Mutant: a removed node waits for nobody.
RemovesFirst(g, s, constraints) == Edges(g) \cup constraints

\* The edges of the target; those of the source backwards where the upstream
\* node is removed; the constraints.
UpgradeEdges(g, s, constraints) ==
  Edges(g) \cup {<<e[2], e[1]>> : e \in {e \in Edges(s) : Without(g, e[1])}} \cup constraints

\* An upgrade from the source, with some nodes configured anew; it is refused if
\* the order of the actions is not determined.
PlanUpgrade(configured) ==
  LET g == scenario.graph
      s == scenario.source
      nodes == Ids(g) \cup Ids(s)
      edges == UpgradeEdges(g, s, scenario.constraints)
      acting == Acting(g, s, configured)
      order == UpgradeOrder(nodes, edges, acting) IN
  /\ s # EmptyGraph /\ Prepared(g)
  /\ configured \subseteq Kept(g, s) \ Upgraded(g, s)
  /\ \A e \in scenario.constraints : {e[1], e[2]} \subseteq nodes
  /\ plan' = [mode |-> "upgrade", nodes |-> nodes, edges |-> edges, acting |-> acting,
              accepted |-> Len(order) = Cardinality(nodes),
              order |-> Only(order, acting)]
  /\ UNCHANGED <<contract, scenario>>

\* Publication, with the candidates the graph locks (ScenarioLifecycle has the
\* evidence it takes).
PublishRevision ==
  LET g == scenario.graph IN
  /\ BeingEdited /\ Acceptable(g)
  /\ \A n \in Ids(g) : \A d \in Requires(g, n) : IsReleased(d.on) \/ Providers(g, d) # {}
  /\ scenario' = [scenario EXCEPT !.status = "released"]
  /\ contract' = [r \in DOMAIN contract |->
       IF \E n \in Ids(g) : g.release[n] = r THEN [contract[r] EXCEPT !.status = "released"] ELSE contract[r]]
  /\ plan' = NoPlan

\* CloneRevision derives the edges of the new revision and drops the constraints.
NextRevision ==
  /\ scenario.status = "released" /\ scenario.number < MaxRevisions
  /\ scenario' = [number |-> scenario.number + 1, status |-> "draft", saves |-> 0,
                  graph |-> Normalised(scenario.graph), source |-> scenario.graph, constraints |-> {}]
  /\ plan' = NoPlan
  /\ UNCHANGED contract

\* Fork: another scenario starts from a copy, with the edges as they are.
ForkScenario ==
  /\ scenario.status = "released" /\ scenario.number < MaxRevisions
  /\ scenario' = [scenario EXCEPT !.number = @ + 1, !.status = "draft", !.saves = 0,
                                  !.source = EmptyGraph, !.constraints = {}]
  /\ plan' = NoPlan
  /\ UNCHANGED contract

-----------------------------------------------------------------------------
OrderInit ==
  /\ contract = [r \in DOMAIN FirstNeeds |->
       [status |-> IF r \in Drafts THEN "draft" ELSE "released", needs |-> FirstNeeds[r], edition |-> 1]]
  /\ scenario = [number |-> 1, status |-> "draft", saves |-> 0,
                 graph |-> EmptyGraph, source |-> EmptyGraph, constraints |-> {}]
  /\ plan = NoPlan

OwnerStep(r) ==
  \/ \E needs \in MayNeed : EditContract(r, needs)
  \/ ShareCandidate(r)
  \/ WithdrawCandidate(r)

PlanStep ==
  \/ PlanInstall
  \/ \E configured \in SUBSET NodeIds : PlanUpgrade(configured)

OrderNext ==
  \/ \E r \in Drafts : OwnerStep(r)
  \/ \E input \in Inputs : SaveGraph(input)
  \/ \E edges \in MayConstrain : SaveUpgradeConstraints(edges)
  \/ PlanStep
  \/ PublishRevision
  \/ NextRevision
  \/ ForkScenario

OrderSpec == OrderInit /\ [][OrderNext]_orderVars

-----------------------------------------------------------------------------
(* What is promised of an order *)

\* Every order of the nodes that respects the edges.
LinearExtensions(nodes, edges) ==
  {s \in SetToSeqs(nodes) : \A i, j \in DOMAIN s : <<s[i], s[j]>> \in edges => i < j}

\* The edges were derived from the contracts as they are.
UpToDate(g) == g = Normalised(g)

\* The order of an installation is the only one the graph allows.
InstallIsForced ==
  plan.mode = "install" /\ UpToDate(scenario.graph) =>
    LinearExtensions(Ids(scenario.graph), Edges(scenario.graph)) = {plan.order}

\* An upgrade is accepted exactly if the edges leave one order of its actions,
\* whatever becomes of the nodes in between.
UpgradeIsForced ==
  plan.mode = "upgrade" =>
    LET orders == {Only(s, plan.acting) : s \in LinearExtensions(plan.nodes, plan.edges)}
    IN IF plan.accepted THEN orders = {plan.order} ELSE Cardinality(orders) # 1

\* The releases that are installed after the first k actions of an upgrade.
InstalledAfter(k) ==
  LET g == scenario.graph
      s == scenario.source
      done == {plan.order[i] : i \in 1..k}
  IN [n \in (Ids(s) \ (done \ Ids(g))) \cup (done \cap Ids(g)) |->
        IF n \in done THEN g.release[n] ELSE s.release[n]]

AllInstall(g) == \A n \in Ids(g) : g.action[n] = "install"
Upstreams(r) == {d.on : d \in {d \in contract[r].needs : d.kind # "configuration"}}

\* No action of an upgrade finds what it needs missing, and nothing is removed
\* that something installed still needs.
UpgradeKeepsUpstreams ==
  plan.mode = "upgrade" /\ plan.accepted
  /\ (\A g \in {scenario.graph, scenario.source} : UpToDate(g) /\ AllInstall(g)) =>
    \A k \in DOMAIN plan.order :
      LET n == plan.order[k]
          has == InstalledAfter(k)
          installed == {has[m] : m \in DOMAIN has}
      IN IF n \in Ids(scenario.graph)
         THEN Upstreams(has[n]) \subseteq installed
         ELSE \A r \in installed : scenario.source.release[n] \notin Upstreams(r)

\* The order of a plan is the only one its graph allows, and an upgrade never
\* takes away from under a component what it needs (scenario_graph.go:195-243,
\* scenario_execution.go:618-708).
OrdersAreForced == InstallIsForced /\ UpgradeIsForced /\ UpgradeKeepsUpstreams

\* docs/platform-manual.md:395 and README.md:137: dependency edges and sequence
\* edges decide the order, and a component is installed after what it needs.
InstalledAfterDependencies ==
  plan.mode = "install" =>
    \A i, j \in DOMAIN plan.order :
      LET g == scenario.graph IN
      /\ AllInstall(g)
      /\ g.release[plan.order[i]] \in Upstreams(g.release[plan.order[j]])
      => i < j
=============================================================================

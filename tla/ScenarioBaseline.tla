--------------------------- MODULE ScenarioBaseline ---------------------------
(***************************************************************************)
(* The installation baseline of one scenario in one environment: what the  *)
(* platform records and advertises about the hosts while scenario runs     *)
(* install, upgrade, re-verify and continue, resets tear the cluster down, *)
(* recovery rollbacks restore single nodes, and the process crashes.       *)
(*                                                                         *)
(* Four records are kept in the database: the scenario_installations row   *)
(* (baseline), the component installation rows (installed), the latest     *)
(* action receipt of every node (receipts) and the runs with their         *)
(* snapshots (runs).  actual is what is really on the hosts, which no code *)
(* reads except by running a check.  Runs of one environment execute one   *)
(* at a time (module RunQueue), so there is one execution slot, exec.      *)
(*                                                                         *)
(* Abstracted: pre-checks (read-only, like source checks), media delivery  *)
(* (covered by the mark that precedes it), parameters (a node changes only *)
(* with its release), revision status (module ScenarioLifecycle), the      *)
(* environment's revision and every digest whose inputs never change here. *)
(***************************************************************************)
EXTENDS Integers, Sequences, FiniteSets, SequencesExt

CONSTANTS
  Nodes,             \* scenario nodes, one component each
  Order,             \* the nodes in their execution order
  NoNode,            \* the node of a step that belongs to no component
  Releases,          \* component releases
  Absent,            \* nothing installed
  Broken,            \* a host left in between by an interrupted action
  Revisions,         \* revisions of the scenario
  NoRevision,        \* the null revision
  Target,            \* revision -> node -> release or Absent
  Source,            \* revision -> the revision it upgrades from
  Released,          \* the published revisions: formal runs only
  Intrusive,         \* the revisions whose acceptance job may change the environment
  None,              \* nothing is being prepared
  MaxRuns,           \* bound: runs ever created
  MaxPending,        \* bound: runs waiting in the queue
  MaxFaults          \* bound: crashes and lost baseline updates

ASSUME OrderAssumption ==
  /\ IsFiniteSet(Nodes) /\ NoNode \notin Nodes
  /\ Order \in Seq(Nodes) /\ Len(Order) = Cardinality(Nodes)
  /\ {Order[i] : i \in 1..Len(Order)} = Nodes
ASSUME RevisionAssumption ==
  /\ Absent \notin Releases /\ Broken \notin Releases \cup {Absent}
  /\ NoRevision \notin Revisions
  /\ Target \in [Revisions -> [Nodes -> Releases \cup {Absent}]]
  /\ Source \in [Revisions -> Revisions \cup {NoRevision}]
  /\ Released \subseteq Revisions /\ Intrusive \subseteq Revisions
ASSUME BoundsAssumption == {MaxRuns, MaxPending, MaxFaults} \subseteq Nat

VARIABLES
  runs,      \* created runs with their locked plan and snapshot, by number
  baseline,  \* the scenario_installations row of the scenario
  installed, \* node -> its environment_component_installations row
  receipts,  \* node -> its newest action_execution_receipts row
  actual,    \* node -> what the hosts really hold
  exec,      \* the run in execution and how far its current step is
  prepared,  \* a run that is planned but not yet created, or None
  faults     \* crashes and lost updates so far

hostVars == <<installed, receipts, actual>>
vars == <<runs, baseline, hostVars, exec, prepared, faults>>

RunIds == 1..Len(runs)
NoExec == [run |-> 0, pc |-> "idle", cause |-> "none"]
NextRun == Len(runs) + 1

\* An installation row names the release, the run that made it and the row it has
\* replaced: here the sequence of those rows, the newest first, empty without a row.
NothingInstalled == [n \in Nodes |-> <<>>]
NoReceipt == [run |-> 0, status |-> "none", backup |-> <<>>, seq |-> 0]
NothingDone == [n \in Nodes |-> NoReceipt]
NoBaseline == [gen |-> 0, rev |-> NoRevision, run |-> 0, mutating |-> 0,
               state |-> "none", test |-> FALSE, digest |-> NothingInstalled, verifier |-> 0]
-----------------------------------------------------------------------------
(* Plans.  A step is a stage on a node; "again" marks a replayed check.    *)

Step(stage, node) == [stage |-> stage, node |-> node, again |-> FALSE]

\* The elements of S by their places.
InPlaceOrder(S, place) ==
  [k \in 1..Cardinality(S) |->
     CHOOSE x \in S : Cardinality({y \in S : place[y] <= place[x]}) = k]
Place == [n \in Nodes |-> CHOOSE i \in 1..Len(Order) : Order[i] = n]
SelectNodes(S) == InPlaceOrder(S, Place)
Checks(stage, S) ==
  LET ordered == SelectNodes(S) IN [i \in 1..Len(ordered) |-> Step(stage, ordered[i])]
Changes(ordered) ==
  [i \in 1..(2 * Len(ordered)) |->
     Step(IF i % 2 = 1 THEN "execute" ELSE "post", ordered[(i + 1) \div 2])]

Present(rev) == {n \in Nodes : Target[rev][n] # Absent}
Changed(rev) == {n \in Nodes : Target[rev][n] # Target[Source[rev]][n]}
FinalSteps(rev) == Append(Checks("target", Present(rev)), Step("acceptance", NoNode))

ScenarioPlan(rev, mode) ==
  CASE mode = "install" -> Changes(SelectNodes(Present(rev))) \o FinalSteps(rev)
    [] mode = "upgrade" -> Checks("source", Present(Source[rev]))
                             \o Changes(SelectNodes(Changed(rev))) \o FinalSteps(rev)
    [] mode = "verify"  -> FinalSteps(rev)

ReleaseOf(row) == IF row = <<>> THEN Absent ELSE Head(row).rel

(* What an execute step of run r does to node n when it succeeds. *)
Effect(r, n) ==
  CASE r.kind \in {"scenario", "test"} -> Target[r.rev][n]
    [] r.kind = "reset"                -> Absent
    [] r.kind = "rollback"             -> ReleaseOf(Tail(r.backups[n]))
Teardown(r, n) == r.kind \in {"reset", "rollback"} \/ Effect(r, n) = Absent

(* What a check of run r expects on the node of step s. *)
Expected(r, s) == IF s.stage = "source" THEN Target[Source[r.rev]][s.node]
                                        ELSE Effect(r, s.node)

(* cf_recovery.continuation: what is left of a plan from step start on,    *)
(* after the newest finished check of every node that has no step left.    *)
Continuation(r, start) ==
  LET plan == r.plan
      left == {plan[i].node : i \in start..Len(plan)}
      replayable == {i \in 1..(start - 1) :
                       \/ plan[i].stage \in {"source", "target"}
                       \/ plan[i].stage = "post" /\ ~Teardown(r, plan[i].node)}
      newest == {i \in replayable : \A j \in replayable : plan[j].node = plan[i].node => j <= i}
      again == InPlaceOrder({i \in newest : plan[i].node \notin left}, [i \in 1..(start - 1) |-> i])
  IN [k \in 1..Len(again) |-> [plan[again[k]] EXCEPT !.again = TRUE]]
       \o SubSeq(plan, start, Len(plan))
-----------------------------------------------------------------------------
(* Reading the records *)

Lifecycle(r) == r.kind \in {"scenario", "test"}
Pending == {n \in Nodes : receipts[n].status \notin {"none", "verified"}}
PendingReceipts == [n \in Nodes |-> IF n \in Pending THEN receipts[n] ELSE NoReceipt]
InstalledIs(rev) == \A n \in Nodes : ReleaseOf(installed[n]) = Target[rev][n]
ExpectedGeneration(r) == IF r.attempt = 0 THEN r.gen ELSE r.retryGen
Root(x) == runs[x].root
Active == {x \in RunIds : runs[x].status \in {"queued", "running"}}
Queued == {x \in RunIds : runs[x].status = "queued"}
Advertised == baseline.state \in {"complete", "test"}

(* A later baseline verification vouches for a pending operation as long   *)
(* as nothing was recorded since.                                          *)
Recovered(n) ==
  /\ baseline.verifier # 0 /\ Advertised
  /\ LET v == runs[baseline.verifier]
     IN /\ v.pending[n] = receipts[n]
        /\ baseline.digest = installed /\ v.digest = installed
        /\ baseline.run = v.base /\ baseline.rev = v.rev

\* Mutant: a reset tears down only what has passed its post-check.
InstalledBaselines == installed

(* What a reset has to tear down: pending operations hide the row below.   *)
RecoveryBaselines ==
  [n \in Nodes |-> IF n \in Pending THEN receipts[n].backup ELSE installed[n]]

(* successfulScenarioSourceRun, for the run that made the baseline. *)
FormalRun(x, rev) ==
  /\ x \in RunIds /\ runs[x].status = "succeeded" /\ runs[x].rev = rev
  /\ runs[x].kind = "scenario" /\ runs[x].mode \in {"install", "upgrade"}
  /\ rev \in Released

(* validateScenarioRecoveryReceipts: nothing changed since the preview, and*)
(* every pending operation is on a node the baseline covers.               *)
ReceiptsCovered(r) ==
  /\ PendingReceipts = r.pending
  /\ Pending \subseteq Present(r.rev)

(* The steps of a continuation replace those of the attempts before it.    *)
Attempts(x) == {y \in RunIds : Root(y) = Root(x) /\ runs[y].attempt <= runs[x].attempt}
Evidence(x) ==
  \A y \in Attempts(x) : \A i \in 1..Len(runs[y].plan) :
    \/ i <= runs[y].done
    \/ \E z \in Attempts(x) : /\ runs[z].attempt > runs[y].attempt
                              /\ \E k \in 1..Len(runs[z].plan) : runs[z].plan[k] = runs[y].plan[i]

(* A retry continues what it was previewed on: nothing was recorded since, *)
(* and no later attempt exists.                                            *)
RetryHolds(r, x) ==
  r.attempt > 0 =>
    /\ <<receipts, installed>> = r.retryState
    /\ \A y \in RunIds : y # x /\ Root(y) = r.root => runs[y].attempt < r.attempt

\* Mutant: a retry continues whatever chain has begun to change the hosts.
AnyChainOwnsMutation(r) == baseline.gen = r.retryGen

ChainOwnsMutation(r) == baseline.mutating # 0 => Root(baseline.mutating) = r.root

(* validateScenarioExecutionBaselineTx *)
ScenarioHolds(r) ==
  IF r.attempt > 0
  THEN /\ baseline.gen = r.retryGen /\ baseline.mutating = r.retryMutating
       /\ ChainOwnsMutation(r)
  ELSE /\ baseline.gen = r.gen /\ baseline.run = r.base /\ installed = r.digest
       /\ r.mode = "install" => /\ installed = NothingInstalled
                                /\ baseline.gen = 0 /\ Pending = {}
       /\ r.mode = "upgrade" => /\ baseline.state = "complete" /\ ~baseline.test
                                /\ baseline.rev = Source[r.rev]
                                /\ FormalRun(baseline.run, Source[r.rev])
       /\ r.mode = "verify" => /\ ReceiptsCovered(r)
                               /\ baseline.run # 0 /\ baseline.rev = r.rev

(* A reset plan is about exactly what there is to tear down.               *)
ResetCovers(r) ==
  LET left == {r.plan[i].node : i \in 1..Len(r.plan)}
  IN \A n \in Nodes : /\ RecoveryBaselines[n] = IF n \in left THEN r.backups[n] ELSE <<>>
                      /\ Len(RecoveryBaselines[n]) <= 1

(* validateLockedRollbackPlan: every action that tears down or restores    *)
(* still finds the baseline it was planned with.                           *)
RollbackHolds(r) ==
  /\ r.kind = "reset" => ResetCovers(r)
  /\ \A i \in 1..Len(r.plan) :
       LET n == r.plan[i].node IN
       r.plan[i].stage = "execute" /\ Teardown(r, n) =>
         \/ n \in Pending /\ receipts[n].backup = r.backups[n]
         \/ installed[n] = r.backups[n]
-----------------------------------------------------------------------------
Init ==
  /\ runs = <<>>
  /\ baseline = NoBaseline
  /\ installed = NothingInstalled
  /\ receipts = NothingDone
  /\ actual = [n \in Nodes |-> Absent]
  /\ exec = NoExec
  /\ prepared = None
  /\ faults = 0

(* Planning: a run is previewed, its snapshot and plan are locked, and only *)
(* then, in a transaction of its own, is it created.                        *)

Preparing == prepared = None /\ NextRun <= MaxRuns
Planned(r) == prepared' = r /\ UNCHANGED <<runs, baseline, hostVars, exec, faults>>

NewRun(kind, mode, rev, plan, backups) ==
  [kind |-> kind, mode |-> mode, rev |-> rev, status |-> "queued",
   plan |-> plan, done |-> 0, backups |-> backups,
   gen |-> 0, base |-> 0, digest |-> NothingInstalled, pending |-> NothingDone,
   root |-> NextRun, attempt |-> 0, retryGen |-> 0, retryMutating |-> 0,
   retryState |-> <<NothingDone, NothingInstalled>>]

(* bindBackupPlan: what each change can be undone to. *)
Capture(rev, mode) ==
  LET touched == CASE mode = "install" -> Present(rev) [] mode = "upgrade" -> Changed(rev)
                   [] mode = "verify" -> {}
  IN [n \in Nodes |-> CASE n \notin touched -> <<>>
                        [] n \in touched /\ Target[rev][n] = Absent -> installed[n]
                        [] n \in touched /\ Target[rev][n] # Absent ->
                             <<[rel |-> Target[rev][n], run |-> NextRun]>> \o installed[n]]

PrepareScenario(rev, kind, mode) ==
  /\ Preparing
  /\ IF mode = "verify" THEN kind = "scenario" ELSE kind = "scenario" <=> rev \in Released
  /\ mode = "install" => /\ installed = NothingInstalled
                         /\ baseline.gen = 0 /\ Pending = {}
  /\ mode # "install" => /\ baseline.run # 0
                         /\ baseline.rev = IF mode = "verify" THEN rev ELSE Source[rev]
                         /\ runs[baseline.run].status = "succeeded"
                         /\ runs[baseline.run].rev = baseline.rev
                         /\ InstalledIs(baseline.rev)
  /\ mode = "upgrade" => /\ baseline.state = "complete" /\ ~baseline.test
                         /\ baseline.digest = installed
                         /\ FormalRun(baseline.run, Source[rev])
                         /\ \A n \in Changed(rev) \cap Pending : Target[rev][n] = Absent \/ Recovered(n)
  /\ mode = "verify" => Pending \subseteq Present(rev)
  /\ Planned([NewRun(kind, mode, rev, ScenarioPlan(rev, mode), Capture(rev, mode)) EXCEPT
                !.gen = baseline.gen, !.base = baseline.run, !.digest = installed,
                !.pending = IF mode = "verify" THEN PendingReceipts ELSE @])

(* validateRetryRecoveryIdentity: what the retry would change was last     *)
(* changed by its own chain, or not since the chain began.                 *)
RecoveryIdentity(r) ==
  \A n \in {m \in Nodes : r.backups[m] # <<>> /\ receipts[m].status # "none"} :
    LET receipt == receipts[n] IN
    \/ Root(receipt.run) = r.root /\ receipt.backup = r.backups[n]
    \/ /\ receipt.status = "verified" /\ receipt.seq < r.root
       /\ receipt.backup \in {r.backups[n], Tail(r.backups[n])}

PrepareRetry(x) ==
  LET r == runs[x]
      retry == [r EXCEPT !.status = "queued", !.plan = Continuation(r, r.done + 1), !.done = 0,
                         !.attempt = @ + 1, !.retryState = <<receipts, installed>>,
                         !.retryGen = IF Lifecycle(r) THEN baseline.gen ELSE 0,
                         !.retryMutating = IF Lifecycle(r) THEN baseline.mutating ELSE 0]
  IN /\ Preparing
     /\ r.status \in {"failed", "interrupted"} /\ r.done < Len(r.plan)
     /\ \A y \in RunIds : Root(y) = r.root => runs[y].attempt <= r.attempt
     /\ RecoveryIdentity(r)
     /\ r.kind = "reset" => ResetCovers(retry)
     /\ Planned(retry)

PrepareReset ==
  LET rows == RecoveryBaselines
      cover == {n \in Nodes : rows[n] # <<>>}
  IN /\ Preparing /\ Active = {} /\ cover # {}
     /\ \A n \in cover : Len(rows[n]) = 1 /\ runs[Head(rows[n]).run].mode # "upgrade"
     /\ Planned(NewRun("reset", "none", NoRevision, Changes(Reverse(SelectNodes(cover))), rows))

(* Rollback of one pending operation. *)
PrepareRollback(n) ==
  /\ Preparing
  /\ n \in Pending /\ receipts[n].run \notin Active
  /\ Planned(NewRun("rollback", "none", NoRevision, Changes(<<n>>),
                    [m \in Nodes |-> IF m = n THEN receipts[n].backup ELSE <<>>]))

(* CreateRun and the rollback fence of the schema. *)
Accepted(r) ==
  /\ RetryHolds(r, NextRun)
  /\ IF r.kind = "reset" THEN Active = {} ELSE \A y \in Active : runs[y].kind # "reset"
  /\ Lifecycle(r) => ScenarioHolds(r) /\ \A y \in Active : runs[y].rev # r.rev

CreateRun ==
  /\ prepared # None /\ Accepted(prepared) /\ Cardinality(Queued) < MaxPending
  /\ runs' = Append(runs, prepared)
  /\ prepared' = None
  /\ UNCHANGED <<baseline, hostVars, exec, faults>>

RefuseRun ==
  /\ prepared # None /\ ~Accepted(prepared)
  /\ prepared' = None
  /\ UNCHANGED <<runs, baseline, hostVars, exec, faults>>

CancelQueued(x) ==
  /\ runs[x].status = "queued"
  /\ runs' = [runs EXCEPT ![x].status = "cancelled"]
  /\ UNCHANGED <<baseline, hostVars, exec, prepared, faults>>
-----------------------------------------------------------------------------
(* Execution of the run at the head of the queue *)

Cur == runs[exec.run]
CurStep == Cur.plan[Cur.done + 1]
AtStep(stages) == exec.pc = "next" /\ Cur.done < Len(Cur.plan) /\ CurStep.stage \in stages
Goto(pc) == exec' = [exec EXCEPT !.pc = pc]
FailWith(cause) == exec' = [exec EXCEPT !.pc = "failing", !.cause = cause]
Complete == runs' = [runs EXCEPT ![exec.run].done = @ + 1]

StartRun(x) ==
  /\ exec = NoExec
  /\ x \in Queued /\ \A y \in Queued : x <= y
  /\ runs' = [runs EXCEPT ![x].status = "running"]
  /\ exec' = [run |-> x, pc |-> "validate", cause |-> "none"]
  /\ UNCHANGED <<baseline, hostVars, prepared, faults>>

Validate ==
  /\ exec.pc = "validate"
  /\ IF /\ Lifecycle(Cur) => ScenarioHolds(Cur)
        /\ RetryHolds(Cur, exec.run) /\ RollbackHolds(Cur)
     THEN Goto("next") ELSE FailWith("conflict")
  /\ UNCHANGED <<runs, baseline, hostVars, prepared, faults>>

\* Mutant: only a first change of the environment is marked.
MarkFirstMutation ==
  /\ exec.run # 0 /\ AtStep(IF Cur.rev \in Intrusive THEN {"execute", "acceptance"} ELSE {"execute"})
  /\ baseline' = IF baseline.gen = 0 /\ Lifecycle(Cur)
                 THEN [baseline EXCEPT !.state = "partial", !.mutating = exec.run, !.gen = 1,
                                       !.test = Cur.kind = "test"]
                 ELSE baseline
  /\ Goto("marked")
  /\ UNCHANGED <<runs, hostVars, prepared, faults>>

(* MarkScenarioMutation, before anything that may change the hosts. *)
MarkMutation ==
  /\ exec.run # 0 /\ AtStep(IF Cur.rev \in Intrusive THEN {"execute", "acceptance"} ELSE {"execute"})
  /\ IF ~Lifecycle(Cur) \/ baseline.mutating = exec.run
     THEN Goto("marked") /\ UNCHANGED baseline
     ELSE IF baseline.gen # ExpectedGeneration(Cur)
     THEN FailWith("conflict") /\ UNCHANGED baseline
     ELSE /\ baseline' = [baseline EXCEPT
               !.state = "partial", !.mutating = exec.run, !.gen = @ + 1,
               !.test = IF baseline.gen = 0 THEN Cur.kind = "test" ELSE @]
          /\ Goto("marked")
  /\ UNCHANGED <<runs, hostVars, prepared, faults>>

RecordReceipt(n, status) ==
  receipts' = [receipts EXCEPT ![n] =
    [run |-> exec.run, status |-> status, backup |-> Cur.backups[n],
     seq |-> Len(runs) + IF prepared = None THEN 0 ELSE 1]]

BeginExecute ==
  /\ exec.pc = "marked" /\ CurStep.stage = "execute"
  /\ RecordReceipt(CurStep.node, "started")
  /\ Goto("acting")
  /\ UNCHANGED <<runs, baseline, installed, actual, prepared, faults>>

(* The job changes the host: not at all, halfway, or as it should. *)
Act ==
  /\ exec.pc = "acting"
  /\ \E result \in {actual[CurStep.node], Broken, Effect(Cur, CurStep.node)} :
       /\ actual' = [actual EXCEPT ![CurStep.node] = result]
       /\ IF result = Effect(Cur, CurStep.node) THEN Goto("acted") ELSE FailWith("job")
  /\ UNCHANGED <<runs, baseline, installed, receipts, prepared, faults>>

EndExecute ==
  /\ exec.pc = "acted"
  /\ RecordReceipt(CurStep.node, "main_succeeded")
  /\ Goto("ended")
  /\ UNCHANGED <<runs, baseline, installed, actual, prepared, faults>>

(* A check tells the truth when it succeeds, and may fail for any reason. *)
Check ==
  /\ AtStep({"source", "target", "post"})
  /\ \/ /\ actual[CurStep.node] = Expected(Cur, CurStep)
        /\ IF CurStep.stage = "post" /\ ~CurStep.again
           THEN Goto("checked") /\ UNCHANGED runs
           ELSE Complete /\ UNCHANGED exec
     \/ FailWith("check") /\ UNCHANGED runs
  /\ UNCHANGED <<baseline, hostVars, prepared, faults>>

Acceptance ==
  /\ exec.run # 0
  /\ IF Cur.rev \in Intrusive THEN exec.pc = "marked" /\ CurStep.stage = "acceptance"
                              ELSE AtStep({"acceptance"})
  /\ \/ Complete /\ Goto("next")
     \/ FailWith("check") /\ UNCHANGED runs
  /\ UNCHANGED <<baseline, hostVars, prepared, faults>>

(* recordSuccessfulLifecycleStep.  The row below a restored one is deleted *)
(* and written in two statements, the second of which may not happen.      *)
Superseded(n) ==
  Teardown(Cur, n) /\ installed[n] \notin {<<>>, Cur.backups[n], Tail(Cur.backups[n])}
RowRemoved(n) == IF installed[n] = Cur.backups[n] THEN <<>> ELSE installed[n]
\* Mutant: the row of what was torn down stays where there is none below.
RowLeft(n) ==
  IF Teardown(Cur, n) /\ Tail(Cur.backups[n]) # <<>> THEN Tail(Cur.backups[n]) ELSE Cur.backups[n]

RowRecorded(n) ==
  CASE ~Teardown(Cur, n) -> Cur.backups[n]
    [] Teardown(Cur, n) /\ ~Lifecycle(Cur) /\ Tail(Cur.backups[n]) # <<>> -> Tail(Cur.backups[n])
    [] OTHER -> RowRemoved(n)

RecordInstallation ==
  LET n == CurStep.node
  IN /\ exec.pc = "checked"
     /\ \/ Superseded(n) /\ FailWith("conflict") /\ UNCHANGED installed
        \/ /\ ~Superseded(n) /\ Goto("recorded")
           /\ installed' = [installed EXCEPT ![n] = RowRecorded(n)]
        \/ /\ ~Superseded(n) /\ Teardown(Cur, n) /\ FailWith("abort")
           /\ installed' = [installed EXCEPT ![n] = RowRemoved(n)]
     /\ UNCHANGED <<runs, baseline, receipts, actual, prepared, faults>>

VerifyReceipt ==
  /\ exec.pc = "recorded"
  /\ RecordReceipt(CurStep.node, "verified")
  /\ Goto("ended")
  /\ UNCHANGED <<runs, baseline, installed, actual, prepared, faults>>

CompleteStep ==
  /\ exec.pc = "ended"
  /\ Complete /\ Goto("next")
  /\ UNCHANGED <<baseline, hostVars, prepared, faults>>

(* A step fails for any other reason, or the run is cancelled. *)
Abort ==
  /\ exec.pc \notin {"idle", "failing", "report"}
  /\ FailWith("abort")
  /\ UNCHANGED <<runs, baseline, hostVars, prepared, faults>>

(* finishScenarioLifecycleTx and validateEnvironmentReset, at the end *)
FinishHolds(x) ==
  LET r == runs[x] IN
  /\ Lifecycle(r) => /\ Evidence(x) /\ Present(r.rev) # {} /\ InstalledIs(r.rev)
                     /\ baseline.mutating = x \/ baseline.gen = ExpectedGeneration(r)
  /\ r.mode = "verify" => ReceiptsCovered(r)
  /\ r.kind = "reset" => RecoveryBaselines = NothingInstalled

\* Mutant: a verification replaces the run that installed the baseline.
BaselineOfVerifier(x) ==
  LET r == runs[x]
      test == IF r.mode = "verify" THEN baseline.test ELSE r.kind = "test"
  IN [gen |-> baseline.gen + 1, rev |-> r.rev, run |-> x, mutating |-> 0,
      state |-> IF test THEN "test" ELSE "complete", test |-> test, digest |-> installed,
      verifier |-> IF r.mode = "verify" THEN x ELSE 0]

BaselineOf(x) ==
  LET r == runs[x]
      verify == r.mode = "verify"
      test == IF verify THEN baseline.test ELSE r.kind = "test"
  IN [gen |-> baseline.gen + 1, rev |-> r.rev, run |-> IF verify THEN baseline.run ELSE x,
      mutating |-> 0, state |-> IF test THEN "test" ELSE "complete", test |-> test,
      digest |-> installed, verifier |-> IF verify THEN x ELSE 0]

Finish ==
  LET x == exec.run IN
  /\ exec.pc = "next" /\ Cur.done = Len(Cur.plan)
  /\ IF FinishHolds(x)
     THEN /\ runs' = [runs EXCEPT ![x].status = "succeeded"]
          /\ baseline' = CASE Lifecycle(Cur) -> BaselineOf(x)
                           [] Cur.kind = "reset" -> NoBaseline
                           [] Cur.kind = "rollback" -> baseline
          /\ exec' = NoExec
     ELSE FailWith("conflict") /\ UNCHANGED <<runs, baseline>>
  /\ UNCHANGED <<hostVars, prepared, faults>>

(* finishRun: the status is one statement, the withdrawal of the baseline  *)
(* another, whose failure nobody notices.                                  *)
FinishFailed(status) ==
  /\ exec.pc = "failing"
  /\ status = "cancelled" => exec.cause = "abort"
  /\ runs' = [runs EXCEPT ![exec.run].status = status]
  /\ Goto("report")
  /\ UNCHANGED <<baseline, hostVars, prepared, faults>>

MarkBaselineUnverified ==
  /\ exec.pc = "report"
  /\ baseline' = IF Lifecycle(Cur) /\ baseline.gen # 0 /\ baseline.gen = Cur.gen /\ baseline.mutating = 0
                 THEN [baseline EXCEPT !.state = "unverified", !.gen = @ + 1]
                 ELSE baseline
  /\ exec' = NoExec
  /\ UNCHANGED <<runs, hostVars, prepared, faults>>

MarkBaselineLost ==
  /\ exec.pc = "report" /\ faults < MaxFaults
  /\ faults' = faults + 1
  /\ exec' = NoExec
  /\ UNCHANGED <<runs, baseline, hostVars, prepared>>

(* The server dies and starts again: MarkRunningInterrupted. *)
Crash ==
  /\ faults < MaxFaults
  /\ faults' = faults + 1
  /\ exec # NoExec \/ prepared # None
  /\ LET running == {x \in RunIds : runs[x].status = "running"}
     IN /\ runs' = [x \in RunIds |-> IF x \in running THEN [runs[x] EXCEPT !.status = "interrupted"]
                                                      ELSE runs[x]]
        /\ baseline' = IF Advertised /\ \E x \in running : Lifecycle(runs[x])
                       THEN [baseline EXCEPT !.state = "unverified", !.gen = @ + 1]
                       ELSE baseline
  /\ exec' = NoExec /\ prepared' = None
  /\ UNCHANGED hostVars

Plan ==
  \/ \E rev \in Revisions, kind \in {"scenario", "test"}, mode \in {"install", "upgrade", "verify"} :
       PrepareScenario(rev, kind, mode)
  \/ \E x \in RunIds : PrepareRetry(x)
  \/ PrepareReset
  \/ \E n \in Nodes : PrepareRollback(n)

Next ==
  \/ Plan \/ CreateRun \/ RefuseRun
  \/ \E x \in RunIds : CancelQueued(x) \/ StartRun(x)
  \/ Validate \/ MarkMutation \/ BeginExecute \/ Act \/ EndExecute \/ Check \/ Acceptance
  \/ RecordInstallation \/ VerifyReceipt \/ CompleteStep \/ Abort \/ Finish
  \/ \E status \in {"failed", "cancelled"} : FinishFailed(status)
  \/ MarkBaselineUnverified \/ MarkBaselineLost \/ Crash

Spec == Init /\ [][Next]_vars
-----------------------------------------------------------------------------
(* Types, and that exactly the run in execution is recorded as running.    *)
TypeOK ==
  /\ baseline.gen \in Nat /\ baseline.rev \in Revisions \cup {NoRevision}
  /\ {baseline.run, baseline.mutating, baseline.verifier} \subseteq 0..Len(runs)
  /\ baseline.state \in {"none", "partial", "unverified", "complete", "test"}
  /\ \A n \in Nodes : /\ ReleaseOf(installed[n]) \in Releases \cup {Absent}
                      /\ actual[n] \in Releases \cup {Absent, Broken}
                      /\ receipts[n].status \in {"none", "started", "main_succeeded", "verified"}
  /\ faults \in 0..MaxFaults /\ Len(runs) <= MaxRuns
  /\ \A x \in RunIds : /\ runs[x].done \in 0..Len(runs[x].plan)
                       /\ runs[x].status = "running" <=> exec.run = x /\ exec.pc # "report"

(* An environment advertised as installed really holds the advertised      *)
(* revision, unless a reset or a rollback, which do not touch the baseline *)
(* until they succeed, was the last to change the node.                    *)
AdvertisedIsReal ==
  Advertised => \A n \in Nodes :
    \/ actual[n] = Target[baseline.rev][n]
    \/ receipts[n].status # "none" /\ ~Lifecycle(runs[receipts[n].run])

(* Where no operation is pending, the installation row tells what the host *)
(* really holds, whoever changed it last.                                  *)
VerifiedRowIsReal ==
  \A n \in Nodes \ Pending : actual[n] = ReleaseOf(installed[n])

(* The baseline names the run that installed it: a succeeded installation  *)
(* or upgrade with evidence for every stage of its chain, formal exactly   *)
(* when the baseline is, however often it was verified again.              *)
BaselineHasEvidence ==
  baseline.run # 0 =>
    LET r == runs[baseline.run] IN
    /\ r.status = "succeeded" /\ r.mode \in {"install", "upgrade"} /\ Evidence(baseline.run)
    /\ Advertised => /\ baseline.test = (r.kind = "test")
                     /\ baseline.state = IF r.kind = "test" THEN "test" ELSE "complete"

(* The run a baseline names has installed the revision it names.  A retry   *)
(* of a verification asks for the generation and the chain that changed     *)
(* the environment, not for the baseline: it writes its revision over one   *)
(* that has replaced it since, where both have the same releases.           *)
BaselineNamesItsRun == baseline.run # 0 => runs[baseline.run].rev = baseline.rev

(* The first change of an upgrade finds every host in the release of the   *)
(* source revision, a node the source does not have among them             *)
(* (docs/platform-capabilities.md, docs/platform-manual.md).  The source   *)
(* checks of its plan do not cover such a node, and the continuation of an *)
(* old installation does not ask what other runs have left pending there.  *)
UpgradeStartsFromSource ==
  [][\A x \in RunIds :
       /\ runs[x].mode = "upgrade" /\ runs[x].attempt = 0
       /\ baseline.mutating # x /\ baseline'.mutating = x
       => actual = Target[Source[runs[x].rev]]]_vars

(* A half-changed environment is changed on only by the chain of attempts  *)
(* that has begun, by a verification, or by what restores it.              *)
PartialStaysInChain ==
  [][baseline.mutating # 0 /\ baseline'.mutating \notin {0, baseline.mutating} =>
       \/ Root(baseline'.mutating) = Root(baseline.mutating)
       \/ runs[baseline'.mutating].mode = "verify"]_vars

(* A reset that succeeds leaves nothing on any host. *)
ResetLeavesNothing ==
  [][\A x \in RunIds : runs[x].kind = "reset" /\ runs'[x].status # runs[x].status
       /\ runs'[x].status = "succeeded" => \A n \in Nodes : actual[n] = Absent]_vars

(* After a failed check the environment is not advertised any more, once   *)
(* the end of the run has been recorded                                    *)
(* (service/scenario_media_delivery_test.go).  A continued run is compared *)
(* with the generation its first attempt was planned on.                   *)
FailedCheckWithdraws ==
  [][exec.pc = "report" /\ exec.cause = "check" /\ exec' = NoExec /\ faults' = faults
       /\ Lifecycle(Cur) => baseline'.state \notin {"complete", "test"}]_vars

(* A check that a continuation repeats asks for what the finished steps of *)
(* the chain have made of the node.                                        *)
ReplayedChecksAreCurrent ==
  \A x \in RunIds : \A i \in 1..Len(runs[x].plan) :
    runs[x].plan[i].again => Expected(runs[x], runs[x].plan[i]) = Effect(runs[x], runs[x].plan[i].node)
=============================================================================

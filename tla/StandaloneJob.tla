--------------------------- MODULE StandaloneJob ---------------------------
(***************************************************************************)
(* A sealed Ansible job run from its package by internal/jobcli under the  *)
(* controller of internal/ansible/job_runner.go.                           *)
(*                                                                         *)
(* The job installs the component instances 1..Instances in dependency     *)
(* order, each as a precheck, a body and a postcheck, and carries the      *)
(* recovery stages that undo them in reverse order.  ansible-playbook      *)
(* walks the stages and asks the controller to begin and to end each one;  *)
(* the controller answers only after the receipt is on disk.  The receipt  *)
(* is what resume and rollback plan from, so it has to survive a killed    *)
(* controller, a failed write and several attempts.  The operator may      *)
(* preview, resume and roll back at any time; a lock on the results        *)
(* directory admits one controller, but it does not cover the process      *)
(* group that a killed controller leaves behind.                           *)
(***************************************************************************)
EXTENDS Integers, SequencesExt, FiniteSetsExt

CONSTANTS
    Instances,      \* number of component instances of the job
    MaxAttempts,    \* bound: executions begun from one results directory
    MaxKills,       \* bound: controllers killed
    MaxLostWrites   \* bound: receipt writes that fail

ASSUME JobAssumption == {Instances, MaxAttempts, MaxKills, MaxLostWrites} \subseteq Nat

VARIABLES
    retrySafe,      \* bodies locked as safe to run again
    receipt,        \* receipt.json, or NoReceipt
    controller,     \* the running controller, or NoController
    orphan,         \* body an abandoned Ansible group still works on, or NoStage
    target,         \* what the target hosts hold of each instance
    begun,          \* how often the work of each body was started
    previewed,      \* stages of the last rollback preview
    overlapped,     \* a controller started while an orphan was alive
    attempts,
    kills,
    lostWrites

jobVars == <<retrySafe, receipt, controller, orphan, target, begun, previewed,
             overlapped, attempts, kills, lostWrites>>

-----------------------------------------------------------------------------
(* Stages and plans *)

Nodes == 1..Instances
Body == [node: Nodes, undo: BOOLEAN]
Stage == [node: Nodes, undo: BOOLEAN, phase: {"pre", "execute", "post", "check"}]

NoReceipt == [op |-> "none"]
NoController == [steps |-> <<>>]
NoStage == [node |-> 0]

StageOf(n, u, p) == [node |-> n, undo |-> u, phase |-> p]
BodyOf(s) == [node |-> s.node, undo |-> s.undo]
MainOf(n) == [node |-> n, undo |-> FALSE]

Phases == <<"pre", "execute", "post">>

\* Installation expands every action to precheck, body and postcheck.
OriginalSteps ==
    [i \in 1..3 * Instances |-> StageOf((i + 2) \div 3, FALSE, Phases[((i - 1) % 3) + 1])]

\* Recovery stages have no precheck and run in reverse order.
RecoverySteps ==
    [i \in 1..2 * Instances |-> StageOf(Instances - (i - 1) \div 2, TRUE, Phases[((i - 1) % 2) + 2])]

\* The stages at some positions of a plan, in its order.
Nth(I, k) == CHOOSE i \in I : Cardinality({j \in I : j <= i}) = k
StagesAt(steps, I) == [k \in 1..Cardinality(I) |-> steps[Nth(I, k)]]

Succeeded(results, s) == s \in DOMAIN results /\ results[s] = "succeeded"

\* The results with that of one more stage.
With(results, s, result) ==
    [x \in DOMAIN results \cup {s} |-> IF x = s THEN result ELSE results[x]]

AllStagesSucceeded(steps, results) ==
    Len(steps) > 0 /\ \A i \in DOMAIN steps : Succeeded(results, steps[i])

-----------------------------------------------------------------------------
(* Recovery planning, shared by the platform, this launcher and the native *)
(* controller.                                                             *)

Incomplete(steps, results) == {i \in DOMAIN steps : ~Succeeded(results, steps[i])}

\* Mutant: any incomplete job is retried.
RetryAnything(steps, results) == Incomplete(steps, results) # {}

\* A body restarts from its precheck, and only if it is safe to repeat.
RetryAllowed(steps, results) ==
    /\ Incomplete(steps, results) # {}
    /\ LET s == steps[Min(Incomplete(steps, results))] IN
         s.phase = "execute" => BodyOf(s) \in retrySafe

RetryStart(steps, results) ==
    LET i == Min(Incomplete(steps, results)) IN
    IF steps[i].phase = "execute" /\ i > 1
       /\ steps[i - 1] = StageOf(steps[i].node, steps[i].undo, "pre")
    THEN i - 1 ELSE i

\* The last check of every completed instance is run again first, except the
\* checks of a teardown, whose providers may be gone by now.
Continuation(steps, start) ==
    LET done == SubSeq(steps, 1, start - 1)
        rest == SubSeq(steps, start, Len(steps))
        Pending == {s.node : s \in ToSet(rest)}
        Checks(n) == {i \in DOMAIN done : done[i].node = n /\ ~done[i].undo
                                          /\ done[i].phase \in {"post", "check"}}
        Refreshed(i) == /\ done[i].node \notin Pending
                        /\ Checks(done[i].node) # {}
                        /\ i = Max(Checks(done[i].node))
        kept == StagesAt(done, {i \in DOMAIN done : Refreshed(i)})
    IN  [i \in DOMAIN kept |-> [kept[i] EXCEPT !.phase = "check"]] \o rest

RetryStages(steps, results) == Continuation(steps, RetryStart(steps, results))

Touched == {"started", "main_succeeded", "verified"}

TouchedStages(actions) ==
    StagesAt(RecoverySteps,
             {i \in DOMAIN RecoverySteps : actions[MainOf(RecoverySteps[i].node)] \in Touched})

\* The operator may name a prefix of the reverse order.
SelectionAllowed(stages, nodes) ==
    \A i, j \in DOMAIN stages : i < j /\ stages[j].node \in nodes => stages[i].node \in nodes

SelectRollbackStages(stages, nodes) ==
    StagesAt(stages, {i \in DOMAIN stages : stages[i].node \in nodes})

\* A rollback that has started is finished by resuming it.
RollbackOpen == receipt.op = "rollback" /\ ~AllStagesSucceeded(receipt.steps, receipt.results)

RollbackPlans ==
    LET stages == TouchedStages(receipt.actions) IN
    {SelectRollbackStages(stages, nodes) :
        nodes \in {S \in SUBSET {s.node : s \in ToSet(stages)} : S # {} /\ SelectionAllowed(stages, S)}}

-----------------------------------------------------------------------------
(* Receipts *)

\* Mutant: an action is recorded when its body has succeeded, not when it begins.
ActionReceiptAtEnd(actions, boundary, s) ==
    IF s.phase = "execute" /\ boundary = "end"
    THEN [actions EXCEPT ![BodyOf(s)] = "main_succeeded"]
    ELSE IF s.phase = "post" /\ boundary = "end" /\ s.undo
    THEN [actions EXCEPT ![MainOf(s.node)] = "rolled_back"] ELSE actions

\* updateActionReceipt: only acknowledged boundaries move an action, and the
\* postcheck of a recovery marks the action it undoes.
ActionReceipt(actions, boundary, s) ==
    CASE s.phase = "execute" ->
            [actions EXCEPT ![BodyOf(s)] = IF boundary = "end" THEN "main_succeeded" ELSE "started"]
      [] s.phase = "post" /\ boundary = "end" ->
            IF s.undo
            THEN [actions EXCEPT ![BodyOf(s)] = "verified", ![MainOf(s.node)] = "rolled_back"]
            ELSE [actions EXCEPT ![BodyOf(s)] = "verified"]
      [] OTHER -> actions

ReceiptOf(c) == [op |-> c.op, steps |-> c.steps, results |-> c.results, actions |-> c.actions,
                 history |-> c.history]

\* The stages that a receipt acknowledges as done, in its own plan or in the
\* attempts of its history.
Acknowledged(r) == r.history \cup {s \in DOMAIN r.results : r.results[s] = "succeeded"}

\* writeReceipt replaces the receipt by a rename.  A write that is lost fails
\* before the rename, or after it on the sync of the directory: either receipt
\* may be on disk.
WriteLost(r) ==
    /\ lostWrites < MaxLostWrites
    /\ lostWrites' = lostWrites + 1
    /\ receipt' \in {receipt, r}

\* The controller goes on as `c` behind a durable receipt; when the write is
\* lost it fails as `left`.
Persist(c, left) ==
    \/ receipt' = ReceiptOf(c) /\ controller' = c /\ UNCHANGED lostWrites
    \/ WriteLost(ReceiptOf(c)) /\ controller' = [left EXCEPT !.failed = TRUE]

-----------------------------------------------------------------------------
(* Operations of the launcher *)

\* One controller at a time: the lock on the results directory is released
\* when its process is gone.  The attempt is on disk before anything runs, the
\* results of the one before in its history.
Launch(op, steps, actions) ==
    LET c == [op |-> op, steps |-> steps, results |-> <<>>, actions |-> actions,
              history |-> IF receipt = NoReceipt THEN {} ELSE Acknowledged(receipt),
              next |-> 1, active |-> FALSE, seen |-> "none", failed |-> FALSE]
    IN  /\ controller = NoController
        /\ attempts < MaxAttempts
        /\ attempts' = attempts + 1
        /\ \/ receipt' = ReceiptOf(c) /\ controller' = c /\ UNCHANGED lostWrites
           \/ WriteLost(ReceiptOf(c)) /\ UNCHANGED controller
        /\ overlapped' = (overlapped \/ orphan # NoStage)
        /\ UNCHANGED <<retrySafe, orphan, target, begun, previewed, kills>>

RunJob ==
    /\ receipt = NoReceipt
    /\ Launch("run", OriginalSteps, [b \in Body |-> "none"])

ResumeJob ==
    /\ receipt # NoReceipt
    /\ RetryAllowed(receipt.steps, receipt.results)
    /\ Launch(receipt.op, RetryStages(receipt.steps, receipt.results), receipt.actions)

\* Takes no lock.
PreviewRollback ==
    /\ receipt # NoReceipt /\ ~RollbackOpen
    /\ previewed' \in RollbackPlans
    /\ UNCHANGED <<retrySafe, receipt, controller, orphan, target, begun, overlapped,
                   attempts, kills, lostWrites>>

\* The digest of the plan has to be the one the preview returned.
RollbackJob ==
    /\ receipt # NoReceipt /\ ~RollbackOpen
    /\ previewed \in RollbackPlans
    /\ Launch("rollback", previewed, receipt.actions)

-----------------------------------------------------------------------------
(* The controller and the playbook it gates *)

Serving == controller # NoController /\ ~controller.failed
Stages == controller.steps
Current == Stages[controller.next]

\* handle "begin": the result and the receipt are on disk before the gate opens.
BeginStage ==
    /\ Serving /\ ~controller.active /\ controller.next <= Len(Stages)
    /\ LET c == [controller EXCEPT
                    !.results = With(@, Current, "running"),
                    !.actions = ActionReceipt(@, "begin", Current),
                    !.active = TRUE, !.seen = "none"]
       IN  Persist(c, c)
    /\ UNCHANGED <<retrySafe, orphan, target, begun, previewed, overlapped, attempts, kills>>

\* The playbook starts the tasks of an opened stage; a body touches its target.
StageStarts ==
    /\ Serving /\ controller.active /\ controller.seen = "none"
    /\ controller' = [controller EXCEPT !.seen = "working"]
    /\ IF Current.phase = "execute"
       THEN /\ begun' = [begun EXCEPT ![BodyOf(Current)] = @ + 1]
            /\ target' = [target EXCEPT ![Current.node] = "partial"]
       ELSE UNCHANGED <<begun, target>>
    /\ UNCHANGED <<retrySafe, receipt, orphan, previewed, overlapped, attempts, kills, lostWrites>>

Outcome(s) == IF s.undo THEN "clean" ELSE "installed"

\* The results of the tasks reach the controller in order.  A check may pass
\* only when its instance is in the state that it verifies.
StageReports(seen) ==
    /\ Serving /\ controller.active /\ controller.seen = "working"
    /\ seen = "ok" /\ Current.phase \in {"post", "check"} => target[Current.node] = Outcome(Current)
    /\ controller' = [controller EXCEPT !.seen = seen]
    /\ target' = IF Current.phase = "execute" /\ seen = "ok"
                 THEN [target EXCEPT ![Current.node] = Outcome(Current)] ELSE target
    /\ UNCHANGED <<retrySafe, receipt, orphan, begun, previewed, overlapped, attempts, kills, lostWrites>>

\* handle "end": a stage with a failed host, or whose success cannot be
\* recorded, does not let the next one begin.  When the write is lost the
\* receipt in memory already names the action as done, but the controller
\* returns before its own result, stage and position move on.
EndStage ==
    /\ Serving /\ controller.active /\ controller.seen \in {"ok", "failed"}
    /\ IF controller.seen = "failed"
       THEN controller' = [controller EXCEPT !.failed = TRUE] /\ UNCHANGED <<receipt, lostWrites>>
       ELSE LET left == [controller EXCEPT !.actions = ActionReceipt(@, "end", Current)]
            IN  Persist([left EXCEPT !.results = With(@, Current, "succeeded"),
                                     !.active = FALSE, !.next = @ + 1],
                        left)
    /\ UNCHANGED <<retrySafe, orphan, target, begun, previewed, overlapped, attempts, kills>>

\* Preflight errors, a stage deadline, an interrupt or a lost log write.  The
\* deadline may fire while the end of a stage is being recorded.
JobFails ==
    /\ Serving
    /\ controller' = [controller EXCEPT !.failed = TRUE]
    /\ UNCHANGED <<retrySafe, receipt, orphan, target, begun, previewed, overlapped,
                   attempts, kills, lostWrites>>

\* RunBundle returns once the process group is dead; an active stage is failed.
FinalResults ==
    IF controller.active THEN With(controller.results, Current, "failed") ELSE controller.results

JobReturns ==
    /\ controller # NoController
    /\ controller.failed \/ controller.next > Len(Stages)
    /\ LET r == [ReceiptOf(controller) EXCEPT !.results = FinalResults] IN
       \/ receipt' = r /\ UNCHANGED lostWrites
       \/ WriteLost(r)
    /\ controller' = NoController
    /\ UNCHANGED <<retrySafe, orphan, target, begun, previewed, overlapped, attempts, kills>>

\* The launcher is killed.  Its Ansible group lives on until the supervisor
\* finds the control socket gone; no gate opens for it any more.
KillLauncher ==
    /\ controller # NoController
    /\ kills < MaxKills
    /\ kills' = kills + 1
    /\ controller' = NoController
    /\ orphan' = IF controller.active /\ controller.seen = "working" /\ Current.phase = "execute"
                 THEN Current ELSE orphan
    /\ UNCHANGED <<retrySafe, receipt, target, begun, previewed, overlapped, attempts, lostWrites>>

\* Work that was already dispatched may still finish, or the group dies first.
OrphanEnds(finished) ==
    /\ orphan # NoStage
    /\ orphan' = NoStage
    /\ target' = IF finished THEN [target EXCEPT ![orphan.node] = Outcome(orphan)] ELSE target
    /\ UNCHANGED <<retrySafe, receipt, controller, begun, previewed, overlapped, attempts, kills, lostWrites>>

-----------------------------------------------------------------------------

JobInit ==
    /\ retrySafe \in SUBSET Body
    /\ receipt = NoReceipt
    /\ controller = NoController
    /\ orphan = NoStage
    /\ target = [n \in Nodes |-> "clean"]
    /\ begun = [b \in Body |-> 0]
    /\ previewed = <<>>
    /\ overlapped = FALSE
    /\ attempts = 0 /\ kills = 0 /\ lostWrites = 0

JobNext ==
    \/ RunJob \/ ResumeJob \/ PreviewRollback \/ RollbackJob
    \/ BeginStage \/ StageStarts \/ EndStage \/ JobFails \/ JobReturns
    \/ \E seen \in {"ok", "failed"} : StageReports(seen)
    \/ KillLauncher
    \/ \E finished \in BOOLEAN : OrphanEnds(finished)

JobSpec == JobInit /\ [][JobNext]_jobVars

Statuses == {"none", "started", "main_succeeded", "verified", "rolled_back"}

JobTypeOK ==
    /\ retrySafe \subseteq Body
    /\ receipt # NoReceipt =>
         /\ receipt.op \in {"run", "rollback"}
         /\ receipt.steps \in Seq(Stage)
         /\ DOMAIN receipt.results \subseteq ToSet(receipt.steps)
         /\ receipt.actions \in [Body -> Statuses]
         /\ receipt.history \subseteq Stage
    /\ controller # NoController =>
         /\ controller.next \in 1..Len(controller.steps) + 1
         /\ controller.active => controller.next <= Len(controller.steps)
         /\ controller.seen \in {"none", "working", "ok", "failed"}
    /\ orphan \in Stage \cup {NoStage}
    /\ target \in [Nodes -> {"clean", "partial", "installed"}]
    /\ begun \in [Body -> Nat]
    /\ previewed \in Seq(Stage)
    /\ {overlapped} \subseteq BOOLEAN
    /\ attempts \in 0..MaxAttempts /\ kills \in 0..MaxKills /\ lostWrites \in 0..MaxLostWrites

-----------------------------------------------------------------------------
(* Properties *)

\* Whatever was killed or could not be written, the receipt on disk names every
\* instance that was touched and is not undone, so that a rollback reaches it:
\* the gate opens only after the receipt is durable (job_runner.go handle).
\* Work an orphan does behind a controller started too early is excluded: the
\* lock cannot see it.
ReceiptKnowsTarget ==
    ~overlapped =>
        \A n \in Nodes : target[n] # "clean" =>
            receipt # NoReceipt /\ receipt.actions[MainOf(n)] \in Touched

\* Over all attempts, a body runs again only if it is safe to repeat and no
\* attempt has acknowledged its success (retry and continuation in
\* cf_recovery.py).
RepeatsOnlySafe ==
    \A b \in Body : begun[b] > 0 /\ begun'[b] > begun[b] =>
        /\ b \in retrySafe
        /\ \A s \in Acknowledged(receipt) : s.phase = "execute" => BodyOf(s) # b

\* An instance is undone only after every later instance that was touched has
\* been undone and verified, across scoped and resumed rollbacks
\* (SelectRollbackStages).
UndoesInReverse ==
    \A n, m \in Nodes :
        LET undo == [node |-> n, undo |-> TRUE] IN
        begun'[undo] > begun[undo] /\ m > n => receipt.actions[MainOf(m)] \in {"none", "rolled_back"}

\* Whatever was interrupted before, no attempt repeats a body that is done or
\* unsafe, and no attempt undoes an instance others still rest on.
AttemptsAreSafe == [][RepeatsOnlySafe /\ UndoesInReverse]_jobVars

\* Stated by the launcher itself: a rollback that was started is to be continued
\* with resume ("rollback already started; use resume with its saved results").
\* Resume may refuse only a body whose work was begun.
StartedRollbackResumes ==
    receipt # NoReceipt /\ controller = NoController /\ RollbackOpen =>
        \/ RetryAllowed(receipt.steps, receipt.results)
        \/ begun[BodyOf(receipt.steps[Min(Incomplete(receipt.steps, receipt.results))])] > 0
=============================================================================

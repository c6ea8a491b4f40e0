---------------------------- MODULE BaselineProofs ----------------------------
(***************************************************************************)
(* Theorems about ScenarioBaseline, for any nodes and revisions, any number *)
(* of runs, crashes and lost updates.                                      *)
(***************************************************************************)
EXTENDS ScenarioBaseline, FiniteSetTheorems, SequenceTheorems, TLAPS

Rows == Seq([rel : Releases, run : Nat])
ReceiptRows == [run : Nat, status : {"none", "started", "main_succeeded", "verified"},
                backup : Rows, seq : Nat]
Steps == [stage : {"source", "execute", "post", "target", "acceptance"},
          node : Nodes \cup {NoNode}, again : BOOLEAN]
RunRecords ==
  [kind : {"scenario", "test", "reset", "rollback"},
   mode : {"install", "upgrade", "verify", "none"}, rev : Revisions \cup {NoRevision},
   status : {"queued", "running", "succeeded", "failed", "cancelled", "interrupted"},
   plan : Seq(Steps), done : Nat, backups : [Nodes -> Rows],
   gen : Nat, base : Nat, digest : [Nodes -> Rows], pending : [Nodes -> ReceiptRows],
   root : Nat, attempt : Nat, retryGen : Nat, retryMutating : Nat,
   retryState : [Nodes -> ReceiptRows] \X [Nodes -> Rows]]
BaselineRows == [gen : Nat, rev : Revisions \cup {NoRevision}, run : Nat, mutating : Nat,
                 state : {"none", "partial", "unverified", "complete", "test"},
                 test : BOOLEAN, digest : [Nodes -> Rows], verifier : Nat]
Working == {"next", "marked", "acting", "acted", "checked", "recorded", "ended"}
Execs == [run : Nat, pc : Working \cup {"validate", "failing", "report"},
          cause : {"none", "conflict", "job", "check", "abort"}]

RunsTyped ==
  /\ runs \in Seq(RunRecords) /\ Len(runs) <= MaxRuns
  /\ \A x \in RunIds : /\ runs[x].done \in 0..Len(runs[x].plan)
                       /\ runs[x].status = "queued" => runs[x].done = 0
HostsTyped ==
  /\ installed \in [Nodes -> Rows] /\ receipts \in [Nodes -> ReceiptRows]
  /\ actual \in [Nodes -> Releases \cup {Absent, Broken}]
BaselineTyped ==
  /\ baseline \in BaselineRows
  /\ {baseline.run, baseline.mutating, baseline.verifier} \subseteq 0..Len(runs)
ExecTyped ==
  /\ exec = NoExec \/ (exec \in Execs /\ exec.run \in RunIds)
  /\ \A x \in RunIds : runs[x].status = "running" <=> (exec.run = x /\ exec.pc # "report")
PreparedTyped ==
  prepared # None => /\ prepared \in RunRecords /\ prepared.status = "queued" /\ prepared.done = 0
                     /\ Len(runs) < MaxRuns
Typed == RunsTyped /\ HostsTyped /\ BaselineTyped /\ ExecTyped /\ PreparedTyped /\ faults \in 0..MaxFaults

\* What all attempts of a chain have in common.
Subject(r) == <<r.kind, r.mode, r.rev, r.backups, r.gen, r.base, r.digest, r.pending, r.root>>
\* What never changes of a run.
Locked(r) == <<Subject(r), r.plan, r.attempt, r.retryGen, r.retryMutating, r.retryState>>
LifecycleModes == {"install", "upgrade", "verify"}

(* A locked plan. *)
Executes(r, j, n) == r.plan[j].stage = "execute" /\ r.plan[j].node = n
Posts(r, i, n) == r.plan[i].stage = "post" /\ r.plan[i].node = n /\ ~r.plan[i].again
\* The last look at a node: a target check with no later step on the node.
Settles(r, i, n) ==
  /\ r.plan[i].stage = "target" /\ r.plan[i].node = n
  /\ \A j \in (i + 1)..Len(r.plan) : r.plan[j].node # n
BackupsFit(r) ==
  /\ Lifecycle(r) => /\ r.rev \in Revisions /\ r.mode \in LifecycleModes
                     /\ \A n \in Nodes : r.backups[n] # <<>> =>
                          IF Target[r.rev][n] = Absent THEN r.backups[n] = r.digest[n]
                                                       ELSE ReleaseOf(r.backups[n]) = Target[r.rev][n]
  /\ ~Lifecycle(r) => r.mode = "none"
  /\ r.kind = "reset" => \A n \in Nodes : Len(r.backups[n]) <= 1
PlanIsSound(r) ==
  /\ \A i \in 1..Len(r.plan) :
       /\ r.plan[i].stage = "execute" => ~r.plan[i].again
       /\ r.plan[i].stage \in {"execute", "post"} /\ ~r.plan[i].again =>
            r.plan[i].node \in Nodes /\ r.backups[r.plan[i].node] # <<>>
  /\ \A n \in Nodes : \A i \in 1..Len(r.plan) : Posts(r, i, n) =>
       \/ \E j \in 1..(i - 1) : Executes(r, j, n)
       \/ (r.attempt > 0 /\ r.retryState[1][n].seq >= r.root)
RetryIsSound(r) ==
  r.attempt > 0 => \A n \in Nodes :
    LET receipt == r.retryState[1][n] IN
    r.backups[n] # <<>> /\ receipt.status # "none" =>
      \/ (receipt.run \in RunIds /\ Root(receipt.run) = r.root)
      \/ (receipt.status = "verified" /\ receipt.seq < r.root)
Sound(r) == BackupsFit(r) /\ PlanIsSound(r) /\ RetryIsSound(r)

(* The chain a run belongs to. *)
InChain(r, next) ==
  /\ r.root \in 1..next /\ (r.attempt = 0 <=> r.root = next)
  /\ r.attempt > 0 => r.root \in RunIds /\ Subject(runs[r.root]) = Subject(r)
KnownAs(r, x) == Sound(r) /\ InChain(r, x)
RunsAreSound ==
  /\ \A x \in RunIds : KnownAs(runs[x], x)
  /\ prepared # None => KnownAs(prepared, NextRun)

(* What the records say of a node. *)
RowOf(r, n) ==
  IF ~Teardown(r, n) THEN r.backups[n]
  ELSE IF Lifecycle(r) THEN <<>> ELSE Tail(r.backups[n])
ReceiptFits(n) ==
  LET receipt == receipts[n]
      r == runs[receipt.run]
  IN /\ receipt.status = "none" => receipt = NoReceipt /\ installed[n] = <<>> /\ actual[n] = Absent
     /\ receipt.status # "none" =>
          /\ receipt.run \in RunIds /\ receipt.backup = r.backups[n] /\ receipt.backup # <<>>
          /\ receipt.seq >= r.root
          /\ Lifecycle(r) /\ Teardown(r, n) => installed[n] \in {<<>>, receipt.backup}
     /\ receipt.status = "verified" => installed[n] = RowOf(r, n) /\ actual[n] = Effect(r, n)
DigestHolds(r, n) ==
  Lifecycle(r) /\ receipts[n].status = "verified" /\ receipts[n].seq < r.root =>
    installed[n] = r.digest[n]
SeqGrows(r, n) ==
  /\ \A j \in 1..r.done : Executes(r, j, n) => receipts[n].seq >= r.root
  /\ r.attempt > 0 /\ r.retryState[1][n].seq >= r.root => receipts[n].seq >= r.root
RecordsFit ==
  \A n \in Nodes :
    /\ ReceiptFits(n)
    /\ \A x \in RunIds : DigestHolds(runs[x], n) /\ SeqGrows(runs[x], n)
    /\ prepared # None => DigestHolds(prepared, n) /\ SeqGrows(prepared, n)

(* The run in execution, past its validation. *)
Own(n) == receipts[n].status # "none" /\ Root(receipts[n].run) = Cur.root
StepFits ==
  LET n == CurStep.node IN
  /\ exec.pc # "next" => Cur.done < Len(Cur.plan)
  /\ exec.pc = "marked" => CurStep.stage \in {"execute", "acceptance"}
  /\ exec.pc \in {"acting", "acted"} =>
       CurStep.stage = "execute" /\ receipts[n].run = exec.run /\ receipts[n].status = "started"
  /\ exec.pc \in {"checked", "recorded"} => CurStep.stage = "post" /\ ~CurStep.again
                                            /\ actual[n] = Effect(Cur, n)
  /\ exec.pc = "recorded" => installed[n] = RowOf(Cur, n)
  /\ exec.pc = "ended" => /\ CurStep.stage \in {"execute", "post"} /\ ~CurStep.again
                          /\ receipts[n].run = exec.run /\ receipts[n].status # "none"
NodesFit ==
  \A n \in Nodes :
    /\ \A i \in (Cur.done + 1)..Len(Cur.plan) : Posts(Cur, i, n) =>
         \/ \E j \in (Cur.done + 1)..(i - 1) : Executes(Cur, j, n)
         \/ Own(n)
    /\ Own(n) \/ IF Cur.attempt > 0 THEN receipts[n] = Cur.retryState[1][n]
                                    ELSE Lifecycle(Cur) => installed[n] = Cur.digest[n]
WorkFits ==
  /\ exec.pc = "validate" => Cur.done = 0
  /\ exec.pc \in Working => StepFits /\ NodesFit

(* The baseline. *)
BaselineFits ==
  /\ baseline.gen = 0 => baseline = NoBaseline
  /\ baseline.mutating # 0 => baseline.state = "partial"
  /\ baseline.run # 0 =>
       LET r == runs[baseline.run] IN
       /\ r.status = "succeeded" /\ r.mode \in {"install", "upgrade"} /\ Evidence(baseline.run)
       /\ baseline.test = (r.kind = "test")
       /\ Advertised => baseline.state = IF r.kind = "test" THEN "test" ELSE "complete"
GenerationFits ==
  Lifecycle(Cur) =>
    /\ exec.pc \in Working \/ (exec.pc \in {"failing", "report"} /\ exec.cause = "check") =>
         baseline.gen = ExpectedGeneration(Cur) \/ baseline.mutating = exec.run
    /\ exec.pc \in Working /\ baseline.mutating \notin {0, exec.run} =>
         IF Cur.attempt = 0 THEN Cur.mode = "verify" ELSE Root(baseline.mutating) = Cur.root
ChangesFit == exec # NoExec => GenerationFits

BaselineInv == Typed /\ RunsAreSound /\ RecordsFit /\ WorkFits /\ BaselineFits /\ ChangesFit
---------------------------------------------------------------------------
(* Records and their changes.                                                *)

Statuses == {"queued", "running", "succeeded", "failed", "cancelled", "interrupted"}

LEMMA StatusSet ==
  ASSUME NEW r \in RunRecords, NEW status \in Statuses
  PROVE  LET n == [r EXCEPT !.status = status] IN
         /\ n \in RunRecords /\ Locked(n) = Locked(r) /\ n.status = status /\ n.done = r.done
         /\ n.plan = r.plan
<1> SUFFICES ASSUME NEW n, n = [r EXCEPT !.status = status]
             PROVE  /\ n \in RunRecords /\ Locked(n) = Locked(r) /\ n.status = status
                    /\ n.done = r.done /\ n.plan = r.plan
  OBVIOUS
  <1>1. n = [kind |-> r.kind, mode |-> r.mode, rev |-> r.rev, status |-> status,
              plan |-> r.plan, done |-> r.done, backups |-> r.backups, gen |->
              r.gen, base |-> r.base, digest |-> r.digest, pending |->
              r.pending, root |-> r.root, attempt |-> r.attempt, retryGen |->
              r.retryGen, retryMutating |-> r.retryMutating, retryState |->
              r.retryState]
  BY DEF RunRecords
<1>2. n \in RunRecords
  BY <1>1, ZenonT(60) DEF RunRecords, Statuses
<1>3. Locked(n) = Locked(r)
  BY <1>1 DEF Locked, Subject
<1> QED
  BY <1>1, <1>2, <1>3

LEMMA DoneSet ==
  ASSUME NEW r \in RunRecords, NEW done \in Nat
  PROVE  LET n == [r EXCEPT !.done = done] IN
         /\ n \in RunRecords /\ Locked(n) = Locked(r) /\ n.done = done /\ n.status = r.status
         /\ n.plan = r.plan
<1> SUFFICES ASSUME NEW n, n = [r EXCEPT !.done = done]
             PROVE  /\ n \in RunRecords /\ Locked(n) = Locked(r) /\ n.done = done
                    /\ n.status = r.status /\ n.plan = r.plan
  OBVIOUS
  <1>1. n = [kind |-> r.kind, mode |-> r.mode, rev |-> r.rev, status |->
              r.status, plan |-> r.plan, done |-> done, backups |-> r.backups,
              gen |-> r.gen, base |-> r.base, digest |-> r.digest, pending |->
              r.pending, root |-> r.root, attempt |-> r.attempt, retryGen |->
              r.retryGen, retryMutating |-> r.retryMutating, retryState |->
              r.retryState]
  BY DEF RunRecords
<1>2. n \in RunRecords
  BY <1>1, ZenonT(60) DEF RunRecords, Statuses
<1>3. Locked(n) = Locked(r)
  BY <1>1 DEF Locked, Subject
<1> QED
  BY <1>1, <1>2, <1>3

LEMMA Moves ==
  ASSUME ExecTyped, exec.run # 0, NEW pc \in Working \cup {"report"}, Goto(pc)
  PROVE  /\ exec \in Execs /\ exec.run \in RunIds /\ exec' \in Execs
         /\ exec'.run = exec.run /\ exec'.pc = pc /\ exec'.cause = exec.cause
<1>1. exec \in Execs /\ exec.run \in RunIds
  BY DEF ExecTyped, NoExec
<1> QED
  BY <1>1 DEF Goto, Execs, Working

LEMMA Fails ==
  ASSUME ExecTyped, exec.run # 0, NEW cause \in {"conflict", "job", "check", "abort"}, FailWith(cause)
  PROVE  /\ exec \in Execs /\ exec.run \in RunIds /\ exec' \in Execs
         /\ exec'.run = exec.run /\ exec'.pc = "failing" /\ exec'.cause = cause
<1>1. exec \in Execs /\ exec.run \in RunIds
  BY DEF ExecTyped, NoExec
<1> QED
  BY <1>1 DEF FailWith, Execs

(* What all steps leave alone, and all but the creation of a run. *)
RunsKeep ==
  /\ RunIds \subseteq RunIds'
  /\ \A x \in RunIds : Locked(runs'[x]) = Locked(runs[x])
RunsStay == Len(runs') = Len(runs) /\ RunsKeep
StatusesStay == \A x \in RunIds : runs'[x].status = runs[x].status
DoneStays == \A x \in RunIds : runs'[x].done = runs[x].done

LEMMA InExec ==
  ASSUME ExecTyped, exec.pc # "idle"
  PROVE  exec \in Execs /\ exec.run \in RunIds /\ exec.run # 0 /\ exec # NoExec
  BY DEF ExecTyped, NoExec, RunIds

LEMMA RunIn ==
  ASSUME RunsTyped, NEW x \in RunIds
  PROVE  runs[x] \in RunRecords /\ Len(runs) \in Nat /\ x \in Nat /\ x # 0
<1>1. Len(runs) \in Nat /\ runs \in [1..Len(runs) -> RunRecords]
  BY LenProperties DEF RunsTyped
<1> QED
  BY <1>1 DEF RunIds

LEMMA RunPlan ==
  ASSUME RunsTyped, NEW x \in RunIds
  PROVE  /\ runs[x].plan \in Seq(Steps) /\ Len(runs[x].plan) \in Nat
         /\ runs[x].done \in Nat /\ runs[x].done <= Len(runs[x].plan)
<1>1. runs[x].plan \in Seq(Steps)
  BY RunIn DEF RunRecords
<1>2. Len(runs[x].plan) \in Nat
  BY <1>1, LenProperties
<1> QED
  BY <1>1, <1>2 DEF RunsTyped

LEMMA Unchanging ==
  ASSUME UNCHANGED runs
  PROVE  RunsStay /\ StatusesStay /\ DoneStays
  BY DEF RunsStay, RunsKeep, StatusesStay, DoneStays, RunIds

LEMMA StatusChanges ==
  ASSUME RunsTyped, NEW x \in RunIds, NEW status \in Statuses \ {"queued"},
         runs' = [runs EXCEPT ![x].status = status]
  PROVE  /\ RunsTyped' /\ RunsStay /\ DoneStays
         /\ \A y \in RunIds : runs'[y].status = IF y = x THEN status ELSE runs[y].status
<1> DEFINE r == [runs[x] EXCEPT !.status = status]
<1>1. runs[x] \in RunRecords /\ Len(runs) \in Nat /\ runs \in Seq(RunRecords)
  BY RunIn DEF RunsTyped
<1>2. /\ r \in RunRecords /\ Locked(r) = Locked(runs[x]) /\ r.status = status
      /\ r.done = runs[x].done /\ r.plan = runs[x].plan
  BY <1>1, StatusSet DEF Statuses
<1>3. runs' = [runs EXCEPT ![x] = r]
  OBVIOUS
<1> HIDE DEF r
<1>4. /\ runs' \in Seq(RunRecords) /\ Len(runs') = Len(runs)
      /\ \A y \in RunIds : runs'[y] = IF y = x THEN r ELSE runs[y]
  BY <1>1, <1>2, <1>3, ExceptSeq, SMTT(30) DEF RunIds
<1>5. RunIds' = RunIds
  BY <1>4 DEF RunIds
<1>6. RunsTyped'
  BY <1>2, <1>4, <1>5 DEF RunsTyped
<1>7. RunsStay
  BY <1>2, <1>4, <1>5 DEF RunsStay, RunsKeep
<1> QED
  BY <1>2, <1>4, <1>6, <1>7 DEF DoneStays

LEMMA DoneChanges ==
  ASSUME RunsTyped, NEW x \in RunIds, runs[x].status = "running", runs[x].done < Len(runs[x].plan),
         runs' = [runs EXCEPT ![x].done = @ + 1]
  PROVE  /\ RunsTyped' /\ RunsStay /\ StatusesStay
         /\ \A y \in RunIds : runs'[y].done = IF y = x THEN runs[x].done + 1 ELSE runs[y].done
<1> DEFINE r == [runs[x] EXCEPT !.done = runs[x].done + 1]
<1>1. /\ runs[x] \in RunRecords /\ Len(runs) \in Nat /\ runs \in Seq(RunRecords)
      /\ runs[x].done \in Nat /\ Len(runs[x].plan) \in Nat /\ runs[x].done + 1 \in Nat
  BY RunPlan, RunIn DEF RunsTyped
<1>2. /\ r \in RunRecords /\ Locked(r) = Locked(runs[x]) /\ r.status = "running"
      /\ r.done = runs[x].done + 1 /\ r.plan = runs[x].plan
  BY <1>1, DoneSet
<1>3. runs' = [runs EXCEPT ![x] = r]
  OBVIOUS
<1> HIDE DEF r
<1>4. /\ runs' \in Seq(RunRecords) /\ Len(runs') = Len(runs)
      /\ \A y \in RunIds : runs'[y] = IF y = x THEN r ELSE runs[y]
  BY <1>1, <1>2, <1>3, ExceptSeq, SMTT(30) DEF RunIds
<1>5. RunIds' = RunIds
  BY <1>4 DEF RunIds
<1>6. RunsTyped'
  BY <1>1, <1>2, <1>4, <1>5 DEF RunsTyped
<1>7. RunsStay
  BY <1>2, <1>4, <1>5 DEF RunsStay, RunsKeep
<1> QED
  BY <1>2, <1>4, <1>6, <1>7 DEF StatusesStay

LEMMA ExecGoesOn ==
  ASSUME ExecTyped, exec.run # 0, exec.pc # "report", RunsStay, StatusesStay,
         exec' \in Execs, exec'.run = exec.run, exec'.pc # "report"
  PROVE  ExecTyped'
<1>1. RunIds' = RunIds
  BY DEF RunIds, RunsStay
<1>2. exec \in Execs /\ exec.run \in RunIds
  BY DEF ExecTyped, NoExec
<1> QED
  BY <1>1, <1>2 DEF ExecTyped, StatusesStay

(* The last comparison of a run fails. *)
RefuseFinish ==
  /\ exec.pc = "next" /\ Cur.done = Len(Cur.plan) /\ ~FinishHolds(exec.run)
  /\ FailWith("conflict") /\ UNCHANGED <<runs, baseline, hostVars, prepared, faults>>

(* A step of the run in execution, which goes on or begins to fail. *)
WorkStep ==
  \/ Validate \/ MarkMutation \/ BeginExecute \/ Act \/ EndExecute \/ Check \/ Acceptance
  \/ RecordInstallation \/ VerifyReceipt \/ CompleteStep \/ Abort \/ RefuseFinish

(* It counts a step as done at most. *)
WorkGoesOn ==
  /\ exec \in Execs /\ exec.run \in RunIds /\ exec.run # 0 /\ Cur \in RunRecords
  /\ exec.pc \in Working \cup {"validate"}
  /\ exec' \in Execs /\ exec'.run = exec.run /\ exec'.pc \in Working \cup {"failing"}
  /\ RunsStay /\ StatusesStay /\ RunsTyped' /\ prepared' = prepared /\ faults' = faults
  /\ \/ runs' = runs
     \/ /\ exec'.pc = "next" /\ Cur.done < Len(Cur.plan) /\ UNCHANGED <<baseline, hostVars>>
        /\ \/ exec.pc = "ended"
           \/ exec.pc = "next" /\ CurStep.stage \in {"source", "target", "acceptance"}
           \/ exec.pc = "next" /\ CurStep.stage = "post" /\ CurStep.again
           \/ exec.pc = "marked" /\ CurStep.stage = "acceptance"
        /\ \A y \in RunIds : runs'[y].done = IF y = exec.run THEN Cur.done + 1 ELSE runs[y].done

LEMMA Completes ==
  ASSUME Typed, exec.run # 0, exec.pc # "report", Cur.done < Len(Cur.plan), Complete
  PROVE  /\ RunsTyped' /\ RunsStay /\ StatusesStay
         /\ \A y \in RunIds : runs'[y].done = IF y = exec.run THEN Cur.done + 1 ELSE runs[y].done
<1>1. exec.run \in RunIds /\ runs[exec.run].status = "running"
  BY DEF Typed, ExecTyped, NoExec
<1> QED
  BY <1>1, DoneChanges DEF Complete, Cur, Typed

LEMMA WorkStepGoesOn ==
  ASSUME Typed, exec.pc \in Working => StepFits, exec.pc \in Working \cup {"validate"}, WorkStep
  PROVE  WorkGoesOn
<1>1. exec \in Execs /\ exec.run \in RunIds /\ exec.run # 0 /\ Cur \in RunRecords
  BY InExec, RunIn DEF Typed, Working, Cur
<1>2. UNCHANGED runs => RunsTyped' /\ RunsStay /\ StatusesStay
  BY Unchanging DEF RunsTyped, RunIds, Typed
<1>3. ASSUME Validate PROVE WorkGoesOn
  <2>1. Goto("next") \/ FailWith("conflict")
    BY <1>3 DEF Validate
  <2> QED
    BY <1>1, <1>2, <1>3, <2>1, Moves, Fails DEF Validate, WorkGoesOn, Typed, Working
<1>4. ASSUME MarkMutation PROVE WorkGoesOn
  <2>1. Goto("marked") \/ FailWith("conflict")
    BY <1>4 DEF MarkMutation
  <2> QED
    BY <1>1, <1>2, <1>4, <2>1, Moves, Fails DEF MarkMutation, WorkGoesOn, Typed, Working
<1>5. ASSUME BeginExecute \/ EndExecute \/ VerifyReceipt PROVE WorkGoesOn
  <2>1. Goto("acting") \/ Goto("ended")
    BY <1>5 DEF BeginExecute, EndExecute, VerifyReceipt
  <2> QED
    BY <1>1, <1>2, <1>5, <2>1, Moves DEF BeginExecute, EndExecute, VerifyReceipt, WorkGoesOn, Typed, Working
<1>6. ASSUME Act PROVE WorkGoesOn
  <2>1. Goto("acted") \/ FailWith("job")
    BY <1>6 DEF Act
  <2> QED
    BY <1>1, <1>2, <1>6, <2>1, Moves, Fails DEF Act, WorkGoesOn, Typed, Working
<1>7. ASSUME RecordInstallation PROVE WorkGoesOn
  <2>1. Goto("recorded") \/ FailWith("conflict") \/ FailWith("abort")
    BY <1>7 DEF RecordInstallation
  <2> QED
    BY <1>1, <1>2, <1>7, <2>1, Moves, Fails DEF RecordInstallation, WorkGoesOn, Typed, Working
<1>8. ASSUME Abort \/ RefuseFinish PROVE WorkGoesOn
  <2>1. FailWith("conflict") \/ FailWith("abort")
    BY <1>8 DEF Abort, RefuseFinish
  <2> QED
    BY <1>1, <1>2, <1>8, <2>1, Fails DEF Abort, RefuseFinish, WorkGoesOn, Typed, Working
<1>9. ASSUME CompleteStep PROVE WorkGoesOn
  <2>1. /\ exec.pc = "ended" /\ Complete /\ Goto("next") /\ Cur.done < Len(Cur.plan)
        /\ UNCHANGED <<baseline, hostVars, prepared, faults>>
    BY <1>9 DEF CompleteStep, StepFits, Working
  <2> QED
    BY <1>1, <2>1, Moves, Completes DEF WorkGoesOn, Typed, Working
<1>10. ASSUME Acceptance PROVE WorkGoesOn
  <2>1. CASE FailWith("check") /\ UNCHANGED runs
    BY <1>1, <1>2, <1>10, <2>1, Fails DEF Acceptance, WorkGoesOn, Typed, Working
  <2>2. CASE Complete /\ Goto("next")
    <3>1. /\ exec.pc \in {"marked", "next"} /\ Cur.done < Len(Cur.plan)
          /\ CurStep.stage = "acceptance" /\ UNCHANGED <<baseline, hostVars, prepared, faults>>
      BY <1>10 DEF Acceptance, AtStep, StepFits, Working
    <3> QED
      BY <1>1, <2>2, <3>1, Moves, Completes DEF WorkGoesOn, Typed, Working
  <2> QED
    BY <1>10, <2>1, <2>2 DEF Acceptance
<1>11. ASSUME Check PROVE WorkGoesOn
  <2>1. /\ exec.pc = "next" /\ Cur.done < Len(Cur.plan) /\ CurStep.stage \in {"source", "target", "post"}
        /\ UNCHANGED <<baseline, hostVars, prepared, faults>>
    BY <1>11 DEF Check, AtStep
  <2>2. CASE FailWith("check") /\ UNCHANGED runs
    BY <1>1, <1>2, <2>1, <2>2, Fails DEF WorkGoesOn, Typed, Working
  <2>3. CASE Goto("checked") /\ UNCHANGED runs
    BY <1>1, <1>2, <2>1, <2>3, Moves DEF WorkGoesOn, Typed, Working
  <2>4. CASE Complete /\ UNCHANGED exec /\ ~(CurStep.stage = "post" /\ ~CurStep.again)
    BY <1>1, <2>1, <2>4, Completes DEF WorkGoesOn, Typed, Working
  <2> QED
    BY <1>11, <2>2, <2>3, <2>4 DEF Check
<1> QED
  BY <1>3, <1>4, <1>5, <1>6, <1>7, <1>8, <1>9, <1>10, <1>11 DEF WorkStep
---------------------------------------------------------------------------
(* Rows, effects and what depends on the locked part of a run only.          *)

LEMMA RowFacts ==
  ASSUME NEW row \in Rows
  PROVE  /\ ReleaseOf(row) \in Releases \cup {Absent}
         /\ row # <<>> => /\ Tail(row) \in Rows /\ Tail(row) # row /\ ReleaseOf(row) \in Releases
                          /\ Len(row) \in Nat \ {0}
                          /\ Len(row) <= 1 => Tail(row) = <<>>
<1>1. CASE row = <<>>
  BY <1>1 DEF ReleaseOf
<1>2. CASE row # <<>>
  <2>1. /\ Head(row) \in [rel : Releases, run : Nat] /\ Tail(row) \in Rows
        /\ Len(Tail(row)) = Len(row) - 1
    BY <1>2, HeadTailProperties DEF Rows
  <2>2. Len(row) \in Nat \ {0}
    BY <1>2, EmptySeq DEF Rows
  <2>3. Tail(row) # <<>> => Len(Tail(row)) \in Nat \ {0}
    BY <2>1, EmptySeq DEF Rows
  <2>4. ReleaseOf(row) \in Releases
    BY <1>2, <2>1 DEF ReleaseOf
  <2>5. Tail(row) # row
    BY <2>1, <2>2
  <2>6. Len(row) <= 1 => Tail(row) = <<>>
    BY <2>1, <2>2, <2>3
  <2> QED
    BY <2>1, <2>2, <2>4, <2>5, <2>6
<1> QED
  BY <1>1, <1>2

LEMMA EffectFacts ==
  ASSUME NEW r \in RunRecords, BackupsFit(r), NEW n \in Nodes, r.backups[n] # <<>>
  PROVE  /\ Effect(r, n) \in Releases \cup {Absent}
         /\ RowOf(r, n) \in Rows /\ ReleaseOf(RowOf(r, n)) = Effect(r, n)
         /\ r.backups[n] \in Rows /\ Tail(r.backups[n]) \in Rows
         /\ Tail(r.backups[n]) # r.backups[n]
<1> USE RevisionAssumption
<1>1. /\ r.backups[n] \in Rows /\ r.kind \in {"scenario", "test", "reset", "rollback"}
      /\ <<>> \in Rows
  BY EmptySeq DEF RunRecords, Rows
<1>2. /\ Tail(r.backups[n]) \in Rows /\ Tail(r.backups[n]) # r.backups[n]
      /\ ReleaseOf(Tail(r.backups[n])) \in Releases \cup {Absent} /\ ReleaseOf(<<>>) = Absent
      /\ Len(r.backups[n]) <= 1 => Tail(r.backups[n]) = <<>>
  BY <1>1, RowFacts DEF ReleaseOf
<1>3. CASE Lifecycle(r)
  <2>1. /\ r.rev \in Revisions /\ Target[r.rev][n] \in Releases \cup {Absent}
        /\ Target[r.rev][n] # Absent => ReleaseOf(r.backups[n]) = Target[r.rev][n]
    BY <1>3 DEF BackupsFit
  <2>2. Effect(r, n) = Target[r.rev][n]
    BY <1>3 DEF Effect, Lifecycle
  <2>3. Teardown(r, n) <=> Target[r.rev][n] = Absent
    BY <1>3, <2>2 DEF Teardown, Lifecycle
  <2> QED
    BY <1>1, <1>2, <1>3, <2>1, <2>2, <2>3 DEF RowOf
<1>4. CASE r.kind = "reset"
  <2>1. Effect(r, n) = Absent /\ Teardown(r, n) /\ ~Lifecycle(r)
    BY <1>4 DEF Effect, Teardown, Lifecycle
  <2>2. Tail(r.backups[n]) = <<>>
    BY <1>2, <1>4 DEF BackupsFit
  <2> QED
    BY <1>1, <1>2, <2>1, <2>2 DEF RowOf
<1>5. CASE r.kind = "rollback"
  <2>1. Effect(r, n) = ReleaseOf(Tail(r.backups[n])) /\ Teardown(r, n) /\ ~Lifecycle(r)
    BY <1>5 DEF Effect, Teardown, Lifecycle
  <2> QED
    BY <1>1, <1>2, <2>1 DEF RowOf
<1> QED
  BY <1>1, <1>3, <1>4, <1>5 DEF Lifecycle

LEMMA SubjectFields ==
  ASSUME NEW a, NEW b, Subject(a) = Subject(b)
  PROVE  /\ a.kind = b.kind /\ a.mode = b.mode /\ a.rev = b.rev /\ a.backups = b.backups
         /\ a.gen = b.gen /\ a.base = b.base /\ a.digest = b.digest /\ a.pending = b.pending
         /\ a.root = b.root
  BY DEF Subject

LEMMA LockedFields ==
  ASSUME NEW a, NEW b, Locked(a) = Locked(b)
  PROVE  /\ Subject(a) = Subject(b) /\ a.plan = b.plan /\ a.attempt = b.attempt
         /\ a.retryGen = b.retryGen /\ a.retryMutating = b.retryMutating
         /\ a.retryState = b.retryState
  BY DEF Locked

(* Runs with the same subject do the same to a node. *)
LEMMA SameSubject ==
  ASSUME NEW a, NEW b, Subject(a) = Subject(b)
  PROVE  /\ Lifecycle(a) <=> Lifecycle(b)
         /\ \A n : Effect(a, n) = Effect(b, n)
         /\ \A n : Teardown(a, n) <=> Teardown(b, n)
         /\ \A n : RowOf(a, n) = RowOf(b, n)
         /\ \A n : DigestHolds(a, n) <=> DigestHolds(b, n)
         /\ BackupsFit(a) <=> BackupsFit(b)
<1>1. /\ a.kind = b.kind /\ a.mode = b.mode /\ a.rev = b.rev /\ a.backups = b.backups
      /\ a.digest = b.digest /\ a.root = b.root
  BY SubjectFields
<1>2. Lifecycle(a) <=> Lifecycle(b)
  BY <1>1 DEF Lifecycle
<1>3. \A n : Effect(a, n) = Effect(b, n)
  BY <1>1 DEF Effect
<1>4. \A n : Teardown(a, n) <=> Teardown(b, n)
  BY <1>1, <1>3 DEF Teardown
<1>5. \A n : RowOf(a, n) = RowOf(b, n)
  BY <1>1, <1>2, <1>4 DEF RowOf
<1>6. \A n : DigestHolds(a, n) <=> DigestHolds(b, n)
  BY <1>1, <1>2 DEF DigestHolds
<1>7. BackupsFit(a) <=> BackupsFit(b)
  BY <1>1, <1>2 DEF BackupsFit
<1> QED
  BY <1>2, <1>3, <1>4, <1>5, <1>6, <1>7

LEMMA SameLocked ==
  ASSUME NEW a, NEW b, Locked(a) = Locked(b)
  PROVE  PlanIsSound(a) <=> PlanIsSound(b)
<1>1. a.plan = b.plan /\ a.attempt = b.attempt /\ a.retryState = b.retryState
  BY LockedFields
<1>2. a.backups = b.backups /\ a.root = b.root
  BY LockedFields, SubjectFields
<1> QED
  BY <1>1, <1>2 DEF PlanIsSound, Posts, Executes

---------------------------------------------------------------------------
(* Runs are sound, however far they are.                                     *)

LEMMA SoundStays ==
  ASSUME RunsKeep, NEW a, NEW b, Locked(b) = Locked(a), NEW next, KnownAs(a, next)
  PROVE  KnownAs(b, next)'
<1>1. /\ a.attempt = b.attempt /\ a.retryState = b.retryState /\ Subject(a) = Subject(b)
      /\ a.backups = b.backups /\ a.root = b.root
  BY LockedFields, SubjectFields
<1>2. \A x \in RunIds : x \in RunIds' /\ Root(x)' = Root(x) /\ Subject(runs'[x]) = Subject(runs[x])
  BY LockedFields, SubjectFields DEF RunsKeep, Root
<1>3. BackupsFit(b) /\ PlanIsSound(b)
  BY SameSubject, SameLocked, <1>1 DEF KnownAs, Sound
<1>4. RetryIsSound(b)'
  BY <1>1, <1>2 DEF KnownAs, Sound, RetryIsSound
<1>5. InChain(b, next)'
  BY <1>1, <1>2 DEF KnownAs, InChain
<1> QED
  BY <1>3, <1>4, <1>5 DEF KnownAs, Sound

LEMMA RunsSoundOn ==
  ASSUME RunsAreSound, RunsStay, prepared' = None \/ prepared' = prepared
  PROVE  RunsAreSound'
<1>1. RunIds' = RunIds /\ NextRun' = NextRun
  BY DEF RunIds, NextRun, RunsStay
<1>2. ASSUME NEW x \in RunIds PROVE KnownAs(runs[x], x)'
  <2>1. SUFFICES ASSUME NEW a, a = runs[x], NEW b, b = runs'[x] PROVE KnownAs(b, x)'
    OBVIOUS
  <2>2. KnownAs(a, x) /\ Locked(b) = Locked(a)
    BY <2>1 DEF RunsAreSound, RunsStay, RunsKeep
  <2> QED
    BY <2>2, SoundStays DEF RunsStay
<1>3. ASSUME prepared' # None PROVE KnownAs(prepared, NextRun)'
  <2>1. SUFFICES ASSUME NEW a, a = prepared, prepared' = a, NEW next, next = NextRun, NextRun' = next
                 PROVE  KnownAs(a, next)'
    BY <1>1, <1>3
  <2>2. KnownAs(a, next)
    BY <1>3, <2>1 DEF RunsAreSound
  <2> QED
    BY <2>2, SoundStays DEF RunsStay
<1> QED
  BY <1>1, <1>2, <1>3 DEF RunsAreSound

LEMMA Created ==
  ASSUME Typed, CreateRun
  PROVE  /\ prepared # None /\ prepared' = None /\ RunsTyped' /\ RunsKeep
         /\ NextRun \notin RunIds /\ RunIds' = RunIds \cup {NextRun}
         /\ runs'[NextRun] = prepared /\ \A x \in RunIds : runs'[x] = runs[x]
<1>1. /\ prepared # None /\ prepared' = None /\ runs' = Append(runs, prepared)
      /\ prepared \in RunRecords /\ prepared.done = 0 /\ Len(runs) < MaxRuns
  BY DEF CreateRun, Typed, PreparedTyped
<1>2. runs \in Seq(RunRecords) /\ Len(runs) \in Nat /\ MaxRuns \in Nat
  BY LenProperties, BoundsAssumption DEF Typed, RunsTyped
<1>3. /\ runs' \in Seq(RunRecords) /\ Len(runs') = Len(runs) + 1 /\ runs'[NextRun] = prepared
      /\ \A x \in RunIds : runs'[x] = runs[x]
  BY <1>1, <1>2, AppendProperties DEF NextRun, RunIds
<1>4. NextRun \notin RunIds /\ RunIds' = RunIds \cup {NextRun}
  BY <1>2, <1>3 DEF NextRun, RunIds
<1>5. Len(prepared.plan) \in Nat
  BY <1>1, LenProperties DEF RunRecords
<1>6. RunsTyped'
  <2>1. ASSUME NEW x, x \in RunIds'
        PROVE  /\ runs'[x].done \in 0..Len(runs'[x].plan)
               /\ runs'[x].status = "queued" => runs'[x].done = 0
    <3>1. CASE x \in RunIds
      BY <1>3, <3>1 DEF Typed, RunsTyped
    <3>2. CASE x = NextRun
      <4>1. runs'[x] = prepared
        BY <1>3, <3>2
      <4>2. prepared.done = 0 /\ Len(prepared.plan) \in Nat
        BY <1>1, <1>5
      <4> QED
        BY <4>1, <4>2
    <3> QED
      BY <1>4, <2>1, <3>1, <3>2
  <2>2. Len(runs') <= MaxRuns
    BY <1>1, <1>2, <1>3
  <2> QED
    BY <1>3, <2>1, <2>2 DEF RunsTyped
<1> QED
  BY <1>1, <1>3, <1>4, <1>6 DEF RunsKeep

LEMMA CreatedIsSound ==
  ASSUME Typed, RunsAreSound, CreateRun
  PROVE  RunsAreSound'
<1>1. /\ prepared # None /\ prepared' = None /\ RunsKeep
      /\ RunIds' = RunIds \cup {NextRun}
      /\ runs'[NextRun] = prepared /\ \A x \in RunIds : runs'[x] = runs[x]
  BY Created
<1>2. ASSUME NEW x, x \in RunIds' PROVE KnownAs(runs[x], x)'
  <2>1. SUFFICES ASSUME NEW b, b = runs'[x] PROVE KnownAs(b, x)'
    OBVIOUS
  <2>2. KnownAs(b, x)
    BY <1>1, <1>2, <2>1 DEF RunsAreSound
  <2> QED
    BY <1>1, <2>2, SoundStays
<1> QED
  BY <1>1, <1>2 DEF RunsAreSound

---------------------------------------------------------------------------
(* The records of a node.                                                    *)

LEMMA ReceiptStays ==
  ASSUME RunsKeep, NEW n, ReceiptFits(n), receipts'[n] = receipts[n],
         installed'[n] = installed[n], actual'[n] = actual[n]
  PROVE  ReceiptFits(n)'
<1>1. CASE receipts[n].status = "none"
  BY <1>1 DEF ReceiptFits
<1>2. CASE receipts[n].status # "none"
  <2> SUFFICES ASSUME NEW a, a = runs[receipts[n].run], NEW b, b = runs'[receipts'[n].run]
               PROVE  ReceiptFits(n)'
    OBVIOUS
  <2>1. receipts[n].run \in RunIds /\ receipts'[n].run \in RunIds' /\ Subject(b) = Subject(a)
    BY <1>2, LockedFields DEF ReceiptFits, RunsKeep
  <2>2. /\ b.backups = a.backups /\ b.root = a.root /\ (Lifecycle(b) <=> Lifecycle(a))
        /\ (Teardown(b, n) <=> Teardown(a, n)) /\ RowOf(b, n) = RowOf(a, n)
        /\ Effect(b, n) = Effect(a, n)
    BY <2>1, SubjectFields, SameSubject
  <2> QED
    BY <1>2, <2>1, <2>2 DEF ReceiptFits
<1> QED
  BY <1>1, <1>2

(* Of a run with the same locked part that has finished no more changes. *)
LEMMA NodeStays ==
  ASSUME NEW n, NEW a, NEW b, Locked(b) = Locked(a), DigestHolds(a, n), SeqGrows(a, n),
         receipts'[n] = receipts[n], installed'[n] = installed[n],
         \A j \in 1..b.done : Executes(b, j, n) => j \in 1..a.done \/ receipts[n].seq >= b.root
  PROVE  DigestHolds(b, n)' /\ SeqGrows(b, n)'
<1>1. /\ b.plan = a.plan /\ b.attempt = a.attempt /\ b.retryState = a.retryState
      /\ b.root = a.root /\ b.digest = a.digest /\ (Lifecycle(b) <=> Lifecycle(a))
  BY LockedFields, SubjectFields, SameSubject
<1> QED
  BY <1>1 DEF DigestHolds, SeqGrows, Executes

LEMMA RecordsStay ==
  ASSUME Typed, RecordsFit, RunsStay, UNCHANGED hostVars, prepared' = None \/ prepared' = prepared,
         \A x \in RunIds : \A j \in 1..runs'[x].done : \A n \in Nodes :
            Executes(runs[x], j, n) => j \in 1..runs[x].done \/ receipts[n].seq >= runs[x].root
  PROVE  RecordsFit'
<1> SUFFICES ASSUME NEW n \in Nodes
             PROVE  /\ ReceiptFits(n)'
                    /\ \A x \in RunIds' : DigestHolds(runs[x], n)' /\ SeqGrows(runs[x], n)'
                    /\ prepared' # None => DigestHolds(prepared, n)' /\ SeqGrows(prepared, n)'
  BY DEF RecordsFit
<1>1. ReceiptFits(n)'
  BY ReceiptStays DEF RecordsFit, RunsStay, hostVars
<1>2. ASSUME NEW x \in RunIds PROVE DigestHolds(runs[x], n)' /\ SeqGrows(runs[x], n)'
  <2> SUFFICES ASSUME NEW a, a = runs[x], NEW b, b = runs'[x]
               PROVE  DigestHolds(b, n)' /\ SeqGrows(b, n)'
    OBVIOUS
  <2>1. Locked(b) = Locked(a) /\ b.plan = a.plan /\ b.root = a.root
    BY LockedFields, SubjectFields DEF RunsStay, RunsKeep
  <2>2. \A j \in 1..b.done : Executes(b, j, n) => j \in 1..a.done \/ receipts[n].seq >= b.root
    BY <2>1 DEF Executes
  <2>3. DigestHolds(a, n) /\ SeqGrows(a, n)
    BY DEF RecordsFit
  <2> QED
    BY <2>1, <2>2, <2>3, NodeStays DEF hostVars
<1>3. ASSUME prepared' # None PROVE DigestHolds(prepared, n)' /\ SeqGrows(prepared, n)'
  <2> SUFFICES ASSUME NEW a, a = prepared, prepared' = a PROVE DigestHolds(a, n)' /\ SeqGrows(a, n)'
    BY <1>3
  <2>1. DigestHolds(a, n) /\ SeqGrows(a, n)
    BY <1>3 DEF RecordsFit
  <2> QED
    BY <2>1, NodeStays DEF hostVars
<1>4. RunIds' = RunIds
  BY DEF RunsStay, RunIds
<1> QED
  BY <1>1, <1>2, <1>3, <1>4

LEMMA RecordsOnCreation ==
  ASSUME Typed, RecordsFit, CreateRun
  PROVE  RecordsFit'
<1>1. /\ prepared # None /\ prepared' = None /\ RunsKeep
      /\ RunIds' = RunIds \cup {NextRun}
      /\ runs'[NextRun] = prepared /\ \A x \in RunIds : runs'[x] = runs[x]
      /\ UNCHANGED hostVars
  BY Created DEF CreateRun
<1> SUFFICES ASSUME NEW n \in Nodes
             PROVE  /\ ReceiptFits(n)'
                    /\ \A x \in RunIds' : DigestHolds(runs[x], n)' /\ SeqGrows(runs[x], n)'
  BY <1>1 DEF RecordsFit
<1>2. ReceiptFits(n)'
  BY <1>1, ReceiptStays DEF RecordsFit, hostVars
<1>3. ASSUME NEW x, x \in RunIds' PROVE DigestHolds(runs[x], n)' /\ SeqGrows(runs[x], n)'
  <2> SUFFICES ASSUME NEW a, a = IF x = NextRun THEN prepared ELSE runs[x], runs'[x] = a
               PROVE  DigestHolds(a, n)' /\ SeqGrows(a, n)'
    BY <1>1, <1>3
  <2>1. DigestHolds(a, n) /\ SeqGrows(a, n)
    BY <1>1, <1>3 DEF RecordsFit
  <2> QED
    BY <1>1, <2>1, NodeStays DEF hostVars
<1> QED
  BY <1>2, <1>3

---------------------------------------------------------------------------
(* The run in execution and the node of its step.                            *)

\* Attempts of one chain have the same subject.
LEMMA SameChain ==
  ASSUME Typed, RunsAreSound, NEW x \in RunIds, NEW y \in RunIds, Root(x) = Root(y)
  PROVE  Subject(runs[x]) = Subject(runs[y])
<1>1. ASSUME NEW z \in RunIds PROVE Subject(runs[runs[z].root]) = Subject(runs[z])
  <2>1. runs[z].attempt \in Nat
    BY RunIn DEF Typed, RunRecords
  <2>2. /\ runs[z].attempt = 0 => runs[z].root = z
        /\ runs[z].attempt > 0 => Subject(runs[runs[z].root]) = Subject(runs[z])
    BY DEF RunsAreSound, KnownAs, InChain
  <2> QED
    BY <2>1, <2>2
<1> QED
  BY <1>1 DEF Root

LEMMA CurFacts ==
  ASSUME Typed, RunsAreSound, exec.pc # "idle"
  PROVE  /\ exec \in Execs /\ exec.run \in RunIds /\ exec.run # 0 /\ exec # NoExec
         /\ Cur \in RunRecords /\ Sound(Cur) /\ Cur.root \in 1..exec.run
         /\ (Cur.attempt = 0 <=> Cur.root = exec.run) /\ Cur.plan \in Seq(Steps)
         /\ Len(Cur.plan) \in Nat /\ Cur.done \in Nat /\ Cur.done <= Len(Cur.plan)
  BY InExec, RunIn, RunPlan DEF Typed, RunsAreSound, KnownAs, InChain, Cur
\* An action is never replayed: the step in execution, when it acts, is no
\* check done again.
LEMMA ActsOnce ==
  ASSUME Typed, RunsAreSound, exec.pc # "idle", Cur.done < Len(Cur.plan), CurStep.stage = "execute"
  PROVE  ~CurStep.again
<1>1. Cur.done + 1 \in 1..Len(Cur.plan)
  <2>1. Cur.done \in Nat /\ Len(Cur.plan) \in Nat
    BY CurFacts
  <2>2. QED
    BY <2>1
<1>2. \A i \in 1..Len(Cur.plan) : Cur.plan[i].stage = "execute" => ~Cur.plan[i].again
  <2>1. PlanIsSound(Cur)
    BY CurFacts DEF Sound
  <2>2. QED
    BY <2>1 DEF PlanIsSound
<1>3. CurStep = Cur.plan[Cur.done + 1]
  BY DEF CurStep
<1> HIDE DEF CurStep
<1> QED
  BY <1>1, <1>2, <1>3

LEMMA StepNode ==
  ASSUME Typed, RunsAreSound, exec.pc # "idle", Cur.done < Len(Cur.plan),
         CurStep.stage \in {"execute", "post"}, ~CurStep.again
  PROVE  /\ CurStep.node \in Nodes /\ Cur.backups[CurStep.node] # <<>>
         /\ Cur.backups[CurStep.node] \in Rows
<1>1. CurStep.node \in Nodes /\ Cur.backups[CurStep.node] # <<>>
  BY CurFacts DEF Sound, PlanIsSound, CurStep
<1>2. Cur.backups \in [Nodes -> Rows]
  BY CurFacts DEF RunRecords
<1> QED
  BY <1>1, <1>2

LEMMA OwnFacts ==
  ASSUME Typed, RunsAreSound, RecordsFit, exec.pc # "idle", NEW n \in Nodes, Own(n)
  PROVE  /\ Subject(runs[receipts[n].run]) = Subject(Cur)
         /\ receipts[n].backup = Cur.backups[n]
         /\ Lifecycle(Cur) /\ Teardown(Cur, n) => installed[n] \in {<<>>, Cur.backups[n]}
         /\ receipts[n].status = "verified" =>
              installed[n] = RowOf(Cur, n) /\ actual[n] = Effect(Cur, n)
<1>1. ReceiptFits(n) /\ receipts[n].status # "none" /\ receipts[n].run \in RunIds
  BY DEF RecordsFit, ReceiptFits, Own
<1>2. Subject(runs[receipts[n].run]) = Subject(Cur)
  BY <1>1, CurFacts, SameChain DEF Own, Root, Cur
<1> SUFFICES ASSUME NEW a, a = runs[receipts[n].run], NEW c, c = Cur
             PROVE  /\ receipts[n].backup = c.backups[n]
                    /\ Lifecycle(c) /\ Teardown(c, n) => installed[n] \in {<<>>, c.backups[n]}
                    /\ receipts[n].status = "verified" =>
                         installed[n] = RowOf(c, n) /\ actual[n] = Effect(c, n)
  BY <1>2
<1>3. /\ (Lifecycle(a) <=> Lifecycle(c)) /\ (Teardown(a, n) <=> Teardown(c, n))
      /\ RowOf(a, n) = RowOf(c, n) /\ Effect(a, n) = Effect(c, n) /\ a.backups = c.backups
  BY <1>2, SameSubject, SubjectFields
<1> QED
  BY <1>1, <1>3 DEF ReceiptFits

\* A post-check is about a node the chain has worked on.
LEMMA PostIsOwn ==
  ASSUME Typed, RunsAreSound, WorkFits, exec.pc \in Working, Cur.done < Len(Cur.plan),
         CurStep.stage = "post", ~CurStep.again
  PROVE  CurStep.node \in Nodes /\ Own(CurStep.node)
<1>1. exec.pc # "idle"
  BY DEF Working
<1>2. CurStep.node \in Nodes
  BY <1>1, StepNode
<1>3. Posts(Cur, Cur.done + 1, CurStep.node) /\ Cur.done + 1 \in (Cur.done + 1)..Len(Cur.plan)
  BY <1>1, CurFacts DEF Posts, CurStep
<1>4. (Cur.done + 1)..((Cur.done + 1) - 1) = {}
  BY <1>1, CurFacts
<1>5. \/ \E j \in (Cur.done + 1)..((Cur.done + 1) - 1) : Executes(Cur, j, CurStep.node)
      \/ Own(CurStep.node)
  BY <1>2, <1>3 DEF WorkFits, NodesFit
<1> QED
  BY <1>2, <1>4, <1>5

\* A teardown of a scenario run finds the row it removes, or none.
LEMMA TeardownFinds ==
  ASSUME Typed, RunsAreSound, RecordsFit, WorkFits, exec.pc \in Working, NEW n \in Nodes,
         Lifecycle(Cur), Teardown(Cur, n), Cur.backups[n] # <<>>
  PROVE  installed[n] \in {<<>>, Cur.backups[n]}
<1>1. exec.pc # "idle"
  BY DEF Working
<1>2. BackupsFit(Cur) /\ RetryIsSound(Cur) /\ Cur = runs[exec.run] /\ exec.run \in RunIds
  BY <1>1, CurFacts DEF Sound, Cur
<1>3. Cur.backups[n] = Cur.digest[n]
  <2>1. Effect(Cur, n) = Absent /\ Effect(Cur, n) = Target[Cur.rev][n]
    BY DEF Teardown, Lifecycle, Effect
  <2> QED
    BY <1>2, <2>1 DEF BackupsFit
<1>4. CASE Own(n)
  BY <1>1, <1>4, OwnFacts
<1>5. CASE ~Own(n) /\ ~(Cur.attempt > 0)
  BY <1>3, <1>5 DEF WorkFits, NodesFit
<1>6. CASE ~Own(n) /\ Cur.attempt > 0
  <2>1. receipts[n] = Cur.retryState[1][n]
    BY <1>6 DEF WorkFits, NodesFit
  <2>2. CASE receipts[n].status = "none"
    BY <2>2 DEF RecordsFit, ReceiptFits
  <2>3. CASE receipts[n].status # "none"
    <3>1. receipts[n].status = "verified" /\ receipts[n].seq < Cur.root
      BY <1>2, <1>6, <2>1, <2>3 DEF RetryIsSound, Own
    <3>2. DigestHolds(Cur, n)
      BY <1>2 DEF RecordsFit
    <3> QED
      BY <1>3, <3>1, <3>2 DEF DigestHolds
  <2> QED
    BY <2>2, <2>3
<1> QED
  BY <1>4, <1>5, <1>6

---------------------------------------------------------------------------
(* What a step of the run in execution does to the records.                  *)

LEMMA NewReceipt ==
  ASSUME Typed, RunsAreSound, exec.pc # "idle", NEW n \in Nodes,
         NEW status \in {"started", "main_succeeded", "verified"}, RecordReceipt(n, status)
  PROVE  /\ receipts' \in [Nodes -> ReceiptRows]
         /\ receipts'[n].run = exec.run /\ receipts'[n].status = status
         /\ receipts'[n].backup = Cur.backups[n]
         /\ receipts'[n].seq >= Len(runs) /\ (prepared # None => receipts'[n].seq >= NextRun)
         /\ \A m \in Nodes : m # n => receipts'[m] = receipts[m]
<1> DEFINE seq == Len(runs) + IF prepared = None THEN 0 ELSE 1
<1>1. exec.run \in Nat /\ Cur.backups[n] \in Rows /\ Len(runs) \in Nat
  BY CurFacts, RunIn DEF Typed, RunRecords, RunIds
<1>2. seq \in Nat /\ seq >= Len(runs) /\ (prepared # None => seq >= NextRun)
  BY <1>1 DEF NextRun
<1>3. receipts' = [receipts EXCEPT ![n] = [run |-> exec.run, status |-> status,
                                          backup |-> Cur.backups[n], seq |-> seq]]
  BY DEF RecordReceipt
<1> HIDE DEF seq
<1> DEFINE row == [run |-> exec.run, status |-> status, backup |-> Cur.backups[n], seq |-> seq]
<1>4. row \in ReceiptRows /\ row.run = exec.run /\ row.status = status
      /\ row.backup = Cur.backups[n] /\ row.seq = seq
  BY <1>1, <1>2 DEF ReceiptRows
<1>5. receipts' = [receipts EXCEPT ![n] = row] /\ receipts \in [Nodes -> ReceiptRows]
  BY <1>3 DEF Typed, HostsTyped
<1> HIDE DEF row
<1> QED
  BY <1>2, <1>4, <1>5

LEMMA ReceiptRecorded ==
  ASSUME Typed, RunsAreSound, RecordsFit, exec.pc # "idle", NEW n \in Nodes,
         Cur.backups[n] # <<>>, NEW status \in {"started", "main_succeeded", "verified"},
         RecordReceipt(n, status), UNCHANGED <<runs, installed, actual, prepared>>,
         Lifecycle(Cur) /\ Teardown(Cur, n) => installed[n] \in {<<>>, Cur.backups[n]},
         status = "verified" => installed[n] = RowOf(Cur, n) /\ actual[n] = Effect(Cur, n)
  PROVE  RecordsFit'
<1>1. /\ receipts'[n].run = exec.run /\ receipts'[n].status = status
      /\ receipts'[n].backup = Cur.backups[n] /\ receipts'[n].seq >= Len(runs)
      /\ (prepared # None => receipts'[n].seq >= NextRun)
      /\ \A m \in Nodes : m # n => receipts'[m] = receipts[m]
      /\ receipts'[n].seq \in Nat
  BY NewReceipt DEF ReceiptRows
<1>2. exec.run \in RunIds /\ Cur = runs[exec.run] /\ Len(runs) \in Nat
  BY CurFacts, RunIn DEF Typed, Cur
<1>3. \A x \in RunIds : runs[x].root \in Nat /\ runs[x].root <= Len(runs)
  BY <1>2 DEF RunsAreSound, KnownAs, InChain, RunIds
<1>4. prepared # None => prepared.root \in Nat /\ prepared.root <= NextRun
  BY <1>2 DEF RunsAreSound, KnownAs, InChain, NextRun
<1>5. RunsKeep /\ RunIds' = RunIds
  BY Unchanging DEF RunsStay, RunIds
<1> SUFFICES ASSUME NEW m \in Nodes
             PROVE  /\ ReceiptFits(m)'
                    /\ \A x \in RunIds : DigestHolds(runs[x], m)' /\ SeqGrows(runs[x], m)'
                    /\ prepared # None => DigestHolds(prepared, m)' /\ SeqGrows(prepared, m)'
  BY <1>5 DEF RecordsFit
<1>6. CASE m # n
  <2>1. ReceiptFits(m)'
    BY <1>1, <1>5, <1>6, ReceiptStays DEF RecordsFit
  <2>2. ASSUME NEW a, DigestHolds(a, m) /\ SeqGrows(a, m) PROVE DigestHolds(a, m)' /\ SeqGrows(a, m)'
    BY <1>1, <1>6, <2>2 DEF DigestHolds, SeqGrows
  <2>3. ASSUME NEW x \in RunIds PROVE DigestHolds(runs[x], m)' /\ SeqGrows(runs[x], m)'
    <3> SUFFICES ASSUME NEW a, a = runs[x], runs'[x] = a PROVE DigestHolds(a, m)' /\ SeqGrows(a, m)'
      OBVIOUS
    <3> QED
      BY <2>2 DEF RecordsFit
  <2>4. ASSUME prepared # None PROVE DigestHolds(prepared, m)' /\ SeqGrows(prepared, m)'
    <3> SUFFICES ASSUME NEW a, a = prepared, prepared' = a PROVE DigestHolds(a, m)' /\ SeqGrows(a, m)'
      OBVIOUS
    <3> QED
      BY <2>2, <2>4 DEF RecordsFit
  <2> QED
    BY <2>1, <2>3, <2>4
<1>7. CASE m = n
  <2>1. ReceiptFits(n)'
    <3> SUFFICES ASSUME NEW c, c = Cur, c = runs'[receipts'[n].run]
                 PROVE  ReceiptFits(n)'
      BY <1>1, <1>2
    <3> QED
      BY <1>1, <1>2, <1>3, <1>5 DEF ReceiptFits
  <2>2. ASSUME NEW a, a.root \in Nat, receipts'[n].seq >= a.root
        PROVE  DigestHolds(a, n)' /\ SeqGrows(a, n)'
    BY <1>1, <2>2 DEF DigestHolds, SeqGrows
  <2>3. ASSUME NEW x \in RunIds PROVE DigestHolds(runs[x], n)' /\ SeqGrows(runs[x], n)'
    <3> SUFFICES ASSUME NEW a, a = runs[x], runs'[x] = a PROVE DigestHolds(a, n)' /\ SeqGrows(a, n)'
      OBVIOUS
    <3>1. a.root \in Nat /\ receipts'[n].seq >= a.root
      BY <1>1, <1>2, <1>3
    <3> QED
      BY <2>2, <3>1
  <2>4. ASSUME prepared # None PROVE DigestHolds(prepared, n)' /\ SeqGrows(prepared, n)'
    <3> SUFFICES ASSUME NEW a, a = prepared, prepared' = a PROVE DigestHolds(a, n)' /\ SeqGrows(a, n)'
      OBVIOUS
    <3>1. a.root \in Nat /\ receipts'[n].seq >= a.root
      BY <1>1, <1>2, <1>4, <2>4 DEF NextRun
    <3> QED
      BY <2>2, <3>1
  <2> QED
    BY <1>7, <2>1, <2>3, <2>4
<1> QED
  BY <1>6, <1>7

\* A change of a row or a host where nothing rests on it.
LEMMA HostChanges ==
  ASSUME Typed, RecordsFit, NEW n \in Nodes, UNCHANGED <<runs, receipts, prepared>>,
         \A m \in Nodes : m # n => installed'[m] = installed[m] /\ actual'[m] = actual[m],
         ReceiptFits(n)', receipts[n].status = "verified" => installed'[n] = installed[n]
  PROVE  RecordsFit'
<1>1. RunsKeep /\ RunIds' = RunIds
  BY Unchanging DEF RunsStay, RunIds
<1>2. ASSUME NEW m \in Nodes PROVE ReceiptFits(m)'
  <2>1. CASE m # n
    BY <1>1, <2>1, ReceiptStays DEF RecordsFit
  <2> QED
    BY <2>1
<1>3. ASSUME NEW m \in Nodes, NEW a, DigestHolds(a, m) /\ SeqGrows(a, m)
      PROVE  DigestHolds(a, m)' /\ SeqGrows(a, m)'
  BY <1>3 DEF DigestHolds, SeqGrows
<1>4. ASSUME NEW m \in Nodes, NEW x \in RunIds PROVE DigestHolds(runs[x], m)' /\ SeqGrows(runs[x], m)'
  <2> SUFFICES ASSUME NEW a, a = runs[x], runs'[x] = a PROVE DigestHolds(a, m)' /\ SeqGrows(a, m)'
    OBVIOUS
  <2> QED
    BY <1>3 DEF RecordsFit
<1>5. ASSUME NEW m \in Nodes, prepared # None PROVE DigestHolds(prepared, m)' /\ SeqGrows(prepared, m)'
  <2> SUFFICES ASSUME NEW a, a = prepared, prepared' = a PROVE DigestHolds(a, m)' /\ SeqGrows(a, m)'
    OBVIOUS
  <2> QED
    BY <1>3, <1>5 DEF RecordsFit
<1> QED
  BY <1>1, <1>2, <1>4, <1>5 DEF RecordsFit

---------------------------------------------------------------------------
(* The plan and the records during an execution.                             *)

LEMMA NodesStay ==
  ASSUME NodesFit, runs' = runs, exec'.run = exec.run,
         \A n \in Nodes : Own(n) => Own(n)',
         \A n \in Nodes : \/ Own(n)'
                          \/ receipts'[n] = receipts[n] /\ installed'[n] = installed[n]
  PROVE  NodesFit'
<1> SUFFICES ASSUME NEW c, c = Cur, Cur' = c PROVE NodesFit'
  BY DEF Cur
<1> SUFFICES ASSUME NEW n \in Nodes
             PROVE  /\ \A i \in (c.done + 1)..Len(c.plan) : Posts(c, i, n) =>
                         \/ \E j \in (c.done + 1)..(i - 1) : Executes(c, j, n)
                         \/ Own(n)'
                    /\ Own(n)' \/ IF c.attempt > 0 THEN receipts'[n] = c.retryState[1][n]
                                  ELSE Lifecycle(c) => installed'[n] = c.digest[n]
  BY DEF NodesFit, Posts, Executes, Lifecycle
<1>1. /\ \A i \in (c.done + 1)..Len(c.plan) : Posts(c, i, n) =>
           \/ \E j \in (c.done + 1)..(i - 1) : Executes(c, j, n)
           \/ Own(n)
      /\ Own(n) \/ IF c.attempt > 0 THEN receipts[n] = c.retryState[1][n]
                   ELSE Lifecycle(c) => installed[n] = c.digest[n]
  BY DEF NodesFit
<1> QED
  BY <1>1

LEMMA OwnStays ==
  ASSUME Typed, RunsAreSound, RecordsFit, exec.pc # "idle", RunsStay, exec'.run = exec.run,
         NEW n \in Nodes, receipts'[n] = receipts[n], Own(n)
  PROVE  Own(n)'
<1>1. receipts[n].run \in RunIds /\ exec.run \in RunIds /\ receipts[n].status # "none"
  BY CurFacts DEF RecordsFit, ReceiptFits, Own
<1>2. Root(receipts[n].run)' = Root(receipts[n].run) /\ Cur'.root = Cur.root
  BY <1>1, LockedFields, SubjectFields DEF RunsStay, RunsKeep, Root, Cur
<1> QED
  BY <1>1, <1>2 DEF Own

\* A finished change is recorded as the chain's own.
LEMMA NodesOnCompletion ==
  ASSUME Typed, RunsAreSound, RecordsFit, StepFits, NodesFit, exec.pc # "idle",
         WorkGoesOn, runs' # runs
  PROVE  NodesFit'
<1>1. /\ exec.run \in RunIds /\ RunsStay /\ UNCHANGED <<baseline, hostVars>>
      /\ exec'.run = exec.run /\ Cur.done < Len(Cur.plan) /\ Cur'.done = Cur.done + 1
      /\ CurStep.stage = "execute" => exec.pc = "ended"
  BY DEF WorkGoesOn, Cur
<1>2. Cur.done \in Nat /\ Len(Cur.plan) \in Nat /\ Cur.attempt \in Nat
  BY CurFacts DEF RunRecords
<1> SUFFICES ASSUME NEW c, c = Cur, NEW d, d = Cur' PROVE NodesFit'
  OBVIOUS
<1>3. /\ d.plan = c.plan /\ d.attempt = c.attempt /\ d.retryState = c.retryState
      /\ d.digest = c.digest /\ d.done = c.done + 1 /\ (Lifecycle(d) <=> Lifecycle(c))
  <2>1. Locked(d) = Locked(c)
    BY <1>1 DEF RunsStay, RunsKeep, Cur
  <2> QED
    BY <1>1, <2>1, LockedFields, SubjectFields, SameSubject
<1> SUFFICES ASSUME NEW n \in Nodes
             PROVE  /\ \A i \in (d.done + 1)..Len(d.plan) : Posts(d, i, n) =>
                         \/ \E j \in (d.done + 1)..(i - 1) : Executes(d, j, n)
                         \/ Own(n)'
                    /\ Own(n)' \/ IF d.attempt > 0 THEN receipts'[n] = d.retryState[1][n]
                                  ELSE Lifecycle(d) => installed'[n] = d.digest[n]
  BY DEF NodesFit, Posts, Executes, Lifecycle
<1> SUFFICES /\ \A i \in (c.done + 2)..Len(c.plan) : Posts(c, i, n) =>
                  \/ \E j \in (c.done + 2)..(i - 1) : Executes(c, j, n)
                  \/ Own(n)'
             /\ Own(n)' \/ IF c.attempt > 0 THEN receipts[n] = c.retryState[1][n]
                                  ELSE Lifecycle(c) => installed[n] = c.digest[n]
  <2>1. (d.done + 1)..Len(d.plan) = (c.done + 2)..Len(c.plan)
    BY <1>2, <1>3
  <2>2. \A i : (d.done + 1)..(i - 1) = (c.done + 2)..(i - 1)
    BY <1>2, <1>3
  <2>3. UNCHANGED <<receipts, installed>>
    BY <1>1 DEF hostVars
  <2>4. ASSUME NEW i \in (d.done + 1)..Len(d.plan), Posts(d, i, n)
        PROVE  (\E j \in (d.done + 1)..(i - 1) : Executes(d, j, n)) \/ Own(n)'
    <3>1. i \in (c.done + 2)..Len(c.plan) /\ Posts(c, i, n)
      BY <1>3, <2>1, <2>4 DEF Posts
    <3>2. (\E j \in (c.done + 2)..(i - 1) : Executes(c, j, n)) \/ Own(n)'
      BY <3>1
    <3>3. (d.done + 1)..(i - 1) = (c.done + 2)..(i - 1)
      BY <2>2
    <3> QED
      BY <1>3, <3>2, <3>3 DEF Executes
  <2>5. Own(n)' \/ IF d.attempt > 0 THEN receipts'[n] = d.retryState[1][n]
                   ELSE Lifecycle(d) => installed'[n] = d.digest[n]
    BY <1>3, <2>3
  <2> QED
    BY <2>4, <2>5
<1>4. Own(n) => Own(n)'
  BY <1>1, OwnStays DEF hostVars
<1>5. /\ \A i \in (c.done + 1)..Len(c.plan) : Posts(c, i, n) =>
           \/ \E j \in (c.done + 1)..(i - 1) : Executes(c, j, n)
           \/ Own(n)
      /\ Own(n) \/ IF c.attempt > 0 THEN receipts[n] = c.retryState[1][n]
                   ELSE Lifecycle(c) => installed[n] = c.digest[n]
  BY DEF NodesFit
<1>6. Executes(c, c.done + 1, n) => Own(n)
  <2>1. SUFFICES ASSUME Executes(c, c.done + 1, n) PROVE Own(n)
    OBVIOUS
  <2>2. CurStep.stage = "execute" /\ CurStep.node = n
    BY <2>1 DEF Executes, CurStep
  <2> QED
    BY <1>1, <2>2 DEF StepFits, Own, Root, Cur
<1>7. ASSUME NEW i \in (c.done + 2)..Len(c.plan), Posts(c, i, n),
             ~ \E j \in (c.done + 2)..(i - 1) : Executes(c, j, n)
      PROVE  Own(n)'
  <2>1. i \in (c.done + 1)..Len(c.plan)
    BY <1>2
  <2>2. \A j \in (c.done + 1)..(i - 1) : j = c.done + 1 \/ j \in (c.done + 2)..(i - 1)
    BY <1>2
  <2> QED
    BY <1>4, <1>5, <1>6, <1>7, <2>1, <2>2
<1> QED
  BY <1>4, <1>5, <1>7

LEMMA ValidationFits ==
  ASSUME Typed, RunsAreSound, RecordsFit, WorkFits, Validate, exec'.pc \in Working
  PROVE  WorkFits'
<1>0. /\ exec.pc = "validate" /\ UNCHANGED <<runs, baseline, hostVars, prepared, faults>>
      /\ \/ Goto("next") /\ RetryHolds(Cur, exec.run) /\ (Lifecycle(Cur) => ScenarioHolds(Cur))
         \/ FailWith("conflict")
  BY DEF Validate
<1>a. ~FailWith("conflict")
  BY <1>0, CurFacts, Fails DEF Working, Typed
<1>1. /\ exec.pc = "validate" /\ Goto("next") /\ RetryHolds(Cur, exec.run)
      /\ Lifecycle(Cur) => ScenarioHolds(Cur)
      /\ UNCHANGED <<runs, baseline, hostVars, prepared, faults>>
  BY <1>0, <1>a
<1>2. /\ exec.run \in RunIds /\ Cur = runs[exec.run] /\ Sound(Cur) /\ Cur.attempt \in Nat
      /\ Cur \in RunRecords /\ Cur.root \in Nat \ {0}
      /\ receipts \in [Nodes -> ReceiptRows] /\ Cur.retryState[1] \in [Nodes -> ReceiptRows]
  <2>1. exec.run \in RunIds /\ Cur = runs[exec.run] /\ Sound(Cur) /\ Cur \in RunRecords
        /\ Cur.root \in 1..exec.run
    BY <1>1, CurFacts DEF Cur
  <2>2. Cur.attempt \in Nat /\ Cur.retryState[1] \in [Nodes -> ReceiptRows]
    BY <2>1 DEF RunRecords
  <2> QED
    BY <2>1, <2>2 DEF Typed, HostsTyped
<1>3. exec'.pc = "next" /\ exec'.run = exec.run
  BY <1>1, CurFacts, Moves DEF Working, Typed
<1> SUFFICES ASSUME NEW c, c = Cur, Cur' = c PROVE NodesFit'
  BY <1>1, <1>3 DEF WorkFits, StepFits, Cur
<1>4. /\ c.done = 0 /\ PlanIsSound(c) /\ RetryIsSound(c)
      /\ c.attempt > 0 => receipts = c.retryState[1]
      /\ ~(c.attempt > 0) => (Lifecycle(c) => installed = c.digest)
  <2>1. c.done = 0
    BY <1>1 DEF WorkFits
  <2>2. PlanIsSound(c) /\ RetryIsSound(c)
    BY <1>2 DEF Sound
  <2>3. c.attempt > 0 => receipts = c.retryState[1]
    BY <1>1 DEF RetryHolds
  <2>4. ~(c.attempt > 0) => (Lifecycle(c) => installed = c.digest)
    BY <1>1 DEF ScenarioHolds
  <2> QED
    BY <2>1, <2>2, <2>3, <2>4
<1> SUFFICES ASSUME NEW n \in Nodes
             PROVE  /\ \A i \in 1..Len(c.plan) : Posts(c, i, n) =>
                         (\E j \in 1..(i - 1) : Executes(c, j, n)) \/ Own(n)'
                    /\ Own(n)' \/ IF c.attempt > 0 THEN receipts[n] = c.retryState[1][n]
                                  ELSE Lifecycle(c) => installed[n] = c.digest[n]
  BY <1>1, <1>4 DEF NodesFit, Posts, Executes, Lifecycle, hostVars
<1>5. Own(n) => Own(n)'
  BY <1>1, <1>3, OwnStays, Unchanging DEF hostVars
<1>6. ASSUME NEW i \in 1..Len(c.plan), Posts(c, i, n), ~ \E j \in 1..(i - 1) : Executes(c, j, n)
      PROVE  Own(n)
  <2>1. c.attempt > 0 /\ receipts[n].seq >= c.root /\ c.backups[n] # <<>>
    BY <1>4, <1>6 DEF PlanIsSound, Posts
  <2>2. receipts[n].seq \in Nat /\ c.root \in Nat \ {0}
    BY <1>2 DEF ReceiptRows
  <2>3. receipts[n].status # "none"
    BY <2>1, <2>2 DEF RecordsFit, ReceiptFits, NoReceipt
  <2>4. receipts[n].run \in RunIds /\ Root(receipts[n].run) = c.root
    BY <1>4, <2>1, <2>2, <2>3 DEF RetryIsSound
  <2> QED
    BY <2>3, <2>4 DEF Own
<1> QED
  BY <1>4, <1>5, <1>6

---------------------------------------------------------------------------
(* Every step of an execution keeps the records and the plan.                *)

\* The part of the invariant that does not speak of the baseline.
Records == Typed /\ RunsAreSound /\ RecordsFit /\ WorkFits

LEMMA AtNode ==
  ASSUME Records, exec.pc \in Working, Cur.done < Len(Cur.plan),
         CurStep.stage \in {"execute", "post"}, ~CurStep.again
  PROVE  /\ CurStep.node \in Nodes /\ Cur.backups[CurStep.node] # <<>>
         /\ Lifecycle(Cur) /\ Teardown(Cur, CurStep.node) =>
              installed[CurStep.node] \in {<<>>, Cur.backups[CurStep.node]}
         /\ CurStep.stage = "post" => Own(CurStep.node)
<1>1. exec.pc # "idle"
  BY DEF Working
<1> QED
  BY <1>1, StepNode, TeardownFinds, PostIsOwn DEF Records

\* The receipt a step writes is the chain's own.
LEMMA OwnReceipt ==
  ASSUME Records, exec.pc # "idle", NEW n \in Nodes, UNCHANGED runs, exec'.run = exec.run,
         NEW status \in {"started", "main_succeeded", "verified"}, RecordReceipt(n, status)
  PROVE  Own(n)' /\ \A m \in Nodes : Own(m) => Own(m)'
<1>1. /\ receipts'[n].run = exec.run /\ receipts'[n].status = status
      /\ \A m \in Nodes : m # n => receipts'[m] = receipts[m]
  BY NewReceipt DEF Records
<1>2. Own(n)'
  BY <1>1 DEF Own, Root, Cur
<1> QED
  BY <1>1, <1>2, OwnStays, Unchanging DEF Records

LEMMA ReceiptSteps ==
  ASSUME Records, BeginExecute \/ EndExecute \/ VerifyReceipt
  PROVE  RecordsFit' /\ WorkFits' /\ HostsTyped'
<1> SUFFICES ASSUME NEW n, n = CurStep.node
             PROVE  RecordsFit' /\ WorkFits' /\ HostsTyped'
  OBVIOUS
<1> DEFINE status == IF exec.pc = "marked" THEN "started"
                     ELSE IF exec.pc = "acted" THEN "main_succeeded" ELSE "verified"
           pc == IF exec.pc = "marked" THEN "acting" ELSE "ended"
<1>1. /\ exec.pc \in {"marked", "acted", "recorded"} /\ exec.pc \in Working /\ exec.pc # "idle"
      /\ RecordReceipt(n, status) /\ Goto(pc)
      /\ status \in {"started", "main_succeeded", "verified"}
      /\ UNCHANGED <<runs, baseline, installed, actual, prepared, faults>>
      /\ exec.pc = "marked" => CurStep.stage = "execute"
  BY DEF BeginExecute, EndExecute, VerifyReceipt, Working
<1>2. StepFits /\ NodesFit /\ Cur.done < Len(Cur.plan)
  BY <1>1 DEF Records, WorkFits, StepFits
<1>3. exec' \in Execs /\ exec'.run = exec.run /\ exec'.pc = pc /\ pc \in {"acting", "ended"}
  BY <1>1, Moves, CurFacts DEF Records, Typed, Working
<1>4. CurStep.stage \in {"execute", "post"} /\ ~CurStep.again
  <2>1. CASE exec.pc = "marked"
    BY <1>1, <1>2, <2>1, ActsOnce DEF Records
  <2>2. CASE exec.pc = "acted"
    <3>1. CurStep.stage = "execute"
      BY <1>2, <2>2 DEF StepFits
    <3>2. QED
      BY <1>1, <1>2, <3>1, ActsOnce DEF Records
  <2>3. CASE exec.pc = "recorded"
    BY <1>2, <2>3 DEF StepFits
  <2>4. QED
    BY <1>1, <2>1, <2>2, <2>3
<1>5. /\ n \in Nodes /\ Cur.backups[n] # <<>>
      /\ Lifecycle(Cur) /\ Teardown(Cur, n) => installed[n] \in {<<>>, Cur.backups[n]}
  BY <1>1, <1>2, <1>4, AtNode
<1>6. status = "verified" => installed[n] = RowOf(Cur, n) /\ actual[n] = Effect(Cur, n)
  BY <1>1, <1>2 DEF StepFits
<1>7. Own(n)' /\ \A m \in Nodes : Own(m) => Own(m)'
  <2> HIDE DEF status
  <2> QED
    <3>1. UNCHANGED runs /\ exec'.run = exec.run /\ exec.pc # "idle"
      BY <1>1, <1>3
    <3> QED
      BY <1>1, <1>5, <3>1, OwnReceipt
<1>8. /\ receipts' \in [Nodes -> ReceiptRows] /\ receipts'[n].run = exec.run
      /\ receipts'[n].status = status /\ \A m \in Nodes : m # n => receipts'[m] = receipts[m]
  <2> HIDE DEF status
  <2> QED
    BY <1>1, <1>5, NewReceipt DEF Records
<1>9. RecordsFit'
  <2> HIDE DEF status
  <2> QED
    BY <1>1, <1>5, <1>6, ReceiptRecorded DEF Records
<1>10. NodesFit'
  <2> HIDE DEF status, pc
  <2> QED
    BY <1>1, <1>2, <1>3, <1>7, <1>8, NodesStay
<1>11. StepFits'
  <2>1. Cur' = Cur /\ CurStep' = CurStep
    BY <1>1, <1>3 DEF Cur, CurStep
  <2> QED
    BY <1>1, <1>2, <1>3, <1>4, <1>8, <2>1 DEF StepFits
<1> QED
  BY <1>1, <1>3, <1>8, <1>9, <1>10, <1>11 DEF WorkFits, HostsTyped, Records, Typed

LEMMA CompletionSteps ==
  ASSUME Records, WorkGoesOn, exec.pc \in Working, runs' # runs
  PROVE  RecordsFit' /\ WorkFits' /\ HostsTyped'
<1>1. /\ exec.run \in RunIds /\ exec.run # 0 /\ RunsStay /\ UNCHANGED hostVars /\ prepared' = prepared
      /\ exec'.pc = "next" /\ Cur.done < Len(Cur.plan)
      /\ CurStep.stage = "execute" => exec.pc = "ended"
      /\ \A y \in RunIds : runs'[y].done = IF y = exec.run THEN Cur.done + 1 ELSE runs[y].done
  BY DEF WorkGoesOn
<1>2. StepFits /\ NodesFit /\ exec.pc # "idle"
  BY DEF Records, WorkFits, Working
<1>3. Cur.done \in Nat
  BY <1>2, CurFacts DEF Records
<1>4. ASSUME NEW x \in RunIds, NEW j \in 1..runs'[x].done, NEW n \in Nodes, Executes(runs[x], j, n)
      PROVE  j \in 1..runs[x].done \/ receipts[n].seq >= runs[x].root
  <2>1. CASE x # exec.run \/ j # Cur.done + 1
    BY <1>1, <1>3, <2>1 DEF Cur
  <2>2. CASE x = exec.run /\ j = Cur.done + 1
    <3>1. CurStep.stage = "execute" /\ CurStep.node = n
      BY <1>4, <2>2 DEF Executes, CurStep, Cur
    <3>2. receipts[n].run = exec.run /\ receipts[n].status # "none"
      BY <1>1, <1>2, <3>1 DEF StepFits
    <3> QED
      BY <2>2, <3>2 DEF Records, RecordsFit, ReceiptFits
  <2> QED
    BY <2>1, <2>2
<1>5. RecordsFit'
  BY <1>1, <1>4, RecordsStay DEF Records
<1>6. NodesFit'
  BY <1>2, NodesOnCompletion DEF Records
<1>7. StepFits'
  BY <1>1 DEF StepFits
<1> QED
  BY <1>1, <1>5, <1>6, <1>7 DEF WorkFits, Records, Typed, HostsTyped, hostVars

\* A step that changes no run and no record of a node.
LEMMA NothingRecorded ==
  ASSUME Records, exec.pc # "idle", UNCHANGED <<runs, hostVars, prepared>>, exec'.run = exec.run
  PROVE  RecordsFit' /\ HostsTyped' /\ (NodesFit => NodesFit')
<1>1. RunsStay /\ RunIds' = RunIds
  BY Unchanging DEF RunIds
<1>2. RecordsFit'
  BY <1>1, RecordsStay DEF Records
<1>3. \A n \in Nodes : Own(n) => Own(n)'
  BY <1>1, OwnStays DEF Records, hostVars
<1>4. NodesFit => NodesFit'
  BY <1>3, NodesStay DEF hostVars
<1> QED
  BY <1>2, <1>4 DEF Records, Typed, HostsTyped, hostVars

LEMMA FailingSteps ==
  ASSUME Records, exec.pc # "idle", UNCHANGED <<runs, hostVars, prepared>>,
         exec'.run = exec.run, exec'.pc = "failing"
  PROVE  RecordsFit' /\ WorkFits' /\ HostsTyped'
BY NothingRecorded DEF WorkFits, Working

LEMMA QuietSteps ==
  ASSUME Records, exec.pc \in Working \cup {"validate"}, WorkGoesOn,
         Validate \/ MarkMutation \/ Check \/ Acceptance \/ CompleteStep \/ Abort \/ RefuseFinish
  PROVE  RecordsFit' /\ WorkFits' /\ HostsTyped'
<1>1. /\ UNCHANGED <<hostVars, prepared>> /\ exec'.run = exec.run
      /\ exec.pc # "idle" /\ exec.run # 0 /\ ExecTyped
  BY DEF Validate, MarkMutation, Check, Acceptance, CompleteStep, Abort, RefuseFinish, WorkGoesOn,
         Working, Records, Typed
<1>2. CASE runs' # runs
  <2>1. exec.pc \in Working
    BY <1>2 DEF WorkGoesOn, Working
  <2> QED
    BY <1>2, <2>1, CompletionSteps
<1>3. CASE runs' = runs /\ exec'.pc = "failing"
  BY <1>1, <1>3, FailingSteps
<1>4. CASE runs' = runs /\ exec'.pc \in Working
  <2>1. RecordsFit' /\ HostsTyped' /\ (NodesFit => NodesFit')
    BY <1>1, <1>4, NothingRecorded
  <2>2. Cur' = Cur /\ CurStep' = CurStep
    BY <1>1, <1>4 DEF Cur, CurStep
  <2>3. CASE Validate
    BY <1>4, <2>1, <2>3, ValidationFits DEF Records
  <2>4. CASE MarkMutation
    <3>1. /\ exec.pc = "next" /\ Cur.done < Len(Cur.plan) /\ CurStep.stage \in {"execute", "acceptance"}
      BY <2>4 DEF MarkMutation, AtStep
    <3>2. exec'.pc = "marked"
      BY <1>1, <1>4, <2>4, Moves, Fails DEF MarkMutation, Working
    <3>3. StepFits'
      BY <2>2, <3>1, <3>2 DEF StepFits
    <3> QED
      BY <2>1, <3>1, <3>2, <3>3 DEF WorkFits, Working, Records
  <2>5. CASE Check
    <3>1. /\ exec.pc = "next" /\ Cur.done < Len(Cur.plan) /\ NodesFit
          /\ \/ /\ actual[CurStep.node] = Expected(Cur, CurStep) /\ CurStep.stage = "post"
                /\ ~CurStep.again /\ Goto("checked")
             \/ Complete
             \/ FailWith("check")
      BY <2>5 DEF Check, AtStep, Records, WorkFits, Working
    <3>2. ~Complete
      <4>1. exec.run \in RunIds /\ Cur.done \in Nat
        BY <1>1, CurFacts DEF Records
      <4>2. Complete => runs'[exec.run].done = Cur.done + 1
        BY <1>1, <3>1, Completes DEF Records, Working, Cur, WorkGoesOn
      <4> QED
        BY <1>4, <4>1, <4>2 DEF Cur
    <3>3. ~FailWith("check")
      BY <1>1, <1>4, Fails DEF Working
    <3>4. /\ exec'.pc = "checked" /\ CurStep.stage = "post" /\ ~CurStep.again
          /\ actual[CurStep.node] = Effect(Cur, CurStep.node)
      BY <1>1, <3>1, <3>2, <3>3, Moves DEF Working, Expected
    <3>5. StepFits'
      BY <1>1, <2>2, <3>1, <3>4 DEF StepFits, hostVars
    <3> QED
      BY <2>1, <3>1, <3>4, <3>5 DEF WorkFits
  <2>6. CASE Acceptance \/ CompleteStep
    <3>1. /\ Complete \/ FailWith("check")
          /\ exec.pc \in {"next", "marked", "ended"} /\ StepFits
      BY <2>6 DEF Acceptance, CompleteStep, AtStep, Records, WorkFits, Working
    <3>2. ~FailWith("check")
      BY <1>1, <1>4, Fails DEF Working
    <3>3. Cur.done < Len(Cur.plan)
      BY <2>6, <3>1 DEF Acceptance, CompleteStep, AtStep, StepFits
    <3>4. exec.run \in RunIds /\ Cur.done \in Nat
      BY <1>1, CurFacts DEF Records
    <3>5. runs'[exec.run].done = Cur.done + 1
      BY <1>1, <3>1, <3>2, <3>3, <3>4, Completes DEF Records
    <3> QED
      BY <1>4, <3>4, <3>5 DEF Cur
  <2>7. CASE Abort \/ RefuseFinish
    BY <1>1, <1>4, <2>7, Fails DEF Abort, RefuseFinish, Working
  <2> QED
    BY <2>3, <2>4, <2>5, <2>6, <2>7
<1> QED
  BY <1>2, <1>3, <1>4 DEF WorkGoesOn

LEMMA ActStep ==
  ASSUME Records, Act
  PROVE  RecordsFit' /\ WorkFits' /\ HostsTyped'
<1> SUFFICES ASSUME NEW n, n = CurStep.node, NEW result \in {actual[n], Broken, Effect(Cur, n)},
                    actual' = [actual EXCEPT ![n] = result],
                    Goto("acted") \/ FailWith("job")
             PROVE  RecordsFit' /\ WorkFits' /\ HostsTyped'
  BY DEF Act
<1>1. /\ exec.pc = "acting" /\ exec.pc # "idle" /\ exec.run # 0
      /\ UNCHANGED <<runs, baseline, installed, receipts, prepared, faults>>
  BY CurFacts DEF Act, Records
<1>2. /\ NodesFit /\ Cur.done < Len(Cur.plan) /\ CurStep.stage = "execute"
      /\ receipts[n].run = exec.run /\ receipts[n].status = "started"
  BY <1>1 DEF Records, WorkFits, StepFits, Working
<1>3. ~CurStep.again
  BY <1>1, <1>2, ActsOnce DEF Records
<1>4. n \in Nodes /\ Cur.backups[n] # <<>>
  BY <1>1, <1>2, <1>3, AtNode DEF Working
<1>5. Effect(Cur, n) \in Releases \cup {Absent}
  BY <1>1, <1>4, CurFacts, EffectFacts DEF Records, Sound
<1>6. HostsTyped'
  BY <1>1, <1>4, <1>5 DEF HostsTyped, Records, Typed
<1>7. ReceiptFits(n)'
  <2>1. ReceiptFits(n)
    BY <1>4 DEF Records, RecordsFit
  <2>2. RunIds' = RunIds
    BY <1>1 DEF RunIds
  <2> QED
    BY <1>1, <1>2, <2>1, <2>2 DEF ReceiptFits
<1>8. RecordsFit'
  BY <1>1, <1>2, <1>4, <1>7, HostChanges DEF Records, Typed, HostsTyped
<1>9. /\ exec'.run = exec.run
      /\ exec'.pc = "acted" \/ exec'.pc = "failing"
  BY <1>1, Moves, Fails DEF Records, Typed, Working
<1>10. NodesFit'
  <2>1. \A m \in Nodes : Own(m) => Own(m)'
    BY <1>1, <1>9, OwnStays, Unchanging DEF Records
  <2> QED
    BY <1>1, <1>2, <1>9, <2>1, NodesStay
<1>11. exec'.pc = "acted" => StepFits'
  <2>1. Cur' = Cur /\ CurStep' = CurStep
    BY <1>1, <1>9 DEF Cur, CurStep
  <2> QED
    BY <1>1, <1>2, <1>9, <2>1 DEF StepFits
<1> QED
  BY <1>6, <1>8, <1>9, <1>10, <1>11 DEF WorkFits, Working

\* A new row of a node of the chain.
LEMMA RowChanges ==
  ASSUME Records, exec.pc # "idle", NodesFit, NEW n \in Nodes, Own(n), exec'.run = exec.run,
         UNCHANGED <<runs, receipts, actual, prepared>>, NEW row \in Rows,
         installed' = [installed EXCEPT ![n] = row],
         Lifecycle(Cur) /\ Teardown(Cur, n) => row \in {<<>>, Cur.backups[n]},
         receipts[n].status = "verified" => row = installed[n]
  PROVE  RecordsFit' /\ NodesFit' /\ HostsTyped' /\ installed'[n] = row
<1>1. /\ HostsTyped' /\ installed'[n] = row
      /\ \A m \in Nodes : m # n => installed'[m] = installed[m]
  BY DEF HostsTyped, Records, Typed
<1>2. ReceiptFits(n)'
  <2> SUFFICES ASSUME NEW a, a = runs[receipts[n].run], a = runs'[receipts'[n].run], NEW c, c = Cur
               PROVE  ReceiptFits(n)'
    OBVIOUS
  <2>1. Subject(a) = Subject(c)
    BY OwnFacts DEF Records
  <2>2. (Lifecycle(a) <=> Lifecycle(c)) /\ (Teardown(a, n) <=> Teardown(c, n)) /\ a.backups = c.backups
    BY <2>1, SameSubject, SubjectFields
  <2>3. ReceiptFits(n) /\ receipts[n].status # "none" /\ RunIds' = RunIds
    BY DEF Records, RecordsFit, Own, RunIds
  <2> QED
    BY <1>1, <2>2, <2>3 DEF ReceiptFits
<1>3. RecordsFit'
  BY <1>1, <1>2, HostChanges DEF Records
<1>4. \A m \in Nodes : Own(m) => Own(m)'
  BY OwnStays, Unchanging DEF Records
<1>5. NodesFit'
  BY <1>1, <1>4, NodesStay
<1> QED
  BY <1>1, <1>3, <1>5

LEMMA RecordStep ==
  ASSUME Records, RecordInstallation
  PROVE  RecordsFit' /\ WorkFits' /\ HostsTyped'
<1> SUFFICES ASSUME NEW n, n = CurStep.node PROVE RecordsFit' /\ WorkFits' /\ HostsTyped'
  OBVIOUS
<1>1. /\ exec.pc = "checked" /\ exec.pc # "idle" /\ exec.pc \in Working
      /\ UNCHANGED <<runs, baseline, receipts, actual, prepared, faults>>
  BY DEF RecordInstallation, Working
<1>2. /\ StepFits /\ NodesFit /\ Cur.done < Len(Cur.plan) /\ CurStep.stage = "post" /\ ~CurStep.again
      /\ actual[n] = Effect(Cur, n) /\ exec.run # 0
  BY <1>1, CurFacts DEF Records, WorkFits, StepFits
<1>3. /\ n \in Nodes /\ Cur.backups[n] # <<>> /\ Own(n)
      /\ Lifecycle(Cur) /\ Teardown(Cur, n) => installed[n] \in {<<>>, Cur.backups[n]}
  BY <1>1, <1>2, AtNode
<1>4. /\ RowOf(Cur, n) \in Rows /\ Cur.backups[n] \in Rows /\ Tail(Cur.backups[n]) # Cur.backups[n]
      /\ installed[n] \in Rows /\ <<>> \in Rows
  <2>1. <<>> \in Rows
    BY EmptySeq DEF Rows
  <2> QED
    BY <1>1, <1>3, <2>1, CurFacts, EffectFacts DEF Records, Sound, Typed, HostsTyped
<1>5. receipts[n].status = "verified" => installed[n] = RowOf(Cur, n)
  BY <1>1, <1>3, OwnFacts DEF Records
<1>6. exec'.run = exec.run => Cur' = Cur /\ CurStep' = CurStep
  BY <1>1 DEF Cur, CurStep
<1>7. CASE Superseded(n) /\ FailWith("conflict") /\ UNCHANGED installed
  <2>1. exec'.run = exec.run /\ exec'.pc = "failing"
    BY <1>2, <1>7, Fails DEF Records, Typed
  <2> QED
    BY <1>1, <1>7, <2>1, FailingSteps DEF hostVars
<1>8. CASE ~Superseded(n) /\ Goto("recorded") /\ installed' = [installed EXCEPT ![n] = RowRecorded(n)]
  <2>1. exec'.run = exec.run /\ exec'.pc = "recorded"
    BY <1>2, <1>8, Moves DEF Records, Typed, Working
  <2>2. RowRecorded(n) = RowOf(Cur, n)
    <3>1. CASE ~Teardown(Cur, n)
      BY <3>1 DEF RowRecorded, RowOf
    <3>2. CASE Teardown(Cur, n) /\ Lifecycle(Cur)
      BY <1>3, <3>2 DEF RowRecorded, RowOf, RowRemoved
    <3>3. CASE Teardown(Cur, n) /\ ~Lifecycle(Cur)
      BY <1>8, <3>3 DEF RowRecorded, RowOf, RowRemoved, Superseded
    <3> QED
      BY <3>1, <3>2, <3>3
  <2>3. Lifecycle(Cur) /\ Teardown(Cur, n) => RowOf(Cur, n) = <<>>
    BY DEF RowOf
  <2>4. RecordsFit' /\ NodesFit' /\ HostsTyped' /\ installed'[n] = RowOf(Cur, n)
    <3> SUFFICES ASSUME NEW row, row = RowOf(Cur, n)
                 PROVE  RecordsFit' /\ NodesFit' /\ HostsTyped' /\ installed'[n] = row
      OBVIOUS
    <3> QED
      BY <1>1, <1>2, <1>3, <1>4, <1>5, <1>8, <2>1, <2>2, <2>3, RowChanges
  <2>5. RowOf(Cur, n)' = RowOf(Cur, n) /\ Effect(Cur, n)' = Effect(Cur, n) /\ n = CurStep'.node
    BY <1>1, <1>6, <2>1 DEF Cur
  <2>6. StepFits'
    BY <1>1, <1>2, <1>6, <2>1, <2>4, <2>5 DEF StepFits
  <2> QED
    BY <2>1, <2>4, <2>6 DEF WorkFits
<1>9. CASE /\ ~Superseded(n) /\ Teardown(Cur, n) /\ FailWith("abort")
           /\ installed' = [installed EXCEPT ![n] = RowRemoved(n)]
  <2>1. exec'.run = exec.run /\ exec'.pc = "failing"
    BY <1>2, <1>9, Fails DEF Records, Typed
  <2>2. RowRemoved(n) \in Rows /\ RowRemoved(n) \in {<<>>, installed[n]}
    BY <1>4 DEF RowRemoved
  <2>3. RowOf(Cur, n) # Cur.backups[n]
    BY <1>3, <1>4, <1>9 DEF RowOf
  <2>4. receipts[n].status = "verified" => RowRemoved(n) = installed[n]
    BY <1>5, <2>3 DEF RowRemoved
  <2>5. RecordsFit' /\ HostsTyped'
    <3> SUFFICES ASSUME NEW row, row = RowRemoved(n) PROVE RecordsFit' /\ HostsTyped'
      OBVIOUS
    <3> QED
      BY <1>1, <1>2, <1>3, <1>9, <2>1, <2>2, <2>4, RowChanges
  <2> QED
    BY <2>1, <2>5 DEF WorkFits, Working
<1> QED
  BY <1>7, <1>8, <1>9 DEF RecordInstallation

LEMMA WorkKeepsRecords ==
  ASSUME Records, exec.pc \in Working \cup {"validate"}, WorkStep
  PROVE  RunsTyped' /\ HostsTyped' /\ ExecTyped' /\ RunsAreSound' /\ RecordsFit' /\ WorkFits'
<1>1. WorkGoesOn
  BY WorkStepGoesOn DEF Records, WorkFits
<1>2. RunsTyped' /\ ExecTyped'
  BY <1>1, ExecGoesOn DEF WorkGoesOn, Working, Records, Typed
<1>3. RunsAreSound'
  BY <1>1, RunsSoundOn DEF WorkGoesOn, Records
<1>4. RecordsFit' /\ WorkFits' /\ HostsTyped'
  BY <1>1, QuietSteps, ReceiptSteps, ActStep, RecordStep DEF WorkStep
<1> QED
  BY <1>2, <1>3, <1>4

---------------------------------------------------------------------------
(* The steps around an execution.                                            *)

\* What the records come to after any step.
RecordsOn == RunsTyped /\ HostsTyped /\ ExecTyped /\ PreparedTyped /\ RunsAreSound /\ RecordsFit /\ WorkFits

LEMMA StatusStep ==
  ASSUME Records, NEW x \in RunIds, NEW status \in Statuses \ {"queued"},
         runs' = [runs EXCEPT ![x].status = status], UNCHANGED hostVars,
         prepared' = None \/ prepared' = prepared
  PROVE  /\ RunsTyped' /\ HostsTyped' /\ PreparedTyped' /\ RunsAreSound' /\ RecordsFit'
         /\ RunsStay /\ DoneStays /\ RunIds' = RunIds
         /\ \A y \in RunIds : runs'[y].status = IF y = x THEN status ELSE runs[y].status
<1>1. /\ RunsTyped' /\ RunsStay /\ DoneStays
      /\ \A y \in RunIds : runs'[y].status = IF y = x THEN status ELSE runs[y].status
  BY StatusChanges DEF Records, Typed
<1>2. RunsAreSound' /\ RunIds' = RunIds
  BY <1>1, RunsSoundOn DEF Records, RunsStay, RunIds
<1>3. RecordsFit'
  BY <1>1, RecordsStay DEF Records, DoneStays
<1> QED
  BY <1>1, <1>2, <1>3 DEF Records, Typed, HostsTyped, hostVars, PreparedTyped, RunsStay

\* The run in execution does not notice what happens to other runs.
LEMMA WorkUntouched ==
  ASSUME Records, RunsKeep, exec' = exec, exec.pc # "idle" => Cur' = Cur, UNCHANGED hostVars
  PROVE  WorkFits'
<1>1. CASE exec.pc \notin Working
  BY <1>1 DEF Records, WorkFits
<1>2. CASE exec.pc \in Working
  <2>1. exec.pc # "idle" /\ Cur' = Cur /\ StepFits /\ NodesFit
    BY <1>2 DEF Records, WorkFits, Working
  <2>2. ASSUME NEW n \in Nodes, Own(n) PROVE Own(n)'
    <3>1. receipts[n].run \in RunIds
      BY <2>2 DEF Records, RecordsFit, ReceiptFits, Own
    <3>2. runs'[receipts[n].run].root = runs[receipts[n].run].root
      BY <3>1, LockedFields, SubjectFields DEF RunsKeep
    <3> QED
      BY <2>1, <2>2, <3>2 DEF Own, Root, hostVars
  <2>3. NodesFit'
    <3> SUFFICES ASSUME NEW c, c = Cur, Cur' = c PROVE NodesFit'
      BY <2>1
    <3> SUFFICES ASSUME NEW n \in Nodes
                 PROVE  /\ \A i \in (c.done + 1)..Len(c.plan) : Posts(c, i, n) =>
                             \/ \E j \in (c.done + 1)..(i - 1) : Executes(c, j, n)
                             \/ Own(n)'
                        /\ Own(n)' \/ IF c.attempt > 0 THEN receipts'[n] = c.retryState[1][n]
                                      ELSE Lifecycle(c) => installed'[n] = c.digest[n]
      BY DEF NodesFit, Posts, Executes, Lifecycle
    <3>1. /\ \A i \in (c.done + 1)..Len(c.plan) : Posts(c, i, n) =>
               \/ \E j \in (c.done + 1)..(i - 1) : Executes(c, j, n)
               \/ Own(n)
          /\ Own(n) \/ IF c.attempt > 0 THEN receipts[n] = c.retryState[1][n]
                       ELSE Lifecycle(c) => installed[n] = c.digest[n]
      BY <2>1 DEF NodesFit
    <3> QED
      BY <2>2, <3>1 DEF hostVars
  <2>4. StepFits'
    <3>1. CurStep' = CurStep
      BY <2>1 DEF CurStep
    <3>2. RowOf(Cur, CurStep.node)' = RowOf(Cur, CurStep.node)
      BY <2>1, <3>1 DEF RowOf, Teardown, Effect, Lifecycle
    <3>3. Effect(Cur, CurStep.node)' = Effect(Cur, CurStep.node)
      BY <2>1, <3>1 DEF Effect
    <3> QED
      BY <2>1, <3>1, <3>2, <3>3 DEF StepFits, hostVars
  <2> QED
    BY <1>2, <2>1, <2>3, <2>4 DEF WorkFits, Working
<1> QED
  BY <1>1, <1>2

LEMMA StartRecords ==
  ASSUME Records, NEW x \in RunIds, StartRun(x)
  PROVE  RecordsOn'
<1>1. /\ exec = NoExec /\ runs[x].status = "queued" /\ runs' = [runs EXCEPT ![x].status = "running"]
      /\ exec' = [run |-> x, pc |-> "validate", cause |-> "none"]
      /\ UNCHANGED <<baseline, hostVars, prepared, faults>>
  BY DEF StartRun, Queued
<1>2. /\ RunsTyped' /\ HostsTyped' /\ PreparedTyped' /\ RunsAreSound' /\ RecordsFit'
      /\ RunsStay /\ DoneStays /\ RunIds' = RunIds
      /\ \A y \in RunIds : runs'[y].status = IF y = x THEN "running" ELSE runs[y].status
  <2>1. "running" \in Statuses \ {"queued"}
    BY DEF Statuses
  <2> QED
    BY <1>1, <2>1, StatusStep
<1>3. x \in Nat /\ x # 0 /\ runs[x].done = 0 /\ \A y \in RunIds : y # 0
  BY <1>1, RunIn DEF Records, Typed, RunsTyped
<1>4. ExecTyped'
  BY <1>1, <1>2, <1>3 DEF ExecTyped, Records, Typed, NoExec, Execs
<1>5. WorkFits'
  BY <1>1, <1>2, <1>3 DEF WorkFits, Working, DoneStays, Cur
<1> QED
  BY <1>2, <1>4, <1>5 DEF RecordsOn

LEMMA CancelRecords ==
  ASSUME Records, NEW x \in RunIds, CancelQueued(x)
  PROVE  RecordsOn'
<1>1. /\ runs[x].status = "queued" /\ runs' = [runs EXCEPT ![x].status = "cancelled"]
      /\ UNCHANGED <<baseline, hostVars, exec, prepared, faults>>
  BY DEF CancelQueued
<1>2. /\ RunsTyped' /\ HostsTyped' /\ PreparedTyped' /\ RunsAreSound' /\ RecordsFit'
      /\ RunsStay /\ RunIds' = RunIds
      /\ \A y \in RunIds : runs'[y].status = IF y = x THEN "cancelled" ELSE runs[y].status
  <2>1. "cancelled" \in Statuses \ {"queued"}
    BY DEF Statuses
  <2> QED
    BY <1>1, <2>1, StatusStep
<1>3. ExecTyped'
  BY <1>1, <1>2 DEF ExecTyped, Records, Typed
<1>4. CASE exec.run = x
  <2>1. exec.pc = "report" \/ exec.pc = "idle"
    BY <1>1, <1>4 DEF ExecTyped, Records, Typed
  <2> QED
    BY <1>1, <1>2, <1>3, <2>1 DEF RecordsOn, WorkFits, Working
<1>5. CASE exec.run # x
  <2>1. exec.pc # "idle" => Cur' = Cur
    BY <1>1, <1>5, InExec, RunIn DEF Cur, Records, Typed, RunsTyped
  <2> QED
    BY <1>1, <1>2, <1>3, <2>1, WorkUntouched DEF RecordsOn, RunsStay
<1> QED
  BY <1>4, <1>5

\* The end of an execution, with or without success.
LEMMA EndRecords ==
  ASSUME Records, exec.pc # "idle", exec.pc # "report",
         NEW status \in {"succeeded", "failed", "cancelled"},
         runs' = [runs EXCEPT ![exec.run].status = status],
         exec' = NoExec \/ Goto("report"), UNCHANGED <<hostVars, prepared, faults>>
  PROVE  RecordsOn'
<1>1. exec \in Execs /\ exec.run \in RunIds /\ exec.run # 0
  BY InExec DEF Records, Typed
<1>2. /\ RunsTyped' /\ HostsTyped' /\ PreparedTyped' /\ RunsAreSound' /\ RecordsFit'
      /\ RunsStay /\ RunIds' = RunIds
      /\ \A y \in RunIds : runs'[y].status = IF y = exec.run THEN status ELSE runs[y].status
  <2>1. status \in Statuses \ {"queued"}
    BY DEF Statuses
  <2> QED
    BY <1>1, <2>1, StatusStep
<1>3. \/ exec' = NoExec
      \/ exec' \in Execs /\ exec'.run = exec.run /\ exec'.pc = "report"
  BY <1>1, Moves DEF Records, Typed
<1>4. \A y \in RunIds : y # 0 /\ runs'[y].status # "running"
  <2>1. \A y \in RunIds : runs[y].status = "running" => y = exec.run
    BY DEF Records, Typed, ExecTyped
  <2>2. \A y \in RunIds : y # 0
    BY RunIn DEF Records, Typed
  <2> QED
    BY <1>2, <2>1, <2>2
<1>5. ExecTyped'
  BY <1>1, <1>2, <1>3, <1>4 DEF ExecTyped, NoExec
<1>6. WorkFits'
  BY <1>3 DEF WorkFits, Working, NoExec
<1> QED
  BY <1>2, <1>5, <1>6 DEF RecordsOn

LEMMA ReportRecords ==
  ASSUME Records, exec.pc = "report", exec' = NoExec, UNCHANGED <<runs, hostVars, prepared>>
  PROVE  RecordsOn'
<1>1. RunsStay /\ RunIds' = RunIds
  BY Unchanging DEF RunIds
<1>2. RunsTyped' /\ HostsTyped' /\ PreparedTyped'
  BY <1>1 DEF Records, Typed, RunsTyped, HostsTyped, PreparedTyped, hostVars
<1>3. RunsAreSound' /\ RecordsFit'
  BY <1>1, RunsSoundOn, RecordsStay DEF Records
<1>4. ExecTyped'
  <2>1. \A y \in RunIds : y # 0
    BY RunIn DEF Records, Typed
  <2> QED
    BY <1>1, <2>1 DEF Records, Typed, ExecTyped, NoExec
<1>5. WorkFits'
  BY DEF WorkFits, Working, NoExec
<1> QED
  BY <1>2, <1>3, <1>4, <1>5 DEF RecordsOn

LEMMA CrashRecords ==
  ASSUME Records, Crash
  PROVE  RecordsOn' /\ RunsStay
<1> DEFINE running == {x \in RunIds : runs[x].status = "running"}
<1>1. /\ runs' = [x \in RunIds |-> IF x \in running THEN [runs[x] EXCEPT !.status = "interrupted"]
                                                    ELSE runs[x]]
      /\ exec' = NoExec /\ prepared' = None /\ UNCHANGED hostVars
  BY DEF Crash
<1>2. /\ runs \in Seq(RunRecords) /\ Len(runs) \in Nat /\ runs \in [RunIds -> RunRecords]
  BY LenProperties DEF Records, Typed, RunsTyped, RunIds
<1>3. ASSUME NEW x \in RunIds
      PROVE  /\ runs'[x] \in RunRecords /\ Locked(runs'[x]) = Locked(runs[x])
             /\ runs'[x].done = runs[x].done /\ runs'[x].plan = runs[x].plan
             /\ runs'[x].status # "running" /\ (runs'[x].status = "queued" => runs[x].status = "queued")
  <2>1. CASE x \in running
    <3>1. runs'[x] = [runs[x] EXCEPT !.status = "interrupted"]
      BY <1>1, <2>1
    <3>2. runs[x] \in RunRecords /\ "interrupted" \in Statuses
      BY <1>2 DEF Statuses
    <3>3. /\ runs'[x] \in RunRecords /\ Locked(runs'[x]) = Locked(runs[x])
          /\ runs'[x].status = "interrupted" /\ runs'[x].done = runs[x].done
          /\ runs'[x].plan = runs[x].plan
      BY <3>1, <3>2, StatusSet
    <3> QED
      BY <3>3
  <2>2. CASE x \notin running
    BY <1>1, <1>2, <2>2
  <2> QED
    BY <2>1, <2>2
<1>4. runs' \in Seq(RunRecords) /\ Len(runs') = Len(runs) /\ RunIds' = RunIds
  <2>1. DOMAIN runs' = 1..Len(runs) /\ \A x \in 1..Len(runs) : runs'[x] \in RunRecords
    BY <1>1, <1>3 DEF RunIds
  <2>2. runs' \in [1..Len(runs) -> RunRecords]
    <3>1. runs' = [x \in 1..Len(runs) |-> runs'[x]]
      BY <1>1 DEF RunIds
    <3> QED
      BY <2>1, <3>1
  <2>3. runs' \in Seq(RunRecords)
    BY <1>2, <2>2, SeqDef
  <2>4. Len(runs') = Len(runs)
    BY <1>2, <2>1, <2>3, LenProperties
  <2> QED
    BY <2>3, <2>4 DEF RunIds
<1>5. RunsTyped' /\ RunsStay
  BY <1>3, <1>4 DEF RunsTyped, RunsStay, RunsKeep, Records, Typed
<1>6. HostsTyped' /\ PreparedTyped' /\ RunsAreSound'
  BY <1>1, <1>5, RunsSoundOn DEF Records, Typed, HostsTyped, PreparedTyped, hostVars
<1>7. RecordsFit'
  BY <1>1, <1>3, <1>5, RecordsStay DEF Records
<1>8. ExecTyped'
  <2>1. \A y \in RunIds : y # 0
    BY RunIn DEF Records, Typed
  <2> QED
    BY <1>1, <1>3, <1>4, <2>1 DEF ExecTyped, NoExec
<1>9. WorkFits'
  BY <1>1 DEF WorkFits, Working, NoExec
<1> QED
  BY <1>5, <1>6, <1>7, <1>8, <1>9 DEF RecordsOn

LEMMA CreateRecords ==
  ASSUME Records, CreateRun
  PROVE  RecordsOn'
<1>1. /\ prepared # None /\ prepared' = None /\ RunsTyped' /\ RunsKeep
      /\ NextRun \notin RunIds /\ RunIds' = RunIds \cup {NextRun}
      /\ runs'[NextRun] = prepared /\ \A x \in RunIds : runs'[x] = runs[x]
      /\ UNCHANGED <<baseline, hostVars, exec, faults>>
  BY Created DEF CreateRun, Records
<1>2. RunsAreSound' /\ RecordsFit'
  BY CreatedIsSound, RecordsOnCreation DEF Records
<1>3. exec.pc # "idle" => Cur' = Cur
  BY <1>1, InExec DEF Records, Typed, Cur
<1>4. WorkFits'
  BY <1>1, <1>3, WorkUntouched
<1>5. ExecTyped'
  <2>1. prepared.status = "queued"
    BY <1>1 DEF Records, Typed, PreparedTyped
  <2>2. exec.run = NextRun => FALSE
    <3>1. exec.run = 0 \/ exec.run \in RunIds
      BY DEF Records, Typed, ExecTyped, NoExec
    <3>2. Len(runs) \in Nat
      BY LenProperties DEF Records, Typed, RunsTyped
    <3> QED
      BY <1>1, <3>1, <3>2 DEF NextRun
  <2> QED
    BY <1>1, <2>1, <2>2 DEF ExecTyped, Records, Typed
<1> QED
  BY <1>1, <1>2, <1>4, <1>5 DEF RecordsOn, Records, Typed, HostsTyped, PreparedTyped, hostVars

LEMMA RefuseRecords ==
  ASSUME Records, RefuseRun
  PROVE  RecordsOn'
<1>1. prepared' = None /\ UNCHANGED <<runs, baseline, hostVars, exec, faults>>
  BY DEF RefuseRun
<1>2. RunsStay /\ RunIds' = RunIds /\ Cur' = Cur
  BY <1>1, Unchanging DEF RunIds, Cur
<1>3. RunsAreSound' /\ RecordsFit' /\ WorkFits'
  BY <1>1, <1>2, RunsSoundOn, RecordsStay, WorkUntouched DEF Records, RunsStay
<1> QED
  BY <1>1, <1>2, <1>3 DEF RecordsOn, Records, Typed, RunsTyped, HostsTyped, ExecTyped, PreparedTyped, hostVars

---------------------------------------------------------------------------
(* The operators plans are made with.                                        *)

LEMMA FunctionIsSeq ==
  ASSUME NEW S, NEW N \in Nat, NEW f \in [1..N -> S]
  PROVE  f \in Seq(S) /\ Len(f) = N
<1>1. f \in Seq(S)
  BY SeqDef
<1>2. 1..Len(f) = 1..N /\ Len(f) \in Nat
  BY <1>1, LenProperties
<1> QED
  BY <1>1, <1>2

\* InPlaceOrder lists a finite set, each of its elements once, if no two have a place.
LEMMA Ranked ==
  ASSUME NEW S, IsFiniteSet(S), NEW place, \A x \in S : place[x] \in Nat,
         \A x, y \in S : place[x] = place[y] => x = y
  PROVE  /\ InPlaceOrder(S, place) \in Seq(S)
         /\ Len(InPlaceOrder(S, place)) = Cardinality(S) /\ Cardinality(S) \in Nat
         /\ \A x \in S : \E k \in 1..Cardinality(S) : InPlaceOrder(S, place)[k] = x
         /\ \A j, k \in 1..Cardinality(S) :
              InPlaceOrder(S, place)[j] = InPlaceOrder(S, place)[k] => j = k
<1> DEFINE Below(x) == {y \in S : place[y] <= place[x]}
           N == Cardinality(S)
           rank == [x \in S |-> Cardinality(Below(x))]
<1>1. N \in Nat
  BY FS_CardinalityType
<1>2. ASSUME NEW x \in S PROVE IsFiniteSet(Below(x)) /\ rank[x] \in 1..N /\ x \in Below(x)
  <2>1. IsFiniteSet(Below(x)) /\ Cardinality(Below(x)) <= N
    <3>1. Below(x) \in SUBSET S
      OBVIOUS
    <3> QED
      BY <3>1, FS_Subset
  <2>2. Cardinality(Below(x)) \in Nat
    BY <2>1, FS_CardinalityType
  <2>3. x \in Below(x)
    OBVIOUS
  <2>4. Cardinality(Below(x)) # 0
    BY <2>1, <2>3, FS_EmptySet
  <2> QED
    BY <1>1, <2>1, <2>2, <2>3, <2>4
<1>3. ASSUME NEW x \in S, NEW y \in S, place[x] < place[y] PROVE rank[x] # rank[y]
  <2>1. Below(x) \in SUBSET Below(y)
    BY <1>3
  <2>2. y \in Below(y) /\ y \notin Below(x)
    BY <1>3
  <2>3. Below(x) # Below(y)
    BY <2>2
  <2> HIDE DEF Below
  <2>4. Cardinality(Below(y)) # Cardinality(Below(x))
    BY <1>2, <2>1, <2>3, FS_Subset
  <2> QED
    BY <2>4
<1>4. \A x, y \in S : rank[x] = rank[y] => x = y
  BY <1>3, SMTT(30)
<1>5. IsFiniteSet(1..N) /\ Cardinality(1..N) = N
  BY <1>1, FS_Interval
<1>6. rank \in Injection(S, 1..N)
  <2>1. rank \in [S -> 1..N]
    BY <1>2
  <2> HIDE DEF rank
  <2> QED
    BY <1>4, <2>1 DEF Injection, IsInjective
<1>7. \A k \in 1..N : \E x \in S : rank[x] = k
  <2>1. rank \in Surjection(S, 1..N)
    <3> HIDE DEF rank
    <3> QED
      BY <1>5, <1>6, FS_Injection
  <2> HIDE DEF rank
  <2> QED
    BY <2>1 DEF Surjection
<1>8. InPlaceOrder(S, place) = [k \in 1..N |-> CHOOSE x \in S : Cardinality(Below(x)) = k]
  BY DEF InPlaceOrder
<1>9. /\ InPlaceOrder(S, place) \in [1..N -> S]
      /\ \A k \in 1..N : rank[InPlaceOrder(S, place)[k]] = k
  <2>1. \A k \in 1..N : \E x \in S : Cardinality(Below(x)) = k
    BY <1>7
  <2>2. \A x \in S : rank[x] = Cardinality(Below(x))
    OBVIOUS
  <2> HIDE DEF Below, rank
  <2>3. \A k \in 1..N : /\ InPlaceOrder(S, place)[k] \in S
                        /\ Cardinality(Below(InPlaceOrder(S, place)[k])) = k
    BY <1>8, <2>1
  <2> QED
    BY <1>8, <2>2, <2>3
<1>10. /\ \A x \in S : \E k \in 1..N : InPlaceOrder(S, place)[k] = x
       /\ \A j, k \in 1..N : InPlaceOrder(S, place)[j] = InPlaceOrder(S, place)[k] => j = k
  <2>1. \A x \in S : rank[x] \in 1..N
    BY <1>2
  <2>2. PICK o : o = InPlaceOrder(S, place)
    OBVIOUS
  <2>3. o \in [1..N -> S] /\ \A k \in 1..N : rank[o[k]] = k
    BY <1>9, <2>2
  <2> HIDE DEF rank
  <2>4. \A x \in S : rank[x] \in 1..N /\ o[rank[x]] = x
    BY <1>4, <2>1, <2>3
  <2>5. \A j, k \in 1..N : o[j] = o[k] => j = k
    BY <2>3
  <2> QED
    BY <2>2, <2>4, <2>5
<1> QED
  BY <1>1, <1>9, <1>10, FunctionIsSeq

LEMMA Selected ==
  ASSUME NEW S \in SUBSET Nodes
  PROVE  SelectNodes(S) \in Seq(S) /\ IsFiniteSet(S)
<1>1. IsFiniteSet(S)
  BY FS_Subset, OrderAssumption
<1>2. ASSUME NEW n \in Nodes PROVE Place[n] \in 1..Len(Order) /\ Order[Place[n]] = n
  BY OrderAssumption DEF Place
<1>3. Len(Order) \in Nat
  BY LenProperties, OrderAssumption
<1> HIDE DEF Place
<1>4. \A x \in S : Place[x] \in Nat
  BY <1>2, <1>3
<1>5. \A x, y \in S : Place[x] = Place[y] => x = y
  BY <1>2
<1> QED
  BY <1>1, <1>4, <1>5, Ranked DEF SelectNodes

\* Every node that is changed is changed and then post-checked.
ChangesOf(plan, S) ==
  \A i \in 1..Len(plan) :
    /\ ~plan[i].again
    /\ plan[i].stage \in {"execute", "post"} => plan[i].node \in S
    /\ plan[i].stage = "post" =>
         \E j \in 1..(i - 1) : plan[j].stage = "execute" /\ plan[j].node = plan[i].node

LEMMA CheckSteps ==
  ASSUME NEW stage \in {"source", "target"}, NEW S \in SUBSET Nodes, NEW T
  PROVE  Checks(stage, S) \in Seq(Steps) /\ ChangesOf(Checks(stage, S), T)
<1> DEFINE s == SelectNodes(S)
           c == Checks(stage, S)
<1>1. s \in Seq(S) /\ Len(s) \in Nat /\ s \in [1..Len(s) -> S]
  BY Selected, LenProperties
<1>2. c = [i \in 1..Len(s) |-> Step(stage, s[i])]
  BY DEF Checks
<1> HIDE DEF s, c
<1>3. /\ c \in [1..Len(s) -> Steps]
      /\ \A i \in 1..Len(s) : c[i].stage = stage /\ ~c[i].again
  BY <1>1, <1>2 DEF Step, Steps
<1>4. c \in Seq(Steps) /\ Len(c) = Len(s)
  BY <1>1, <1>3, FunctionIsSeq
<1>5. c \in Seq(Steps) /\ ChangesOf(c, T)
  BY <1>3, <1>4 DEF ChangesOf
<1> QED
  BY <1>5 DEF c

LEMMA ChangeSteps ==
  ASSUME NEW S \in SUBSET Nodes, NEW ordered \in Seq(S)
  PROVE  Changes(ordered) \in Seq(Steps) /\ ChangesOf(Changes(ordered), S)
<1> DEFINE N == Len(ordered)
           c == Changes(ordered)
<1>1. N \in Nat /\ 2 * N \in Nat /\ ordered \in [1..N -> S]
  BY LenProperties
<1>2. \A i \in 1..(2 * N) : (i + 1) \div 2 \in 1..N
  BY <1>1
<1>3. c = [i \in 1..(2 * N) |-> Step(IF i % 2 = 1 THEN "execute" ELSE "post", ordered[(i + 1) \div 2])]
  BY DEF Changes
<1> HIDE DEF N, c
<1>4. ASSUME NEW i \in 1..(2 * N)
      PROVE  /\ c[i] \in Steps /\ ~c[i].again /\ c[i].node = ordered[(i + 1) \div 2] /\ c[i].node \in S
             /\ c[i].stage = IF i % 2 = 1 THEN "execute" ELSE "post"
  <2>1. ordered[(i + 1) \div 2] \in S
    BY <1>1, <1>2
  <2>2. c[i] = Step(IF i % 2 = 1 THEN "execute" ELSE "post", ordered[(i + 1) \div 2])
    BY <1>3
  <2> QED
    BY <2>1, <2>2 DEF Step, Steps
<1>5. c \in [1..(2 * N) -> Steps]
  BY <1>3, <1>4
<1>6. c \in Seq(Steps) /\ Len(c) = 2 * N
  BY <1>1, <1>5, FunctionIsSeq
<1>7. ASSUME NEW i \in 1..(2 * N), c[i].stage = "post"
      PROVE  \E j \in 1..(i - 1) : c[j].stage = "execute" /\ c[j].node = c[i].node
  <2>1. i \in Int /\ i % 2 # 1 /\ i >= 1 /\ i <= 2 * N
    BY <1>1, <1>4, <1>7
  <2>2. i - 1 \in 1..(i - 1) /\ i - 1 \in 1..(2 * N) /\ (i - 1) % 2 = 1 /\ ((i - 1) + 1) \div 2 = (i + 1) \div 2
    BY <1>1, <2>1
  <2> QED
    BY <1>4, <2>2
<1> QED
  BY <1>4, <1>6, <1>7 DEF ChangesOf, c

LEMMA ChangesConcat ==
  ASSUME NEW S, NEW p \in Seq(Steps), NEW q \in Seq(Steps), ChangesOf(p, S), ChangesOf(q, S)
  PROVE  p \o q \in Seq(Steps) /\ ChangesOf(p \o q, S)
<1> DEFINE c == p \o q
<1>1. /\ c \in Seq(Steps) /\ Len(c) = Len(p) + Len(q) /\ Len(p) \in Nat /\ Len(q) \in Nat
      /\ \A i \in 1..(Len(p) + Len(q)) : c[i] = IF i <= Len(p) THEN p[i] ELSE q[i - Len(p)]
  BY ConcatProperties, LenProperties
<1> HIDE DEF c
<1>2. ASSUME NEW i \in 1..Len(c)
      PROVE  /\ ~c[i].again /\ (c[i].stage \in {"execute", "post"} => c[i].node \in S)
             /\ c[i].stage = "post" =>
                  \E j \in 1..(i - 1) : c[j].stage = "execute" /\ c[j].node = c[i].node
  <2>1. CASE i <= Len(p)
    <3>1. c[i] = p[i] /\ i \in 1..Len(p) /\ \A j \in 1..(i - 1) : c[j] = p[j]
      BY <1>1, <2>1
    <3> QED
      BY <3>1 DEF ChangesOf
  <2>2. CASE ~(i <= Len(p))
    <3>1. c[i] = q[i - Len(p)] /\ i - Len(p) \in 1..Len(q)
      BY <1>1, <2>2
    <3>2. ASSUME NEW j \in 1..((i - Len(p)) - 1)
          PROVE  j + Len(p) \in 1..(i - 1) /\ c[j + Len(p)] = q[j]
      <4>1. j + Len(p) \in 1..(i - 1) /\ j + Len(p) \in 1..(Len(p) + Len(q)) /\ ~(j + Len(p) <= Len(p))
        BY <1>1, <2>2
      <4>2. (j + Len(p)) - Len(p) = j
        BY <1>1
      <4> QED
        BY <1>1, <4>1, <4>2
    <3>3. /\ ~q[i - Len(p)].again /\ (q[i - Len(p)].stage \in {"execute", "post"} => q[i - Len(p)].node \in S)
          /\ q[i - Len(p)].stage = "post" => \E j \in 1..((i - Len(p)) - 1) :
               q[j].stage = "execute" /\ q[j].node = q[i - Len(p)].node
      BY <3>1 DEF ChangesOf
    <3>4. c[i].stage = "post" => \E j \in 1..(i - 1) : c[j].stage = "execute" /\ c[j].node = c[i].node
      BY <3>1, <3>2, <3>3
    <3> QED
      BY <3>1, <3>3, <3>4
  <2> QED
    BY <2>1, <2>2
<1> QED
  BY <1>1, <1>2 DEF ChangesOf, c

LEMMA FinalPlan ==
  ASSUME NEW rev \in Revisions, NEW T
  PROVE  FinalSteps(rev) \in Seq(Steps) /\ ChangesOf(FinalSteps(rev), T)
<1>1. Present(rev) \in SUBSET Nodes
  BY DEF Present
<1> DEFINE c == Checks("target", Present(rev))
           last == Step("acceptance", NoNode)
<1>2. c \in Seq(Steps) /\ ChangesOf(c, T)
  BY <1>1, CheckSteps
<1>3. last \in Steps /\ last.stage = "acceptance" /\ ~last.again
  BY DEF Step, Steps
<1>4. <<last>> \in Seq(Steps) /\ Len(<<last>>) = 1 /\ <<last>>[1] = last
  BY <1>3
<1>5. ChangesOf(<<last>>, T)
  BY <1>3, <1>4 DEF ChangesOf
<1>6. FinalSteps(rev) = c \o <<last>>
  <2> HIDE DEF c, last
  <2> QED
    BY <1>2, <1>3, AppendIsConcat DEF FinalSteps, c, last
<1> HIDE DEF c, last
<1> QED
  BY <1>2, <1>4, <1>5, <1>6, ChangesConcat

\* The nodes a run of a revision changes.
Touched(rev, mode) ==
  CASE mode = "install" -> Present(rev) [] mode = "upgrade" -> Changed(rev) [] mode = "verify" -> {}

LEMMA PlanFacts ==
  ASSUME NEW rev \in Revisions, NEW mode \in LifecycleModes, mode = "upgrade" => Source[rev] \in Revisions
  PROVE  /\ ScenarioPlan(rev, mode) \in Seq(Steps)
         /\ ChangesOf(ScenarioPlan(rev, mode), Touched(rev, mode))
<1>1. Present(rev) \in SUBSET Nodes /\ Changed(rev) \in SUBSET Nodes /\ Present(Source[rev]) \in SUBSET Nodes
  BY DEF Present, Changed
<1>2. \A T : FinalSteps(rev) \in Seq(Steps) /\ ChangesOf(FinalSteps(rev), T)
  BY FinalPlan
<1>3. ASSUME NEW S \in SUBSET Nodes
      PROVE  Changes(SelectNodes(S)) \in Seq(Steps) /\ ChangesOf(Changes(SelectNodes(S)), S)
  BY Selected, ChangeSteps
<1>4. ASSUME NEW S \in SUBSET Nodes
      PROVE  /\ Changes(SelectNodes(S)) \o FinalSteps(rev) \in Seq(Steps)
             /\ ChangesOf(Changes(SelectNodes(S)) \o FinalSteps(rev), S)
  BY <1>2, <1>3, ChangesConcat
<1>5. CASE mode = "install"
  BY <1>1, <1>4, <1>5 DEF ScenarioPlan, Touched
<1>6. CASE mode = "verify"
  BY <1>2, <1>6 DEF ScenarioPlan, Touched
<1>7. CASE mode = "upgrade"
  <2> DEFINE p == Checks("source", Present(Source[rev]))
             q == Changes(SelectNodes(Changed(rev)))
             f == FinalSteps(rev)
  <2>1. p \in Seq(Steps) /\ ChangesOf(p, Changed(rev))
    BY <1>1, CheckSteps
  <2>2. q \in Seq(Steps) /\ ChangesOf(q, Changed(rev))
    BY <1>1, <1>3
  <2>3. f \in Seq(Steps) /\ ChangesOf(f, Changed(rev))
    BY <1>2
  <2>4. ScenarioPlan(rev, mode) = (p \o q) \o f /\ Touched(rev, mode) = Changed(rev)
    BY <1>7 DEF ScenarioPlan, Touched
  <2> HIDE DEF p, q, f
  <2>5. p \o q \in Seq(Steps) /\ ChangesOf(p \o q, Changed(rev))
    BY <2>1, <2>2, ChangesConcat
  <2> QED
    BY <2>3, <2>4, <2>5, ChangesConcat
<1> QED
  BY <1>5, <1>6, <1>7 DEF LifecycleModes

\* Such a plan is sound if all it changes has a backup.
LEMMA ChangesAreSound ==
  ASSUME NEW r, NEW S \in SUBSET Nodes, r.plan \in Seq(Steps), ChangesOf(r.plan, S),
         \A n \in S : r.backups[n] # <<>>
  PROVE  PlanIsSound(r)
<1>1. Len(r.plan) \in Nat
  BY LenProperties
<1>2. ASSUME NEW i \in 1..Len(r.plan), NEW j \in 1..(i - 1) PROVE j \in 1..Len(r.plan)
  BY <1>1
<1> QED
  BY <1>2 DEF PlanIsSound, ChangesOf, Posts, Executes

\* A continuation repeats M checks, the last look at a node as the only one
\* there, and goes on with the plan.
ContinuesAs(c, r, start, M) ==
  /\ c \in Seq(Steps) /\ Len(c) = M + (Len(r.plan) - start + 1)
  /\ \A k \in 1..M : c[k].again /\ c[k].stage \in {"source", "target", "post"}
  /\ \A k \in (M + 1)..Len(c) : c[k] = r.plan[start + (k - M) - 1]
Replays(c, r, start, M) ==
  \A n \in Nodes : \A i \in 1..(start - 1) : Settles(r, i, n) =>
    \E k \in 1..M : /\ c[k].stage = "target" /\ c[k].node = n
                   /\ \A j \in 1..M : c[j].node = n => j = k

LEMMA ContinuationFacts ==
  ASSUME NEW r \in RunRecords, NEW start \in 1..Len(r.plan)
  PROVE  \E M \in Nat : /\ ContinuesAs(Continuation(r, start), r, start, M)
                        /\ Replays(Continuation(r, start), r, start, M)
<1> DEFINE plan == r.plan
           left == {plan[i].node : i \in start..Len(plan)}
           replayable == {i \in 1..(start - 1) :
                            \/ plan[i].stage \in {"source", "target"}
                            \/ plan[i].stage = "post" /\ ~Teardown(r, plan[i].node)}
           newest == {i \in replayable : \A j \in replayable : plan[j].node = plan[i].node => j <= i}
           S == {i \in newest : plan[i].node \notin left}
           place == [i \in 1..(start - 1) |-> i]
           again == InPlaceOrder(S, place)
           front == [k \in 1..Len(again) |-> [plan[again[k]] EXCEPT !.again = TRUE]]
           rest == SubSeq(plan, start, Len(plan))
<1>1. Continuation(r, start) = front \o rest
  BY DEF Continuation
<1>2. plan \in Seq(Steps) /\ Len(plan) \in Nat /\ plan \in [1..Len(plan) -> Steps]
  BY LenProperties DEF RunRecords
<1>3. S \in SUBSET (1..(start - 1)) /\ \A i \in S : plan[i].stage \in {"source", "target", "post"}
  OBVIOUS
<1>4. IsFiniteSet(S)
  <2>1. IsFiniteSet(1..(start - 1))
    BY <1>2, FS_Interval
  <2> HIDE DEF S
  <2> QED
    BY <1>3, <2>1, FS_Subset
<1>5. (\A i \in S : place[i] \in Nat) /\ (\A i, j \in S : place[i] = place[j] => i = j)
  <2>1. \A i \in 1..(start - 1) : place[i] = i /\ i \in Nat
    OBVIOUS
  <2> HIDE DEF S, place
  <2> QED
    BY <1>3, <2>1
<1>6. again \in Seq(S) /\ Len(again) \in Nat /\ again \in [1..Len(again) -> S]
  <2> HIDE DEF S, place
  <2> QED
    BY <1>4, <1>5, Ranked, LenProperties
<1>c. /\ \A i \in S : \E k \in 1..Len(again) : again[k] = i
      /\ \A j, k \in 1..Len(again) : again[j] = again[k] => j = k
  <2> HIDE DEF S, place
  <2> QED
    BY <1>4, <1>5, Ranked
\* The last look at a node is its newest replayable step, and no other of its
\* steps is replayed.
<1>d. ASSUME NEW n \in Nodes, NEW i \in 1..(start - 1), Settles(r, i, n)
      PROVE  i \in S /\ \A j \in S : plan[j].node = n => j = i
  <2>1. /\ plan[i].stage = "target" /\ plan[i].node = n
        /\ \A j \in (i + 1)..Len(plan) : plan[j].node # n
    BY <1>d DEF Settles
  <2>2. start \in Nat /\ i \in Nat /\ i < start /\ Len(plan) \in Nat /\ start <= Len(plan)
    BY <1>2
  <2>3. \A j \in 1..(start - 1) : plan[j].node = n => j <= i
    <3>1. SUFFICES ASSUME NEW j \in 1..(start - 1), plan[j].node = n, ~(j <= i) PROVE FALSE
      OBVIOUS
    <3>2. j \in (i + 1)..Len(plan)
      BY <2>2, <3>1
    <3> HIDE DEF plan
    <3> QED
      BY <2>1, <3>1, <3>2
  <2>4. i \in replayable /\ replayable \in SUBSET (1..(start - 1))
    BY <2>1
  <2>5. i \in newest /\ newest \in SUBSET replayable
    <3> HIDE DEF plan, replayable
    <3> QED
      BY <2>1, <2>3, <2>4
  <2>6. n \notin left
    <3>1. \A j \in start..Len(plan) : j \in (i + 1)..Len(plan)
      BY <2>2
    <3> HIDE DEF plan
    <3> QED
      BY <2>1, <3>1
  <2>7. i \in S
    <3> HIDE DEF plan, left, newest
    <3> QED
      BY <2>1, <2>5, <2>6
  <2>8. ASSUME NEW j \in S, plan[j].node = n PROVE j = i
    <3>1. j \in newest /\ j \in 1..(start - 1)
      BY <1>3
    <3>2. i <= j
      <4> HIDE DEF plan, replayable
      <4> QED
        BY <2>1, <2>4, <2>8, <3>1
    <3>3. j <= i
      <4> HIDE DEF plan, newest, replayable, S
      <4> QED
        BY <2>3, <2>8, <3>1
    <3> QED
      BY <2>2, <3>1, <3>2, <3>3
  <2> QED
    BY <2>7, <2>8
<1>7. \A k \in 1..Len(again) : /\ plan[again[k]] \in Steps
                               /\ plan[again[k]].stage \in {"source", "target", "post"}
  <2>1. S \subseteq 1..Len(plan)
    <3>1. 1..(start - 1) \subseteq 1..Len(plan)
      BY <1>2
    <3> HIDE DEF S
    <3> QED
      BY <1>3, <3>1
  <2> HIDE DEF S, again, plan
  <2>2. \A k \in 1..Len(again) : again[k] \in S
    BY <1>6
  <2> QED
    BY <1>2, <1>3, <2>1, <2>2
<1>8. \A k \in 1..Len(again) : front[k] = [plan[again[k]] EXCEPT !.again = TRUE]
  <2> HIDE DEF again
  <2> QED
    OBVIOUS
<1>9. \A k \in 1..Len(again) : /\ front[k] \in Steps /\ front[k].again
                               /\ front[k].stage \in {"source", "target", "post"}
                               /\ front[k].stage = plan[again[k]].stage
                               /\ front[k].node = plan[again[k]].node
  <2> HIDE DEF again, front, plan
  <2> QED
    BY <1>7, <1>8 DEF Steps
<1>10. front \in Seq(Steps) /\ Len(front) = Len(again)
  <2>1. front \in [1..Len(again) -> Steps]
    <3> HIDE DEF again
    <3> QED
      BY <1>9
  <2> HIDE DEF again, front
  <2> QED
    BY <1>6, <2>1, FunctionIsSeq
<1>11. /\ rest \in Seq(Steps) /\ Len(rest) = Len(plan) - start + 1
       /\ \A i \in 1..(Len(plan) - start + 1) : rest[i] = plan[start + i - 1]
  BY <1>2, SubSeqProperties
<1> DEFINE c == Continuation(r, start)
           M == Len(again)
<1>e. ASSUME NEW n \in Nodes, NEW i \in 1..(start - 1), Settles(r, i, n)
      PROVE  \E k \in 1..Len(again) : /\ front[k].stage = "target" /\ front[k].node = n
                                      /\ \A j \in 1..Len(again) : front[j].node = n => j = k
  <2>1. i \in S /\ (\A j \in S : plan[j].node = n => j = i) /\ plan[i].stage = "target" /\ plan[i].node = n
    BY <1>d, <1>e DEF Settles
  <2>2. \A k \in 1..Len(again) : again[k] \in S
    <3> HIDE DEF S, again
    <3> QED
      BY <1>6
  <2> HIDE DEF S, again, front, plan
  <2>3. PICK k \in 1..Len(again) : again[k] = i
    BY <1>c, <2>1
  <2>4. ASSUME NEW j \in 1..Len(again), front[j].node = n PROVE j = k
    <3>1. again[j] \in S /\ plan[again[j]].node = n
      BY <1>9, <2>2, <2>4
    <3>2. again[j] = again[k]
      BY <2>1, <2>3, <3>1
    <3> QED
      BY <1>c, <3>2
  <2>5. front[k].stage = "target" /\ front[k].node = n
    BY <1>9, <2>1, <2>3
  <2> QED
    BY <2>4, <2>5
<1>a. c = front \o rest
  BY <1>1
<1>b. start \in 1..Len(plan) /\ plan = r.plan /\ M = Len(front)
  BY <1>10
<1> HIDE DEF front, rest, again, plan, c, M
<1>12. /\ c \in Seq(Steps) /\ Len(c) = Len(front) + Len(rest)
       /\ \A i \in 1..(Len(front) + Len(rest)) : c[i] = IF i <= Len(front) THEN front[i] ELSE rest[i - Len(front)]
  <2>1. \A p, q \in Seq(Steps) :
          /\ p \o q \in Seq(Steps) /\ Len(p \o q) = Len(p) + Len(q)
          /\ \A i \in 1..(Len(p) + Len(q)) : (p \o q)[i] = IF i <= Len(p) THEN p[i] ELSE q[i - Len(p)]
    BY ConcatProperties
  <2>2. front \in Seq(Steps) /\ rest \in Seq(Steps)
    BY <1>10, <1>11
  <2> QED
    BY <1>a, <2>1, <2>2
<1>14. M \in Nat /\ Len(c) = M + (Len(plan) - start + 1)
  BY <1>b, <1>6, <1>10, <1>11, <1>12
<1>15. /\ \A k \in 1..M : c[k].again /\ c[k].stage \in {"source", "target", "post"}
       /\ \A k \in 1..M : c[k] = front[k]
  <2>1. ASSUME NEW k \in 1..M PROVE c[k] = front[k]
    <3>1. k \in 1..(Len(front) + Len(rest)) /\ k <= Len(front)
      BY <1>2, <1>b, <1>11, <1>14
    <3> QED
      BY <1>12, <3>1
  <2> QED
    BY <1>9, <1>10, <1>b, <2>1
<1>17. ASSUME NEW n \in Nodes, NEW i \in 1..(start - 1), Settles(r, i, n)
       PROVE  \E k \in 1..M : /\ c[k].stage = "target" /\ c[k].node = n
                              /\ \A j \in 1..M : c[j].node = n => j = k
  <2>1. M = Len(again)
    BY <1>b, <1>10
  <2>2. PICK k \in 1..M : /\ front[k].stage = "target" /\ front[k].node = n
                          /\ \A j \in 1..M : front[j].node = n => j = k
    BY <1>e, <1>17, <2>1
  <2> QED
    BY <1>15, <2>2
<1>16. \A k \in (M + 1)..Len(c) : c[k] = plan[start + (k - M) - 1]
  <2> SUFFICES ASSUME NEW k \in (M + 1)..Len(c) PROVE c[k] = plan[start + (k - M) - 1]
    OBVIOUS
  <2>1. k \in 1..(Len(front) + Len(rest)) /\ ~(k <= Len(front)) /\ k - M \in 1..(Len(plan) - start + 1)
    <3>1. /\ M \in Nat /\ Len(c) = M + (Len(plan) - start + 1) /\ M = Len(front)
          /\ Len(rest) = Len(plan) - start + 1
      BY <1>b, <1>11, <1>14
    <3>2. start \in 1..Len(plan) /\ Len(plan) \in Nat
      BY <1>2, <1>b
    <3>3. QED
      BY <3>1, <3>2
  <2>2. c[k] = rest[k - M]
    BY <1>b, <1>12, <2>1
  <2> QED
    BY <1>11, <2>1, <2>2
<1> QED
  <2>1. PICK d : d = c
    OBVIOUS
  <2>2. ContinuesAs(d, r, start, M)
    BY <1>12, <1>b, <1>14, <1>15, <1>16, <2>1 DEF ContinuesAs
  <2>3. Replays(d, r, start, M)
    BY <1>17, <2>1 DEF Replays
  <2> QED
    BY <1>14, <2>1, <2>2, <2>3 DEF c

---------------------------------------------------------------------------
(* What a planned run is planned on.                                         *)

\* What a new record must be for the invariant to go on.
NewRecord(r) ==
  /\ r \in RunRecords /\ r.status = "queued" /\ r.done = 0 /\ KnownAs(r, NextRun)
  /\ \A n \in Nodes : DigestHolds(r, n) /\ SeqGrows(r, n)

LEMMA PlannedRecords ==
  ASSUME Records, Preparing, NEW r, NewRecord(r), Planned(r)
  PROVE  RecordsOn'
<1>1. prepared' = r /\ UNCHANGED <<runs, baseline, hostVars, exec, faults>> /\ Len(runs) + 1 <= MaxRuns
  BY DEF Planned, Preparing, NextRun
<1>2. RunsStay /\ RunIds' = RunIds /\ Cur' = Cur /\ NextRun' = NextRun
  BY <1>1, Unchanging DEF RunIds, Cur, NextRun
<1>3. Len(runs) \in Nat /\ MaxRuns \in Nat
  BY LenProperties, BoundsAssumption DEF Records, Typed, RunsTyped
<1>4. RunsTyped' /\ HostsTyped' /\ ExecTyped'
  BY <1>1, <1>2 DEF Records, Typed, RunsTyped, HostsTyped, ExecTyped, hostVars
<1>5. PreparedTyped'
  BY <1>1, <1>3 DEF PreparedTyped, NewRecord
<1>6. WorkFits'
  BY <1>1, <1>2, WorkUntouched DEF RunsStay
<1>7. KnownAs(r, NextRun)'
  <2>1. SUFFICES ASSUME NEW next, next = NextRun, NextRun' = next PROVE KnownAs(r, next)'
    BY <1>2
  <2>2. KnownAs(r, next)
    BY <2>1 DEF NewRecord
  <2> QED
    BY <1>2, <2>2, SoundStays DEF RunsStay
<1>8. RunsAreSound'
  <2>1. ASSUME NEW x \in RunIds PROVE KnownAs(runs[x], x)'
    <3>1. SUFFICES ASSUME NEW a, a = runs[x], runs'[x] = a PROVE KnownAs(a, x)'
      BY <1>1
    <3>2. KnownAs(a, x)
      BY <3>1 DEF Records, RunsAreSound
    <3> QED
      BY <1>2, <3>2, SoundStays DEF RunsStay
  <2>2. KnownAs(prepared, NextRun)'
    BY <1>1, <1>7
  <2> QED
    BY <1>2, <2>1, <2>2 DEF RunsAreSound
<1>9. RecordsFit'
  <2>1. ASSUME NEW n \in Nodes, NEW a, DigestHolds(a, n), SeqGrows(a, n)
        PROVE  DigestHolds(a, n)' /\ SeqGrows(a, n)'
    BY <1>1, <2>1, NodeStays DEF hostVars
  <2>2. ASSUME NEW n \in Nodes PROVE ReceiptFits(n)'
    BY <1>1, <1>2, ReceiptStays DEF Records, RecordsFit, RunsStay, hostVars
  <2>3. ASSUME NEW n \in Nodes, NEW x \in RunIds PROVE DigestHolds(runs[x], n)' /\ SeqGrows(runs[x], n)'
    <3>1. SUFFICES ASSUME NEW a, a = runs[x], runs'[x] = a PROVE DigestHolds(a, n)' /\ SeqGrows(a, n)'
      BY <1>1
    <3> QED
      BY <2>1, <3>1 DEF Records, RecordsFit
  <2>4. ASSUME NEW n \in Nodes PROVE DigestHolds(prepared, n)' /\ SeqGrows(prepared, n)'
    <3>1. DigestHolds(r, n)' /\ SeqGrows(r, n)'
      BY <2>1 DEF NewRecord
    <3> QED
      BY <1>1, <3>1
  <2> QED
    BY <1>2, <2>2, <2>3, <2>4 DEF RecordsFit
<1> QED
  BY <1>4, <1>5, <1>6, <1>8, <1>9 DEF RecordsOn

\* A planned run with what it was previewed on.
PreviewedRun(kind, mode, rev, plan, backups, gen, base, digest, pending) ==
  [kind |-> kind, mode |-> mode, rev |-> rev, status |-> "queued",
   plan |-> plan, done |-> 0, backups |-> backups,
   gen |-> gen, base |-> base, digest |-> digest, pending |-> pending,
   root |-> NextRun, attempt |-> 0, retryGen |-> 0, retryMutating |-> 0,
   retryState |-> <<NothingDone, NothingInstalled>>]

LEMMA NothingTyped ==
  NothingDone \in [Nodes -> ReceiptRows] /\ NothingInstalled \in [Nodes -> Rows]
BY EmptySeq DEF NothingDone, NothingInstalled, NoReceipt, ReceiptRows, Rows

LEMMA PreviewedFields ==
  ASSUME NEW kind, NEW mode, NEW rev, NEW plan, NEW backups, NEW gen, NEW base, NEW digest, NEW pending
  PROVE  [NewRun(kind, mode, rev, plan, backups) EXCEPT
            !.gen = gen, !.base = base, !.digest = digest, !.pending = pending]
           = PreviewedRun(kind, mode, rev, plan, backups, gen, base, digest, pending)
<1>1. PICK b : b = NewRun(kind, mode, rev, plan, backups)
  OBVIOUS
<1>2. PICK n : n = [b EXCEPT !.gen = gen, !.base = base, !.digest = digest, !.pending = pending]
  OBVIOUS
<1>3. n = PreviewedRun(kind, mode, rev, plan, backups, gen, base, digest, pending)
  BY <1>1, <1>2 DEF NewRun, PreviewedRun
<1> QED
  BY <1>1, <1>2, <1>3

LEMMA PreviewedTyped ==
  ASSUME Records, NEW kind \in {"scenario", "test", "reset", "rollback"},
         NEW mode \in {"install", "upgrade", "verify", "none"}, NEW rev \in Revisions \cup {NoRevision},
         NEW plan \in Seq(Steps), NEW backups \in [Nodes -> Rows],
         NEW gen \in Nat, NEW base \in Nat, NEW digest \in [Nodes -> Rows],
         NEW pending \in [Nodes -> ReceiptRows]
  PROVE  PreviewedRun(kind, mode, rev, plan, backups, gen, base, digest, pending) \in RunRecords
<1>1. NextRun \in Nat
  BY LenProperties DEF NextRun, Records, Typed, RunsTyped
<1>2. <<NothingDone, NothingInstalled>> \in [Nodes -> ReceiptRows] \X [Nodes -> Rows]
  BY NothingTyped
<1> QED
  BY <1>1, <1>2 DEF RunRecords, PreviewedRun

\* A new run that starts a chain of its own.
LEMMA FirstAttempt ==
  ASSUME Records, NEW r \in RunRecords, r.status = "queued", r.done = 0, r.root = NextRun, r.attempt = 0,
         BackupsFit(r), PlanIsSound(r), Lifecycle(r) => r.digest = installed
  PROVE  NewRecord(r)
<1>1. NextRun \in Nat /\ NextRun # 0
  BY LenProperties DEF NextRun, Records, Typed, RunsTyped
<1>2. KnownAs(r, NextRun)
  BY <1>1 DEF KnownAs, Sound, RetryIsSound, InChain
<1> QED
  BY <1>2 DEF NewRecord, DigestHolds, SeqGrows

LEMMA ResetPlanned ==
  ASSUME Records, PrepareReset
  PROVE  RecordsOn'
<1> DEFINE rows == RecoveryBaselines
           cover == {n \in Nodes : rows[n] # <<>>}
           s == SelectNodes(cover)
           plan == Changes(Reverse(s))
           r == NewRun("reset", "none", NoRevision, plan, rows)
<1>1. Preparing /\ Planned(r) /\ \A n \in cover : Len(rows[n]) = 1
  BY DEF PrepareReset
<1>2. rows \in [Nodes -> Rows]
  BY DEF RecoveryBaselines, Records, Typed, HostsTyped, ReceiptRows
<1> HIDE DEF rows
<1>3. cover \in SUBSET Nodes /\ \A n \in cover : rows[n] # <<>>
  OBVIOUS
<1>4. s \in Seq(cover)
  BY <1>3, Selected
<1>5. Reverse(s) \in Seq(cover)
  <2>1. Len(s) \in Nat /\ s \in [1..Len(s) -> cover]
    BY <1>4, LenProperties
  <2> HIDE DEF s, cover
  <2>2. \A i \in 1..Len(s) : (Len(s) - i) + 1 \in 1..Len(s)
    BY <2>1
  <2>3. Reverse(s) \in [1..Len(s) -> cover]
    BY <2>1, <2>2 DEF Reverse
  <2> QED
    BY <2>1, <2>3, FunctionIsSeq
<1>6. plan \in Seq(Steps) /\ ChangesOf(plan, cover)
  BY <1>3, <1>5, ChangeSteps
<1>7. /\ r \in RunRecords /\ r.status = "queued" /\ r.done = 0 /\ r.root = NextRun /\ r.attempt = 0
      /\ r.kind = "reset" /\ r.mode = "none" /\ r.plan = plan /\ r.backups = rows
  <2>1. r = PreviewedRun("reset", "none", NoRevision, plan, rows, 0, 0, NothingInstalled, NothingDone)
    BY DEF NewRun, PreviewedRun
  <2>2. plan \in Seq(Steps) /\ rows \in [Nodes -> Rows]
    BY <1>2, <1>6
  <2> HIDE DEF plan, r
  <2>3. r \in RunRecords
    BY <2>1, <2>2, NothingTyped, PreviewedTyped
  <2>4. /\ r.status = "queued" /\ r.done = 0 /\ r.root = NextRun /\ r.attempt = 0
        /\ r.kind = "reset" /\ r.mode = "none" /\ r.plan = plan /\ r.backups = rows
    BY <2>1 DEF PreviewedRun
  <2> QED
    BY <2>3, <2>4
<1> HIDE DEF r, plan
<1>8. PlanIsSound(r)
  BY <1>3, <1>6, <1>7, ChangesAreSound
<1>9. BackupsFit(r) /\ ~Lifecycle(r)
  <2>a. \A n \in Nodes : rows[n] # <<>> => Len(rows[n]) = 1
    BY <1>1
  <2> HIDE DEF cover
  <2>1. ASSUME NEW n \in Nodes PROVE Len(rows[n]) <= 1
    <3>1. CASE rows[n] = <<>>
      BY <3>1
    <3>2. CASE rows[n] # <<>>
      <4>1. Len(rows[n]) = 1
        BY <2>a, <3>2
      <4> QED
        BY <4>1
    <3> QED
      BY <3>1, <3>2
  <2> QED
    BY <1>7, <2>1 DEF BackupsFit, Lifecycle
<1>10. NewRecord(r)
  BY <1>7, <1>8, <1>9, FirstAttempt
<1> QED
  BY <1>1, <1>10, PlannedRecords

LEMMA RollbackPlanned ==
  ASSUME Records, NEW n \in Nodes, PrepareRollback(n)
  PROVE  RecordsOn'
<1> DEFINE rows == [m \in Nodes |-> IF m = n THEN receipts[n].backup ELSE <<>>]
           plan == Changes(<<n>>)
           r == NewRun("rollback", "none", NoRevision, plan, rows)
<1>1. Preparing /\ Planned(r) /\ receipts[n].status # "none"
  BY DEF PrepareRollback, Pending
<1>2. rows \in [Nodes -> Rows] /\ rows[n] # <<>>
  <2>1. receipts[n].backup \in Rows /\ <<>> \in Rows
    BY EmptySeq DEF Records, Typed, HostsTyped, ReceiptRows, Rows
  <2>2. receipts[n].backup # <<>>
    BY <1>1 DEF Records, RecordsFit, ReceiptFits
  <2> QED
    BY <2>1, <2>2
<1> HIDE DEF rows
<1>3. {n} \in SUBSET Nodes /\ <<n>> \in Seq({n})
  OBVIOUS
<1>4. plan \in Seq(Steps) /\ ChangesOf(plan, {n})
  BY <1>3, ChangeSteps
<1>5. /\ r \in RunRecords /\ r.status = "queued" /\ r.done = 0 /\ r.root = NextRun /\ r.attempt = 0
      /\ r.kind = "rollback" /\ r.mode = "none" /\ r.plan = plan /\ r.backups = rows
  <2>1. r = PreviewedRun("rollback", "none", NoRevision, plan, rows, 0, 0, NothingInstalled, NothingDone)
    BY DEF NewRun, PreviewedRun
  <2>2. plan \in Seq(Steps) /\ rows \in [Nodes -> Rows]
    BY <1>2, <1>4
  <2> HIDE DEF plan, r
  <2>3. r \in RunRecords
    BY <2>1, <2>2, NothingTyped, PreviewedTyped
  <2>4. /\ r.status = "queued" /\ r.done = 0 /\ r.root = NextRun /\ r.attempt = 0
        /\ r.kind = "rollback" /\ r.mode = "none" /\ r.plan = plan /\ r.backups = rows
    BY <2>1 DEF PreviewedRun
  <2> QED
    BY <2>3, <2>4
<1> HIDE DEF r, plan
<1>6. PlanIsSound(r)
  BY <1>2, <1>3, <1>4, <1>5, ChangesAreSound
<1>7. BackupsFit(r) /\ ~Lifecycle(r)
  BY <1>5 DEF BackupsFit, Lifecycle
<1>8. NewRecord(r)
  BY <1>5, <1>6, <1>7, FirstAttempt
<1> QED
  BY <1>1, <1>8, PlannedRecords

LEMMA CaptureFacts ==
  ASSUME Records, NEW rev \in Revisions, NEW mode \in LifecycleModes
  PROVE  /\ Capture(rev, mode) \in [Nodes -> Rows]
         /\ \A n \in Nodes :
              IF n \notin Touched(rev, mode) THEN Capture(rev, mode)[n] = <<>>
              ELSE IF Target[rev][n] = Absent THEN Capture(rev, mode)[n] = installed[n]
              ELSE Capture(rev, mode)[n] # <<>> /\ ReleaseOf(Capture(rev, mode)[n]) = Target[rev][n]
<1> DEFINE c == Capture(rev, mode)
           touched == Touched(rev, mode)
           New(n) == [rel |-> Target[rev][n], run |-> NextRun]
<1>1. c = [n \in Nodes |-> CASE n \notin touched -> <<>>
                             [] n \in touched /\ Target[rev][n] = Absent -> installed[n]
                             [] n \in touched /\ Target[rev][n] # Absent -> <<New(n)>> \o installed[n]]
  BY DEF Capture, Touched
<1>2. NextRun \in Nat /\ installed \in [Nodes -> Rows] /\ <<>> \in Rows
  <2>1. Len(runs) \in Nat
    BY LenProperties DEF Records, Typed, RunsTyped
  <2>2. <<>> \in Rows
    BY EmptySeq DEF Rows
  <2> QED
    BY <2>1, <2>2 DEF NextRun, Records, Typed, HostsTyped
<1>3. ASSUME NEW n \in Nodes, Target[rev][n] # Absent
      PROVE  /\ <<New(n)>> \o installed[n] \in Rows /\ <<New(n)>> \o installed[n] # <<>>
             /\ ReleaseOf(<<New(n)>> \o installed[n]) = Target[rev][n]
  <2> DEFINE R == [rel : Releases, run : Nat]
             new == New(n)
             row == <<new>> \o installed[n]
  <2>1. new \in R /\ new.rel = Target[rev][n]
    BY <1>2, <1>3, RevisionAssumption
  <2> HIDE DEF New, new
  <2>2. /\ <<new>> \in Seq(R) /\ installed[n] \in Seq(R) /\ Len(<<new>>) = 1 /\ <<new>>[1] = new
        /\ Len(installed[n]) \in Nat
    <3>1. installed[n] \in Seq(R)
      BY <1>2 DEF Rows
    <3> HIDE DEF R
    <3>2. <<new>> \in Seq(R) /\ Len(<<new>>) = 1 /\ <<new>>[1] = new
      BY <2>1
    <3>3. Len(installed[n]) \in Nat
      BY <3>1, LenProperties
    <3> QED
      BY <3>1, <3>2, <3>3
  <2> HIDE DEF R
  <2>3. /\ row \in Seq(R) /\ Len(row) = 1 + Len(installed[n])
        /\ \A i \in 1..(1 + Len(installed[n])) : row[i] = IF i <= 1 THEN <<new>>[i] ELSE installed[n][i - 1]
    BY <2>2, ConcatProperties
  <2> HIDE DEF row
  <2>4. row[1] = new /\ row # <<>>
    <3>1. 1 \in 1..(1 + Len(installed[n])) /\ Len(row) # 0
      BY <2>2, <2>3
    <3>2. row[1] = new
      BY <2>2, <2>3, <3>1
    <3>3. row # <<>>
      BY <3>1
    <3> QED
      BY <3>2, <3>3
  <2>5. Head(row) = new
    BY <2>3, <2>4
  <2> QED
    BY <2>1, <2>3, <2>4, <2>5 DEF ReleaseOf, Rows, R, row, new
<1> HIDE DEF c, touched, New
<1>4. ASSUME NEW n \in Nodes
      PROVE  /\ c[n] \in Rows
             /\ IF n \notin touched THEN c[n] = <<>>
                ELSE IF Target[rev][n] = Absent THEN c[n] = installed[n]
                ELSE c[n] # <<>> /\ ReleaseOf(c[n]) = Target[rev][n]
  BY <1>1, <1>2, <1>3
<1>5. c \in [Nodes -> Rows]
  <2>1. c = [n \in Nodes |-> c[n]]
    BY <1>1
  <2> QED
    BY <1>4, <2>1
<1> QED
  BY <1>4, <1>5 DEF c, touched

LEMMA ScenarioPlanned ==
  ASSUME Records, NEW rev \in Revisions, NEW kind \in {"scenario", "test"}, NEW mode \in LifecycleModes,
         PrepareScenario(rev, kind, mode)
  PROVE  RecordsOn'
<1> DEFINE plan == ScenarioPlan(rev, mode)
           rows == Capture(rev, mode)
           pending == IF mode = "verify" THEN PendingReceipts ELSE NothingDone
           r == [NewRun(kind, mode, rev, plan, rows) EXCEPT
                   !.gen = baseline.gen, !.base = baseline.run, !.digest = installed,
                   !.pending = IF mode = "verify" THEN PendingReceipts ELSE @]
           S == Touched(rev, mode)
<1>1. Preparing /\ Planned(r)
  BY DEF PrepareScenario
<1>2. /\ mode = "upgrade" => /\ Source[rev] \in Revisions
                             /\ \A n \in Nodes : ReleaseOf(installed[n]) = Target[Source[rev]][n]
      /\ mode = "install" => \A n \in S : Target[rev][n] # Absent
  <2>1. ASSUME mode = "upgrade"
        PROVE  FormalRun(baseline.run, Source[rev]) /\ InstalledIs(baseline.rev) /\ baseline.rev = Source[rev]
    BY <2>1 DEF PrepareScenario
  <2>2. mode = "install" => \A n \in S : Target[rev][n] # Absent
    BY DEF Touched, Present
  <2> QED
    BY <2>1, <2>2, RevisionAssumption DEF FormalRun, InstalledIs
<1>3. /\ rows \in [Nodes -> Rows]
      /\ \A n \in Nodes : IF n \notin S THEN rows[n] = <<>>
                          ELSE IF Target[rev][n] = Absent THEN rows[n] = installed[n]
                          ELSE rows[n] # <<>> /\ ReleaseOf(rows[n]) = Target[rev][n]
  BY CaptureFacts
<1>4. plan \in Seq(Steps) /\ ChangesOf(plan, S)
  BY <1>2, PlanFacts
<1>5. S \in SUBSET Nodes /\ \A n \in S : rows[n] # <<>>
  <2>1. S \in SUBSET Nodes
    BY DEF Touched, Present, Changed, LifecycleModes
  <2>2. ASSUME NEW n \in S, Target[rev][n] = Absent PROVE rows[n] # <<>>
    <3>1. mode = "upgrade" /\ n \in Changed(rev)
      BY <1>2, <2>2 DEF Touched, LifecycleModes
    <3>2. Target[Source[rev]][n] # Absent
      BY <2>2, <3>1 DEF Changed
    <3>3. ReleaseOf(installed[n]) # Absent
      BY <1>2, <2>1, <3>1, <3>2
    <3>4. installed[n] # <<>>
      BY <3>3 DEF ReleaseOf
    <3> HIDE DEF S, rows
    <3> QED
      BY <1>3, <2>1, <2>2, <3>4
  <2> HIDE DEF S, rows
  <2> QED
    BY <1>3, <2>1, <2>2
<1>6. pending \in [Nodes -> ReceiptRows]
  BY NothingTyped DEF PendingReceipts, NothingDone, Records, Typed, HostsTyped
<1>7. baseline.gen \in Nat /\ baseline.run \in Nat /\ installed \in [Nodes -> Rows]
  BY DEF Records, Typed, HostsTyped, BaselineTyped, BaselineRows
<1>8. r = PreviewedRun(kind, mode, rev, plan, rows, baseline.gen, baseline.run, installed, pending)
  <2>1. [NewRun(kind, mode, rev, plan, rows) EXCEPT !.gen = baseline.gen, !.base = baseline.run,
           !.digest = installed, !.pending = pending]
          = PreviewedRun(kind, mode, rev, plan, rows, baseline.gen, baseline.run, installed, pending)
    <3> HIDE DEF plan, rows, pending
    <3> QED
      BY PreviewedFields
  <2>2. NewRun(kind, mode, rev, plan, rows).pending = NothingDone
    BY DEF NewRun
  <2> QED
    BY <2>1, <2>2
<1> HIDE DEF r, plan, rows, pending, S
<1>9. r \in RunRecords
  <2>1. /\ kind \in {"scenario", "test", "reset", "rollback"}
        /\ mode \in {"install", "upgrade", "verify", "none"} /\ rev \in Revisions \cup {NoRevision}
    BY DEF LifecycleModes
  <2> QED
    BY <1>3, <1>4, <1>6, <1>7, <1>8, <2>1, PreviewedTyped
<1>10. /\ r.status = "queued" /\ r.done = 0 /\ r.root = NextRun /\ r.attempt = 0 /\ r.kind = kind
       /\ r.mode = mode /\ r.rev = rev /\ r.plan = plan /\ r.backups = rows /\ r.digest = installed
  BY <1>8 DEF PreviewedRun
<1>11. PlanIsSound(r)
  BY <1>4, <1>5, <1>10, ChangesAreSound
<1>12. BackupsFit(r)
  <2>1. Lifecycle(r) /\ r.rev \in Revisions /\ r.mode \in LifecycleModes /\ r.kind # "reset"
    BY <1>10 DEF Lifecycle
  <2>2. \A n \in Nodes : rows[n] # <<>> =>
          IF Target[rev][n] = Absent THEN rows[n] = installed[n] ELSE ReleaseOf(rows[n]) = Target[rev][n]
    BY <1>3
  <2> QED
    BY <1>10, <2>1, <2>2 DEF BackupsFit
<1>13. NewRecord(r)
  BY <1>9, <1>10, <1>11, <1>12, FirstAttempt
<1> QED
  BY <1>1, <1>13, PlannedRecords

LEMMA RetryPlanned ==
  ASSUME Records, NEW x \in RunIds, PrepareRetry(x)
  PROVE  RecordsOn'
<1>1. PICK r : r = runs[x]
  OBVIOUS
<1>2. PICK plan : plan = Continuation(r, r.done + 1)
  OBVIOUS
<1>3. PICK state : state = <<receipts, installed>>
  OBVIOUS
<1>4. PICK n : n = [r EXCEPT !.status = "queued", !.plan = plan, !.done = 0, !.attempt = @ + 1,
                             !.retryState = state,
                             !.retryGen = IF Lifecycle(r) THEN baseline.gen ELSE 0,
                             !.retryMutating = IF Lifecycle(r) THEN baseline.mutating ELSE 0]
  OBVIOUS
<1>5. Preparing /\ Planned(n) /\ RecoveryIdentity(r) /\ r.done < Len(r.plan)
  BY <1>1, <1>2, <1>3, <1>4 DEF PrepareRetry
<1>6. /\ r \in RunRecords /\ r.plan \in Seq(Steps) /\ Len(r.plan) \in Nat /\ r.done \in Nat
      /\ x \in Nat /\ x # 0 /\ Len(runs) \in Nat /\ x \in 1..Len(runs)
  BY <1>1, RunIn, RunPlan DEF Records, Typed, RunIds
<1>7. r.done + 1 \in 1..Len(r.plan)
  BY <1>5, <1>6
<1>8. PICK M \in Nat :
        /\ plan \in Seq(Steps) /\ Len(plan) = M + (Len(r.plan) - r.done)
        /\ \A k \in 1..M : plan[k].again /\ plan[k].stage \in {"source", "target", "post"}
        /\ \A k \in (M + 1)..Len(plan) : plan[k] = r.plan[r.done + (k - M)]
  <2>1. PICK M \in Nat :
          /\ plan \in Seq(Steps) /\ Len(plan) = M + (Len(r.plan) - (r.done + 1) + 1)
          /\ \A k \in 1..M : plan[k].again /\ plan[k].stage \in {"source", "target", "post"}
          /\ \A k \in (M + 1)..Len(plan) : plan[k] = r.plan[(r.done + 1) + (k - M) - 1]
    <3>1. PICK start : start = r.done + 1
      OBVIOUS
    <3>2. start \in 1..Len(r.plan) /\ plan = Continuation(r, start)
      BY <1>2, <1>7, <3>1
    <3>3. \E m \in Nat : ContinuesAs(plan, r, start, m)
      BY <1>6, <3>2, ContinuationFacts
    <3> QED
      BY <3>1, <3>3 DEF ContinuesAs
  <2>2. Len(plan) = M + (Len(r.plan) - r.done) /\ Len(plan) \in Nat
    <3>1. Len(plan) = M + (Len(r.plan) - (r.done + 1) + 1) /\ M \in Nat
      BY <2>1
    <3>2. r.done < Len(r.plan) /\ r.done \in Nat /\ Len(r.plan) \in Nat
      BY <1>5, <1>6
    <3> QED
      BY <3>1, <3>2
  <2>3. ASSUME NEW k \in (M + 1)..Len(plan)
        PROVE  plan[k] = r.plan[r.done + (k - M)]
    <3>1. (r.done + 1) + (k - M) - 1 = r.done + (k - M)
      BY <1>6, <2>2, <2>3
    <3>2. plan[k] = r.plan[(r.done + 1) + (k - M) - 1]
      BY <2>1
    <3> QED
      BY <3>1, <3>2
  <2> QED
    BY <2>1, <2>2, <2>3
<1>9. /\ n \in RunRecords /\ Subject(n) = Subject(r) /\ n.status = "queued" /\ n.done = 0
      /\ n.plan = plan /\ n.attempt = r.attempt + 1 /\ n.retryState = state
  <2>1. state \in [Nodes -> ReceiptRows] \X [Nodes -> Rows] /\ plan \in Seq(Steps)
    BY <1>3, <1>8 DEF Records, Typed, HostsTyped
  <2>0. r \in RunRecords
    BY <1>6
  <2>2. PICK gen : gen = IF Lifecycle(r) THEN baseline.gen ELSE 0
    OBVIOUS
  <2>3. PICK mutating : mutating = IF Lifecycle(r) THEN baseline.mutating ELSE 0
    OBVIOUS
  <2>4. gen \in Nat /\ mutating \in Nat
    BY <2>2, <2>3 DEF Records, Typed, BaselineTyped, BaselineRows
  <2>5. n = [kind |-> r.kind, mode |-> r.mode, rev |-> r.rev, status |-> "queued", plan |-> plan,
             done |-> 0, backups |-> r.backups, gen |-> r.gen, base |-> r.base, digest |-> r.digest,
             pending |-> r.pending, root |-> r.root, attempt |-> r.attempt + 1, retryGen |-> gen,
             retryMutating |-> mutating, retryState |-> state]
    BY <1>4, <2>0, <2>2, <2>3 DEF RunRecords
  <2>6. n \in RunRecords
    <3>1. r.attempt + 1 \in Nat
      BY <2>0 DEF RunRecords
    <3> QED
      BY <2>0, <2>1, <2>4, <2>5, <3>1 DEF RunRecords
  <2>7. Subject(n) = Subject(r)
    BY <2>5 DEF Subject
  <2> QED
    BY <2>5, <2>6, <2>7
<1>10. /\ n.root = r.root /\ n.backups = r.backups /\ r.attempt \in Nat /\ r.root \in Nat
       /\ n.attempt # 0 /\ n.attempt > 0 /\ n.retryState[1] = receipts
  BY <1>3, <1>6, <1>9, SubjectFields, SMTT(30) DEF RunRecords
<1>11. KnownAs(r, x)
  BY <1>1 DEF Records, RunsAreSound
<1>12. BackupsFit(n)
  BY <1>9, <1>11, SameSubject DEF KnownAs, Sound
<1>13. RetryIsSound(n)
  <2>1. ASSUME NEW m \in Nodes, r.backups[m] # <<>>, receipts[m].status # "none"
        PROVE  \/ receipts[m].run \in RunIds /\ Root(receipts[m].run) = r.root
               \/ receipts[m].status = "verified" /\ receipts[m].seq < r.root
    <3>1. receipts[m].run \in RunIds
      BY <2>1 DEF Records, RecordsFit, ReceiptFits
    <3> QED
      BY <1>5, <2>1, <3>1 DEF RecoveryIdentity
  <2> QED
    BY <1>10, <2>1 DEF RetryIsSound
<1>14. InChain(n, NextRun)
  <2>1. r.root \in RunIds /\ Subject(runs[r.root]) = Subject(n)
    <3>1. CASE r.attempt = 0
      BY <1>1, <1>9, <1>11, <3>1 DEF KnownAs, InChain
    <3>2. CASE r.attempt # 0
      BY <1>9, <1>10, <1>11, <3>2 DEF KnownAs, InChain
    <3> QED
      BY <3>1, <3>2
  <2>2. r.root \in 1..x
    BY <1>11 DEF KnownAs, InChain
  <2>3. r.root \in 1..NextRun /\ r.root # NextRun
    BY <1>6, <2>2 DEF NextRun
  <2> QED
    BY <1>10, <2>1, <2>3 DEF InChain
<1>15. PlanIsSound(n)
  <2>1. ASSUME NEW k \in 1..Len(plan), k > M
        PROVE  /\ r.done + (k - M) \in 1..Len(r.plan) /\ plan[k] = r.plan[r.done + (k - M)]
               /\ k \in Nat /\ Len(plan) \in Nat
    <3>1. /\ M \in Nat /\ Len(plan) = M + (Len(r.plan) - r.done) /\ Len(plan) \in Nat
      BY <1>6, <1>8, LenProperties
    <3>2. k \in Nat /\ k <= Len(plan) /\ k \in (M + 1)..Len(plan)
      BY <2>1, <3>1
    <3>3. r.done + (k - M) \in 1..Len(r.plan)
      BY <1>6, <2>1, <3>1, <3>2
    <3> QED
      BY <1>8, <3>1, <3>2, <3>3
  <2>2. ASSUME NEW k \in 1..Len(plan), ~(k > M)
        PROVE  plan[k].again /\ plan[k].stage \in {"source", "target", "post"}
    BY <1>6, <1>8, <2>2
  <2>3. ASSUME NEW k \in 1..Len(plan)
        PROVE  /\ plan[k].stage = "execute" => ~plan[k].again
               /\ plan[k].stage \in {"execute", "post"} /\ ~plan[k].again =>
                    plan[k].node \in Nodes /\ r.backups[plan[k].node] # <<>>
    <3>1. CASE k > M
      BY <1>11, <2>1, <3>1 DEF KnownAs, Sound, PlanIsSound
    <3>2. CASE ~(k > M)
      BY <2>2, <3>2
    <3> QED
      BY <3>1, <3>2
  <2>4. ASSUME NEW m \in Nodes, NEW k \in 1..Len(plan), Posts(n, k, m)
        PROVE  (\E j \in 1..(k - 1) : Executes(n, j, m)) \/ receipts[m].seq >= r.root
    <3>1. k > M /\ Posts(r, r.done + (k - M), m)
      BY <1>9, <2>1, <2>2, <2>4 DEF Posts
    <3>2. SeqGrows(r, m)
      BY <1>1 DEF Records, RecordsFit
    <3>3. CASE r.attempt > 0 /\ r.retryState[1][m].seq >= r.root
      BY <3>2, <3>3 DEF SeqGrows
    <3>4. CASE \E j \in 1..((r.done + (k - M)) - 1) : Executes(r, j, m)
      <4>1. PICK j \in 1..((r.done + (k - M)) - 1) : Executes(r, j, m)
        BY <3>4
      <4>2. CASE j <= r.done
        BY <1>6, <3>2, <4>1, <4>2 DEF SeqGrows
      <4>3. CASE ~(j <= r.done)
        <5>0. /\ M \in Nat /\ k \in Nat /\ Len(plan) \in Nat /\ k <= Len(plan) /\ j \in Nat
              /\ j > r.done /\ j <= (r.done + (k - M)) - 1
          BY <1>6, <2>1, <2>4, <3>1, <4>1, <4>3
        <5>1. (j - r.done) + M \in 1..(k - 1) /\ (j - r.done) + M \in 1..Len(plan) /\ (j - r.done) + M > M
              /\ r.done + (((j - r.done) + M) - M) = j
          BY <1>6, <5>0, SMTT(30)
        <5>2. plan[(j - r.done) + M] = r.plan[j]
          BY <2>1, <5>1
        <5> QED
          BY <1>9, <4>1, <5>1, <5>2 DEF Executes
      <4> QED
        BY <4>2, <4>3
    <3> QED
      BY <1>11, <2>1, <2>4, <3>1, <3>3, <3>4 DEF KnownAs, Sound, PlanIsSound
  <2> QED
    BY <1>9, <1>10, <2>3, <2>4 DEF PlanIsSound
<1>16. ASSUME NEW m \in Nodes PROVE DigestHolds(n, m) /\ SeqGrows(n, m)
  <2>1. DigestHolds(r, m)
    BY <1>1 DEF Records, RecordsFit
  <2>2. DigestHolds(n, m)
    BY <1>9, <2>1, SameSubject
  <2> QED
    BY <1>9, <1>10, <2>2 DEF SeqGrows
<1>17. NewRecord(n)
  BY <1>9, <1>12, <1>13, <1>14, <1>15, <1>16 DEF NewRecord, KnownAs, Sound
<1> QED
  BY <1>5, <1>17, PlannedRecords

---------------------------------------------------------------------------
(* Every step.                                                               *)

\* What a step may do to the runs there are.
RunsGrow ==
  /\ RunsKeep
  /\ \A x \in RunIds : /\ runs'[x].done >= runs[x].done
                       /\ runs[x].status = "succeeded" => runs'[x].status = "succeeded"

LEMMA StayingGrows ==
  ASSUME RunsTyped, RunsKeep, StatusesStay, DoneStays
  PROVE  RunsGrow
<1>1. ASSUME NEW x \in RunIds PROVE runs[x].done \in Nat
  BY RunPlan
<1> QED
  BY <1>1 DEF RunsGrow, StatusesStay, DoneStays

LEMMA UnchangedGrows ==
  ASSUME RunsTyped, UNCHANGED runs
  PROVE  RunsGrow /\ RunIds' = RunIds /\ RunsStay
  BY StayingGrows, Unchanging DEF RunIds, RunsStay

LEMMA PlanRecords ==
  ASSUME Records, Plan
  PROVE  RecordsOn' /\ UNCHANGED <<runs, baseline, hostVars, exec, faults>>
<1>1. ASSUME NEW rev \in Revisions, NEW kind \in {"scenario", "test"},
             NEW mode \in {"install", "upgrade", "verify"}, PrepareScenario(rev, kind, mode)
      PROVE  RecordsOn' /\ UNCHANGED <<runs, baseline, hostVars, exec, faults>>
  <2>1. RecordsOn'
    BY <1>1, ScenarioPlanned DEF LifecycleModes
  <2> QED
    BY <1>1, <2>1 DEF PrepareScenario, Planned
<1>2. ASSUME NEW x \in RunIds, PrepareRetry(x)
      PROVE  RecordsOn' /\ UNCHANGED <<runs, baseline, hostVars, exec, faults>>
  <2>1. RecordsOn'
    BY <1>2, RetryPlanned
  <2> QED
    BY <1>2, <2>1 DEF PrepareRetry, Planned
<1>3. ASSUME PrepareReset
      PROVE  RecordsOn' /\ UNCHANGED <<runs, baseline, hostVars, exec, faults>>
  <2>1. RecordsOn'
    BY <1>3, ResetPlanned
  <2> QED
    BY <1>3, <2>1 DEF PrepareReset, Planned
<1>4. ASSUME NEW n \in Nodes, PrepareRollback(n)
      PROVE  RecordsOn' /\ UNCHANGED <<runs, baseline, hostVars, exec, faults>>
  <2>1. RecordsOn'
    BY <1>4, RollbackPlanned
  <2> QED
    BY <1>4, <2>1 DEF PrepareRollback, Planned
<1> QED
  BY <1>1, <1>2, <1>3, <1>4 DEF Plan

\* The execution steps that end the run, or its report.
Ends == (Finish /\ FinishHolds(exec.run)) \/ \E status \in {"failed", "cancelled"} : FinishFailed(status)

LEMMA EndSteps ==
  ASSUME Records, Ends
  PROVE  /\ RecordsOn' /\ RunsGrow /\ RunsStay /\ exec.pc \in {"next", "failing"} /\ exec.run \in RunIds
         /\ \A x \in RunIds : x # exec.run => runs'[x].status = runs[x].status
<1>1. PICK status \in {"succeeded", "failed", "cancelled"} :
        /\ exec.pc \in {"next", "failing"} /\ runs' = [runs EXCEPT ![exec.run].status = status]
        /\ exec' = NoExec \/ Goto("report")
        /\ UNCHANGED <<hostVars, prepared, faults>>
  BY DEF Ends, Finish, FinishFailed
<1>2. exec.pc # "idle" /\ exec.pc # "report"
  BY <1>1
<1>3. RecordsOn'
  BY <1>1, <1>2, EndRecords
<1>4. exec.run \in RunIds /\ runs[exec.run].status = "running"
  BY <1>2, InExec DEF Records, Typed, ExecTyped
<1>5. /\ RunsStay /\ DoneStays
      /\ \A y \in RunIds : runs'[y].status = IF y = exec.run THEN status ELSE runs[y].status
  <2>1. status \in Statuses \ {"queued"}
    BY DEF Statuses
  <2> QED
    BY <1>1, <1>4, <2>1, StatusChanges DEF Records, Typed
<1>6. \A x \in RunIds : runs[x].done \in Nat
  BY RunPlan DEF Records, Typed
<1> QED
  BY <1>1, <1>3, <1>4, <1>5, <1>6 DEF RunsGrow, RunsStay, DoneStays

LEMMA WorkSteps ==
  ASSUME Records, WorkStep
  PROVE  RecordsOn' /\ RunsGrow /\ RunsStay /\ StatusesStay /\ WorkGoesOn
<1>1. exec.pc \in Working \cup {"validate"}
  <2>1. exec.pc \notin {"idle", "failing", "report"}
    BY DEF WorkStep, Validate, MarkMutation, AtStep, BeginExecute, Act, EndExecute, Check, Acceptance,
           RecordInstallation, VerifyReceipt, CompleteStep, Abort, RefuseFinish
  <2> QED
    BY <2>1, InExec DEF Records, Typed, Execs
<1>2. WorkGoesOn
  BY <1>1, WorkStepGoesOn DEF Records, WorkFits
<1>3. PreparedTyped'
  BY <1>2 DEF WorkGoesOn, RunsStay, Records, Typed, PreparedTyped
<1>4. RecordsOn'
  BY <1>1, <1>3, WorkKeepsRecords DEF RecordsOn
<1>5. \A x \in RunIds : runs'[x].done >= runs[x].done
  <2>1. \A x \in RunIds : runs[x].done \in Nat
    BY RunPlan DEF Records, Typed
  <2> QED
    BY <1>2, <2>1 DEF WorkGoesOn, Cur
<1> QED
  BY <1>2, <1>4, <1>5 DEF RunsGrow, WorkGoesOn, StatusesStay, RunsStay

\* The steps of a run that stands beside the execution.
LEMMA BesideSteps ==
  ASSUME Records, CreateRun \/ RefuseRun \/ Plan \/ \E x \in RunIds : CancelQueued(x)
  PROVE  RecordsOn' /\ RunsGrow /\ UNCHANGED <<baseline, hostVars, exec, faults>>
<1>1. CASE CreateRun
  <2>1. RunsKeep /\ \A x \in RunIds : runs'[x] = runs[x] /\ runs[x].done \in Nat
    BY <1>1, Created, RunPlan DEF Records, Typed
  <2>2. RecordsOn'
    BY <1>1, CreateRecords
  <2>3. RunsGrow
    BY <2>1 DEF RunsGrow
  <2> QED
    BY <1>1, <2>2, <2>3 DEF CreateRun
<1>2. CASE RefuseRun
  BY <1>2, RefuseRecords, UnchangedGrows DEF RefuseRun, Records, Typed
<1>3. CASE Plan
  BY <1>3, PlanRecords, UnchangedGrows DEF Records, Typed
<1>4. ASSUME NEW x \in RunIds, CancelQueued(x)
      PROVE  RecordsOn' /\ RunsGrow /\ UNCHANGED <<baseline, hostVars, exec, faults>>
  <2>1. runs[x].status = "queued" /\ runs' = [runs EXCEPT ![x].status = "cancelled"]
        /\ UNCHANGED <<baseline, hostVars, exec, faults>>
    BY <1>4 DEF CancelQueued
  <2>2. "cancelled" \in Statuses \ {"queued"}
    BY DEF Statuses
  <2>3. /\ RunsStay /\ DoneStays
        /\ \A y \in RunIds : runs'[y].status = IF y = x THEN "cancelled" ELSE runs[y].status
    BY <2>1, <2>2, StatusChanges DEF Records, Typed
  <2>4. \A y \in RunIds : runs[y].done \in Nat
    BY RunPlan DEF Records, Typed
  <2>5. RunsGrow
    BY <2>1, <2>3, <2>4 DEF RunsGrow, RunsStay, DoneStays
  <2> QED
    BY <1>4, <2>1, <2>5, CancelRecords
<1> QED
  BY <1>1, <1>2, <1>3, <1>4

LEMMA StartSteps ==
  ASSUME Records, NEW x \in RunIds, StartRun(x)
  PROVE  RecordsOn' /\ RunsGrow /\ RunsStay
<1>1. runs[x].status = "queued" /\ runs' = [runs EXCEPT ![x].status = "running"]
  BY DEF StartRun, Queued
<1>2. "running" \in Statuses \ {"queued"}
  BY DEF Statuses
<1>3. /\ RunsStay /\ DoneStays
      /\ \A y \in RunIds : runs'[y].status = IF y = x THEN "running" ELSE runs[y].status
  BY <1>1, <1>2, StatusChanges DEF Records, Typed
<1>4. \A y \in RunIds : runs[y].done \in Nat
  BY RunPlan DEF Records, Typed
<1> QED
  BY <1>1, <1>3, <1>4, StartRecords DEF RunsGrow, RunsStay, DoneStays

Reports == MarkBaselineUnverified \/ MarkBaselineLost

LEMMA ReportSteps ==
  ASSUME Records, Reports
  PROVE  RecordsOn' /\ RunsGrow /\ RunsStay
<1>1. exec.pc = "report" /\ exec' = NoExec /\ UNCHANGED <<runs, hostVars, prepared>>
  BY DEF Reports, MarkBaselineUnverified, MarkBaselineLost
<1> QED
  BY <1>1, ReportRecords, UnchangedGrows DEF Records, Typed

LEMMA CrashSteps ==
  ASSUME Records, Crash
  PROVE  RecordsOn' /\ RunsGrow /\ RunsStay
<1>1. RecordsOn' /\ RunsStay
  BY CrashRecords
<1>2. ASSUME NEW x \in RunIds
      PROVE  /\ runs'[x].done >= runs[x].done
             /\ runs[x].status = "succeeded" => runs'[x].status = "succeeded"
  <2>1. runs[x] \in RunRecords /\ runs[x].done \in Nat
    BY RunIn, RunPlan DEF Records, Typed
  <2>2. CASE runs[x].status = "running"
    <3>1. runs'[x] = [runs[x] EXCEPT !.status = "interrupted"]
      BY <2>2 DEF Crash
    <3>2. "interrupted" \in Statuses
      BY DEF Statuses
    <3>3. runs'[x].done = runs[x].done
      BY <2>1, <3>1, <3>2, StatusSet
    <3> QED
      BY <2>1, <2>2, <3>3
  <2>3. CASE runs[x].status # "running"
    <3>1. runs'[x] = runs[x]
      BY <2>3 DEF Crash
    <3> QED
      BY <2>1, <3>1
  <2> QED
    BY <2>2, <2>3
<1> QED
  BY <1>1, <1>2 DEF RunsGrow, RunsStay

LEMMA NextCases ==
  ASSUME Next
  PROVE  \/ CreateRun \/ RefuseRun \/ Plan \/ \E x \in RunIds : CancelQueued(x)
         \/ \E x \in RunIds : StartRun(x)
         \/ WorkStep \/ Ends \/ Reports \/ Crash
<1>1. Finish => Ends \/ RefuseFinish
  BY DEF Finish, Ends, RefuseFinish
<1> QED
  BY <1>1 DEF Next, WorkStep, Ends, Reports

LEMMA RecordsStep ==
  ASSUME Records, Next
  PROVE  RecordsOn' /\ RunsGrow
<1>1. ASSUME NEW x \in RunIds, StartRun(x) PROVE RecordsOn' /\ RunsGrow
  BY <1>1, StartSteps
<1>2. CASE CreateRun \/ RefuseRun \/ Plan \/ \E x \in RunIds : CancelQueued(x)
  BY <1>2, BesideSteps
<1> QED
  BY <1>1, <1>2, NextCases, WorkSteps, EndSteps, ReportSteps, CrashSteps

---------------------------------------------------------------------------
(* The baseline.                                                             *)

Withdrawn(b) == [b EXCEPT !.state = "unverified", !.gen = @ + 1]
Marked(b, x, kind) ==
  [b EXCEPT !.state = "partial", !.mutating = x, !.gen = @ + 1, !.test = IF b.gen = 0 THEN kind = "test" ELSE @]

LEMMA WithdrawnFields ==
  ASSUME NEW b \in BaselineRows, NEW w, w = Withdrawn(b)
  PROVE  /\ w \in BaselineRows /\ w.gen = b.gen + 1 /\ w.gen # 0 /\ w.state = "unverified"
         /\ w.run = b.run /\ w.mutating = b.mutating /\ w.test = b.test /\ w.verifier = b.verifier
<1>1. w = [gen |-> b.gen + 1, rev |-> b.rev, run |-> b.run, mutating |-> b.mutating,
           state |-> "unverified", test |-> b.test, digest |-> b.digest, verifier |-> b.verifier]
  BY DEF Withdrawn, BaselineRows
<1>2. b.gen + 1 \in Nat /\ b.gen + 1 # 0
  BY DEF BaselineRows
<1> QED
  BY <1>1, <1>2 DEF BaselineRows

LEMMA MarkedFields ==
  ASSUME NEW b \in BaselineRows, NEW x \in Nat, NEW kind, NEW m, m = Marked(b, x, kind)
  PROVE  /\ m \in BaselineRows /\ m.gen = b.gen + 1 /\ m.gen # 0 /\ m.state = "partial"
         /\ m.run = b.run /\ m.mutating = x /\ m.verifier = b.verifier
         /\ m.test = IF b.gen = 0 THEN kind = "test" ELSE b.test
<1>1. PICK test : test = IF b.gen = 0 THEN kind = "test" ELSE b.test
  OBVIOUS
<1>2. m = [gen |-> b.gen + 1, rev |-> b.rev, run |-> b.run, mutating |-> x,
           state |-> "partial", test |-> test, digest |-> b.digest, verifier |-> b.verifier]
  BY <1>1 DEF Marked, BaselineRows
<1>3. b.gen + 1 \in Nat /\ b.gen + 1 # 0 /\ test \in BOOLEAN
  <2>1. b.gen \in Nat /\ b.test \in BOOLEAN
    BY DEF BaselineRows
  <2>2. test \in BOOLEAN
    BY <1>1, <2>1
  <2> QED
    BY <2>1, <2>2
<1>4. m \in BaselineRows
  BY <1>2, <1>3 DEF BaselineRows
<1> QED
  BY <1>1, <1>2, <1>3, <1>4

\* The execution step that marks the environment.
Marks ==
  /\ MarkMutation /\ Lifecycle(Cur) /\ exec.run # 0 /\ exec.pc = "next" /\ exec'.run = exec.run
  /\ exec'.pc = "marked" /\ UNCHANGED runs
  /\ baseline.gen = ExpectedGeneration(Cur) /\ baseline' = Marked(baseline, exec.run, Cur.kind)

LEMMA WorkBaseline ==
  ASSUME Records, WorkStep
  PROVE  UNCHANGED baseline \/ Marks
<1>1. CASE MarkMutation
  <2>1. exec.run # 0 /\ exec.pc = "next" /\ UNCHANGED runs
    BY <1>1 DEF MarkMutation, AtStep
  <2>2. CASE UNCHANGED baseline
    BY <2>2
  <2>3. CASE ~UNCHANGED baseline
    <3>1. /\ Lifecycle(Cur) /\ baseline.gen = ExpectedGeneration(Cur) /\ Goto("marked")
          /\ baseline' = Marked(baseline, exec.run, Cur.kind)
      BY <1>1, <2>3 DEF MarkMutation, Marked
    <3>2. exec'.run = exec.run /\ exec'.pc = "marked"
      BY <2>1, <3>1, Moves DEF Records, Typed, Working
    <3> QED
      BY <1>1, <2>1, <3>1, <3>2 DEF Marks
  <2> QED
    BY <2>2, <2>3
<1>2. CASE ~MarkMutation
  BY <1>2 DEF WorkStep, Validate, BeginExecute, Act, EndExecute, Check, Acceptance,
           RecordInstallation, VerifyReceipt, CompleteStep, Abort, RefuseFinish
<1> QED
  BY <1>1, <1>2

LEMMA BaselineOfTyped ==
  ASSUME Typed, NEW x \in RunIds, Lifecycle(runs[x]), BackupsFit(runs[x])
  PROVE  /\ BaselineOf(x) \in BaselineRows /\ BaselineOf(x).gen # 0 /\ BaselineOf(x).mutating = 0
         /\ {BaselineOf(x).run, BaselineOf(x).verifier} \subseteq 0..Len(runs)
<1>1. PICK r : r = runs[x]
  OBVIOUS
<1>2. /\ r \in RunRecords /\ r.rev \in Revisions /\ r.mode \in LifecycleModes
      /\ Len(runs) \in Nat /\ x \in Nat /\ x \in 0..Len(runs)
  BY <1>1, RunIn DEF Typed, BackupsFit, RunIds
<1>3. PICK test : test = IF r.mode = "verify" THEN baseline.test ELSE r.kind = "test"
  OBVIOUS
<1>4. BaselineOf(x) =
        [gen |-> baseline.gen + 1, rev |-> r.rev, run |-> IF r.mode = "verify" THEN baseline.run ELSE x,
         mutating |-> 0, state |-> IF test THEN "test" ELSE "complete", test |-> test,
         digest |-> installed, verifier |-> IF r.mode = "verify" THEN x ELSE 0]
  <2>1. CASE r.mode = "verify"
    BY <1>1, <1>3, <2>1 DEF BaselineOf
  <2>2. CASE r.mode # "verify"
    BY <1>1, <1>3, <2>2 DEF BaselineOf
  <2> QED
    BY <2>1, <2>2
<1>5. /\ baseline.gen + 1 \in Nat /\ baseline.gen + 1 # 0 /\ test \in BOOLEAN
      /\ baseline.run \in 0..Len(runs) /\ baseline.run \in Nat /\ installed \in [Nodes -> Rows]
  <2>1. baseline \in BaselineRows /\ baseline.run \in 0..Len(runs) /\ installed \in [Nodes -> Rows]
    BY DEF Typed, BaselineTyped, HostsTyped
  <2>2. baseline.gen \in Nat /\ baseline.test \in BOOLEAN /\ baseline.run \in Nat
    BY <2>1 DEF BaselineRows
  <2>3. test \in BOOLEAN
    BY <1>3, <2>2
  <2>4. baseline.gen + 1 \in Nat /\ baseline.gen + 1 # 0
    BY <2>2
  <2> QED
    BY <2>1, <2>2, <2>3, <2>4
<1>6. PICK run : run = IF r.mode = "verify" THEN baseline.run ELSE x
  OBVIOUS
<1>7. PICK verifier : verifier = IF r.mode = "verify" THEN x ELSE 0
  OBVIOUS
<1>8. PICK state : state = IF test THEN "test" ELSE "complete"
  OBVIOUS
<1>9. /\ run \in 0..Len(runs) /\ verifier \in 0..Len(runs) /\ run \in Nat /\ verifier \in Nat
      /\ state \in {"none", "partial", "unverified", "complete", "test"}
  BY <1>2, <1>5, <1>6, <1>7, <1>8
<1>10. BaselineOf(x) = [gen |-> baseline.gen + 1, rev |-> r.rev, run |-> run, mutating |-> 0,
                        state |-> state, test |-> test, digest |-> installed, verifier |-> verifier]
  BY <1>4, <1>6, <1>7, <1>8
<1>11. BaselineOf(x) \in BaselineRows
  BY <1>2, <1>5, <1>9, <1>10 DEF BaselineRows
<1> QED
  BY <1>5, <1>9, <1>10, <1>11

\* What becomes of the baseline.
Withdraws ==
  /\ baseline' = Withdrawn(baseline) /\ baseline.gen # 0 /\ baseline.mutating = 0 /\ exec' = NoExec
Installs ==
  /\ Finish /\ FinishHolds(exec.run) /\ Lifecycle(Cur) /\ baseline' = BaselineOf(exec.run)
Clears == baseline' = NoBaseline /\ exec' = NoExec

LEMMA BaselineMoves ==
  ASSUME Records, BaselineFits, Next
  PROVE  UNCHANGED baseline \/ Marks \/ Withdraws \/ Installs \/ Clears
<1>1. CASE CreateRun \/ RefuseRun \/ Plan \/ \E x \in RunIds : CancelQueued(x)
  BY <1>1, BesideSteps
<1>2. ASSUME NEW x \in RunIds, StartRun(x) PROVE UNCHANGED baseline
  BY <1>2 DEF StartRun
<1>3. CASE WorkStep
  BY <1>3, WorkBaseline
<1>4. CASE Ends
  <2>1. CASE \E status \in {"failed", "cancelled"} : FinishFailed(status)
    BY <2>1 DEF FinishFailed
  <2>2. CASE Finish /\ FinishHolds(exec.run)
    <3>1. /\ baseline' = CASE Lifecycle(Cur) -> BaselineOf(exec.run)
                           [] Cur.kind = "reset" -> NoBaseline
                           [] Cur.kind = "rollback" -> baseline
          /\ exec' = NoExec
      BY <2>2 DEF Finish
    <3>2. Cur.kind \in {"scenario", "test", "reset", "rollback"}
      <4>1. exec.run \in RunIds
        BY <1>4, EndSteps
      <4> QED
        BY <4>1, RunIn DEF Records, Typed, Cur, RunRecords
    <3>3. CASE Lifecycle(Cur)
      <4>1. Cur.kind # "reset" /\ Cur.kind # "rollback"
        BY <3>3 DEF Lifecycle
      <4> QED
        BY <2>2, <3>1, <3>3, <4>1 DEF Installs
    <3>4. CASE ~Lifecycle(Cur)
      <4>1. Cur.kind = "reset" \/ Cur.kind = "rollback"
        BY <3>2, <3>4 DEF Lifecycle
      <4>2. baseline' = NoBaseline \/ baseline' = baseline
        BY <3>1, <3>4, <4>1
      <4> QED
        BY <3>1, <4>2 DEF Clears
    <3> QED
      BY <3>3, <3>4
  <2> QED
    BY <1>4, <2>1, <2>2 DEF Ends
<1>5. CASE Reports
  BY <1>5 DEF Reports, MarkBaselineUnverified, MarkBaselineLost, Withdraws, Withdrawn
<1>6. CASE Crash
  <2>1. exec' = NoExec
    BY <1>6 DEF Crash
  <2>2. CASE UNCHANGED baseline
    BY <2>2
  <2>3. CASE ~UNCHANGED baseline
    <3>1. Advertised /\ baseline' = Withdrawn(baseline)
      BY <1>6, <2>3 DEF Crash, Withdrawn
    <3>2. baseline.mutating = 0 /\ baseline.gen # 0
      BY <3>1 DEF BaselineFits, Advertised, NoBaseline
    <3> QED
      BY <2>1, <3>1, <3>2 DEF Withdraws
  <2> QED
    BY <2>2, <2>3
<1> QED
  BY <1>1, <1>2, <1>3, <1>4, <1>5, <1>6, NextCases

LEMMA NewIds ==
  ASSUME Records, Next
  PROVE  RunIds' = RunIds \/ CreateRun
<1>1. RunsStay => RunIds' = RunIds
  BY DEF RunsStay, RunIds
<1>2. UNCHANGED runs => RunIds' = RunIds
  BY DEF RunIds
<1>3. ASSUME NEW x \in RunIds, StartRun(x) PROVE RunIds' = RunIds
  BY <1>1, <1>3, StartSteps
<1>4. ASSUME NEW x \in RunIds, CancelQueued(x) PROVE RunIds' = RunIds
  <2>1. runs' = [runs EXCEPT ![x].status = "cancelled"] /\ "cancelled" \in Statuses \ {"queued"}
    BY <1>4 DEF CancelQueued, Statuses
  <2> QED
    BY <1>1, <2>1, StatusChanges DEF Records, Typed
<1>5. RefuseRun => UNCHANGED runs
  BY DEF RefuseRun
<1>6. Plan => UNCHANGED runs
  BY PlanRecords
<1> QED
  BY <1>1, <1>2, <1>3, <1>4, <1>5, <1>6, NextCases, WorkSteps, EndSteps, ReportSteps, CrashSteps

LEMMA BaselineStep ==
  ASSUME Records, BaselineFits, Next
  PROVE  BaselineTyped'
<1>1. /\ baseline \in BaselineRows /\ Len(runs) \in Nat /\ Len(runs') \in Nat /\ RunIds \subseteq RunIds'
      /\ {baseline.run, baseline.mutating, baseline.verifier} \subseteq 0..Len(runs)
  <2>1. RunsTyped' /\ RunIds \subseteq RunIds'
    BY RecordsStep DEF RecordsOn, RunsGrow, RunsKeep
  <2> QED
    BY <2>1, LenProperties DEF Records, Typed, BaselineTyped, RunsTyped
<1>2. 0..Len(runs) \subseteq 0..Len(runs') /\ 0 \in 0..Len(runs')
  BY <1>1 DEF RunIds
<1>3. ASSUME NEW b, b = baseline', b \in BaselineRows, {b.run, b.mutating, b.verifier} \subseteq 0..Len(runs)
      PROVE  BaselineTyped'
  BY <1>2, <1>3 DEF BaselineTyped
<1>4. CASE UNCHANGED baseline
  BY <1>1, <1>3, <1>4
<1>5. CASE Marks
  <2>1. exec.run \in Nat /\ exec.run \in 0..Len(runs)
    BY <1>1, <1>5, CurFacts DEF Marks, Records, RunIds
  <2>2. baseline' = Marked(baseline, exec.run, Cur.kind)
    BY <1>5 DEF Marks
  <2>3. /\ baseline' \in BaselineRows /\ baseline'.run = baseline.run
        /\ baseline'.mutating = exec.run /\ baseline'.verifier = baseline.verifier
    BY <1>1, <2>1, <2>2, MarkedFields
  <2> QED
    BY <1>1, <1>3, <2>1, <2>3
<1>6. CASE Withdraws
  <2>1. /\ baseline' \in BaselineRows /\ baseline'.run = baseline.run
        /\ baseline'.mutating = baseline.mutating /\ baseline'.verifier = baseline.verifier
    BY <1>1, <1>6, WithdrawnFields DEF Withdraws
  <2> QED
    BY <1>1, <1>3, <2>1
<1>7. CASE Installs
  <2>1. exec.run \in RunIds /\ Lifecycle(runs[exec.run]) /\ BackupsFit(runs[exec.run])
    <3>1. exec.pc # "idle" /\ Lifecycle(Cur)
      BY <1>7 DEF Installs, Finish
    <3> QED
      BY <3>1, CurFacts DEF Records, Cur, Sound
  <2>2. /\ BaselineOf(exec.run) \in BaselineRows /\ BaselineOf(exec.run).mutating = 0
        /\ {BaselineOf(exec.run).run, BaselineOf(exec.run).verifier} \subseteq 0..Len(runs)
    BY <2>1, BaselineOfTyped DEF Records
  <2>3. baseline' = BaselineOf(exec.run)
    BY <1>7 DEF Installs
  <2> QED
    BY <1>1, <1>3, <2>2, <2>3
<1>8. CASE Clears
  <2>1. NoBaseline \in BaselineRows
    BY NothingTyped DEF NoBaseline, BaselineRows
  <2>2. {NoBaseline.run, NoBaseline.mutating, NoBaseline.verifier} \subseteq 0..Len(runs)
    BY <1>1 DEF NoBaseline
  <2> QED
    BY <1>3, <1>8, <2>1, <2>2 DEF Clears
<1> QED
  BY <1>4, <1>5, <1>6, <1>7, <1>8, BaselineMoves

\* A run that is created is later than all the attempts it continues.
LEMMA Later ==
  ASSUME Records, CreateRun, NEW x \in RunIds, Root(x) = prepared.root
  PROVE  runs[x].attempt < prepared.attempt
<1>1. /\ KnownAs(prepared, NextRun) /\ RetryHolds(prepared, NextRun) /\ prepared.attempt \in Nat
      /\ NextRun \notin RunIds
  BY Created DEF CreateRun, Accepted, Records, RunsAreSound, Typed, PreparedTyped, RunRecords
<1>2. Root(x) \in 1..x /\ x \in 1..Len(runs) /\ Len(runs) \in Nat
  BY RunIn DEF Records, Typed, RunsAreSound, KnownAs, InChain, Root, RunIds
<1>3. prepared.root # NextRun
  BY <1>2 DEF NextRun
<1>4. prepared.attempt > 0
  BY <1>1, <1>3 DEF KnownAs, InChain
<1> QED
  BY <1>1, <1>4 DEF RetryHolds

(* Evidence once gathered stays. *)
LEMMA EvidenceStays ==
  ASSUME Records, Next, NEW x \in RunIds, Evidence(x)
  PROVE  Evidence(x)'
<1>1. RunsGrow /\ RecordsOn'
  BY RecordsStep
<1>2. ASSUME NEW y \in RunIds
      PROVE  /\ runs'[y].plan = runs[y].plan /\ runs'[y].attempt = runs[y].attempt
             /\ runs'[y].root = runs[y].root /\ runs'[y].done >= runs[y].done
             /\ y \in RunIds' /\ runs[y].done \in Nat /\ runs'[y].done \in Nat
  <2>1. Locked(runs'[y]) = Locked(runs[y]) /\ runs'[y].done >= runs[y].done /\ y \in RunIds'
    BY <1>1 DEF RunsGrow, RunsKeep
  <2>2. runs'[y].done \in Nat
    BY <1>1, <2>1, RunIn DEF RecordsOn, RunsTyped
  <2> QED
    BY <2>1, <2>2, RunPlan, LockedFields, SubjectFields DEF Records, Typed
<1>3. ASSUME NEW y PROVE y \in Attempts(x)' <=> y \in Attempts(x)
  <2>1. CASE y \in RunIds
    BY <1>2, <2>1 DEF Attempts, Root
  <2>2. CASE y \notin RunIds
    <3>1. y \notin Attempts(x)
      BY <2>2 DEF Attempts
    <3>2. SUFFICES ASSUME y \in RunIds', Root(y)' = Root(x)', runs'[y].attempt <= runs'[x].attempt
                   PROVE  FALSE
      BY <3>1 DEF Attempts
    <3>3. CreateRun
      BY <2>2, <3>2, NewIds
    <3>4. y = NextRun /\ runs'[y] = prepared
      BY <2>2, <3>2, <3>3, Created DEF Records
    <3>5. prepared.root = Root(x) /\ prepared.attempt <= runs[x].attempt
      BY <1>2, <3>2, <3>4 DEF Root
    <3>6. runs[x].attempt < prepared.attempt /\ runs[x].attempt \in Nat /\ prepared.attempt \in Nat
      BY <3>3, <3>5, Later, RunIn DEF Records, Typed, RunRecords, PreparedTyped, CreateRun
    <3> QED
      BY <3>5, <3>6
  <2> QED
    BY <2>1, <2>2
<1>4. SUFFICES ASSUME NEW y \in Attempts(x), NEW i \in 1..Len(runs[y].plan)
               PROVE  \/ i <= runs'[y].done
                      \/ \E z \in Attempts(x) :
                           /\ runs[z].attempt > runs[y].attempt
                           /\ \E k \in 1..Len(runs[z].plan) : runs[z].plan[k] = runs[y].plan[i]
  <2>1. \A y \in Attempts(x) : y \in RunIds
    BY DEF Attempts
  <2>2. ASSUME NEW y \in Attempts(x)', NEW i \in 1..Len(runs'[y].plan)
        PROVE  \/ i <= runs'[y].done
               \/ \E z \in Attempts(x)' :
                    /\ runs'[z].attempt > runs'[y].attempt
                    /\ \E k \in 1..Len(runs'[z].plan) : runs'[z].plan[k] = runs'[y].plan[i]
    <3>1. y \in Attempts(x) /\ y \in RunIds
      BY <1>3, <2>1
    <3>2. i \in 1..Len(runs[y].plan)
      BY <1>2, <3>1
    <3>3. CASE i <= runs'[y].done
      BY <3>3
    <3>4. CASE ~(i <= runs'[y].done)
      <4>1. PICK z \in Attempts(x) :
              /\ runs[z].attempt > runs[y].attempt
              /\ \E k \in 1..Len(runs[z].plan) : runs[z].plan[k] = runs[y].plan[i]
        BY <1>4, <3>1, <3>2, <3>4
      <4>2. z \in RunIds /\ z \in Attempts(x)'
        BY <1>3, <2>1, <4>1
      <4> QED
        BY <1>2, <3>1, <4>1, <4>2, SMTT(30)
    <3> QED
      BY <3>3, <3>4
  <2> QED
    BY <2>2 DEF Evidence
<1>5. y \in RunIds
  BY DEF Attempts
<1>6. CASE i <= runs[y].done
  BY <1>2, <1>5, <1>6
<1>7. CASE ~(i <= runs[y].done)
  BY <1>7 DEF Evidence
<1> QED
  BY <1>6, <1>7

LEMMA BaselineFitsStep ==
  ASSUME Records, BaselineFits, Next
  PROVE  BaselineFits'
<1>1. RunsGrow /\ baseline \in BaselineRows /\ BaselineTyped'
  BY RecordsStep, BaselineStep DEF Records, Typed, BaselineTyped
<1>2. baseline.run # 0 => baseline.run \in RunIds
  <2>1. Len(runs) \in Nat /\ baseline.run \in 0..Len(runs)
    BY LenProperties DEF Records, Typed, RunsTyped, BaselineTyped
  <2> QED
    BY <2>1 DEF RunIds
<1>3. ASSUME NEW x \in RunIds, x = baseline.run
      PROVE  /\ runs'[x].status = "succeeded" /\ runs'[x].mode \in {"install", "upgrade"} /\ Evidence(x)'
             /\ baseline.test = (runs'[x].kind = "test")
             /\ Advertised => baseline.state = IF runs'[x].kind = "test" THEN "test" ELSE "complete"
  <2>1. x # 0
    BY RunIn DEF Records, Typed
  <2>2. /\ runs[x].status = "succeeded" /\ runs[x].mode \in {"install", "upgrade"} /\ Evidence(x)
        /\ baseline.test = (runs[x].kind = "test")
        /\ Advertised => baseline.state = IF runs[x].kind = "test" THEN "test" ELSE "complete"
    BY <1>3, <2>1 DEF BaselineFits
  <2>3. Evidence(x)'
    BY <2>2, EvidenceStays
  <2>4. runs'[x].status = "succeeded" /\ Locked(runs'[x]) = Locked(runs[x])
    BY <1>1, <2>2 DEF RunsGrow, RunsKeep
  <2>5. runs'[x].kind = runs[x].kind /\ runs'[x].mode = runs[x].mode
    BY <2>4, LockedFields, SubjectFields
  <2> QED
    BY <2>2, <2>3, <2>4, <2>5
\* It remains to look at the run the new baseline names.
<1>4. SUFFICES /\ baseline'.gen = 0 => baseline' = NoBaseline
               /\ baseline'.mutating # 0 => baseline'.state = "partial"
               /\ \A x : x = baseline'.run /\ x # 0 =>
                    /\ runs'[x].status = "succeeded" /\ runs'[x].mode \in {"install", "upgrade"}
                    /\ Evidence(x)' /\ baseline'.test = (runs'[x].kind = "test")
                    /\ Advertised' => baseline'.state = IF runs'[x].kind = "test" THEN "test" ELSE "complete"
  BY DEF BaselineFits, Evidence, Attempts, Root
<1>5. CASE UNCHANGED baseline
  BY <1>2, <1>3, <1>5 DEF BaselineFits, Advertised
<1>6. CASE Marks
  <2>1. exec.run \in Nat /\ baseline' = Marked(baseline, exec.run, Cur.kind)
    BY <1>6, CurFacts, RunIn DEF Marks, Records, Typed
  <2>2. /\ baseline'.gen # 0 /\ baseline'.state = "partial" /\ baseline'.run = baseline.run
        /\ baseline'.test = IF baseline.gen = 0 THEN Cur.kind = "test" ELSE baseline.test
    BY <1>1, <2>1, MarkedFields
  <2>3. baseline.run # 0 => baseline.gen # 0
    BY DEF BaselineFits, NoBaseline
  <2> QED
    BY <1>2, <1>3, <2>2, <2>3 DEF Advertised
<1>7. CASE Withdraws
  <2>1. /\ baseline'.gen # 0 /\ baseline'.state = "unverified" /\ baseline'.mutating = 0
        /\ baseline'.run = baseline.run /\ baseline'.test = baseline.test
    BY <1>1, <1>7, WithdrawnFields DEF Withdraws
  <2> QED
    BY <1>2, <1>3, <2>1 DEF Advertised
<1>8. CASE Clears
  BY <1>8 DEF Clears, NoBaseline
<1>9. CASE Installs
  <2>1. PICK x \in RunIds : x = exec.run /\ runs[x] = Cur /\ BackupsFit(runs[x]) /\ Lifecycle(runs[x])
    <3>1. exec.pc # "idle" /\ Lifecycle(Cur)
      BY <1>9 DEF Installs, Finish
    <3> QED
      BY <3>1, CurFacts DEF Records, Cur, Sound
  <2>2. baseline' = BaselineOf(x) /\ FinishHolds(x) /\ Ends /\ runs' = [runs EXCEPT ![x].status = "succeeded"]
    BY <1>9, <2>1 DEF Installs, Ends, Finish
  <2>3. baseline'.gen # 0 /\ baseline'.mutating = 0
    BY <2>1, <2>2, BaselineOfTyped DEF Records
  <2>4. CASE runs[x].mode = "verify"
    <3>1. /\ baseline'.run = baseline.run /\ baseline'.test = baseline.test
          /\ baseline'.state = IF baseline.test THEN "test" ELSE "complete"
      BY <2>2, <2>4 DEF BaselineOf
    <3> QED
      BY <1>2, <1>3, <2>3, <3>1
  <2>5. CASE runs[x].mode # "verify"
    <3>1. /\ baseline'.run = x /\ baseline'.test = (runs[x].kind = "test")
          /\ baseline'.state = IF runs[x].kind = "test" THEN "test" ELSE "complete"
      BY <2>2, <2>5 DEF BaselineOf
    <3>2. runs[x].mode \in {"install", "upgrade"}
      BY <2>1, <2>5 DEF BackupsFit, LifecycleModes
    <3>3. /\ runs'[x].status = "succeeded" /\ Locked(runs'[x]) = Locked(runs[x])
      <4>1. runs'[x].status = "succeeded"
        <5>1. runs' = [runs EXCEPT ![x].status = "succeeded"] /\ RunsTyped
          BY <2>2 DEF Records, Typed
        <5>2. "succeeded" \in Statuses \ {"queued"}
          BY DEF Statuses
        <5>3. \A y \in RunIds : runs'[y].status = IF y = x THEN "succeeded" ELSE runs[y].status
          BY <5>1, <5>2, StatusChanges
        <5> QED
          BY <5>3
      <4> QED
        BY <1>1, <4>1 DEF RunsGrow, RunsKeep
    <3>4. runs'[x].kind = runs[x].kind /\ runs'[x].mode = runs[x].mode
      BY <3>3, LockedFields, SubjectFields
    <3>5. Evidence(x)'
      BY <2>1, <2>2, EvidenceStays DEF FinishHolds
    <3> QED
      BY <2>3, <3>1, <3>2, <3>3, <3>4, <3>5
  <2> QED
    BY <2>4, <2>5
<1> QED
  BY <1>5, <1>6, <1>7, <1>8, <1>9, BaselineMoves

\* Where a failed check, or a step that may still change something, is on its way.
Bound(e) == e.pc \in Working \/ (e.pc \in {"failing", "report"} /\ e.cause = "check")

LEMMA ChangesStay ==
  ASSUME Typed, RunsKeep, exec.run \in RunIds, exec # NoExec, ChangesFit, UNCHANGED baseline,
         exec'.run = exec.run, exec'.pc \in Working => exec.pc \in Working, Bound(exec') => Bound(exec)
  PROVE  ChangesFit'
<1>1. PICK c : c = Cur
  OBVIOUS
<1>2. PICK d : d = Cur'
  OBVIOUS
<1>3. Locked(d) = Locked(c)
  BY <1>1, <1>2 DEF RunsKeep, Cur
<1>4. /\ d.kind = c.kind /\ d.mode = c.mode /\ d.root = c.root /\ d.attempt = c.attempt
      /\ d.gen = c.gen /\ d.retryGen = c.retryGen
  BY <1>3, LockedFields, SubjectFields
<1>5. baseline.mutating # 0 => Root(baseline.mutating)' = Root(baseline.mutating)
  <2>1. Len(runs) \in Nat /\ baseline.mutating \in 0..Len(runs)
    BY LenProperties DEF Typed, RunsTyped, BaselineTyped
  <2>2. baseline.mutating # 0 => baseline.mutating \in RunIds
    BY <2>1 DEF RunIds
  <2>3. baseline.mutating # 0 => runs'[baseline.mutating].root = runs[baseline.mutating].root
    BY <2>2, LockedFields, SubjectFields DEF RunsKeep
  <2> QED
    BY <2>3 DEF Root
<1>6. Lifecycle(d) => Lifecycle(c)
  BY <1>4 DEF Lifecycle
<1>7. ExpectedGeneration(d) = ExpectedGeneration(c)
  BY <1>4 DEF ExpectedGeneration
<1>8. Lifecycle(c) =>
        /\ Bound(exec) => baseline.gen = ExpectedGeneration(c) \/ baseline.mutating = exec.run
        /\ exec.pc \in Working /\ baseline.mutating \notin {0, exec.run} =>
             IF c.attempt = 0 THEN c.mode = "verify" ELSE Root(baseline.mutating) = c.root
  BY <1>1 DEF ChangesFit, GenerationFits, Bound
<1>9. Lifecycle(d) =>
        /\ Bound(exec') => baseline.gen = ExpectedGeneration(d) \/ baseline.mutating = exec'.run
        /\ exec'.pc \in Working /\ baseline.mutating \notin {0, exec'.run} =>
             IF d.attempt = 0 THEN d.mode = "verify" ELSE Root(baseline.mutating)' = d.root
  BY <1>4, <1>5, <1>6, <1>7, <1>8
<1>10. ExpectedGeneration(d) = ExpectedGeneration(Cur)' /\ (Lifecycle(Cur)' <=> Lifecycle(d))
  BY <1>2 DEF ExpectedGeneration, Lifecycle
<1> QED
  BY <1>2, <1>9, <1>10 DEF ChangesFit, GenerationFits, Bound

LEMMA ValidationBinds ==
  ASSUME Records, BaselineFits, Validate
  PROVE  ChangesFit'
<1>1. /\ exec \in Execs /\ exec.run \in RunIds /\ exec.run # 0 /\ Sound(Cur) /\ exec.pc = "validate"
      /\ Cur' = Cur /\ UNCHANGED <<runs, baseline>>
  BY CurFacts DEF Validate, Records, Cur, Goto, FailWith, Execs
<1>2. CASE FailWith("conflict")
  <2>1. exec'.pc = "failing" /\ exec'.cause = "conflict"
    BY <1>1, <1>2, Fails DEF Records, Typed
  <2> QED
    BY <2>1 DEF ChangesFit, GenerationFits, Working
<1>3. CASE ~FailWith("conflict")
  <2>1. Goto("next") /\ (Lifecycle(Cur) => ScenarioHolds(Cur))
    BY <1>3 DEF Validate
  <2>2. exec'.run = exec.run /\ exec'.pc = "next"
    BY <1>1, <2>1, Moves DEF Records, Typed, Working
  <2>3. ASSUME Lifecycle(Cur)
        PROVE  /\ baseline.gen = ExpectedGeneration(Cur)
               /\ baseline.mutating \notin {0, exec.run} =>
                    IF Cur.attempt = 0 THEN Cur.mode = "verify" ELSE Root(baseline.mutating) = Cur.root
    <3>1. Cur.attempt \in Nat /\ Cur.mode \in LifecycleModes
      BY <1>1, <2>3, RunIn DEF Records, Typed, RunRecords, Cur, Sound, BackupsFit
    <3>2. CASE Cur.attempt > 0
      BY <2>1, <2>3, <3>1, <3>2 DEF ScenarioHolds, ExpectedGeneration, ChainOwnsMutation
    <3>3. CASE ~(Cur.attempt > 0)
      <4>1. /\ Cur.attempt = 0 /\ baseline.gen = Cur.gen /\ (Cur.mode = "install" => baseline.gen = 0)
            /\ Cur.mode = "upgrade" => baseline.state = "complete"
        BY <2>1, <2>3, <3>1, <3>3 DEF ScenarioHolds
      <4>2. Cur.mode # "verify" => baseline.mutating = 0
        BY <3>1, <4>1 DEF LifecycleModes, BaselineFits, NoBaseline
      <4> QED
        BY <4>1, <4>2 DEF ExpectedGeneration
    <3> QED
      BY <3>2, <3>3
  <2>4. Root(baseline.mutating)' = Root(baseline.mutating)
    BY <1>1 DEF Root
  <2>5. ExpectedGeneration(Cur)' = ExpectedGeneration(Cur) /\ (Lifecycle(Cur)' <=> Lifecycle(Cur))
    BY <1>1 DEF ExpectedGeneration, Lifecycle
  <2> QED
    BY <1>1, <2>2, <2>3, <2>4, <2>5 DEF ChangesFit, GenerationFits
<1> QED
  BY <1>2, <1>3

LEMMA ChangesFitStep ==
  ASSUME Records, BaselineFits, ChangesFit, Next
  PROVE  ChangesFit'
<1>1. exec' = NoExec => ChangesFit'
  BY DEF ChangesFit
<1>2. exec = NoExec \/ exec.run \in RunIds
  BY DEF Records, Typed, ExecTyped
<1>3. CASE CreateRun \/ RefuseRun \/ Plan \/ \E x \in RunIds : CancelQueued(x)
  <2>1. RunsGrow /\ UNCHANGED <<baseline, exec>>
    BY <1>3, BesideSteps
  <2> QED
    BY <1>1, <1>2, <2>1, ChangesStay DEF RunsGrow, Records
<1>4. ASSUME NEW x \in RunIds, StartRun(x) PROVE ChangesFit'
  <2>1. exec'.pc = "validate" /\ exec'.cause = "none"
    BY <1>4 DEF StartRun
  <2> QED
    BY <2>1 DEF ChangesFit, GenerationFits, Working
<1>5. CASE Ends
  <2>1. CASE exec' = NoExec
    BY <1>1, <2>1
  <2>2. CASE exec' # NoExec
    <3>1. /\ RunsKeep /\ exec.run \in RunIds /\ exec.run # 0 /\ exec.pc = "failing" /\ Goto("report")
          /\ UNCHANGED baseline
      BY <1>5, <2>2, EndSteps, RunIn DEF Ends, Finish, FinishFailed, RunsGrow, Records, Typed
    <3>2. exec'.run = exec.run /\ exec'.pc = "report" /\ exec'.cause = exec.cause
      BY <3>1, Moves DEF Records, Typed
    <3>3. exec # NoExec
      BY <3>1 DEF NoExec
    <3> QED
      BY <3>1, <3>2, <3>3, ChangesStay DEF Bound, Working, Records
  <2> QED
    BY <2>1, <2>2
<1>6. CASE Reports \/ Crash
  BY <1>1, <1>6 DEF Reports, MarkBaselineUnverified, MarkBaselineLost, Crash
<1>7. CASE WorkStep
  <2>1. WorkGoesOn /\ RunsKeep
    BY <1>7, WorkSteps DEF RunsGrow
  <2>2. CASE Validate
    BY <2>2, ValidationBinds
  <2>3. CASE Marks
    <3>1. /\ exec'.run = exec.run /\ exec'.pc = "marked" /\ exec.run \in Nat
          /\ baseline' = Marked(baseline, exec.run, Cur.kind)
      BY <2>1, <2>3, RunIn DEF Marks, WorkGoesOn, Records, Typed
    <3>2. baseline'.mutating = exec.run
      BY <3>1, MarkedFields DEF Records, Typed, BaselineTyped
    <3> QED
      BY <3>1, <3>2 DEF ChangesFit, GenerationFits
  <2>4. CASE ~Validate /\ ~Marks
    <3>1. UNCHANGED baseline
      BY <1>7, <2>4, WorkBaseline
    <3>2. CASE exec.pc = "validate"
      <4>1. FailWith("abort")
        BY <1>7, <2>4, <3>2 DEF WorkStep, MarkMutation, AtStep, BeginExecute, Act, EndExecute, Check,
             Acceptance, RecordInstallation, VerifyReceipt, CompleteStep, Abort, RefuseFinish
      <4>2. exec'.pc = "failing" /\ exec'.cause = "abort"
        BY <2>1, <4>1, Fails DEF WorkGoesOn, Records, Typed
      <4> QED
        BY <4>2 DEF ChangesFit, GenerationFits, Working
    <3>3. CASE exec.pc # "validate"
      <4>1. /\ exec.pc \in Working /\ exec.run \in RunIds /\ exec # NoExec /\ exec'.run = exec.run
        BY <2>1, <3>3 DEF WorkGoesOn, NoExec
      <4> QED
        BY <2>1, <3>1, <4>1, ChangesStay DEF Bound, Records
    <3> QED
      BY <3>2, <3>3
  <2> QED
    BY <2>2, <2>3, <2>4
<1> QED
  BY <1>3, <1>4, <1>5, <1>6, <1>7, NextCases

---------------------------------------------------------------------------
(* The invariant.                                                            *)

LEMMA InitHolds ==
  ASSUME Init
  PROVE  BaselineInv
<1> USE DEF Init
<1>1. Len(runs) = 0 /\ RunIds = {}
  BY EmptySeq DEF RunIds
<1>2. RunsTyped
  BY <1>1, EmptySeq, BoundsAssumption DEF RunsTyped
<1>3. HostsTyped /\ ExecTyped /\ PreparedTyped
  BY <1>1, NothingTyped DEF HostsTyped, ExecTyped, PreparedTyped
<1>4. BaselineTyped /\ faults \in 0..MaxFaults
  <2>1. baseline \in BaselineRows
    BY NothingTyped DEF NoBaseline, BaselineRows
  <2>2. {baseline.run, baseline.mutating, baseline.verifier} \subseteq 0..Len(runs)
    BY <1>1 DEF NoBaseline
  <2> QED
    BY <2>1, <2>2, BoundsAssumption DEF BaselineTyped
<1>5. RunsAreSound
  BY <1>1 DEF RunsAreSound
<1>6. RecordsFit
  BY <1>1 DEF RecordsFit, ReceiptFits, NothingDone, NothingInstalled, NoReceipt
<1>7. WorkFits /\ ChangesFit
  BY DEF WorkFits, ChangesFit, NoExec, Working
<1>8. BaselineFits
  BY DEF BaselineFits, NoBaseline
<1> QED
  BY <1>2, <1>3, <1>4, <1>5, <1>6, <1>7, <1>8 DEF BaselineInv, Typed

LEMMA FaultsStep ==
  ASSUME Records, Next
  PROVE  faults' \in 0..MaxFaults
<1>1. faults \in 0..MaxFaults /\ MaxFaults \in Nat
  BY BoundsAssumption DEF Records, Typed
<1>2. \/ UNCHANGED faults
      \/ faults < MaxFaults /\ faults' = faults + 1
  <2>1. WorkStep => UNCHANGED faults
    BY WorkSteps DEF WorkGoesOn
  <2>2. ASSUME NEW x \in RunIds, StartRun(x) PROVE UNCHANGED faults
    BY <2>2 DEF StartRun
  <2>3. Ends => UNCHANGED faults
    BY DEF Ends, Finish, FinishFailed
  <2>4. Reports \/ Crash => UNCHANGED faults \/ (faults < MaxFaults /\ faults' = faults + 1)
    BY DEF Reports, MarkBaselineUnverified, MarkBaselineLost, Crash
  <2>5. CreateRun \/ RefuseRun \/ Plan \/ (\E x \in RunIds : CancelQueued(x)) => UNCHANGED faults
    BY BesideSteps
  <2> QED
    BY <2>1, <2>2, <2>3, <2>4, <2>5, NextCases
<1> QED
  BY <1>1, <1>2

LEMMA Stutters ==
  ASSUME BaselineInv, UNCHANGED vars
  PROVE  BaselineInv'
<1>1. Records /\ BaselineFits /\ ChangesFit /\ UNCHANGED <<runs, baseline, installed, receipts, actual, exec, prepared, faults>>
  BY DEF BaselineInv, Records, vars, hostVars
<1>2. RunsStay /\ RunIds' = RunIds /\ Cur' = Cur
  BY <1>1, Unchanging DEF RunIds, Cur
<1>3. RunsAreSound' /\ RecordsFit' /\ WorkFits'
  BY <1>1, <1>2, RunsSoundOn, RecordsStay, WorkUntouched DEF Records, RunsStay, hostVars
<1>4. Typed'
  BY <1>1, <1>2 DEF Records, Typed, RunsTyped, HostsTyped, BaselineTyped, ExecTyped, PreparedTyped
<1>5. ChangesFit'
  BY <1>1, <1>2 DEF ChangesFit, GenerationFits, Lifecycle, ExpectedGeneration, Root
<1>6. BaselineFits'
  BY <1>1, <1>2 DEF BaselineFits, Evidence, Attempts, Root, Advertised
<1> QED
  BY <1>3, <1>4, <1>5, <1>6 DEF BaselineInv

LEMMA InvStep ==
  ASSUME BaselineInv, [Next]_vars
  PROVE  BaselineInv'
<1>1. CASE Next
  <2>1. Records /\ BaselineFits /\ ChangesFit
    BY DEF BaselineInv, Records
  <2>2. RecordsOn' /\ BaselineTyped' /\ faults' \in 0..MaxFaults /\ BaselineFits' /\ ChangesFit'
    BY <1>1, <2>1, RecordsStep, BaselineStep, FaultsStep, BaselineFitsStep, ChangesFitStep
  <2> QED
    BY <2>2 DEF BaselineInv, RecordsOn, Typed
<1>2. CASE UNCHANGED vars
  BY <1>2, Stutters
<1> QED
  BY <1>1, <1>2

(* The records of runs, nodes and the baseline agree with one another and   *)
(* with the hosts: the inductive invariant behind the theorems.             *)
THEOREM BaselineInvariant == Spec => []BaselineInv
<1>1. Init => BaselineInv
  BY InitHolds
<1>2. BaselineInv /\ [Next]_vars => BaselineInv'
  BY InvStep
<1> QED
  BY <1>1, <1>2, PTL DEF Spec

---------------------------------------------------------------------------
(* What the invariant says to a reader of the code.                          *)

(* Types, and that exactly the run in execution is recorded as running, and *)
(* nothing but a run in execution (StartRun, finishRun,                     *)
(* MarkRunningInterrupted).                                                 *)
THEOREM BaselineTypes == Spec => []TypeOK
<1>1. ASSUME BaselineInv PROVE TypeOK
  <2>1. /\ baseline.gen \in Nat /\ baseline.rev \in Revisions \cup {NoRevision}
        /\ {baseline.run, baseline.mutating, baseline.verifier} \subseteq 0..Len(runs)
        /\ baseline.state \in {"none", "partial", "unverified", "complete", "test"}
    BY <1>1 DEF BaselineInv, Typed, BaselineTyped, BaselineRows
  <2>2. ASSUME NEW n \in Nodes
        PROVE  /\ ReleaseOf(installed[n]) \in Releases \cup {Absent}
               /\ actual[n] \in Releases \cup {Absent, Broken}
               /\ receipts[n].status \in {"none", "started", "main_succeeded", "verified"}
    <3>1. installed[n] \in Rows /\ receipts[n] \in ReceiptRows /\ actual[n] \in Releases \cup {Absent, Broken}
      BY <1>1 DEF BaselineInv, Typed, HostsTyped
    <3> QED
      BY <3>1, RowFacts DEF ReceiptRows
  <2>3. /\ faults \in 0..MaxFaults /\ Len(runs) <= MaxRuns
        /\ \A x \in RunIds : /\ runs[x].done \in 0..Len(runs[x].plan)
                             /\ runs[x].status = "running" <=> (exec.run = x /\ exec.pc # "report")
    BY <1>1 DEF BaselineInv, Typed, RunsTyped, ExecTyped
  <2> QED
    BY <2>1, <2>2, <2>3 DEF TypeOK
<1> QED
  BY <1>1, BaselineInvariant, PTL

LEMMA VerifiedRow ==
  ASSUME Records
  PROVE  VerifiedRowIsReal
<1> SUFFICES ASSUME NEW n \in Nodes, n \notin Pending
             PROVE  actual[n] = ReleaseOf(installed[n])
  BY DEF VerifiedRowIsReal
<1>1. ReceiptFits(n)
  BY DEF Records, RecordsFit
<1>2. CASE receipts[n].status = "none"
  BY <1>1, <1>2 DEF ReceiptFits, ReleaseOf
<1>3. CASE receipts[n].status # "none"
  <2>1. receipts[n].status = "verified"
    BY <1>3 DEF Pending
  <2>2. PICK r : r = runs[receipts[n].run]
    OBVIOUS
  <2>3. /\ receipts[n].run \in RunIds /\ r.backups[n] # <<>>
        /\ installed[n] = RowOf(r, n) /\ actual[n] = Effect(r, n)
    BY <1>1, <2>1, <2>2 DEF ReceiptFits
  <2>4. r \in RunRecords /\ BackupsFit(r)
    BY <2>2, <2>3, RunIn DEF Records, Typed, RunsAreSound, KnownAs, Sound
  <2> QED
    BY <2>3, <2>4, EffectFacts
<1> QED
  BY <1>2, <1>3

(* Where no operation is pending, the installation row tells what the host  *)
(* really holds, whoever changed it last: scenario runs, tests, resets,     *)
(* rollbacks, retries and crashed runs (recordSuccessfulLifecycleStep).     *)
THEOREM BaselineRowsAreReal == Spec => []VerifiedRowIsReal
<1>1. BaselineInv => VerifiedRowIsReal
  BY VerifiedRow DEF BaselineInv, Records
<1> QED
  BY <1>1, BaselineInvariant, PTL

(* The baseline names a succeeded installation or upgrade with evidence for *)
(* every stage of its chain (finishScenarioLifecycleTx).                    *)
THEOREM BaselineIsEvident == Spec => []BaselineHasEvidence
<1>1. BaselineInv => BaselineHasEvidence
  BY DEF BaselineInv, BaselineFits, BaselineHasEvidence
<1> QED
  BY <1>1, BaselineInvariant, PTL

LEMMA PartialStep ==
  ASSUME BaselineInv, [Next]_vars, baseline.mutating # 0, baseline'.mutating \notin {0, baseline.mutating}
  PROVE  \/ Root(baseline'.mutating) = Root(baseline.mutating)
         \/ runs[baseline'.mutating].mode = "verify"
<1>1. Next /\ Records /\ BaselineFits /\ ChangesFit /\ baseline \in BaselineRows
  BY DEF BaselineInv, Records, Typed, BaselineTyped, vars
<1>2. CASE UNCHANGED baseline
  BY <1>2
<1>3. CASE Marks
  <2>1. /\ exec.run \in RunIds /\ exec.run \in Nat /\ exec # NoExec /\ exec.pc \in Working /\ Lifecycle(Cur)
        /\ baseline' = Marked(baseline, exec.run, Cur.kind)
    BY <1>1, <1>3, CurFacts, RunIn DEF Marks, Records, Typed, Working
  <2>2. baseline'.mutating = exec.run
    BY <1>1, <2>1, MarkedFields
  <2>3. IF Cur.attempt = 0 THEN Cur.mode = "verify" ELSE Root(baseline.mutating) = Cur.root
    BY <1>1, <2>1, <2>2 DEF ChangesFit, GenerationFits
  <2> QED
    BY <2>2, <2>3 DEF Root, Cur
<1>4. CASE Withdraws
  BY <1>1, <1>4, WithdrawnFields DEF Withdraws
<1>5. CASE Clears
  BY <1>5 DEF Clears, NoBaseline
<1>6. CASE Installs
  <2>1. exec.run \in RunIds /\ Lifecycle(runs[exec.run]) /\ BackupsFit(runs[exec.run])
    <3>1. exec.pc # "idle" /\ Lifecycle(Cur)
      BY <1>6 DEF Installs, Finish
    <3> QED
      BY <1>1, <3>1, CurFacts DEF Records, Cur, Sound
  <2> QED
    BY <1>1, <1>6, <2>1, BaselineOfTyped DEF Installs, Records
<1> QED
  BY <1>1, <1>2, <1>3, <1>4, <1>5, <1>6, BaselineMoves

(* A half-changed environment is changed on only by the chain of attempts   *)
(* that has begun, by a verification, or by what restores it                *)
(* (validateScenarioExecutionBaselineTx, MarkScenarioMutation).             *)
THEOREM PartialChains == Spec => PartialStaysInChain
<1>1. BaselineInv /\ [Next]_vars =>
        [baseline.mutating # 0 /\ baseline'.mutating \notin {0, baseline.mutating} =>
           \/ Root(baseline'.mutating) = Root(baseline.mutating)
           \/ runs[baseline'.mutating].mode = "verify"]_vars
  BY PartialStep
<1> QED
  BY <1>1, BaselineInvariant, PTL DEF Spec, PartialStaysInChain

LEMMA ResetStep ==
  ASSUME BaselineInv, [Next]_vars, NEW x \in RunIds, runs[x].kind = "reset",
         runs'[x].status # runs[x].status, runs'[x].status = "succeeded", NEW n \in Nodes
  PROVE  actual[n] = Absent
<1>1. Next /\ Records /\ RunsTyped /\ runs[x] \in RunRecords
  BY RunIn DEF BaselineInv, Records, Typed, vars
<1>2. CASE CreateRun \/ RefuseRun \/ Plan
  <2>1. runs'[x] = runs[x]
    BY <1>1, <1>2, Created, PlanRecords DEF RefuseRun, Records
  <2> QED
    BY <2>1
<1>3. ASSUME NEW y \in RunIds, NEW status \in {"cancelled", "running"}, runs' = [runs EXCEPT ![y].status = status]
      PROVE  FALSE
  <2>1. status \in Statuses \ {"queued"}
    BY DEF Statuses
  <2>2. runs'[x].status = IF x = y THEN status ELSE runs[x].status
    BY <1>1, <1>3, <2>1, StatusChanges
  <2> QED
    BY <2>2
<1>4. ~(\E y \in RunIds : CancelQueued(y)) /\ ~(\E y \in RunIds : StartRun(y))
  BY <1>3 DEF CancelQueued, StartRun
<1>5. ~WorkStep
  BY <1>1, WorkSteps DEF StatusesStay
<1>6. ~Reports
  BY DEF Reports, MarkBaselineUnverified, MarkBaselineLost
<1>7. ~Crash
  <2>1. SUFFICES ASSUME Crash PROVE FALSE
    OBVIOUS
  <2>2. runs'[x] = IF runs[x].status = "running" THEN [runs[x] EXCEPT !.status = "interrupted"] ELSE runs[x]
    BY <2>1 DEF Crash
  <2>3. "interrupted" \in Statuses
    BY DEF Statuses
  <2>4. CASE runs[x].status = "running"
    BY <1>1, <2>2, <2>3, <2>4, StatusSet
  <2>5. CASE runs[x].status # "running"
    BY <2>2, <2>5
  <2> QED
    BY <2>4, <2>5
<1>8. CASE Ends
  <2>1. x = exec.run
    BY <1>1, <1>8, EndSteps
  <2>2. CASE \E status \in {"failed", "cancelled"} : FinishFailed(status)
    <3>1. PICK status \in {"failed", "cancelled"} : runs' = [runs EXCEPT ![x].status = status]
      BY <2>1, <2>2 DEF FinishFailed
    <3>2. status \in Statuses \ {"queued"}
      BY DEF Statuses
    <3>3. runs'[x].status = status
      BY <1>1, <3>1, <3>2, StatusChanges
    <3> QED
      BY <3>3
  <2>3. CASE FinishHolds(exec.run)
    <3>1. RecoveryBaselines = NothingInstalled
      BY <2>1, <2>3 DEF FinishHolds
    <3>2. (IF n \in Pending THEN receipts[n].backup ELSE installed[n]) = <<>>
      BY <3>1 DEF RecoveryBaselines, NothingInstalled
    <3>3. n \in Pending => receipts[n].backup # <<>>
      BY <1>1 DEF Records, RecordsFit, ReceiptFits, Pending
    <3>4. n \notin Pending /\ installed[n] = <<>>
      BY <3>2, <3>3
    <3> QED
      BY <1>1, <3>4, VerifiedRow DEF VerifiedRowIsReal, ReleaseOf
  <2> QED
    BY <1>8, <2>2, <2>3 DEF Ends
<1> QED
  BY <1>1, <1>2, <1>4, <1>5, <1>6, <1>7, <1>8, NextCases

(* A reset that succeeds leaves nothing on any host                         *)
(* (validateEnvironmentReset, against whatever happened before it).         *)
THEOREM ResetIsComplete == Spec => ResetLeavesNothing
<1>1. BaselineInv /\ [Next]_vars =>
        [\A x \in RunIds : runs[x].kind = "reset" /\ runs'[x].status # runs[x].status
           /\ runs'[x].status = "succeeded" => \A n \in Nodes : actual[n] = Absent]_vars
  BY ResetStep
<1> QED
  BY <1>1, BaselineInvariant, PTL DEF Spec, ResetLeavesNothing

---------------------------------------------------------------------------
(* Plans and chains: what makes an advertised baseline true.  Of a node     *)
(* with a pending operation the invariant so far says only what its receipt *)
(* says of its row.  What follows adds how plans end, the order of          *)
(* the attempts of a chain, what the latest of them has still to check,     *)
(* what the run in execution has found out, and whose work it is when a     *)
(* host differs from its row.                                               *)

Settled(r, n) ==
  \E i \in 1..Len(r.plan) :
    Settles(r, i, n) /\ \A j \in 1..i : r.plan[j].stage # "acceptance"
PlanEnds(r) ==
  /\ \A n \in Present(r.rev) : Settled(r, n)
  /\ \A n \in Nodes : \A j \in 1..Len(r.plan) : Executes(r, j, n) =>
       \E i \in (j + 1)..Len(r.plan) : Posts(r, i, n)
VerifyFits(r) ==
  r.mode = "verify" =>
    \A n \in Nodes : r.backups[n] = <<>> /\ ReleaseOf(r.digest[n]) = Target[r.rev][n]
EndsWell(r) == Lifecycle(r) => PlanEnds(r) /\ VerifyFits(r)
PlansEnd ==
  /\ \A x \in RunIds : EndsWell(runs[x])
  /\ prepared # None => EndsWell(prepared)

(* Of a chain only the latest attempt is not over. *)
Ended(x) == runs[x].status \notin {"queued", "running"}
ChainsInOrder ==
  /\ \A x, y \in RunIds : Root(x) = Root(y) /\ x # y =>
       /\ runs[x].attempt # runs[y].attempt
       /\ runs[x].attempt < runs[y].attempt => Ended(x)
  /\ prepared # None => \A x \in RunIds : Root(x) = prepared.root =>
       Ended(x) /\ runs[x].attempt < prepared.attempt

(* What a chain has left pending on a node, its latest attempt still checks. *)
PendingOf(n, root) == n \in Pending /\ Root(receipts[n].run) = root
Latest(x) == \A y \in RunIds : Root(y) = Root(x) => runs[y].attempt <= runs[x].attempt
PostLeft(r, n) == \E i \in (r.done + 1)..Len(r.plan) : Posts(r, i, n)
PostsLeft ==
  \A n \in Nodes :
    /\ \A x \in RunIds : Lifecycle(runs[x]) /\ Latest(x) /\ PendingOf(n, Root(x)) => PostLeft(runs[x], n)
    /\ prepared # None /\ Lifecycle(prepared) /\ PendingOf(n, prepared.root) => PostLeft(prepared, n)

(* What the run in execution has found out. *)
ChecksFit ==
  /\ exec.pc \in {"marked", "acting"} => baseline.mutating = exec.run
  /\ exec.pc = "ended" /\ CurStep.stage = "post" => receipts[CurStep.node].status = "verified"
  /\ exec.pc \in Working =>
       /\ \A n \in Nodes : \A i \in 1..Cur.done : Settles(Cur, i, n) => actual[n] = Target[Cur.rev][n]
       /\ Cur.mode = "verify" /\ Cur.attempt = 0 => Pending \subseteq Present(Cur.rev)
WorkIsChecked == exec # NoExec /\ Lifecycle(Cur) => ChecksFit

(* A host that differs from its row is being changed by the chain that is   *)
(* marked, or was left by a reset or a rollback.                            *)
Elsewhere(n) == receipts[n].status # "none" /\ ~Lifecycle(runs[receipts[n].run])
Accounted(n) ==
  \/ actual[n] = ReleaseOf(installed[n])
  \/ Elsewhere(n)
  \/ baseline.mutating # 0 /\ receipts[n].status # "none" /\ Root(receipts[n].run) = Root(baseline.mutating)
InBetween == \A n \in Nodes : Accounted(n)

RealParts == PlansEnd /\ ChainsInOrder /\ PostsLeft /\ WorkIsChecked /\ InBetween

\* What is over stays over.
LEMMA EndedStays ==
  ASSUME Records, Next, NEW x \in RunIds, Ended(x)
  PROVE  Ended(x)'
<1>1. RunsTyped
  BY DEF Records, Typed
<1>2. CASE CreateRun \/ RefuseRun \/ Plan
  <2>1. runs'[x] = runs[x]
    BY <1>2, Created, PlanRecords DEF RefuseRun, Records
  <2> QED
    BY <2>1 DEF Ended
<1>3. ASSUME NEW y \in RunIds, NEW status \in Statuses \ {"queued"}, runs' = [runs EXCEPT ![y].status = status],
             status # "running" \/ runs[y].status = "queued"
      PROVE  Ended(x)'
  <2>1. y \in RunIds /\ status \in Statuses \ {"queued"} /\ runs' = [runs EXCEPT ![y].status = status]
    BY <1>3
  <2>2. \A z \in RunIds : runs'[z].status = IF z = y THEN status ELSE runs[z].status
    BY <1>1, <2>1, StatusChanges
  <2>3. runs'[x].status = IF x = y THEN status ELSE runs[x].status
    BY <2>2
  <2> QED
    BY <1>3, <2>3 DEF Ended
<1>4. {"cancelled", "running", "succeeded", "failed"} \subseteq Statuses \ {"queued"}
  BY DEF Statuses
<1>5. ASSUME NEW y \in RunIds, CancelQueued(y) \/ StartRun(y) PROVE Ended(x)'
  BY <1>3, <1>4, <1>5 DEF CancelQueued, StartRun, Queued
<1>6. CASE WorkStep
  BY <1>6, WorkSteps DEF StatusesStay, Ended
<1>7. CASE Ends
  <2>1. exec.run \in RunIds
    BY <1>7, EndSteps
  <2>2. \/ runs' = [runs EXCEPT ![exec.run].status = "succeeded"]
        \/ \E status \in {"failed", "cancelled"} : runs' = [runs EXCEPT ![exec.run].status = status]
    BY <1>7 DEF Ends, Finish, FinishFailed
  <2> QED
    BY <1>3, <1>4, <2>1, <2>2
<1>8. CASE Reports
  BY <1>8 DEF Reports, MarkBaselineUnverified, MarkBaselineLost, Ended
<1>9. CASE Crash
  <2>1. runs'[x] = runs[x]
    BY <1>9 DEF Crash, Ended
  <2> QED
    BY <2>1 DEF Ended
<1> QED
  BY <1>2, <1>5, <1>6, <1>7, <1>8, <1>9, NextCases

\* What is prepared is created, thrown away or left alone.
LEMMA PreparedMoves ==
  ASSUME Records, Next
  PROVE  Plan \/ CreateRun \/ prepared' = None \/ prepared' = prepared
<1>1. WorkStep => prepared' = prepared
  BY WorkSteps DEF WorkGoesOn
<1>2. ASSUME NEW x \in RunIds, CancelQueued(x) \/ StartRun(x) PROVE prepared' = prepared
  BY <1>2 DEF CancelQueued, StartRun
<1>3. Ends => prepared' = prepared
  BY DEF Ends, Finish, FinishFailed
<1>4. RefuseRun \/ Reports \/ Crash => prepared' = None \/ prepared' = prepared
  BY DEF RefuseRun, Reports, MarkBaselineUnverified, MarkBaselineLost, Crash
<1> QED
  BY <1>1, <1>2, <1>3, <1>4, NextCases

---------------------------------------------------------------------------
(* What a prepared run is.                                                   *)

LEMMA ScenarioPrepared ==
  ASSUME NEW rev, NEW kind, NEW mode, PrepareScenario(rev, kind, mode)
  PROVE  /\ prepared'.kind = kind /\ prepared'.mode = mode /\ prepared'.rev = rev
         /\ prepared'.plan = ScenarioPlan(rev, mode) /\ prepared'.backups = Capture(rev, mode)
         /\ prepared'.root = NextRun /\ prepared'.digest = installed
         /\ UNCHANGED <<runs, baseline, hostVars, exec, faults>>
<1>1. PICK plan : plan = ScenarioPlan(rev, mode)
  OBVIOUS
<1>2. PICK rows : rows = Capture(rev, mode)
  OBVIOUS
<1>3. PICK b : b = NewRun(kind, mode, rev, plan, rows)
  OBVIOUS
<1>4. PICK pending : pending = IF mode = "verify" THEN PendingReceipts ELSE b.pending
  OBVIOUS
<1>5. PICK n : n = [b EXCEPT !.gen = baseline.gen, !.base = baseline.run, !.digest = installed,
                             !.pending = pending]
  OBVIOUS
<1>6. Planned(n)
  BY <1>1, <1>2, <1>3, <1>4, <1>5 DEF PrepareScenario
<1>7. n = PreviewedRun(kind, mode, rev, plan, rows, baseline.gen, baseline.run, installed, pending)
  BY <1>3, <1>5, PreviewedFields
<1> QED
  BY <1>1, <1>2, <1>6, <1>7 DEF Planned, PreviewedRun

LEMMA RetryPrepared ==
  ASSUME Records, NEW x \in RunIds, PrepareRetry(x)
  PROVE  /\ Subject(prepared') = Subject(runs[x])
         /\ prepared'.plan = Continuation(runs[x], runs[x].done + 1) /\ prepared'.done = 0
         /\ prepared'.attempt = runs[x].attempt + 1
         /\ UNCHANGED <<runs, baseline, hostVars, exec, faults>>
<1>1. PICK r : r = runs[x]
  OBVIOUS
<1>2. PICK plan : plan = Continuation(r, r.done + 1)
  OBVIOUS
<1>3. PICK state : state = <<receipts, installed>>
  OBVIOUS
<1>4. PICK gen : gen = IF Lifecycle(r) THEN baseline.gen ELSE 0
  OBVIOUS
<1>5. PICK mutating : mutating = IF Lifecycle(r) THEN baseline.mutating ELSE 0
  OBVIOUS
<1>6. PICK n : n = [r EXCEPT !.status = "queued", !.plan = plan, !.done = 0, !.attempt = @ + 1,
                             !.retryState = state, !.retryGen = gen, !.retryMutating = mutating]
  OBVIOUS
<1>7. Planned(n)
  BY <1>1, <1>2, <1>3, <1>4, <1>5, <1>6 DEF PrepareRetry
<1>8. r \in RunRecords
  BY <1>1, RunIn DEF Records, Typed
<1>9. n = [kind |-> r.kind, mode |-> r.mode, rev |-> r.rev, status |-> "queued", plan |-> plan,
           done |-> 0, backups |-> r.backups, gen |-> r.gen, base |-> r.base, digest |-> r.digest,
           pending |-> r.pending, root |-> r.root, attempt |-> r.attempt + 1, retryGen |-> gen,
           retryMutating |-> mutating, retryState |-> state]
  BY <1>6, <1>8 DEF RunRecords
<1>10. Subject(n) = Subject(r) /\ n.plan = plan /\ n.done = 0 /\ n.attempt = r.attempt + 1
  BY <1>9 DEF Subject
<1> QED
  BY <1>1, <1>2, <1>7, <1>10 DEF Planned

\* What is prepared is no scenario run, the first attempt of a scenario run, or
\* continues a run that has stopped.
LEMMA PlanCases ==
  ASSUME Records, Plan
  PROVE  /\ UNCHANGED <<runs, baseline, hostVars, exec, faults>>
         /\ \/ prepared'.root = NextRun /\ ~Lifecycle(prepared')
            \/ /\ prepared'.root = NextRun
               /\ \E rev \in Revisions, kind \in {"scenario", "test"}, mode \in LifecycleModes :
                    PrepareScenario(rev, kind, mode)
            \/ \E x \in RunIds : PrepareRetry(x)
<1>1. UNCHANGED <<runs, baseline, hostVars, exec, faults>>
  BY PlanRecords
<1>2. ASSUME NEW rev \in Revisions, NEW kind \in {"scenario", "test"}, NEW mode \in LifecycleModes,
             PrepareScenario(rev, kind, mode)
      PROVE  prepared'.root = NextRun
  BY <1>2, ScenarioPrepared
<1>3. ASSUME NEW kind \in {"reset", "rollback"}, NEW plan, NEW backups,
             Planned(NewRun(kind, "none", NoRevision, plan, backups))
      PROVE  prepared'.root = NextRun /\ ~Lifecycle(prepared')
  BY <1>3 DEF Planned, NewRun, Lifecycle
<1>4. ASSUME PrepareReset PROVE prepared'.root = NextRun /\ ~Lifecycle(prepared')
  <2>1. PICK rows : rows = RecoveryBaselines
    OBVIOUS
  <2>2. PICK plan : plan = Changes(Reverse(SelectNodes({n \in Nodes : rows[n] # <<>>})))
    OBVIOUS
  <2>3. Planned(NewRun("reset", "none", NoRevision, plan, rows))
    BY <1>4, <2>1, <2>2 DEF PrepareReset
  <2> QED
    BY <1>3, <2>3
<1>5. ASSUME NEW n \in Nodes, PrepareRollback(n) PROVE prepared'.root = NextRun /\ ~Lifecycle(prepared')
  BY <1>3, <1>5 DEF PrepareRollback
<1> QED
  BY <1>1, <1>2, <1>4, <1>5 DEF Plan, LifecycleModes

---------------------------------------------------------------------------
(* How a scenario plan ends.                                                 *)

\* Every chosen node is listed, and once.
LEMMA SelectedOnce ==
  ASSUME NEW S \in SUBSET Nodes, NEW s, s = SelectNodes(S)
  PROVE  /\ s \in Seq(S) /\ Len(s) \in Nat
         /\ \A x \in S : \E k \in 1..Len(s) : s[k] = x
         /\ \A j, k \in 1..Len(s) : s[j] = s[k] => j = k
<1>1. IsFiniteSet(S)
  BY FS_Subset, OrderAssumption
<1>2. ASSUME NEW n \in Nodes PROVE Place[n] \in 1..Len(Order) /\ Order[Place[n]] = n
  BY OrderAssumption DEF Place
<1>3. Len(Order) \in Nat
  BY LenProperties, OrderAssumption
<1> HIDE DEF Place
<1>4. \A x \in S : Place[x] \in Nat
  BY <1>2, <1>3
<1>5. \A x, y \in S : Place[x] = Place[y] => x = y
  BY <1>2
<1>6. s = InPlaceOrder(S, Place)
  BY DEF SelectNodes
<1> QED
  BY <1>1, <1>4, <1>5, <1>6, Ranked

\* No acceptance, and every change with its post-check.
Finished(plan, j) ==
  plan[j].stage = "execute" =>
    \E i \in (j + 1)..Len(plan) :
      plan[i].stage = "post" /\ plan[i].node = plan[j].node /\ ~plan[i].again
ChangesEnd(plan) == \A j \in 1..Len(plan) : plan[j].stage # "acceptance" /\ Finished(plan, j)

LEMMA ChecksEnd ==
  ASSUME NEW stage \in {"source", "target"}, NEW S \in SUBSET Nodes, NEW c, c = Checks(stage, S)
  PROVE  /\ c \in Seq(Steps) /\ Len(c) \in Nat /\ ChangesEnd(c)
         /\ \A i \in 1..Len(c) : c[i].stage = stage
         /\ \A n \in S : \E k \in 1..Len(c) : c[k].node = n
         /\ \A j, k \in 1..Len(c) : c[j].node = c[k].node => j = k
<1>1. PICK s : s = SelectNodes(S)
  OBVIOUS
<1>2. /\ s \in Seq(S) /\ Len(s) \in Nat
      /\ \A x \in S : \E k \in 1..Len(s) : s[k] = x
      /\ \A j, k \in 1..Len(s) : s[j] = s[k] => j = k
  BY <1>1, SelectedOnce
<1>3. c = [i \in 1..Len(s) |-> Step(stage, s[i])]
  BY <1>1 DEF Checks
<1>4. c \in Seq(Steps)
  BY CheckSteps
<1>5. s \in [1..Len(s) -> S]
  BY <1>2, LenProperties
<1>6. c \in [1..Len(s) -> Steps] /\ \A i \in 1..Len(s) : c[i].stage = stage /\ c[i].node = s[i]
  BY <1>3, <1>5 DEF Step, Steps
<1>7. Len(c) = Len(s)
  BY <1>2, <1>6, FunctionIsSeq
<1>8. ChangesEnd(c)
  BY <1>6, <1>7 DEF ChangesEnd, Finished
<1>9. \A n \in S : \E k \in 1..Len(c) : c[k].node = n
  BY <1>2, <1>6, <1>7
<1>10. \A j, k \in 1..Len(c) : c[j].node = c[k].node => j = k
  BY <1>2, <1>6, <1>7
<1> QED
  BY <1>2, <1>4, <1>6, <1>7, <1>8, <1>9, <1>10

LEMMA ChangesHaveEnd ==
  ASSUME NEW S \in SUBSET Nodes, NEW ordered \in Seq(S), NEW c, c = Changes(ordered)
  PROVE  ChangesEnd(c)
<1>1. PICK N : N = Len(ordered)
  OBVIOUS
<1>2. N \in Nat /\ 2 * N \in Nat /\ ordered \in [1..N -> S]
  BY <1>1, LenProperties
<1>3. \A i \in 1..(2 * N) : (i + 1) \div 2 \in 1..N
  BY <1>2
<1>4. c = [i \in 1..(2 * N) |-> Step(IF i % 2 = 1 THEN "execute" ELSE "post", ordered[(i + 1) \div 2])]
  BY <1>1 DEF Changes
<1>5. ASSUME NEW i \in 1..(2 * N)
      PROVE  /\ c[i] \in Steps /\ ~c[i].again /\ c[i].node = ordered[(i + 1) \div 2]
             /\ c[i].stage = IF i % 2 = 1 THEN "execute" ELSE "post"
  <2>1. ordered[(i + 1) \div 2] \in S
    BY <1>2, <1>3
  <2>2. c[i] = Step(IF i % 2 = 1 THEN "execute" ELSE "post", ordered[(i + 1) \div 2])
    BY <1>4
  <2> QED
    BY <2>1, <2>2 DEF Step, Steps
<1>6. c \in [1..(2 * N) -> Steps]
  BY <1>4, <1>5
<1>7. Len(c) = 2 * N
  BY <1>2, <1>6, FunctionIsSeq
<1>8. ASSUME NEW j \in 1..(2 * N), c[j].stage = "execute"
      PROVE  \E i \in (j + 1)..(2 * N) : c[i].stage = "post" /\ c[i].node = c[j].node /\ ~c[i].again
  <2>1. j \in Int /\ j % 2 = 1 /\ j >= 1 /\ j <= 2 * N
    BY <1>2, <1>5, <1>8
  <2>2. j + 1 \in (j + 1)..(2 * N) /\ j + 1 \in 1..(2 * N) /\ (j + 1) % 2 # 1
    BY <1>2, <2>1
  <2>3. ((j + 1) + 1) \div 2 = (j + 1) \div 2
    BY <2>1
  <2> QED
    BY <1>5, <2>2, <2>3
<1>9. \A j \in 1..(2 * N) : c[j].stage # "acceptance"
  BY <1>5
<1> QED
  BY <1>7, <1>8, <1>9 DEF ChangesEnd, Finished

LEMMA EndsConcat ==
  ASSUME NEW p \in Seq(Steps), NEW q \in Seq(Steps), ChangesEnd(p), ChangesEnd(q), NEW c, c = p \o q
  PROVE  c \in Seq(Steps) /\ ChangesEnd(c)
<1>1. /\ c \in Seq(Steps) /\ Len(c) = Len(p) + Len(q) /\ Len(p) \in Nat /\ Len(q) \in Nat
      /\ \A i \in 1..(Len(p) + Len(q)) : c[i] = IF i <= Len(p) THEN p[i] ELSE q[i - Len(p)]
  BY ConcatProperties, LenProperties
<1>2. ASSUME NEW j \in 1..Len(c) PROVE c[j].stage # "acceptance" /\ Finished(c, j)
  <2>1. CASE j <= Len(p)
    <3>1. c[j] = p[j] /\ j \in 1..Len(p) /\ p[j].stage # "acceptance" /\ Finished(p, j)
      BY <1>1, <2>1 DEF ChangesEnd
    <3>2. ASSUME NEW i \in (j + 1)..Len(p) PROVE i \in (j + 1)..Len(c) /\ c[i] = p[i]
      BY <1>1, <2>1
    <3> QED
      BY <3>1, <3>2 DEF Finished
  <2>2. CASE ~(j <= Len(p))
    <3>1. PICK k : k = j - Len(p)
      OBVIOUS
    <3>2. c[j] = q[k] /\ k \in 1..Len(q)
      BY <1>1, <2>2, <3>1
    <3>3. q[k].stage # "acceptance" /\ Finished(q, k)
      BY <3>2 DEF ChangesEnd
    <3>4. ASSUME NEW i \in (k + 1)..Len(q) PROVE i + Len(p) \in (j + 1)..Len(c) /\ c[i + Len(p)] = q[i]
      <4>1. i + Len(p) \in 1..(Len(p) + Len(q)) /\ ~(i + Len(p) <= Len(p)) /\ (i + Len(p)) - Len(p) = i
        BY <1>1, <3>1, <3>2
      <4> QED
        BY <1>1, <3>1, <3>2, <4>1
    <3> QED
      BY <3>2, <3>3, <3>4 DEF Finished
  <2> QED
    BY <2>1, <2>2
<1> QED
  BY <1>1, <1>2 DEF ChangesEnd

\* What comes before the final steps of a plan.
LEMMA Beginning ==
  ASSUME NEW rev \in Revisions, NEW mode \in LifecycleModes, mode = "upgrade" => Source[rev] \in Revisions
  PROVE  \E p \in Seq(Steps) : ChangesEnd(p) /\ ScenarioPlan(rev, mode) = p \o FinalSteps(rev)
<1>1. Present(rev) \in SUBSET Nodes /\ Changed(rev) \in SUBSET Nodes /\ Present(Source[rev]) \in SUBSET Nodes
  BY DEF Present, Changed
<1>2. FinalSteps(rev) \in Seq(Steps)
  BY FinalPlan
<1>3. ASSUME NEW S \in SUBSET Nodes
      PROVE  Changes(SelectNodes(S)) \in Seq(Steps) /\ ChangesEnd(Changes(SelectNodes(S)))
  BY Selected, ChangeSteps, ChangesHaveEnd
<1>4. CASE mode = "install"
  BY <1>1, <1>3, <1>4 DEF ScenarioPlan
<1>5. CASE mode = "verify"
  <2>1. <<>> \in Seq(Steps) /\ ChangesEnd(<<>>) /\ FinalSteps(rev) = <<>> \o FinalSteps(rev)
    BY <1>2 DEF ChangesEnd
  <2> QED
    BY <1>5, <2>1 DEF ScenarioPlan
<1>6. CASE mode = "upgrade"
  <2>1. PICK p : p = Checks("source", Present(Source[rev]))
    OBVIOUS
  <2>2. PICK q : q = Changes(SelectNodes(Changed(rev)))
    OBVIOUS
  <2>3. p \in Seq(Steps) /\ ChangesEnd(p)
    BY <1>1, <2>1, ChecksEnd
  <2>4. q \in Seq(Steps) /\ ChangesEnd(q)
    BY <1>1, <1>3, <2>2
  <2>5. ScenarioPlan(rev, mode) = (p \o q) \o FinalSteps(rev)
    BY <1>6, <2>1, <2>2 DEF ScenarioPlan
  <2> QED
    BY <2>3, <2>4, <2>5, EndsConcat
<1> QED
  BY <1>4, <1>5, <1>6 DEF LifecycleModes

LEMMA ScenarioEnds ==
  ASSUME NEW r, NEW mode \in LifecycleModes, r.rev \in Revisions,
         mode = "upgrade" => Source[r.rev] \in Revisions, r.plan = ScenarioPlan(r.rev, mode)
  PROVE  PlanEnds(r)
<1>1. PICK plan : plan = r.plan
  OBVIOUS
<1>2. PICK p \in Seq(Steps) : ChangesEnd(p) /\ plan = p \o FinalSteps(r.rev)
  BY <1>1, Beginning
<1>3. PICK P : P = Present(r.rev)
  OBVIOUS
<1>4. P \in SUBSET Nodes
  BY <1>3 DEF Present
<1>5. PICK c : c = Checks("target", P)
  OBVIOUS
<1>6. /\ c \in Seq(Steps) /\ Len(c) \in Nat /\ ChangesEnd(c)
      /\ \A i \in 1..Len(c) : c[i].stage = "target"
      /\ \A n \in P : \E k \in 1..Len(c) : c[k].node = n
      /\ \A j, k \in 1..Len(c) : c[j].node = c[k].node => j = k
  BY <1>4, <1>5, ChecksEnd
<1>7. PICK last : last = Step("acceptance", NoNode)
  OBVIOUS
<1>8. last \in Steps /\ last.stage = "acceptance" /\ last.node = NoNode
  BY <1>7 DEF Step, Steps
<1>9. PICK q : q = p \o c
  OBVIOUS
<1>10. q \in Seq(Steps) /\ ChangesEnd(q)
  BY <1>2, <1>6, <1>9, EndsConcat
<1>11. /\ Len(q) = Len(p) + Len(c) /\ Len(p) \in Nat /\ Len(q) \in Nat
       /\ \A i \in 1..Len(c) : q[Len(p) + i] = c[i]
  <2>1. /\ Len(q) = Len(p) + Len(c) /\ Len(p) \in Nat
        /\ \A i \in 1..(Len(p) + Len(c)) : q[i] = IF i <= Len(p) THEN p[i] ELSE c[i - Len(p)]
    BY <1>2, <1>6, <1>9, ConcatProperties, LenProperties
  <2>2. ASSUME NEW i \in 1..Len(c) PROVE q[Len(p) + i] = c[i]
    <3>1. Len(p) + i \in 1..(Len(p) + Len(c)) /\ ~(Len(p) + i <= Len(p)) /\ (Len(p) + i) - Len(p) = i
      BY <1>6, <2>1
    <3> QED
      BY <2>1, <3>1
  <2> QED
    BY <1>6, <2>1, <2>2
<1>12. plan = Append(q, last)
  <2>1. FinalSteps(r.rev) = Append(c, last)
    BY <1>3, <1>5, <1>7 DEF FinalSteps
  <2> QED
    BY <1>2, <1>6, <1>8, <1>9, <2>1
<1>13. /\ Len(plan) = Len(q) + 1
       /\ \A i \in 1..Len(q) : plan[i] = q[i]
       /\ plan[Len(q) + 1] = last
  BY <1>8, <1>10, <1>12, AppendProperties
<1>14. ASSUME NEW n \in Present(r.rev) PROVE Settled(r, n)
  <2>1. PICK k \in 1..Len(c) : c[k].node = n
    BY <1>3, <1>6
  <2>2. PICK i : i = Len(p) + k
    OBVIOUS
  <2>3. i \in 1..Len(q) /\ i \in 1..Len(plan) /\ plan[i].stage = "target" /\ plan[i].node = n
    BY <1>6, <1>11, <1>13, <2>1, <2>2
  <2>4. ASSUME NEW j \in (i + 1)..Len(plan) PROVE plan[j].node # n
    <3>1. CASE j = Len(q) + 1
      BY <1>3, <1>4, <1>8, <1>13, <3>1, OrderAssumption
    <3>2. CASE j # Len(q) + 1
      <4>1. PICK l : l = j - Len(p)
        OBVIOUS
      <4>2. l \in 1..Len(c) /\ l # k /\ j \in 1..Len(q) /\ j = Len(p) + l
        <5>1. Len(c) \in Nat /\ Len(p) \in Nat /\ Len(q) = Len(p) + Len(c) /\ Len(plan) = Len(q) + 1
          BY <1>6, <1>11, <1>13
        <5>2. i \in Nat /\ 1 <= i /\ Len(plan) \in Nat /\ Len(q) \in Nat
          BY <2>3, <5>1
        <5>3. j \in Nat /\ i < j /\ j <= Len(q) /\ 1 <= j
          BY <2>4, <3>2, <5>1, <5>2, SMTT(30)
        <5>4. k \in Nat /\ 1 <= k /\ l \in Int /\ l > k /\ l <= Len(c) /\ j = Len(p) + l
          BY <2>1, <2>2, <4>1, <5>1, <5>3, SMTT(30)
        <5> QED
          BY <5>1, <5>3, <5>4, SMTT(30)
      <4>3. plan[j] = c[l]
        BY <1>11, <1>13, <4>2
      <4> QED
        BY <1>6, <2>1, <4>2, <4>3
    <3> QED
      BY <3>1, <3>2
  <2>5. \A j \in 1..i : plan[j].stage # "acceptance"
    BY <1>10, <1>11, <1>13, <2>3 DEF ChangesEnd
  <2>6. Settles(r, i, n)
    BY <1>1, <2>3, <2>4 DEF Settles
  <2> QED
    BY <1>1, <2>3, <2>5, <2>6 DEF Settled
<1>15. ASSUME NEW n \in Nodes, NEW j \in 1..Len(plan), Executes(r, j, n)
       PROVE  \E i \in (j + 1)..Len(plan) : Posts(r, i, n)
  <2>1. plan[j].stage = "execute" /\ plan[j].node = n
    BY <1>1, <1>15 DEF Executes
  <2>2. j \in 1..Len(q)
    BY <1>8, <1>11, <1>13, <2>1
  <2>3. Finished(q, j) /\ q[j] = plan[j]
    BY <1>10, <1>13, <2>2 DEF ChangesEnd
  <2>4. PICK i \in (j + 1)..Len(q) : q[i].stage = "post" /\ q[i].node = n /\ ~q[i].again
    BY <2>1, <2>3 DEF Finished
  <2>5. i \in (j + 1)..Len(plan) /\ plan[i] = q[i]
    BY <1>11, <1>13, <2>2
  <2> QED
    BY <1>1, <2>4, <2>5 DEF Posts
<1> QED
  BY <1>1, <1>14, <1>15 DEF PlanEnds

\* A continuation ends as the plan it continues.
LEMMA ContinuationEnds ==
  ASSUME NEW r, r.plan \in Seq(Steps), NEW c, c.rev = r.rev, NEW start \in 1..Len(r.plan), NEW M \in Nat,
         ContinuesAs(c.plan, r, start, M), Replays(c.plan, r, start, M), PlanEnds(r)
  PROVE  PlanEnds(c)
<1>1. PICK plan : plan = r.plan
  OBVIOUS
<1>2. PICK rest : rest = c.plan
  OBVIOUS
<1>3. Len(plan) \in Nat /\ start \in 1..Len(plan)
  BY <1>1, LenProperties
<1>4. /\ Len(rest) = M + (Len(plan) - start + 1)
      /\ \A k \in 1..M : rest[k].again /\ rest[k].stage \in {"source", "target", "post"}
      /\ \A k \in (M + 1)..Len(rest) : rest[k] = plan[start + (k - M) - 1]
  BY <1>1, <1>2 DEF ContinuesAs
<1>5. ASSUME NEW i \in start..Len(plan)
      PROVE  /\ (i - start) + M + 1 \in (M + 1)..Len(rest) /\ (i - start) + M + 1 \in 1..Len(rest)
             /\ rest[(i - start) + M + 1] = plan[i]
  <2>1. (i - start) + M + 1 \in (M + 1)..Len(rest) /\ start + (((i - start) + M + 1) - M) - 1 = i
    BY <1>3, <1>4
  <2> QED
    BY <1>3, <1>4, <2>1
<1>6. ASSUME NEW k \in (M + 1)..Len(rest)
      PROVE  /\ start + (k - M) - 1 \in start..Len(plan) /\ start + (k - M) - 1 \in 1..Len(plan)
             /\ rest[k] = plan[start + (k - M) - 1]
  BY <1>3, <1>4
<1>7. ASSUME NEW n \in Present(r.rev), Settled(r, n) PROVE Settled(c, n)
  <2>1. PICK i \in 1..Len(plan) : Settles(r, i, n) /\ \A j \in 1..i : plan[j].stage # "acceptance"
    BY <1>1, <1>7 DEF Settled
  <2>2. plan[i].stage = "target" /\ plan[i].node = n /\ \A j \in (i + 1)..Len(plan) : plan[j].node # n
    BY <1>1, <2>1 DEF Settles
  <2>3. CASE i >= start
    <3>1. PICK k : k = (i - start) + M + 1
      OBVIOUS
    <3>2. k \in (M + 1)..Len(rest) /\ k \in 1..Len(rest) /\ rest[k] = plan[i]
      BY <1>5, <2>3, <3>1
    <3>3. ASSUME NEW j \in (k + 1)..Len(rest) PROVE rest[j].node # n
      <4>1. j \in (M + 1)..Len(rest) /\ start + (j - M) - 1 \in (i + 1)..Len(plan)
        BY <1>3, <1>4, <2>3, <3>1, <3>2
      <4> QED
        BY <1>6, <2>2, <4>1
    <3>4. ASSUME NEW j \in 1..k PROVE rest[j].stage # "acceptance"
      <4>1. CASE j \in 1..M
        BY <1>4, <4>1
      <4>2. CASE j \notin 1..M
        <5>1. j \in (M + 1)..Len(rest) /\ start + (j - M) - 1 \in 1..i
          BY <1>3, <1>4, <2>3, <3>1, <3>2, <4>2
        <5> QED
          BY <1>6, <2>1, <5>1
      <4> QED
        BY <4>1, <4>2
    <3>5. Settles(c, k, n)
      BY <1>2, <2>2, <3>2, <3>3 DEF Settles
    <3> QED
      BY <1>2, <3>2, <3>4, <3>5 DEF Settled
  <2>4. CASE ~(i >= start)
    <3>1. n \in Nodes /\ i \in 1..(start - 1)
      BY <1>3, <2>4 DEF Present
    <3>2. PICK k \in 1..M : /\ rest[k].stage = "target" /\ rest[k].node = n
                            /\ \A j \in 1..M : rest[j].node = n => j = k
      BY <1>2, <2>1, <3>1 DEF Replays
    <3>3. k \in 1..Len(rest)
      BY <1>3, <1>4, <3>2
    <3>4. ASSUME NEW j \in (k + 1)..Len(rest) PROVE rest[j].node # n
      <4>1. CASE j \in 1..M
        BY <3>2, <4>1
      <4>2. CASE j \notin 1..M
        <5>1. j \in (M + 1)..Len(rest) /\ start + (j - M) - 1 \in (i + 1)..Len(plan)
          BY <1>3, <1>4, <2>4, <3>2, <4>2
        <5> QED
          BY <1>6, <2>2, <5>1
      <4> QED
        BY <4>1, <4>2
    <3>5. \A j \in 1..k : rest[j].stage # "acceptance"
      <4>1. \A j \in 1..M : rest[j].stage # "acceptance"
        BY <1>4
      <4> QED
        BY <3>2, <4>1
    <3>6. Settles(c, k, n)
      BY <1>2, <3>2, <3>4 DEF Settles
    <3> QED
      BY <1>2, <3>3, <3>5, <3>6 DEF Settled
  <2> QED
    BY <1>3, <2>3, <2>4
<1>8. ASSUME NEW n \in Nodes, NEW j \in 1..Len(rest), Executes(c, j, n)
      PROVE  \E k \in (j + 1)..Len(rest) : Posts(c, k, n)
  <2>1. rest[j].stage = "execute" /\ rest[j].node = n
    BY <1>2, <1>8 DEF Executes
  <2>2. j \in (M + 1)..Len(rest)
    <3>1. j \notin 1..M
      BY <1>4, <2>1
    <3> QED
      BY <1>3, <1>4, <1>8, <3>1, SMTT(30)
  <2>3. PICK i : i = start + (j - M) - 1
    OBVIOUS
  <2>4. i \in 1..Len(plan) /\ i \in start..Len(plan) /\ rest[j] = plan[i]
    BY <1>6, <2>2, <2>3
  <2>5. Executes(r, i, n)
    BY <1>1, <2>1, <2>4 DEF Executes
  <2>6. PICK l \in (i + 1)..Len(plan) : Posts(r, l, n)
    BY <1>1, <2>4, <2>5 DEF PlanEnds
  <2>7. plan[l].stage = "post" /\ plan[l].node = n /\ ~plan[l].again
    BY <1>1, <2>6 DEF Posts
  <2>8. PICK k : k = (l - start) + M + 1
    OBVIOUS
  <2>9. l \in start..Len(plan) /\ k \in (j + 1)..Len(rest) /\ rest[k] = plan[l]
    <3>1. l \in start..Len(plan)
      BY <1>3, <2>4
    <3>2. k \in (M + 1)..Len(rest) /\ rest[k] = plan[l]
      BY <1>5, <2>8, <3>1
    <3>3. M \in Nat /\ j \in Nat /\ start \in Nat /\ l \in Nat /\ i \in Nat /\ l > i
      BY <1>3, <2>2, <2>4, <3>1, SMTT(30)
    <3>4. k > j
      BY <2>3, <2>8, <3>3, SMTT(30)
    <3>5. k \in (j + 1)..Len(rest)
      BY <3>2, <3>3, <3>4, <1>4, <1>3, SMTT(30)
    <3> QED
      BY <3>1, <3>2, <3>5
  <2> QED
    BY <1>2, <2>7, <2>9 DEF Posts
<1>9. Present(c.rev) = Present(r.rev)
  OBVIOUS
<1> QED
  BY <1>2, <1>7, <1>8, <1>9 DEF PlanEnds

---------------------------------------------------------------------------
(* Every plan ends well.                                                     *)

LEMMA SameEnd ==
  ASSUME NEW a, NEW b, Locked(b) = Locked(a), EndsWell(a)
  PROVE  EndsWell(b)
<1>1. /\ Subject(b) = Subject(a) /\ b.plan = a.plan
      /\ b.kind = a.kind /\ b.mode = a.mode /\ b.rev = a.rev /\ b.backups = a.backups /\ b.digest = a.digest
  BY LockedFields, SubjectFields
<1> QED
  BY <1>1 DEF EndsWell, Lifecycle, PlanEnds, Settled, Settles, Executes, Posts, VerifyFits

LEMMA ScenarioEndsWell ==
  ASSUME Records, NEW rev \in Revisions, NEW kind \in {"scenario", "test"}, NEW mode \in LifecycleModes,
         PrepareScenario(rev, kind, mode)
  PROVE  EndsWell(prepared')
<1>1. PICK r : r = prepared'
  OBVIOUS
<1>2. /\ r.kind = kind /\ r.mode = mode /\ r.rev = rev /\ r.plan = ScenarioPlan(rev, mode)
      /\ r.backups = Capture(rev, mode) /\ r.digest = installed
  BY <1>1, ScenarioPrepared
<1>3. mode = "upgrade" => Source[rev] \in Revisions
  <2>1. mode = "upgrade" => FormalRun(baseline.run, Source[rev])
    BY DEF PrepareScenario
  <2> QED
    BY <2>1, RevisionAssumption DEF FormalRun
<1>4. PlanEnds(r)
  BY <1>2, <1>3, ScenarioEnds
<1>5. VerifyFits(r)
  <2>1. SUFFICES ASSUME mode = "verify", NEW n \in Nodes
                 PROVE  r.backups[n] = <<>> /\ ReleaseOf(r.digest[n]) = Target[r.rev][n]
    BY <1>2 DEF VerifyFits
  <2>2. baseline.rev = rev /\ InstalledIs(baseline.rev)
    BY <2>1 DEF PrepareScenario
  <2>3. n \notin Touched(rev, mode)
    BY <2>1 DEF Touched
  <2>4. Capture(rev, mode)[n] = <<>>
    BY <2>3, CaptureFacts
  <2> QED
    BY <1>2, <2>2, <2>4 DEF InstalledIs
<1> QED
  BY <1>1, <1>4, <1>5 DEF EndsWell

LEMMA RetryEndsWell ==
  ASSUME Records, PlansEnd, NEW x \in RunIds, PrepareRetry(x)
  PROVE  EndsWell(prepared')
<1>1. PICK c : c = prepared'
  OBVIOUS
<1>2. PICK r : r = runs[x]
  OBVIOUS
<1>3. Subject(c) = Subject(r) /\ c.plan = Continuation(r, r.done + 1)
  BY <1>1, <1>2, RetryPrepared
<1>4. /\ c.kind = r.kind /\ c.mode = r.mode /\ c.rev = r.rev /\ c.backups = r.backups /\ c.digest = r.digest
  BY <1>3, SubjectFields
<1>5. r \in RunRecords /\ r.plan \in Seq(Steps) /\ Len(r.plan) \in Nat /\ r.done \in Nat
  BY <1>2, RunIn, RunPlan DEF Records, Typed
<1>6. r.done < Len(r.plan)
  BY <1>2 DEF PrepareRetry
<1>7. PICK start : start = r.done + 1
  OBVIOUS
<1>8. start \in 1..Len(r.plan)
  BY <1>5, <1>6, <1>7
<1>9. PICK M \in Nat : ContinuesAs(c.plan, r, start, M) /\ Replays(c.plan, r, start, M)
  BY <1>3, <1>5, <1>7, <1>8, ContinuationFacts
<1>10. EndsWell(r)
  BY <1>2 DEF PlansEnd
<1>11. Lifecycle(c) => PlanEnds(r) /\ VerifyFits(r)
  BY <1>4, <1>10 DEF EndsWell, Lifecycle
<1>12. Lifecycle(c) => PlanEnds(c)
  BY <1>4, <1>5, <1>8, <1>9, <1>11, ContinuationEnds
<1>13. Lifecycle(c) => VerifyFits(c)
  BY <1>4, <1>11 DEF VerifyFits
<1> QED
  BY <1>1, <1>12, <1>13 DEF EndsWell

LEMMA PlansEndStep ==
  ASSUME Records, PlansEnd, Next
  PROVE  PlansEnd'
<1>1. RunsKeep
  BY RecordsStep DEF RunsGrow
<1>2. ASSUME NEW x \in RunIds PROVE EndsWell(runs'[x])
  BY <1>1, <1>2, SameEnd DEF RunsKeep, PlansEnd
<1>3. ASSUME NEW x \in RunIds' PROVE EndsWell(runs'[x])
  <2>1. CASE RunIds' = RunIds
    BY <1>2, <1>3, <2>1
  <2>2. CASE CreateRun
    BY <1>2, <1>3, <2>2, Created DEF PlansEnd, Records
  <2> QED
    BY <2>1, <2>2, NewIds
<1>4. prepared' # None => EndsWell(prepared')
  <2>1. CASE Plan
    <3>1. ASSUME NEW rev \in Revisions, NEW kind \in {"scenario", "test"}, NEW mode \in LifecycleModes,
                 PrepareScenario(rev, kind, mode)
          PROVE  EndsWell(prepared')
      BY <3>1, ScenarioEndsWell
    <3>2. ASSUME NEW x \in RunIds, PrepareRetry(x) PROVE EndsWell(prepared')
      BY <3>2, RetryEndsWell
    <3> QED
      BY <2>1, <3>1, <3>2, PlanCases DEF EndsWell
  <2>2. CASE CreateRun
    BY <2>2, Created DEF Records
  <2>3. CASE prepared' = None \/ prepared' = prepared
    BY <2>3 DEF PlansEnd
  <2> QED
    BY <2>1, <2>2, <2>3, PreparedMoves
<1> QED
  BY <1>3, <1>4 DEF PlansEnd

---------------------------------------------------------------------------
(* Chains grow at their end.                                                 *)

\* What is kept of a run that there is.
LEMMA RunKept ==
  ASSUME Records, Next, NEW x \in RunIds
  PROVE  /\ x \in RunIds' /\ Locked(runs'[x]) = Locked(runs[x]) /\ Subject(runs'[x]) = Subject(runs[x])
         /\ runs'[x].root = runs[x].root /\ runs'[x].attempt = runs[x].attempt
         /\ runs'[x].plan = runs[x].plan /\ runs'[x].rev = runs[x].rev /\ runs'[x].mode = runs[x].mode
         /\ runs'[x].kind = runs[x].kind /\ runs'[x].done >= runs[x].done
<1>1. RunsKeep /\ runs'[x].done >= runs[x].done
  BY RecordsStep DEF RunsGrow
<1>2. x \in RunIds' /\ Locked(runs'[x]) = Locked(runs[x])
  BY <1>1 DEF RunsKeep
<1> QED
  BY <1>1, <1>2, LockedFields, SubjectFields

LEMMA RootFacts ==
  ASSUME Records, NEW x \in RunIds
  PROVE  /\ runs[x] \in RunRecords /\ runs[x].attempt \in Nat /\ Root(x) \in 1..x /\ Root(x) \in Nat
         /\ x \in Nat /\ Len(runs) \in Nat /\ Root(x) # NextRun
<1>1. runs[x] \in RunRecords /\ Len(runs) \in Nat /\ x \in Nat /\ x # 0
  BY RunIn DEF Records, Typed
<1>2. Root(x) \in 1..x
  BY DEF Records, RunsAreSound, KnownAs, InChain, Root
<1>3. runs[x].attempt \in Nat
  BY <1>1 DEF RunRecords
<1>4. Root(x) \in Nat /\ Root(x) # NextRun
  BY <1>1, <1>2 DEF NextRun, RunIds
<1> QED
  BY <1>1, <1>2, <1>3, <1>4

LEMMA ChainsStep ==
  ASSUME Records, ChainsInOrder, Next
  PROVE  ChainsInOrder'
<1>1. ASSUME NEW x \in RunIds, NEW y \in RunIds, runs'[x].root = runs'[y].root, x # y
      PROVE  /\ runs'[x].attempt # runs'[y].attempt
             /\ runs'[x].attempt < runs'[y].attempt => Ended(x)'
  BY <1>1, RunKept, EndedStays DEF ChainsInOrder, Root
<1>2. ASSUME CreateRun, NEW x \in RunIds
      PROVE  /\ runs'[NextRun] = prepared /\ prepared.attempt \in Nat /\ runs'[x] = runs[x]
             /\ runs[x].attempt \in Nat
             /\ runs[x].root = prepared.root => Ended(x)' /\ runs[x].attempt < prepared.attempt
  <2>1. prepared # None /\ runs'[NextRun] = prepared /\ runs'[x] = runs[x]
    BY <1>2, Created DEF Records
  <2>2. prepared \in RunRecords
    BY <2>1 DEF Records, Typed, PreparedTyped
  <2>3. runs[x].root = prepared.root => Ended(x)' /\ runs[x].attempt < prepared.attempt
    BY <2>1, EndedStays DEF ChainsInOrder, Root
  <2> QED
    BY <2>1, <2>2, <2>3, RootFacts DEF RunRecords
<1>3. ASSUME NEW x \in RunIds', NEW y \in RunIds', runs'[x].root = runs'[y].root, x # y
      PROVE  /\ runs'[x].attempt # runs'[y].attempt
             /\ runs'[x].attempt < runs'[y].attempt => Ended(x)'
  <2>1. CASE RunIds' = RunIds
    BY <1>1, <1>3, <2>1
  <2>2. CASE CreateRun
    <3>1. RunIds' = RunIds \cup {NextRun}
      BY <2>2, Created DEF Records
    <3>2. CASE x \in RunIds /\ y \in RunIds
      BY <1>1, <1>3, <3>2
    <3>3. CASE x = NextRun /\ y \in RunIds
      BY <1>2, <1>3, <2>2, <3>3
    <3>4. CASE y = NextRun /\ x \in RunIds
      BY <1>2, <1>3, <2>2, <3>4
    <3> QED
      BY <1>3, <3>1, <3>2, <3>3, <3>4
  <2> QED
    BY <2>1, <2>2, NewIds
<1>4. ASSUME prepared' # None, NEW x \in RunIds', runs'[x].root = prepared'.root
      PROVE  Ended(x)' /\ runs'[x].attempt < prepared'.attempt
  <2>1. CASE Plan
    <3>1. runs' = runs /\ RunIds' = RunIds
      BY <2>1, PlanRecords DEF RunIds
    <3>2. CASE prepared'.root = NextRun
      BY <1>4, <3>1, <3>2, RootFacts DEF Root
    <3>3. ASSUME NEW y \in RunIds, PrepareRetry(y) PROVE Ended(x)' /\ runs'[x].attempt < prepared'.attempt
      <4>1. Subject(prepared') = Subject(runs[y]) /\ prepared'.attempt = runs[y].attempt + 1
        BY <3>3, RetryPrepared
      <4>2. Root(x) = Root(y) /\ x \in RunIds
        BY <1>4, <3>1, <4>1, SubjectFields DEF Root
      <4>3. /\ \A z \in RunIds : Root(z) = Root(y) => runs[z].attempt <= runs[y].attempt
            /\ Ended(y)
        BY <3>3 DEF PrepareRetry, Root, Ended
      <4>4. runs[x].attempt <= runs[y].attempt /\ runs[x].attempt \in Nat /\ runs[y].attempt \in Nat
        BY <4>2, <4>3, RootFacts
      <4>5. Ended(x)
        BY <4>2, <4>3, <4>4 DEF ChainsInOrder
      <4> QED
        BY <3>1, <4>1, <4>4, <4>5 DEF Ended
    <3> QED
      BY <2>1, <3>2, <3>3, PlanCases
  <2>2. CASE CreateRun
    BY <1>4, <2>2, Created DEF Records
  <2>3. CASE prepared' = prepared /\ RunIds' = RunIds
    BY <1>4, <2>3, RunKept, EndedStays DEF ChainsInOrder, Root
  <2> QED
    BY <1>4, <2>1, <2>2, <2>3, PreparedMoves, NewIds
<1> QED
  BY <1>3, <1>4 DEF ChainsInOrder, Root

---------------------------------------------------------------------------
(* What a run in execution has found out stays true.                         *)

\* Which step of the execution does what.
LEMMA WorkEffects ==
  ASSUME Records, WorkStep
  PROVE  /\ exec'.pc = "marked" => MarkMutation
         /\ exec'.pc = "acting" => BeginExecute
         /\ exec'.pc = "ended" => EndExecute \/ VerifyReceipt
         /\ receipts' = receipts \/ BeginExecute \/ EndExecute \/ VerifyReceipt
         /\ actual' = actual \/ Act
         /\ installed' = installed \/ RecordInstallation
         /\ runs' # runs => Check \/ Acceptance \/ CompleteStep
         /\ exec.pc = "validate" /\ exec'.pc # "failing" => Validate
<1>1. exec \in Execs
  BY WorkSteps DEF WorkGoesOn
<1>2. /\ \A p : Goto(p) => exec'.pc = p
      /\ \A c : FailWith(c) => exec'.pc = "failing"
  BY <1>1 DEF Goto, FailWith, Execs
<1>3. CASE Validate
  <2>1. exec'.pc \in {"next", "failing"} /\ UNCHANGED <<runs, hostVars>>
    BY <1>2, <1>3 DEF Validate
  <2> QED
    BY <1>3, <2>1 DEF hostVars
<1>4. CASE MarkMutation
  <2>1. exec'.pc \in {"marked", "failing"} /\ UNCHANGED <<runs, hostVars>> /\ exec.pc = "next"
    BY <1>2, <1>4 DEF MarkMutation, AtStep
  <2> QED
    BY <1>4, <2>1 DEF hostVars
<1>5. CASE BeginExecute
  <2>1. exec'.pc = "acting" /\ UNCHANGED <<runs, installed, actual>> /\ exec.pc = "marked"
    BY <1>2, <1>5 DEF BeginExecute
  <2> QED
    BY <1>5, <2>1
<1>6. CASE Act
  <2>1. exec'.pc \in {"acted", "failing"} /\ UNCHANGED <<runs, installed, receipts>> /\ exec.pc = "acting"
    BY <1>2, <1>6 DEF Act
  <2> QED
    BY <1>6, <2>1
<1>7. CASE EndExecute \/ VerifyReceipt
  <2>1. exec'.pc = "ended" /\ UNCHANGED <<runs, installed, actual>> /\ exec.pc # "validate"
    BY <1>2, <1>7 DEF EndExecute, VerifyReceipt
  <2> QED
    BY <1>7, <2>1
<1>8. CASE Check
  <2>1. exec'.pc \in {"next", "checked", "failing"} /\ UNCHANGED <<hostVars>> /\ exec.pc = "next"
    BY <1>2, <1>8 DEF Check, AtStep
  <2> QED
    BY <1>8, <2>1 DEF hostVars
<1>9. CASE Acceptance
  <2>1. exec'.pc \in {"next", "failing"} /\ UNCHANGED <<hostVars>> /\ exec.pc \in {"next", "marked"}
    BY <1>2, <1>9 DEF Acceptance, AtStep
  <2> QED
    BY <1>9, <2>1 DEF hostVars
<1>10. CASE RecordInstallation
  <2>1. exec'.pc \in {"recorded", "failing"} /\ UNCHANGED <<runs, receipts, actual>> /\ exec.pc = "checked"
    BY <1>2, <1>10 DEF RecordInstallation
  <2> QED
    BY <1>10, <2>1
<1>11. CASE CompleteStep
  <2>1. exec'.pc = "next" /\ UNCHANGED <<hostVars>> /\ exec.pc = "ended"
    BY <1>2, <1>11 DEF CompleteStep
  <2> QED
    BY <1>11, <2>1 DEF hostVars
<1>12. CASE Abort \/ RefuseFinish
  <2>1. exec'.pc = "failing" /\ UNCHANGED <<runs, hostVars>>
    BY <1>2, <1>12 DEF Abort, RefuseFinish
  <2> QED
    BY <2>1 DEF hostVars
<1> QED
  BY <1>3, <1>4, <1>5, <1>6, <1>7, <1>8, <1>9, <1>10, <1>11, <1>12 DEF WorkStep

\* The run in execution keeps what is locked of it.
LEMMA CurKept ==
  ASSUME Records, Next, exec.run \in RunIds, exec'.run = exec.run
  PROVE  /\ Cur'.plan = Cur.plan /\ Cur'.rev = Cur.rev /\ Cur'.mode = Cur.mode /\ Cur'.kind = Cur.kind
         /\ Cur'.attempt = Cur.attempt /\ (Lifecycle(Cur)' <=> Lifecycle(Cur)) /\ Cur'.root = Cur.root
         /\ \A i, n : Settles(Cur, i, n)' <=> Settles(Cur, i, n)
<1>1. PICK c : c = Cur
  OBVIOUS
<1>2. PICK d : d = Cur'
  OBVIOUS
<1>3. c = runs[exec.run] /\ d = runs'[exec.run]
  BY <1>1, <1>2 DEF Cur
<1>4. /\ d.plan = c.plan /\ d.rev = c.rev /\ d.mode = c.mode /\ d.kind = c.kind /\ d.attempt = c.attempt
      /\ d.root = c.root
  BY <1>3, RunKept
<1>5. (Lifecycle(d) <=> Lifecycle(c)) /\ \A i, n : Settles(d, i, n) <=> Settles(c, i, n)
  BY <1>4 DEF Lifecycle, Settles
<1>6. (Lifecycle(d) <=> Lifecycle(Cur)') /\ \A i, n : Settles(d, i, n) <=> Settles(Cur, i, n)'
  BY <1>2 DEF Lifecycle, Settles
<1> QED
  BY <1>1, <1>2, <1>4, <1>5, <1>6

\* A step beside the execution leaves the execution as it is.
LEMMA CheckedBeside ==
  ASSUME Records, WorkIsChecked, Next, UNCHANGED <<baseline, hostVars, exec>>, DoneStays
  PROVE  WorkIsChecked'
<1>1. SUFFICES ASSUME exec # NoExec, Lifecycle(Cur)' PROVE ChecksFit'
  BY DEF WorkIsChecked
<1>2. exec.run \in RunIds
  BY <1>1 DEF Records, Typed, ExecTyped
<1>3. /\ Cur'.plan = Cur.plan /\ Cur'.rev = Cur.rev /\ Cur'.mode = Cur.mode /\ Cur'.attempt = Cur.attempt
      /\ Lifecycle(Cur) /\ \A i, n : Settles(Cur, i, n)' <=> Settles(Cur, i, n)
  BY <1>1, <1>2, CurKept
<1>4. Cur'.done = Cur.done
  BY <1>2 DEF DoneStays, Cur
<1>5. ChecksFit
  BY <1>1, <1>3 DEF WorkIsChecked
<1>6. CurStep' = CurStep
  BY <1>3, <1>4 DEF CurStep
<1>7. UNCHANGED <<baseline, receipts, actual, exec>> /\ Pending' = Pending
  BY DEF hostVars, Pending
<1>8. exec.pc \in {"marked", "acting"} => baseline'.mutating = exec'.run
  BY <1>5, <1>7 DEF ChecksFit
<1>9. exec.pc = "ended" /\ CurStep'.stage = "post" => receipts'[CurStep'.node].status = "verified"
  BY <1>5, <1>6, <1>7 DEF ChecksFit
<1>10. exec.pc \in Working =>
        /\ \A n \in Nodes : \A i \in 1..Cur'.done : Settles(Cur, i, n)' => actual'[n] = Target[Cur'.rev][n]
        /\ Cur'.mode = "verify" /\ Cur'.attempt = 0 => Pending' \subseteq Present(Cur'.rev)
  BY <1>3, <1>4, <1>5, <1>7 DEF ChecksFit
<1> QED
  BY <1>7, <1>8, <1>9, <1>10 DEF ChecksFit

\* A re-verification changes nothing.
LEMMA VerifyChangesNothing ==
  ASSUME Records, PlansEnd, exec.pc \in Working, Lifecycle(Cur), Cur.mode = "verify",
         Cur.done < Len(Cur.plan), CurStep.stage \in {"execute", "post"}, ~CurStep.again
  PROVE  FALSE
<1>1. exec.run \in RunIds
  BY CurFacts DEF Records, Working
<1>2. CurStep.node \in Nodes /\ Cur.backups[CurStep.node] # <<>>
  BY AtNode
<1>3. EndsWell(Cur)
  BY <1>1 DEF PlansEnd, Cur
<1> QED
  BY <1>2, <1>3 DEF EndsWell, VerifyFits

\* A step that succeeds in a check has seen what it looks for.
LEMMA TargetSeen ==
  ASSUME Records, WorkStep, runs' # runs, Lifecycle(Cur), CurStep.stage = "target"
  PROVE  exec.pc = "next" /\ actual[CurStep.node] = Target[Cur.rev][CurStep.node]
<1>1. Check \/ Acceptance \/ CompleteStep
  BY WorkEffects
<1>2. WorkGoesOn
  BY WorkSteps
<1>3. ~CompleteStep /\ ~Acceptance
  <2>1. exec.pc = "ended" => CurStep.stage \in {"execute", "post"}
    BY DEF Records, WorkFits, StepFits, Working
  <2>2. Acceptance => CurStep.stage = "acceptance"
    BY DEF Acceptance, AtStep
  <2> QED
    BY <2>1, <2>2 DEF CompleteStep
<1>4. exec.pc = "next" /\ actual[CurStep.node] = Expected(Cur, CurStep)
  BY <1>1, <1>3 DEF Check, AtStep
<1> QED
  BY <1>4 DEF Expected, Effect, Lifecycle

LEMMA CheckedWork ==
  ASSUME Records, PlansEnd, WorkIsChecked, Next, WorkStep
  PROVE  WorkIsChecked'
<1>1. SUFFICES ASSUME exec' # NoExec, Lifecycle(Cur)' PROVE ChecksFit'
  BY DEF WorkIsChecked
<1>2. /\ WorkGoesOn /\ exec.run \in RunIds /\ exec.run # 0 /\ exec'.run = exec.run /\ exec # NoExec
      /\ exec.pc \in Working \cup {"validate"} /\ exec'.pc \in Working \cup {"failing"}
  BY WorkSteps DEF WorkGoesOn, NoExec, Working
<1>3. /\ Cur'.plan = Cur.plan /\ Cur'.rev = Cur.rev /\ Cur'.mode = Cur.mode /\ Cur'.attempt = Cur.attempt
      /\ Lifecycle(Cur) /\ \A i, n : Settles(Cur, i, n)' <=> Settles(Cur, i, n)
  BY <1>1, <1>2, CurKept
<1>4. ChecksFit
  BY <1>2, <1>3 DEF WorkIsChecked
<1>5. /\ Cur.plan \in Seq(Steps) /\ Len(Cur.plan) \in Nat /\ Cur.done \in Nat /\ Cur.done <= Len(Cur.plan)
  BY <1>2, RunPlan DEF Records, Typed, Cur
<1>6. exec.pc \in Working => StepFits
  BY DEF Records, WorkFits
<1>7. exec'.pc \in {"marked", "acting"} => baseline'.mutating = exec'.run
  <2>1. CASE MarkMutation
    <3>1. baseline'.mutating = exec.run \/ FailWith("conflict")
      BY <1>3, <2>1 DEF MarkMutation, Records, Typed, BaselineTyped, BaselineRows
    <3>2. FailWith("conflict") => exec'.pc = "failing"
      BY <1>2, Fails DEF Records, Typed
    <3> QED
      BY <1>2, <3>1, <3>2
  <2>2. CASE BeginExecute
    BY <1>2, <1>4, <2>2 DEF BeginExecute, ChecksFit
  <2> QED
    BY <2>1, <2>2, WorkEffects
<1>8. exec'.pc = "ended" /\ CurStep'.stage = "post" => receipts'[CurStep'.node].status = "verified"
  <2>1. CASE EndExecute
    <3>1. exec.pc = "acted" /\ runs' = runs /\ CurStep.stage = "execute"
      BY <1>6, <2>1 DEF EndExecute, StepFits, Working
    <3>2. CurStep' = CurStep
      BY <1>2, <3>1 DEF CurStep, Cur
    <3> QED
      BY <3>1, <3>2
  <2>2. CASE VerifyReceipt
    <3>1. /\ exec.pc = "recorded" /\ runs' = runs /\ RecordReceipt(CurStep.node, "verified")
          /\ CurStep.stage = "post" /\ ~CurStep.again /\ Cur.done < Len(Cur.plan)
      BY <1>6, <2>2 DEF VerifyReceipt, StepFits, Working
    <3>2. CurStep' = CurStep
      BY <1>2, <3>1 DEF CurStep, Cur
    <3>3. CurStep.node \in Nodes
      BY <3>1, AtNode DEF Working
    <3>4. receipts'[CurStep.node].status = "verified"
      BY <3>1, <3>3, NewReceipt DEF Records
    <3> QED
      BY <3>2, <3>4
  <2> QED
    BY <2>1, <2>2, WorkEffects
<1>9. ASSUME exec'.pc \in Working, NEW n \in Nodes, NEW i \in 1..Cur'.done, Settles(Cur, i, n)
      PROVE  actual'[n] = Target[Cur.rev][n]
  <2>1. CASE exec.pc = "validate"
    <3>1. Validate /\ runs' = runs
      BY <1>9, <2>1, WorkEffects DEF Working, Validate
    <3>2. Cur'.done = 0
      BY <1>2, <2>1, <3>1 DEF Records, WorkFits, Cur
    <3> QED
      BY <1>9, <3>2
  <2>2. CASE exec.pc \in Working /\ runs' = runs
    <3>1. i \in 1..Cur.done
      BY <1>2, <1>9, <2>2 DEF Cur
    <3>2. actual[n] = Target[Cur.rev][n]
      BY <1>4, <1>9, <2>2, <3>1 DEF ChecksFit
    <3>3. CASE Act
      <4>1. Cur.done < Len(Cur.plan) /\ actual' = [actual EXCEPT ![CurStep.node] = actual'[CurStep.node]]
        BY <1>6, <2>2, <3>3 DEF Act, StepFits, Records, Typed, HostsTyped
      <4>2. CurStep.node # n
        <5>1. Cur.done + 1 \in (i + 1)..Len(Cur.plan)
          BY <1>5, <3>1, <4>1
        <5> QED
          BY <1>9, <5>1 DEF Settles, CurStep
      <4> QED
        BY <3>2, <4>1, <4>2 DEF Records, Typed, HostsTyped
    <3>4. CASE actual' = actual
      BY <3>2, <3>4
    <3> QED
      BY <3>3, <3>4, WorkEffects
  <2>3. CASE exec.pc \in Working /\ runs' # runs
    <3>1. Cur'.done = Cur.done + 1 /\ UNCHANGED hostVars
      BY <1>2, <2>3 DEF WorkGoesOn, Cur
    <3>2. actual' = actual
      BY <3>1 DEF hostVars
    <3>3. CASE i \in 1..Cur.done
      BY <1>4, <1>9, <2>3, <3>2, <3>3 DEF ChecksFit
    <3>4. CASE i \notin 1..Cur.done
      <4>1. i = Cur.done + 1
        BY <1>5, <1>9, <3>1, <3>4
      <4>2. CurStep.stage = "target" /\ CurStep.node = n
        BY <1>9, <4>1 DEF Settles, CurStep
      <4> QED
        BY <1>3, <2>3, <3>2, <4>2, TargetSeen
    <3> QED
      BY <3>3, <3>4
  <2> QED
    BY <1>2, <2>1, <2>2, <2>3
<1>10. ASSUME exec'.pc \in Working, Cur.mode = "verify", Cur.attempt = 0
       PROVE  Pending' \subseteq Present(Cur.rev)
  <2>1. CASE receipts' = receipts
    <3>1. Pending' = Pending
      BY <2>1 DEF Pending
    <3>2. CASE exec.pc = "validate"
      <4>1. Validate /\ ~FailWith("conflict")
        BY <1>2, <1>10, <3>2, WorkEffects, Fails DEF Working, Records, Typed
      <4>2. ScenarioHolds(Cur)
        BY <1>3, <4>1 DEF Validate
      <4>3. ReceiptsCovered(Cur)
        BY <1>10, <4>2 DEF ScenarioHolds
      <4> QED
        BY <3>1, <4>3 DEF ReceiptsCovered
    <3>3. CASE exec.pc \in Working
      BY <1>4, <1>10, <3>1, <3>3 DEF ChecksFit
    <3> QED
      BY <1>2, <3>2, <3>3
  <2>2. CASE BeginExecute \/ EndExecute \/ VerifyReceipt
    <3>1. exec.pc \in Working
      BY <2>2 DEF BeginExecute, EndExecute, VerifyReceipt, Working
    <3>2. /\ Cur.done < Len(Cur.plan) /\ CurStep.stage \in {"execute", "post"} /\ ~CurStep.again
      <4>1. /\ exec.pc # "next" /\ exec.pc \in {"marked", "acted", "recorded"}
            /\ exec.pc = "marked" => CurStep.stage = "execute"
        BY <2>2 DEF BeginExecute, EndExecute, VerifyReceipt
      <4>2. /\ Cur.done < Len(Cur.plan) /\ CurStep.stage \in {"execute", "post"}
            /\ exec.pc = "recorded" => ~CurStep.again
            /\ exec.pc # "recorded" => CurStep.stage = "execute"
        BY <1>6, <3>1, <4>1 DEF StepFits
      <4>3. CurStep.stage = "execute" => ~CurStep.again
        BY <3>1, <4>2, ActsOnce DEF Records, Working
      <4> QED
        BY <4>2, <4>3
    <3> QED
      BY <1>3, <1>10, <3>1, <3>2, VerifyChangesNothing
  <2> QED
    BY <2>1, <2>2, WorkEffects
<1> QED
  BY <1>3, <1>7, <1>8, <1>9, <1>10 DEF ChecksFit

LEMMA CheckedStep ==
  ASSUME Records, PlansEnd, WorkIsChecked, Next
  PROVE  WorkIsChecked'
<1>1. exec' = NoExec => WorkIsChecked'
  BY DEF WorkIsChecked
<1>2. exec'.pc \in {"validate", "report"} => WorkIsChecked'
  BY DEF WorkIsChecked, ChecksFit, Working
<1>3. CASE CreateRun \/ RefuseRun \/ Plan
  <2>1. UNCHANGED <<baseline, hostVars, exec>>
    BY <1>3, BesideSteps
  <2>2. \A x \in RunIds : runs'[x] = runs[x]
    BY <1>3, Created, PlanRecords DEF RefuseRun, Records
  <2> QED
    BY <2>1, <2>2, CheckedBeside DEF DoneStays
<1>4. ASSUME NEW x \in RunIds, CancelQueued(x) PROVE WorkIsChecked'
  <2>1. UNCHANGED <<baseline, hostVars, exec>> /\ runs' = [runs EXCEPT ![x].status = "cancelled"]
    BY <1>4 DEF CancelQueued
  <2>2. DoneStays
    BY <2>1, StatusChanges DEF Statuses, Records, Typed
  <2> QED
    BY <2>1, <2>2, CheckedBeside
<1>5. ASSUME NEW x \in RunIds, StartRun(x) PROVE WorkIsChecked'
  BY <1>2, <1>5 DEF StartRun
<1>6. CASE Ends
  <2>1. exec' = NoExec \/ (exec.pc = "failing" /\ Goto("report") /\ exec.run \in RunIds)
    BY <1>6, EndSteps DEF Ends, Finish, FinishFailed
  <2>2. CASE exec' # NoExec
    <3>1. exec'.pc = "report"
      BY <2>1, <2>2, Moves, RunIn DEF Records, Typed
    <3> QED
      BY <1>2, <3>1
  <2> QED
    BY <1>1, <2>2
<1>7. CASE Reports \/ Crash
  BY <1>1, <1>7 DEF Reports, MarkBaselineUnverified, MarkBaselineLost, Crash
<1>8. CASE WorkStep
  BY <1>8, CheckedWork
<1> QED
  BY <1>3, <1>4, <1>5, <1>6, <1>7, <1>8, NextCases

---------------------------------------------------------------------------
(* What is pending of a chain its latest attempt still checks.               *)

\* What is pending now, where nothing was recorded, was pending before.
LEMMA PendingKept ==
  ASSUME Records, Next, NEW n \in Nodes, receipts'[n] = receipts[n],
         NEW root, PendingOf(n, root)'
  PROVE  PendingOf(n, root) /\ receipts[n].run \in RunIds
<1>1. n \in Pending
  BY DEF PendingOf, Pending
<1>2. receipts[n].status # "none"
  BY <1>1 DEF Pending
<1>3. receipts[n].run \in RunIds
  BY <1>2 DEF Records, RecordsFit, ReceiptFits
<1>4. runs'[receipts[n].run].root = runs[receipts[n].run].root
  BY <1>3, RunKept
<1>5. runs'[receipts'[n].run].root = root
  BY DEF PendingOf, Root
<1> QED
  BY <1>1, <1>3, <1>4, <1>5 DEF PendingOf, Root

LEMMA LatestKept ==
  ASSUME Records, Next, NEW x \in RunIds, Latest(x)'
  PROVE  Latest(x)
<1>1. SUFFICES ASSUME NEW y \in RunIds, Root(y) = Root(x) PROVE runs[y].attempt <= runs[x].attempt
  BY DEF Latest
<1>2. /\ y \in RunIds' /\ runs'[y].root = runs[y].root /\ runs'[y].attempt = runs[y].attempt
      /\ runs'[x].root = runs[x].root /\ runs'[x].attempt = runs[x].attempt
  BY RunKept
<1> QED
  BY <1>1, <1>2 DEF Latest, Root

\* A post-check that is done has verified its receipt.
LEMMA PostDone ==
  ASSUME Records, WorkIsChecked, Next, NEW x \in RunIds, Lifecycle(runs[x]), NEW n \in Pending,
         PostLeft(runs[x], n)
  PROVE  PostLeft(runs'[x], n)
<1>1. PICK r : r = runs[x]
  OBVIOUS
<1>2. PICK i \in (r.done + 1)..Len(r.plan) : Posts(r, i, n)
  BY <1>1 DEF PostLeft
<1>3. r.plan \in Seq(Steps) /\ Len(r.plan) \in Nat /\ r.done \in Nat /\ r.done <= Len(r.plan)
  BY <1>1, RunPlan DEF Records, Typed
<1>4. runs'[x].plan = r.plan
  BY <1>1, RunKept
<1>5. runs'[x].done = r.done \/ (runs'[x].done = r.done + 1 /\ i # r.done + 1)
  <2>1. CASE WorkStep
    <3>1. WorkGoesOn
      BY <2>1, WorkSteps
    <3>2. CASE runs' = runs
      BY <1>1, <3>2
    <3>3. CASE runs' # runs /\ x # exec.run
      BY <1>1, <3>1, <3>3 DEF WorkGoesOn
    <3>4. CASE runs' # runs /\ x = exec.run
      <4>1. Cur = r
        BY <1>1, <3>4 DEF Cur
      <4>2. runs'[x].done = r.done + 1
        BY <3>1, <3>4, <4>1 DEF WorkGoesOn
      <4>3. ASSUME i = r.done + 1 PROVE FALSE
        <5>1. CurStep.stage = "post" /\ CurStep.node = n /\ ~CurStep.again
          BY <1>2, <4>1, <4>3 DEF CurStep, Posts
        <5>2. exec.pc = "ended" /\ exec # NoExec
          BY <3>1, <3>4, <5>1 DEF WorkGoesOn, NoExec
        <5>3. receipts[n].status = "verified"
          BY <1>1, <4>1, <5>1, <5>2 DEF WorkIsChecked, ChecksFit
        <5> QED
          BY <5>3 DEF Pending
      <4> QED
        BY <4>2, <4>3
    <3> QED
      BY <3>2, <3>3, <3>4
  <2>2. CASE CreateRun \/ RefuseRun \/ Plan
    BY <1>1, <2>2, Created, PlanRecords DEF RefuseRun, Records
  <2>3. ASSUME NEW y \in RunIds, NEW status \in Statuses \ {"queued"}, runs' = [runs EXCEPT ![y].status = status]
        PROVE  runs'[x].done = r.done
    BY <1>1, <2>3, StatusChanges DEF Records, Typed, DoneStays
  <2>4. {"cancelled", "running", "succeeded", "failed"} \subseteq Statuses \ {"queued"}
    BY DEF Statuses
  <2>5. ASSUME NEW y \in RunIds, CancelQueued(y) \/ StartRun(y) PROVE runs'[x].done = r.done
    BY <2>3, <2>4, <2>5 DEF CancelQueued, StartRun
  <2>6. CASE Ends
    <3>1. exec.run \in RunIds
      BY <2>6, EndSteps
    <3>2. \E status \in {"succeeded", "failed", "cancelled"} : runs' = [runs EXCEPT ![exec.run].status = status]
      BY <2>6 DEF Ends, Finish, FinishFailed
    <3> QED
      BY <2>3, <2>4, <3>1, <3>2
  <2>7. CASE Reports
    BY <1>1, <2>7 DEF Reports, MarkBaselineUnverified, MarkBaselineLost
  <2>8. CASE Crash
    <3>1. r \in RunRecords
      BY <1>1, RunIn DEF Records, Typed
    <3>2. runs'[x] = r \/ runs'[x] = [r EXCEPT !.status = "interrupted"]
      BY <1>1, <2>8 DEF Crash
    <3> QED
      BY <3>1, <3>2 DEF RunRecords
  <2> QED
    BY <2>1, <2>2, <2>5, <2>6, <2>7, <2>8, NextCases
<1>6. i \in (runs'[x].done + 1)..Len(r.plan)
  BY <1>2, <1>3, <1>5
<1> QED
  BY <1>2, <1>4, <1>6 DEF PostLeft, Posts

\* The run in execution is the latest of its chain, and none is prepared in it.
LEMMA CurIsLatest ==
  ASSUME Records, ChainsInOrder, exec.pc \in Working
  PROVE  /\ exec.run \in RunIds /\ ~Ended(exec.run)
         /\ \A x \in RunIds : Root(x) = Cur.root /\ Latest(x) => x = exec.run
         /\ prepared # None => prepared.root # Cur.root
<1>1. exec.run \in RunIds /\ exec.pc # "report"
  BY CurFacts DEF Records, Working
<1>2. runs[exec.run].status = "running"
  BY <1>1 DEF Records, Typed, ExecTyped
<1>3. ~Ended(exec.run)
  BY <1>2 DEF Ended
<1>4. Root(exec.run) = Cur.root
  BY DEF Root, Cur
<1>5. ASSUME NEW x \in RunIds, Root(x) = Cur.root, Latest(x), x # exec.run PROVE FALSE
  <2>1. runs[exec.run].attempt <= runs[x].attempt /\ runs[exec.run].attempt # runs[x].attempt
    BY <1>1, <1>4, <1>5 DEF Latest, ChainsInOrder
  <2>2. runs[exec.run].attempt < runs[x].attempt
    BY <1>1, <1>5, <2>1, RootFacts
  <2> QED
    BY <1>1, <1>3, <1>4, <1>5, <2>2 DEF ChainsInOrder
<1>6. prepared # None => prepared.root # Cur.root
  BY <1>1, <1>3, <1>4 DEF ChainsInOrder
<1> QED
  BY <1>1, <1>3, <1>5, <1>6

\* A plan that goes on has the post-checks of the plan it continues.
LEMMA RetryChecks ==
  ASSUME Records, NEW x \in RunIds, PrepareRetry(x), NEW n, PostLeft(runs[x], n)
  PROVE  PostLeft(prepared', n)
<1>1. PICK c : c = prepared'
  OBVIOUS
<1>2. PICK r : r = runs[x]
  OBVIOUS
<1>3. c.plan = Continuation(r, r.done + 1) /\ c.done = 0
  BY <1>1, <1>2, RetryPrepared
<1>4. r \in RunRecords /\ r.plan \in Seq(Steps) /\ Len(r.plan) \in Nat /\ r.done \in Nat
  BY <1>2, RunIn, RunPlan DEF Records, Typed
<1>5. r.done < Len(r.plan)
  BY <1>2 DEF PrepareRetry
<1>6. PICK start : start = r.done + 1
  OBVIOUS
<1>7. start \in 1..Len(r.plan)
  BY <1>4, <1>5, <1>6
<1>8. PICK M \in Nat : ContinuesAs(c.plan, r, start, M)
  BY <1>3, <1>4, <1>6, <1>7, ContinuationFacts
<1>9. PICK i \in (r.done + 1)..Len(r.plan) : Posts(r, i, n)
  BY <1>2 DEF PostLeft
<1>10. PICK k : k = (i - start) + M + 1
  OBVIOUS
<1>11. Len(c.plan) = M + (Len(r.plan) - start + 1)
  BY <1>8 DEF ContinuesAs
<1>12. k \in (M + 1)..Len(c.plan) /\ k \in 1..Len(c.plan) /\ start + (k - M) - 1 = i
  <2>1. M \in Nat /\ Len(r.plan) \in Nat /\ start \in 1..Len(r.plan)
    BY <1>4, <1>7, <1>8
  <2>2. i \in start..Len(r.plan)
    BY <1>6, <1>9
  <2> QED
    BY <1>10, <1>11, <2>1, <2>2
<1>13. c.plan[k] = r.plan[i]
  BY <1>8, <1>12 DEF ContinuesAs
<1>14. Posts(c, k, n)
  BY <1>9, <1>13 DEF Posts
<1>15. k \in (c.done + 1)..Len(c.plan)
  BY <1>3, <1>12
<1> QED
  BY <1>1, <1>14, <1>15 DEF PostLeft

\* Where nothing was recorded on the node.
LEMMA PostsOfRuns ==
  ASSUME Records, PostsLeft, WorkIsChecked, Next, NEW n \in Nodes, receipts'[n] = receipts[n],
         NEW x \in RunIds', Lifecycle(runs[x])', Latest(x)',
         (n \in Pending)', runs'[receipts'[n].run].root = runs'[x].root
  PROVE  PostLeft(runs'[x], n)
<1>1. PICK root : root = runs'[x].root
  OBVIOUS
<1>2. PendingOf(n, root) /\ n \in Pending
  <2>1. PendingOf(n, root)'
    BY <1>1 DEF PendingOf, Root
  <2> QED
    BY <2>1, PendingKept DEF PendingOf
<1>3. CASE x \in RunIds
  <2>1. Lifecycle(runs[x]) /\ Root(x) = root
    BY <1>1, <1>3, RunKept DEF Lifecycle, Root
  <2>2. PostLeft(runs[x], n)
    BY <1>2, <1>3, <2>1, LatestKept DEF PostsLeft
  <2> QED
    BY <1>2, <1>3, <2>1, <2>2, PostDone
<1>4. CASE x \notin RunIds
  <2>1. CreateRun
    BY <1>4, NewIds
  <2>2. prepared # None /\ runs'[x] = prepared
    BY <1>4, <2>1, Created DEF Records
  <2>3. Lifecycle(prepared) /\ PendingOf(n, prepared.root)
    BY <1>1, <1>2, <2>2 DEF Lifecycle
  <2> QED
    BY <2>2, <2>3 DEF PostsLeft
<1> QED
  BY <1>3, <1>4

LEMMA PostsOfPrepared ==
  ASSUME Records, PostsLeft, Next, NEW n \in Nodes, receipts'[n] = receipts[n],
         prepared' # None, Lifecycle(prepared)', PendingOf(n, prepared.root)'
  PROVE  PostLeft(prepared', n)
<1>1. PICK root : root = prepared'.root
  OBVIOUS
<1>2. PendingOf(n, root) /\ n \in Pending /\ receipts[n].run \in RunIds
  <2>1. (n \in Pending)' /\ runs'[receipts'[n].run].root = root
    BY <1>1 DEF PendingOf, Root
  <2>2. PendingOf(n, root)'
    BY <2>1 DEF PendingOf, Root
  <2> QED
    BY <2>2, PendingKept DEF PendingOf
<1>3. Root(receipts[n].run) = root
  BY <1>2 DEF PendingOf
<1>4. CASE Plan
  <2>1. prepared'.root # NextRun
    BY <1>1, <1>2, <1>3, RootFacts
  <2>2. PICK x \in RunIds : PrepareRetry(x)
    BY <1>4, <2>1, PlanCases
  <2>3. Subject(prepared') = Subject(runs[x])
    BY <2>2, RetryPrepared
  <2>4. Lifecycle(runs[x]) /\ Root(x) = root
    BY <1>1, <2>3, SubjectFields DEF Lifecycle, Root
  <2>5. Latest(x)
    BY <2>2 DEF PrepareRetry, Latest, Root
  <2> QED
    BY <1>2, <2>2, <2>4, <2>5, RetryChecks DEF PostsLeft
<1>5. CASE prepared' = prepared
  BY <1>1, <1>2, <1>5 DEF PostsLeft, Lifecycle
<1>6. ~CreateRun
  BY Created DEF Records
<1> QED
  BY <1>4, <1>5, <1>6, PreparedMoves

\* A receipt that is written while the run acts is about a change whose
\* post-check is still to come.
LEMMA ActPosts ==
  ASSUME Records, PlansEnd, exec.pc \in Working, Lifecycle(Cur), Cur.done < Len(Cur.plan),
         CurStep.stage = "execute", CurStep.node \in Nodes
  PROVE  PostLeft(Cur, CurStep.node)
<1>1. PICK r : r = Cur
  OBVIOUS
<1>2. exec.run \in RunIds
  BY CurFacts DEF Records, Working
<1>3. PlanEnds(r) /\ r.plan \in Seq(Steps) /\ Len(r.plan) \in Nat /\ r.done \in Nat
  BY <1>1, <1>2, RunPlan DEF PlansEnd, EndsWell, Cur, Records, Typed
<1>4. PICK n : n = CurStep.node
  OBVIOUS
<1>5. r.done + 1 \in 1..Len(r.plan) /\ Executes(r, r.done + 1, n) /\ n \in Nodes
  BY <1>1, <1>3, <1>4 DEF Executes, CurStep
<1>6. PICK i \in ((r.done + 1) + 1)..Len(r.plan) : Posts(r, i, n)
  BY <1>3, <1>5 DEF PlanEnds
<1>7. i \in (r.done + 1)..Len(r.plan)
  BY <1>3, <1>6
<1> QED
  BY <1>1, <1>4, <1>6, <1>7 DEF PostLeft

\* The receipts a step of the execution writes.
LEMMA ReceiptWrites ==
  ASSUME Records, Next, WorkStep, receipts' # receipts
  PROVE  /\ exec.pc \in Working /\ runs' = runs /\ prepared' = prepared /\ exec'.run = exec.run
         /\ exec.run \in RunIds /\ CurStep.node \in Nodes /\ receipts'[CurStep.node].run = exec.run
         /\ Cur.done < Len(Cur.plan) /\ receipts'[CurStep.node].status # "none"
         /\ \A m \in Nodes : m # CurStep.node => receipts'[m] = receipts[m]
         /\ receipts'[CurStep.node].status # "verified" => CurStep.stage = "execute"
         /\ UNCHANGED <<baseline, installed, actual>>
<1>1. BeginExecute \/ EndExecute \/ VerifyReceipt
  BY WorkEffects
<1>2. /\ exec.pc \in {"marked", "acted", "recorded"} /\ exec.pc \in Working /\ exec.pc # "idle"
      /\ exec.pc = "marked" => CurStep.stage = "execute"
      /\ UNCHANGED <<runs, baseline, installed, actual, prepared>>
  BY <1>1 DEF BeginExecute, EndExecute, VerifyReceipt, Working
<1>3. WorkGoesOn /\ exec'.run = exec.run /\ exec.run \in RunIds
  BY WorkSteps DEF WorkGoesOn
<1>4. /\ Cur.done < Len(Cur.plan) /\ CurStep.stage \in {"execute", "post"}
      /\ exec.pc = "recorded" => ~CurStep.again
      /\ exec.pc # "recorded" => CurStep.stage = "execute"
  BY <1>2 DEF Records, WorkFits, StepFits
<1>5. CurStep.stage = "execute" => ~CurStep.again
  BY <1>2, <1>4, ActsOnce DEF Records
<1>6. CurStep.node \in Nodes
  BY <1>2, <1>4, <1>5, AtNode
<1>7. PICK status \in {"started", "main_succeeded", "verified"} :
        RecordReceipt(CurStep.node, status) /\ (status # "verified" => exec.pc # "recorded")
  BY <1>1 DEF BeginExecute, EndExecute, VerifyReceipt
<1>8. /\ receipts'[CurStep.node].run = exec.run /\ receipts'[CurStep.node].status = status
      /\ \A m \in Nodes : m # CurStep.node => receipts'[m] = receipts[m]
  BY <1>2, <1>6, <1>7, NewReceipt DEF Records
<1> QED
  BY <1>2, <1>3, <1>4, <1>6, <1>7, <1>8

LEMMA PostsStep ==
  ASSUME Records, PlansEnd, ChainsInOrder, PostsLeft, WorkIsChecked, Next
  PROVE  PostsLeft'
<1>1. ASSUME NEW n \in Nodes, receipts'[n] = receipts[n], NEW x \in RunIds',
             Lifecycle(runs[x])', Latest(x)', (n \in Pending)', runs'[receipts'[n].run].root = runs'[x].root
      PROVE  PostLeft(runs'[x], n)
  BY <1>1, PostsOfRuns
<1>2. ASSUME NEW n \in Nodes, receipts'[n] = receipts[n], prepared' # None, Lifecycle(prepared)',
             PendingOf(n, prepared.root)'
      PROVE  PostLeft(prepared', n)
  BY <1>2, PostsOfPrepared
<1>3. CASE receipts' = receipts
  BY <1>1, <1>2, <1>3 DEF PostsLeft, PendingOf, Root, PostLeft, Posts
<1>4. CASE receipts' # receipts
  <2>1. WorkStep
    <3>1. RefuseRun \/ CreateRun \/ Plan \/ (\E x \in RunIds : CancelQueued(x)) => receipts' = receipts
      BY BesideSteps DEF hostVars
    <3>2. ASSUME NEW x \in RunIds, StartRun(x) PROVE receipts' = receipts
      BY <3>2 DEF StartRun, hostVars
    <3>3. Ends \/ Reports \/ Crash => receipts' = receipts
      BY DEF Ends, Finish, FinishFailed, Reports, MarkBaselineUnverified, MarkBaselineLost, Crash, hostVars
    <3> QED
      BY <1>4, <3>1, <3>2, <3>3, NextCases
  <2>2. PICK n : n = CurStep.node
    OBVIOUS
  <2>3. /\ exec.pc \in Working /\ runs' = runs /\ prepared' = prepared /\ n \in Nodes
        /\ receipts'[n].run = exec.run /\ exec.run \in RunIds /\ Cur.done < Len(Cur.plan)
        /\ \A m \in Nodes : m # n => receipts'[m] = receipts[m]
        /\ receipts'[n].status # "verified" => CurStep.stage = "execute"
    BY <1>4, <2>1, <2>2, ReceiptWrites
  <2>4. /\ \A x \in RunIds : Root(x) = Cur.root /\ Latest(x) => x = exec.run
        /\ prepared # None => prepared.root # Cur.root
    BY <2>3, CurIsLatest
  <2>5. ASSUME NEW x \in RunIds', Lifecycle(runs[x])', Latest(x)', (n \in Pending)',
               runs'[receipts'[n].run].root = runs'[x].root
        PROVE  PostLeft(runs'[x], n)
    <3>1. x \in RunIds /\ Latest(x) /\ Root(x) = Cur.root
      BY <2>3, <2>5 DEF RunIds, Latest, Root, Cur
    <3>2. x = exec.run /\ Lifecycle(Cur)
      BY <2>3, <2>4, <2>5, <3>1 DEF Lifecycle, Cur
    <3>3. CurStep.stage = "execute"
      BY <2>3, <2>5 DEF Pending
    <3>4. PostLeft(Cur, n)
      BY <2>2, <2>3, <3>2, <3>3, ActPosts
    <3> QED
      BY <2>3, <3>2, <3>4 DEF Cur
  <2>6. ASSUME prepared' # None, PendingOf(n, prepared.root)' PROVE FALSE
    <3>1. prepared.root = Cur.root /\ prepared # None
      BY <2>3, <2>6 DEF PendingOf, Root, Cur
    <3> QED
      BY <2>4, <3>1
  <2>7. ASSUME NEW m \in Nodes, NEW x \in RunIds', Lifecycle(runs[x])', Latest(x)', (m \in Pending)',
               runs'[receipts'[m].run].root = runs'[x].root
        PROVE  PostLeft(runs'[x], m)
    <3>1. CASE m = n
      BY <2>5, <2>7, <3>1
    <3>2. CASE m # n
      BY <1>1, <2>3, <2>7, <3>2
    <3> QED
      BY <3>1, <3>2
  <2>8. ASSUME NEW m \in Nodes, prepared' # None, Lifecycle(prepared)', PendingOf(m, prepared.root)'
        PROVE  PostLeft(prepared', m)
    <3>1. CASE m = n
      BY <2>6, <2>8, <3>1
    <3>2. CASE m # n
      BY <1>2, <2>3, <2>8, <3>2
    <3> QED
      BY <3>1, <3>2
  <2> QED
    BY <2>7, <2>8 DEF PostsLeft, PendingOf, Root, PostLeft, Posts
<1> QED
  BY <1>3, <1>4

---------------------------------------------------------------------------
(* A host differs from its row only while its chain is marked.               *)

LEMMA CurLatest ==
  ASSUME Records, ChainsInOrder, exec.pc \in Working
  PROVE  Latest(exec.run)
<1>1. exec.run \in RunIds /\ ~Ended(exec.run)
  BY CurIsLatest
<1>2. SUFFICES ASSUME NEW y \in RunIds, Root(y) = Root(exec.run), ~(runs[y].attempt <= runs[exec.run].attempt)
               PROVE  FALSE
  BY DEF Latest
<1>3. runs[exec.run].attempt < runs[y].attempt /\ exec.run # y
  BY <1>1, <1>2, RootFacts
<1> QED
  BY <1>1, <1>2, <1>3 DEF ChainsInOrder

\* A finished run has found every node that is not another operation's own.
LEMMA FinishFinds ==
  ASSUME BaselineInv, RealParts, exec.pc = "next", Cur.done = Len(Cur.plan), Lifecycle(Cur),
         FinishHolds(exec.run), NEW n \in Nodes, ~Elsewhere(n)
  PROVE  actual[n] = Target[Cur.rev][n] /\ ReleaseOf(installed[n]) = Target[Cur.rev][n]
<1>1. /\ Records /\ exec.pc \in Working /\ exec # NoExec /\ exec.run \in RunIds /\ ChecksFit /\ EndsWell(Cur)
      /\ PostsLeft /\ Accounted(n) /\ ChainsInOrder
  <2>1. Records /\ exec.pc \in Working /\ exec # NoExec
    BY DEF BaselineInv, Records, Working, NoExec
  <2>2. exec.run \in RunIds
    BY <2>1, CurFacts DEF Records, Working
  <2> QED
    BY <2>1, <2>2 DEF RealParts, WorkIsChecked, PlansEnd, InBetween, Cur
<1>2. InstalledIs(Cur.rev) /\ (Cur.mode = "verify" => ReceiptsCovered(Cur))
  BY DEF FinishHolds, Cur
<1>3. ReleaseOf(installed[n]) = Target[Cur.rev][n]
  BY <1>2 DEF InstalledIs
<1>4. CASE n \notin Pending
  BY <1>1, <1>3, <1>4, VerifiedRow DEF VerifiedRowIsReal
<1>5. CASE n \in Pending /\ n \in Present(Cur.rev)
  <2>1. PICK i \in 1..Len(Cur.plan) : Settles(Cur, i, n)
    BY <1>1, <1>5 DEF EndsWell, PlanEnds, Settled
  <2> QED
    BY <1>1, <1>3, <2>1 DEF ChecksFit
<1>6. CASE n \in Pending /\ n \notin Present(Cur.rev)
  <2>1. Cur.mode # "verify"
    BY <1>2, <1>6 DEF ReceiptsCovered
  <2>2. CASE actual[n] = ReleaseOf(installed[n])
    BY <1>3, <2>2
  <2>3. CASE actual[n] # ReleaseOf(installed[n])
    <3>1. baseline.mutating # 0 /\ Root(receipts[n].run) = Root(baseline.mutating)
      BY <1>1, <2>3 DEF Accounted
    <3>2. Root(baseline.mutating) = Cur.root
      <4>1. GenerationFits
        BY <1>1 DEF BaselineInv, ChangesFit
      <4> QED
        BY <1>1, <2>1, <3>1, <4>1 DEF GenerationFits, Root, Cur
    <3>3. PendingOf(n, Root(exec.run)) /\ Latest(exec.run) /\ Lifecycle(runs[exec.run])
      BY <1>1, <1>6, <3>1, <3>2, CurLatest DEF PendingOf, Root, Cur
    <3>4. PostLeft(Cur, n)
      BY <1>1, <3>3 DEF PostsLeft, Cur
    <3>5. Len(Cur.plan) \in Nat
      BY <1>1, RunPlan DEF Records, Typed, Cur
    <3> QED
      BY <3>4, <3>5 DEF PostLeft
  <2> QED
    BY <2>2, <2>3
<1> QED
  BY <1>3, <1>4, <1>5, <1>6

\* What a node that nothing is recorded of is accounted to.
LEMMA AccountedKept ==
  ASSUME Records, Next, NEW n \in Nodes, Accounted(n), receipts'[n] = receipts[n],
         actual'[n] = actual[n], installed'[n] = installed[n],
         baseline.mutating # 0 =>
           baseline'.mutating # 0 /\ runs'[baseline'.mutating].root = runs[baseline.mutating].root
  PROVE  Accounted(n)'
<1>1. CASE actual[n] = ReleaseOf(installed[n])
  BY <1>1 DEF Accounted, ReleaseOf
<1>2. CASE receipts[n].status # "none"
  <2>1. receipts[n].run \in RunIds
    BY <1>2 DEF Records, RecordsFit, ReceiptFits
  <2>2. /\ runs'[receipts[n].run].kind = runs[receipts[n].run].kind
        /\ runs'[receipts[n].run].root = runs[receipts[n].run].root
    BY <2>1, RunKept
  <2> QED
    BY <1>2, <2>2 DEF Accounted, ReleaseOf, Elsewhere, Lifecycle, Root
<1> QED
  BY <1>1, <1>2 DEF Accounted, Elsewhere

LEMMA MutatingKept ==
  ASSUME Records, Next, baseline.mutating # 0, UNCHANGED baseline
  PROVE  baseline'.mutating # 0 /\ runs'[baseline'.mutating].root = runs[baseline.mutating].root
<1>1. baseline.mutating \in 0..Len(runs) /\ Len(runs) \in Nat
  BY LenProperties DEF Records, Typed, BaselineTyped, RunsTyped
<1>2. baseline.mutating \in RunIds
  BY <1>1 DEF RunIds
<1> QED
  BY <1>2, RunKept

\* A first mark of a re-verification finds the hosts as they are recorded.
LEMMA VerifyMarks ==
  ASSUME BaselineInv, RealParts, Marks, Cur.mode = "verify", Cur.attempt = 0, NEW n \in Nodes
  PROVE  actual[n] = ReleaseOf(installed[n])
<1>1. /\ Records /\ exec.pc \in Working /\ exec # NoExec /\ exec.pc # "idle" /\ Lifecycle(Cur)
      /\ Cur.done < Len(Cur.plan) /\ CurStep.stage \in {"execute", "acceptance"}
  BY DEF BaselineInv, Records, Marks, MarkMutation, AtStep, Working, NoExec
<1>2. exec.run \in RunIds
  BY <1>1, CurFacts DEF Records
<1>3. ChecksFit /\ EndsWell(Cur) /\ PlansEnd
  BY <1>1, <1>2 DEF RealParts, WorkIsChecked, PlansEnd, Cur
<1>4. CurStep.stage = "acceptance"
  BY <1>1, <1>3, ActsOnce, VerifyChangesNothing DEF Records
<1>5. CASE n \notin Pending
  BY <1>1, <1>5, VerifiedRow DEF VerifiedRowIsReal
<1>6. CASE n \in Pending
  <2>1. n \in Present(Cur.rev)
    BY <1>1, <1>3, <1>6 DEF ChecksFit
  <2>2. PICK i \in 1..Len(Cur.plan) : Settles(Cur, i, n) /\ \A j \in 1..i : Cur.plan[j].stage # "acceptance"
    BY <1>1, <1>3, <2>1 DEF EndsWell, PlanEnds, Settled
  <2>3. Len(Cur.plan) \in Nat /\ Cur.done \in Nat
    BY <1>2, RunPlan DEF Records, Typed, Cur, BaselineInv
  <2>4. Cur.done + 1 \notin 1..i
    BY <1>4, <2>2 DEF CurStep
  <2>5. i \in 1..Cur.done
    BY <2>2, <2>3, <2>4
  <2>6. actual[n] = Target[Cur.rev][n]
    BY <1>1, <1>3, <2>2, <2>5 DEF ChecksFit
  <2>7. Cur.backups[n] = <<>> /\ ReleaseOf(Cur.digest[n]) = Target[Cur.rev][n]
    BY <1>1, <1>3 DEF EndsWell, VerifyFits
  <2>8. ~Own(n)
    <3>1. receipts[n].backup # <<>>
      BY <1>1, <1>6 DEF Records, RecordsFit, ReceiptFits, Pending
    <3>2. Own(n) => receipts[n].backup = Cur.backups[n]
      BY <1>1, OwnFacts DEF Records
    <3> QED
      BY <2>7, <3>1, <3>2
  <2>9. installed[n] = Cur.digest[n]
    BY <1>1, <2>8 DEF Records, WorkFits, NodesFit
  <2> QED
    BY <2>6, <2>7, <2>9
<1> QED
  BY <1>5, <1>6

\* The steps that write a record of a node, or change its host.
LEMMA NodeWork ==
  ASSUME Records, WorkIsChecked, Next, InBetween, WorkStep, ~Marks,
         ~UNCHANGED hostVars, NEW n \in Nodes
  PROVE  Accounted(n)'
<1>1. /\ exec.pc \in Working /\ exec.pc # "idle" /\ exec # NoExec
      /\ Act \/ RecordInstallation \/ BeginExecute \/ EndExecute \/ VerifyReceipt
  BY WorkEffects DEF hostVars, Act, RecordInstallation, BeginExecute, EndExecute, VerifyReceipt, Working, NoExec
<1>2. UNCHANGED <<baseline, runs>> /\ exec.run \in RunIds /\ RunIds' = RunIds
  BY <1>1, CurFacts DEF Records, Act, RecordInstallation, BeginExecute, EndExecute, VerifyReceipt, RunIds
<1>3. /\ Accounted(n) /\ (Lifecycle(Cur) => ChecksFit) /\ StepFits
      /\ baseline.mutating # 0 =>
           baseline'.mutating # 0 /\ runs'[baseline'.mutating].root = runs[baseline.mutating].root
  BY <1>1, <1>2, MutatingKept DEF InBetween, WorkIsChecked, Records, WorkFits
<1>4. PICK m : m = CurStep.node
  OBVIOUS
<1>5. /\ m \in Nodes /\ Cur.backups[m] # <<>> /\ Cur.done < Len(Cur.plan)
      /\ Lifecycle(Cur) /\ Teardown(Cur, m) => installed[m] \in {<<>>, Cur.backups[m]}
      /\ CurStep.stage = "post" => Own(m)
  <2>1. /\ Cur.done < Len(Cur.plan) /\ CurStep.stage \in {"execute", "post"}
        /\ CurStep.stage = "post" => ~CurStep.again
    BY <1>1, <1>3 DEF StepFits, Act, RecordInstallation, BeginExecute, EndExecute, VerifyReceipt
  <2>2. CurStep.stage = "execute" => ~CurStep.again
    BY <1>1, <2>1, ActsOnce DEF Records
  <2> QED
    BY <1>1, <1>4, <2>1, <2>2, AtNode
<1>6. CASE n # m
  <2>1. receipts'[n] = receipts[n]
    BY <1>4, <1>6, ReceiptWrites
  <2>2. actual'[n] = actual[n]
    <3>1. actual' = actual \/ \E result : actual' = [actual EXCEPT ![m] = result]
      BY <1>1, <1>4 DEF Act, RecordInstallation, BeginExecute, EndExecute, VerifyReceipt
    <3> QED
      BY <1>6, <3>1 DEF Records, Typed, HostsTyped
  <2>3. installed'[n] = installed[n]
    <3>1. installed' = installed \/ \E row : installed' = [installed EXCEPT ![m] = row]
      BY <1>1, <1>4 DEF Act, RecordInstallation, BeginExecute, EndExecute, VerifyReceipt
    <3> QED
      BY <1>6, <3>1 DEF Records, Typed, HostsTyped
  <2> QED
    BY <1>3, <2>1, <2>2, <2>3, AccountedKept
<1>7. CASE n = m /\ Act
  <2>1. /\ exec.pc = "acting" /\ receipts' = receipts
        /\ receipts[n].run = exec.run /\ receipts[n].status = "started"
    BY <1>3, <1>4, <1>7 DEF Act, StepFits
  <2>2. Lifecycle(Cur) => baseline.mutating = exec.run /\ baseline.mutating # 0
    BY <1>1, <1>3, <2>1, CurFacts DEF ChecksFit, Records
  <2> QED
    BY <1>2, <2>1, <2>2 DEF Accounted, Elsewhere, Lifecycle, Root, Cur
<1>8. CASE n = m /\ BeginExecute
  <2>1. exec.pc = "marked" /\ RecordReceipt(n, "started")
    BY <1>4, <1>8 DEF BeginExecute
  <2>2. receipts'[n].run = exec.run /\ receipts'[n].status = "started"
    BY <1>1, <2>1, NewReceipt DEF Records
  <2>3. Lifecycle(Cur) => baseline.mutating = exec.run /\ baseline.mutating # 0
    BY <1>1, <1>3, <2>1, CurFacts DEF ChecksFit, Records
  <2> QED
    BY <1>2, <2>2, <2>3 DEF Accounted, Elsewhere, Lifecycle, Root, Cur
<1>9. CASE n = m /\ EndExecute
  <2>1. /\ exec.pc = "acted" /\ RecordReceipt(n, "main_succeeded") /\ UNCHANGED <<installed, actual>>
        /\ receipts[n].run = exec.run
    BY <1>3, <1>4, <1>9 DEF EndExecute, StepFits
  <2>2. receipts'[n].run = exec.run /\ receipts'[n].status = "main_succeeded"
    BY <1>1, <2>1, NewReceipt DEF Records
  <2> QED
    BY <1>2, <1>3, <2>1, <2>2 DEF Accounted, Elsewhere, Lifecycle, Root, ReleaseOf
<1>10. /\ RowOf(Cur, m) \in Rows /\ ReleaseOf(RowOf(Cur, m)) = Effect(Cur, m)
       /\ Cur.backups[m] \in Rows
  BY <1>1, <1>5, CurFacts, EffectFacts DEF Records, Sound
<1>11. CASE n = m /\ VerifyReceipt
  <2>1. UNCHANGED <<installed, actual>> /\ installed[n] = RowOf(Cur, n) /\ actual[n] = Effect(Cur, n)
    BY <1>3, <1>4, <1>11 DEF VerifyReceipt, StepFits
  <2> QED
    BY <1>10, <1>11, <2>1 DEF Accounted, ReleaseOf
<1>12. CASE n = m /\ RecordInstallation
  <2>1. /\ receipts' = receipts /\ actual' = actual /\ actual[n] = Effect(Cur, n) /\ Own(n)
        /\ installed \in [Nodes -> Rows]
    BY <1>3, <1>4, <1>5, <1>12 DEF RecordInstallation, StepFits, Records, Typed, HostsTyped
  <2>2. CASE installed' = installed
    BY <1>3, <2>1, <2>2, AccountedKept
  <2>3. CASE ~Lifecycle(Cur)
    <3>1. Subject(runs[receipts[n].run]) = Subject(Cur) /\ receipts[n].status # "none"
      BY <1>1, <2>1, OwnFacts DEF Records, Own
    <3>2. Elsewhere(n)
      BY <2>3, <3>1, SubjectFields DEF Elsewhere, Lifecycle
    <3> QED
      BY <1>2, <2>1, <3>2 DEF Accounted, Elsewhere, Lifecycle
  <2>4. CASE installed' # installed /\ Lifecycle(Cur)
    <3>1. PICK row : row = RowOf(Cur, n)
      OBVIOUS
    <3>2. Teardown(Cur, n) => row = <<>> /\ RowRemoved(n) = <<>>
      BY <1>5, <1>12, <2>4, <3>1 DEF RowOf, RowRemoved
    <3>3. RowRecorded(n) = row
      BY <2>4, <3>1, <3>2 DEF RowRecorded, RowOf
    <3>4. installed' = [installed EXCEPT ![n] = row]
      BY <1>4, <1>12, <2>4, <3>2, <3>3 DEF RecordInstallation
    <3>5. installed'[n] = row
      BY <2>1, <3>4
    <3> QED
      BY <1>10, <1>12, <2>1, <3>1, <3>5 DEF Accounted, ReleaseOf
  <2> QED
    BY <2>2, <2>3, <2>4
<1> QED
  BY <1>1, <1>6, <1>7, <1>8, <1>9, <1>11, <1>12

LEMMA ElsewhereKept ==
  ASSUME Records, Next, NEW n \in Nodes, Elsewhere(n), receipts'[n] = receipts[n]
  PROVE  Elsewhere(n)'
<1>1. receipts[n].run \in RunIds
  BY DEF Records, RecordsFit, ReceiptFits, Elsewhere
<1>2. runs'[receipts[n].run].kind = runs[receipts[n].run].kind
  BY <1>1, RunKept
<1> QED
  BY <1>2 DEF Elsewhere, Lifecycle

\* The baseline is cleared where nothing is left to tear down.
LEMMA ClearedByReset ==
  ASSUME Records, BaselineFits, Next, Clears
  PROVE  UNCHANGED baseline \/ Marks \/ Withdraws \/ Installs \/ RecoveryBaselines = NothingInstalled
<1>1. CASE Ends
  <2>1. CASE \E status \in {"failed", "cancelled"} : FinishFailed(status)
    BY <2>1 DEF FinishFailed
  <2>2. CASE Finish /\ FinishHolds(exec.run)
    <3>1. baseline' = CASE Lifecycle(Cur) -> BaselineOf(exec.run)
                         [] Cur.kind = "reset" -> NoBaseline
                         [] Cur.kind = "rollback" -> baseline
      BY <2>2 DEF Finish
    <3>2. Cur.kind \in {"scenario", "test", "reset", "rollback"}
      <4>1. exec.run \in RunIds
        BY <1>1, EndSteps
      <4> QED
        BY <4>1, RunIn DEF Records, Typed, Cur, RunRecords
    <3>3. CASE Lifecycle(Cur)
      <4>1. Cur.kind # "reset" /\ Cur.kind # "rollback"
        BY <3>3 DEF Lifecycle
      <4> QED
        BY <2>2, <3>1, <3>3, <4>1 DEF Installs
    <3>4. CASE Cur.kind = "reset"
      BY <2>2, <3>4 DEF FinishHolds, Cur
    <3>5. CASE Cur.kind = "rollback"
      <4>1. ~Lifecycle(Cur)
        BY <3>5 DEF Lifecycle
      <4> QED
        BY <3>1, <3>5, <4>1
    <3> QED
      BY <3>2, <3>3, <3>4, <3>5 DEF Lifecycle
  <2> QED
    BY <1>1, <2>1, <2>2 DEF Ends
<1>2. CASE CreateRun \/ RefuseRun \/ Plan \/ \E x \in RunIds : CancelQueued(x)
  BY <1>2, BesideSteps
<1>3. ASSUME NEW x \in RunIds, StartRun(x) PROVE UNCHANGED baseline
  BY <1>3 DEF StartRun
<1>4. CASE WorkStep
  BY <1>4, WorkBaseline
<1>5. CASE Reports
  BY <1>5 DEF Reports, MarkBaselineUnverified, MarkBaselineLost, Withdraws, Withdrawn
<1>6. CASE Crash
  <2>1. UNCHANGED baseline \/ baseline' = Withdrawn(baseline)
    BY <1>6 DEF Crash, Withdrawn
  <2>2. ASSUME baseline' = Withdrawn(baseline) PROVE FALSE
    <3>1. baseline'.state = "unverified"
      BY <2>2, WithdrawnFields DEF Records, Typed, BaselineTyped
    <3> QED
      BY <3>1 DEF Clears, NoBaseline
  <2> QED
    BY <2>1, <2>2
<1> QED
  BY <1>1, <1>2, <1>3, <1>4, <1>5, <1>6, NextCases

LEMMA InBetweenStep ==
  ASSUME BaselineInv, RealParts, Next
  PROVE  InBetween'
<1>1. Records /\ BaselineFits /\ InBetween /\ WorkIsChecked /\ PlansEnd /\ ChainsInOrder
  BY DEF BaselineInv, Records, RealParts
<1>2. SUFFICES ASSUME NEW n \in Nodes PROVE Accounted(n)'
  BY DEF InBetween
<1>3. Accounted(n)
  BY <1>1 DEF InBetween
<1>4. CASE ~UNCHANGED hostVars
  <2>1. WorkStep
    <3>1. RefuseRun \/ CreateRun \/ Plan \/ (\E x \in RunIds : CancelQueued(x)) => UNCHANGED hostVars
      BY <1>1, BesideSteps
    <3>2. ASSUME NEW x \in RunIds, StartRun(x) PROVE UNCHANGED hostVars
      BY <3>2 DEF StartRun
    <3>3. Ends \/ Reports \/ Crash => UNCHANGED hostVars
      BY DEF Ends, Finish, FinishFailed, Reports, MarkBaselineUnverified, MarkBaselineLost, Crash
    <3> QED
      BY <1>4, <3>1, <3>2, <3>3, NextCases
  <2>2. ~Marks
    BY <1>4 DEF Marks, MarkMutation
  <2> QED
    BY <1>1, <1>4, <2>1, <2>2, NodeWork
<1>5. CASE UNCHANGED hostVars
  <2>1. receipts'[n] = receipts[n] /\ actual'[n] = actual[n] /\ installed'[n] = installed[n]
    BY <1>5 DEF hostVars
  <2>2. ASSUME actual[n] = ReleaseOf(installed[n]) PROVE Accounted(n)'
    BY <2>1, <2>2 DEF Accounted, ReleaseOf
  <2>3. CASE UNCHANGED baseline
    BY <1>1, <1>3, <2>1, <2>3, AccountedKept, MutatingKept
  <2>4. CASE baseline.mutating = 0
    BY <1>1, <1>3, <2>1, <2>4, AccountedKept
  <2>5. CASE Marks /\ baseline.mutating # 0
    <3>1. /\ exec.run \in RunIds /\ exec.run # 0 /\ exec.run \in Nat /\ exec # NoExec /\ exec.pc \in Working
          /\ Lifecycle(Cur) /\ baseline' = Marked(baseline, exec.run, Cur.kind) /\ runs' = runs
      BY <1>1, <2>5, CurFacts, RunIn DEF Marks, Records, Typed, Working
    <3>2. baseline'.mutating = exec.run
      BY <1>1, <3>1, MarkedFields DEF Records, Typed, BaselineTyped
    <3>3. CASE baseline.mutating = exec.run
      BY <1>1, <1>3, <2>1, <3>1, <3>2, <3>3, AccountedKept
    <3>4. CASE baseline.mutating # exec.run
      <4>1. IF Cur.attempt = 0 THEN Cur.mode = "verify" ELSE Root(baseline.mutating) = Cur.root
        BY <2>5, <3>1, <3>4 DEF BaselineInv, ChangesFit, GenerationFits
      <4>2. CASE Cur.attempt = 0
        BY <2>2, <2>5, <4>1, <4>2, VerifyMarks
      <4>3. CASE Cur.attempt # 0
        <5>1. runs'[baseline'.mutating].root = runs[baseline.mutating].root
          BY <3>1, <3>2, <4>1, <4>3 DEF Root, Cur
        <5> QED
          BY <1>1, <1>3, <2>1, <3>1, <3>2, <5>1, AccountedKept
      <4> QED
        BY <4>2, <4>3
    <3> QED
      BY <3>3, <3>4
  <2>6. CASE Installs
    <3>1. CASE Elsewhere(n)
      <4>1. Elsewhere(n)'
        BY <1>1, <2>1, <3>1, ElsewhereKept
      <4> QED
        BY <4>1 DEF Accounted
    <3>2. CASE ~Elsewhere(n)
      BY <2>2, <2>6, <3>2, FinishFinds DEF Installs, Finish
    <3> QED
      BY <3>1, <3>2
  <2>7. CASE RecoveryBaselines = NothingInstalled
    <3>1. (IF n \in Pending THEN receipts[n].backup ELSE installed[n]) = <<>>
      BY <2>7 DEF RecoveryBaselines, NothingInstalled
    <3>2. n \in Pending => receipts[n].backup # <<>>
      BY <1>1 DEF Records, RecordsFit, ReceiptFits, Pending
    <3>3. n \notin Pending
      BY <3>1, <3>2
    <3> QED
      BY <1>1, <2>2, <3>3, VerifiedRow DEF VerifiedRowIsReal
  <2>8. Withdraws => baseline.mutating = 0
    BY DEF Withdraws
  <2>9. UNCHANGED baseline \/ Marks \/ Withdraws \/ Installs \/ RecoveryBaselines = NothingInstalled
    BY <1>1, BaselineMoves, ClearedByReset
  <2> QED
    BY <2>3, <2>4, <2>5, <2>6, <2>7, <2>8, <2>9
<1> QED
  BY <1>4, <1>5

---------------------------------------------------------------------------
(* An advertised baseline stays true.                                        *)

RealAt(n) == actual[n] = Target[baseline.rev][n] \/ Elsewhere(n)

\* No scenario run works on an advertised environment.
LEMMA RealWork ==
  ASSUME Records, BaselineFits, WorkIsChecked, Next, WorkStep, Advertised, UNCHANGED baseline,
         NEW n \in Nodes, RealAt(n)
  PROVE  RealAt(n)'
<1>1. baseline.mutating = 0
  BY DEF BaselineFits, Advertised
<1>2. CASE receipts'[n] = receipts[n] /\ actual'[n] = actual[n]
  BY <1>2, ElsewhereKept DEF RealAt
<1>3. CASE ~(receipts'[n] = receipts[n] /\ actual'[n] = actual[n])
  <2>1. /\ exec.pc \in Working /\ exec.pc # "idle" /\ exec # NoExec
        /\ Act \/ BeginExecute \/ EndExecute \/ VerifyReceipt
    BY <1>3, WorkEffects DEF Act, BeginExecute, EndExecute, VerifyReceipt, Working, NoExec
  <2>2. runs' = runs /\ exec.run \in RunIds /\ exec.run # 0 /\ StepFits /\ (Lifecycle(Cur) => ChecksFit)
    BY <2>1, CurFacts DEF Records, WorkFits, WorkIsChecked, Act, BeginExecute, EndExecute, VerifyReceipt
  <2>3. PICK m : m = CurStep.node
    OBVIOUS
  <2>4. n = m
    <3>1. ASSUME n # m PROVE receipts'[n] = receipts[n]
      BY <2>3, <3>1, ReceiptWrites
    <3>2. ASSUME n # m PROVE actual'[n] = actual[n]
      <4>1. actual' = actual \/ \E result : actual' = [actual EXCEPT ![m] = result]
        BY <2>1, <2>3 DEF Act, BeginExecute, EndExecute, VerifyReceipt
      <4> QED
        BY <3>2, <4>1 DEF Records, Typed, HostsTyped
    <3> QED
      BY <1>3, <3>1, <3>2
  <2>5. exec.pc \in {"marked", "acting"} => ~Lifecycle(Cur)
    BY <1>1, <2>2 DEF ChecksFit
  <2>6. CASE Act
    <3>1. /\ exec.pc = "acting" /\ receipts' = receipts
          /\ receipts[n].run = exec.run /\ receipts[n].status = "started"
      BY <2>2, <2>3, <2>4, <2>6 DEF Act, StepFits
    <3> QED
      BY <2>2, <2>5, <3>1 DEF RealAt, Elsewhere, Lifecycle, Cur
  <2>7. CASE BeginExecute
    <3>1. exec.pc = "marked" /\ RecordReceipt(n, "started")
      BY <2>3, <2>4, <2>7 DEF BeginExecute
    <3>2. receipts'[n].run = exec.run /\ receipts'[n].status = "started"
      BY <2>1, <3>1, NewReceipt DEF Records
    <3> QED
      BY <2>2, <2>5, <3>1, <3>2 DEF RealAt, Elsewhere, Lifecycle, Cur
  <2>8. CASE EndExecute
    <3>1. /\ exec.pc = "acted" /\ RecordReceipt(n, "main_succeeded") /\ actual' = actual
          /\ receipts[n].run = exec.run
      BY <2>2, <2>3, <2>4, <2>8 DEF EndExecute, StepFits
    <3>2. receipts'[n].run = exec.run /\ receipts'[n].status = "main_succeeded"
      BY <2>1, <3>1, NewReceipt DEF Records
    <3> QED
      BY <2>2, <3>1, <3>2 DEF RealAt, Elsewhere, Lifecycle
  <2>9. CASE VerifyReceipt
    <3>1. /\ exec.pc = "recorded" /\ RecordReceipt(n, "verified") /\ actual' = actual
          /\ CurStep.stage = "post" /\ ~CurStep.again /\ Cur.done < Len(Cur.plan)
      BY <2>2, <2>3, <2>4, <2>9 DEF VerifyReceipt, StepFits
    <3>2. receipts'[n].run = exec.run /\ receipts'[n].status = "verified"
      BY <2>1, <3>1, NewReceipt DEF Records
    <3>3. Own(n)
      BY <2>1, <2>3, <2>4, <3>1, AtNode
    <3>4. runs[receipts[n].run].kind = Cur.kind
      BY <2>1, <3>3, OwnFacts, SubjectFields DEF Records
    <3>5. Elsewhere(n) => ~Lifecycle(Cur)
      BY <3>4 DEF Elsewhere, Lifecycle
    <3> QED
      BY <2>2, <3>1, <3>2, <3>5 DEF RealAt, Elsewhere, Lifecycle, Cur
  <2> QED
    BY <2>1, <2>6, <2>7, <2>8, <2>9
<1> QED
  BY <1>2, <1>3

LEMMA AdvertisedStep ==
  ASSUME BaselineInv, RealParts, AdvertisedIsReal, Next
  PROVE  AdvertisedIsReal'
<1>1. Records /\ BaselineFits /\ WorkIsChecked
  BY DEF BaselineInv, Records, RealParts
<1>2. SUFFICES ASSUME Advertised', NEW n \in Nodes PROVE RealAt(n)'
  BY DEF AdvertisedIsReal, RealAt, Elsewhere
<1>3. CASE Installs
  <2>1. /\ Lifecycle(Cur) /\ exec.pc = "next" /\ Cur.done = Len(Cur.plan) /\ FinishHolds(exec.run)
        /\ UNCHANGED hostVars /\ baseline' = BaselineOf(exec.run)
    BY <1>3 DEF Installs, Finish
  <2>2. baseline'.rev = Cur.rev
    BY <2>1 DEF BaselineOf, Cur
  <2>3. receipts'[n] = receipts[n] /\ actual'[n] = actual[n]
    BY <2>1 DEF hostVars
  <2>4. CASE Elsewhere(n)
    <3>1. Elsewhere(n)'
      BY <1>1, <2>3, <2>4, ElsewhereKept
    <3> QED
      BY <3>1 DEF RealAt
  <2>5. CASE ~Elsewhere(n)
    BY <2>1, <2>2, <2>3, <2>5, FinishFinds DEF RealAt
  <2> QED
    BY <2>4, <2>5
<1>4. CASE ~Installs
  <2>1. UNCHANGED baseline
    <3>1. CASE Marks
      <4>1. baseline'.state = "partial"
        <5>1. exec.run \in Nat
          BY <1>1, <3>1, CurFacts, RunIn DEF Marks, Records, Typed
        <5> QED
          BY <1>1, <3>1, <5>1, MarkedFields DEF Marks, Records, Typed, BaselineTyped
      <4> QED
        BY <1>2, <4>1 DEF Advertised
    <3>2. CASE Withdraws
      <4>1. baseline'.state = "unverified"
        BY <1>1, <3>2, WithdrawnFields DEF Withdraws, Records, Typed, BaselineTyped
      <4> QED
        BY <1>2, <4>1 DEF Advertised
    <3>3. CASE Clears
      BY <1>2, <3>3 DEF Clears, NoBaseline, Advertised
    <3> QED
      BY <1>1, <1>4, <3>1, <3>2, <3>3, BaselineMoves
  <2>2. Advertised /\ RealAt(n)
    BY <1>2, <2>1 DEF Advertised, AdvertisedIsReal, RealAt, Elsewhere
  <2>3. CASE WorkStep
    BY <1>1, <2>1, <2>2, <2>3, RealWork
  <2>4. CASE ~WorkStep
    <3>1. UNCHANGED hostVars
      <4>1. RefuseRun \/ CreateRun \/ Plan \/ (\E x \in RunIds : CancelQueued(x)) => UNCHANGED hostVars
        BY <1>1, BesideSteps
      <4>2. ASSUME NEW x \in RunIds, StartRun(x) PROVE UNCHANGED hostVars
        BY <4>2 DEF StartRun
      <4>3. Ends \/ Reports \/ Crash => UNCHANGED hostVars
        BY DEF Ends, Finish, FinishFailed, Reports, MarkBaselineUnverified, MarkBaselineLost, Crash
      <4> QED
        BY <2>4, <4>1, <4>2, <4>3, NextCases
    <3>2. receipts'[n] = receipts[n] /\ actual'[n] = actual[n]
      BY <3>1 DEF hostVars
    <3> QED
      BY <1>1, <2>1, <2>2, <3>2, ElsewhereKept DEF RealAt
  <2> QED
    BY <2>3, <2>4
<1> QED
  BY <1>3, <1>4

---------------------------------------------------------------------------
RealInv == BaselineInv /\ RealParts /\ AdvertisedIsReal

LEMMA RealInit ==
  ASSUME Init
  PROVE  RealInv
<1>1. BaselineInv
  BY InitHolds
<1>2. /\ RunIds = {} /\ prepared = None /\ exec = NoExec /\ Pending = {} /\ baseline.state = "none"
  BY DEF Init, RunIds, Pending, NothingDone, NoReceipt, NoBaseline
<1>3. \A n \in Nodes : actual[n] = Absent /\ installed[n] = <<>>
  BY DEF Init, NothingInstalled
<1>4. InBetween
  BY <1>3 DEF InBetween, Accounted, ReleaseOf
<1>5. PlansEnd /\ ChainsInOrder /\ PostsLeft /\ WorkIsChecked
  BY <1>2 DEF PlansEnd, ChainsInOrder, PostsLeft, WorkIsChecked
<1>6. AdvertisedIsReal
  BY <1>2 DEF AdvertisedIsReal, Advertised
<1> QED
  BY <1>1, <1>4, <1>5, <1>6 DEF RealInv, RealParts

LEMMA RealStutters ==
  ASSUME RealInv, UNCHANGED vars
  PROVE  RealInv'
<1>1. BaselineInv'
  BY Stutters DEF RealInv
<1>2. UNCHANGED <<runs, baseline, installed, receipts, actual, exec, prepared>>
  BY DEF vars, hostVars
<1>3. PlansEnd' /\ ChainsInOrder'
  BY <1>2 DEF RealInv, RealParts, PlansEnd, ChainsInOrder, RunIds, Root, Ended
<1>4. PostsLeft'
  BY <1>2 DEF RealInv, RealParts, PostsLeft, RunIds, Root, Latest, PendingOf, Pending
<1>5. WorkIsChecked'
  BY <1>2 DEF RealInv, RealParts, WorkIsChecked, ChecksFit, Cur, CurStep, Pending
<1>6. InBetween' /\ AdvertisedIsReal'
  BY <1>2 DEF RealInv, RealParts, InBetween, Accounted, Elsewhere, Root, AdvertisedIsReal, Advertised
<1> QED
  BY <1>1, <1>3, <1>4, <1>5, <1>6 DEF RealInv, RealParts

LEMMA RealStep ==
  ASSUME RealInv, [Next]_vars
  PROVE  RealInv'
<1>1. BaselineInv /\ RealParts /\ AdvertisedIsReal
  BY DEF RealInv
<1>2. CASE Next
  <2>1. Records /\ PlansEnd /\ ChainsInOrder /\ PostsLeft /\ WorkIsChecked
    BY <1>1 DEF BaselineInv, Records, RealParts
  <2>2. BaselineInv'
    BY <1>1, <1>2, InvStep
  <2>3. PlansEnd' /\ ChainsInOrder' /\ WorkIsChecked'
    BY <1>2, <2>1, PlansEndStep, ChainsStep, CheckedStep
  <2>4. PostsLeft'
    BY <1>2, <2>1, PostsStep
  <2>5. InBetween' /\ AdvertisedIsReal'
    BY <1>1, <1>2, InBetweenStep, AdvertisedStep
  <2> QED
    BY <2>2, <2>3, <2>4, <2>5 DEF RealInv, RealParts
<1>3. CASE UNCHANGED vars
  BY <1>3, RealStutters
<1> QED
  BY <1>2, <1>3

(* An environment advertised as installed really holds the advertised       *)
(* revision, node by node, unless a reset or a rollback was the last to      *)
(* change the node: whatever runs failed, were cancelled, retried, verified  *)
(* again or interrupted by a crash before (MarkScenarioMutation,             *)
(* finishScenarioLifecycleTx, MarkScenarioBaselineUnverified,                *)
(* MarkRunningInterrupted).                                                  *)
THEOREM AdvertisedBaselinesAreReal == Spec => []AdvertisedIsReal
<1>1. Init => RealInv
  BY RealInit
<1>2. RealInv /\ [Next]_vars => RealInv'
  BY RealStep
<1>3. RealInv => AdvertisedIsReal
  BY DEF RealInv
<1> QED
  BY <1>1, <1>2, <1>3, PTL DEF Spec
=============================================================================

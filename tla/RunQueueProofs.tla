--------------------------- MODULE RunQueueProofs ---------------------------
(***************************************************************************)
(* Theorems about RunQueue, for every set of environments, runs and        *)
(* workers and every bound.                                                *)
(***************************************************************************)
EXTENDS RunQueue, TLAPS

\* Starting a worker keeps the registry well formed.
LEMMA SpawnTypes ==
  ASSUME TypeOK, NEW e \in Envs \cup {NoEnv}, NEW w \in Workers, Spawn(e, w)
  PROVE  /\ registry' \in [Envs -> Workers \cup {NoWorker}]
         /\ fresh' \in [Envs -> BOOLEAN]
         /\ wenv' \in [Workers -> Envs \cup {NoEnv}]
         /\ [pc EXCEPT ![w] = "loop"] \in [Workers -> WorkerPCs]
  BY DEF TypeOK, Spawn, WorkerPCs, Owning, Attached

\* schedule keeps the registry and the workers well formed.
LEMMA ScheduleTypes ==
  ASSUME TypeOK, NEW e \in Envs, schedule(e)
  PROVE  /\ registry' \in [Envs -> Workers \cup {NoWorker}]
         /\ fresh' \in [Envs -> BOOLEAN]
         /\ pc' \in [Workers -> WorkerPCs]
         /\ wenv' \in [Workers -> Envs \cup {NoEnv}]
         /\ UNCHANGED <<wrun, outcome>>
<1>1. CASE registry[e] # NoWorker
  BY <1>1 DEF schedule, TypeOK, regVars, workerVars
<1>2. CASE registry[e] = NoWorker
  <2>1. PICK w \in Workers : Spawn(e, w) /\ pc' = [pc EXCEPT ![w] = "loop"]
    BY <1>2 DEF schedule
  <2>2. UNCHANGED <<wrun, outcome>>
    BY <1>2 DEF schedule
  <2>3. QED
    BY <2>1, <2>2, SpawnTypes
<1>3. QED
  BY <1>1, <1>2

\* Every step keeps the types of all variables.
THEOREM TypeCorrect == Spec => []TypeOK
<1> USE RunsAssumption, EnvOfAssumption, WorkersAssumption, BoundsAssumption
    DEF Terminal, Active, Statuses, Outcomes, Owning, Attached, WorkerPCs, Phases
<1>1. Init => TypeOK
  BY DEF Init, TypeOK
<1>2. TypeOK /\ [Next]_vars => TypeOK'
  <2> SUFFICES ASSUME TypeOK, [Next]_vars PROVE TypeOK'
    OBVIOUS
  <2> USE DEF TypeOK, db, regVars, workerVars, watchdogVars, clientVars, bounds,
              Goto, touch, Fault, NoFault
  <2>1. ASSUME NEW r \in Runs, CreateRun(r) PROVE TypeOK'
    BY <2>1 DEF CreateRun
  <2>2. ASSUME NEW r \in Runs, Notify(r) PROVE TypeOK'
    BY <2>2, ScheduleTypes DEF Notify
  <2>3. ASSUME NEW r \in Runs, CancelRead(r) PROVE TypeOK'
    BY <2>3 DEF CancelRead
  <2>4. ASSUME NEW r \in Runs, CancelQueued(r) PROVE TypeOK'
    BY <2>4 DEF CancelQueued
  <2>5. ASSUME NEW r \in Runs, CancelRunning(r) PROVE TypeOK'
    BY <2>5 DEF CancelRunning
  <2>6. ASSUME NEW r \in Runs, Tamper(r) PROVE TypeOK'
    BY <2>6 DEF Tamper
  <2>7. ASSUME NEW w \in Workers, Claim(w) PROVE TypeOK'
    <3>1. CASE ClaimNothing(w) BY <3>1 DEF ClaimNothing
    <3>2. CASE ClaimProbe(w) BY <3>2 DEF ClaimProbe
    <3>3. ASSUME NEW r \in Runs, ClaimRun(w, r) PROVE TypeOK' BY <3>3 DEF ClaimRun
    <3>4. ASSUME NEW r \in Runs, ClaimInvalid(w, r) PROVE TypeOK' BY <3>4 DEF ClaimInvalid
    <3>5. QED BY <2>7, <3>1, <3>2, <3>3, <3>4 DEF Claim
  <2>8. ASSUME NEW w \in Workers, Perform(w) PROVE TypeOK'
    <3>1. CASE Register(w) BY <3>1 DEF Register
    <3>2. ASSUME NEW o \in Outcomes, Execute(w, o) PROVE TypeOK' BY <3>2 DEF Execute
    <3>3. CASE FinishRun(w) BY <3>3 DEF FinishRun
    <3>4. CASE Unregister(w) BY <3>4 DEF Unregister
    <3>5. QED BY <2>8, <3>1, <3>2, <3>3, <3>4 DEF Perform
  <2>9. ASSUME NEW w \in Workers, Retire(w) PROVE TypeOK'
    <3>1. CASE Leave(w) BY <3>1 DEF Leave
    <3>2. CASE HandoffProbe(w) BY <3>2 DEF HandoffProbe
    <3>3. CASE HandoffSchedule(w)
      <4>1. CASE Queued(wenv[w]) # {} /\ registry[wenv[w]] = NoWorker
        <5>1. registry' = [registry EXCEPT ![wenv[w]] = w] /\ fresh' = [fresh EXCEPT ![wenv[w]] = TRUE]
          BY <3>3, <4>1 DEF HandoffSchedule
        <5>2. registry' \in [Envs -> Workers \cup {NoWorker}] /\ fresh' \in [Envs -> BOOLEAN]
          BY <5>1
        <5>3. pc' \in [Workers -> WorkerPCs]
          BY <3>3, <4>1 DEF HandoffSchedule
        <5>4. UNCHANGED <<db, proc, wenv, wrun, outcome, watchdogVars, clientVars, bounds>>
          BY <3>3 DEF HandoffSchedule
        <5>5. QED BY <5>2, <5>3, <5>4
      <4>2. CASE ~(Queued(wenv[w]) # {} /\ registry[wenv[w]] = NoWorker)
        BY <3>3, <4>2 DEF HandoffSchedule
      <4>3. QED BY <4>1, <4>2
    <3>4. QED BY <2>9, <3>1, <3>2, <3>3 DEF Retire
  <2>10. ASSUME NEW w \in Workers, WorkerFault(w) PROVE TypeOK'
    <3>1. CASE ClaimError(w) BY <3>1 DEF ClaimError
    <3>2. CASE FinishRefused(w) BY <3>2 DEF FinishRefused
    <3>3. CASE FinishLost(w) BY <3>3 DEF FinishLost
    <3>4. CASE HandoffError(w) BY <3>4 DEF HandoffError
    <3>5. QED BY <2>10, <3>1, <3>2, <3>3, <3>4 DEF WorkerFault
  <2>11. ASSUME NEW w \in Workers, WorkerLoop(w) PROVE TypeOK'
    BY <2>11 DEF WorkerLoop
  <2>12. CASE Watchdog
    <3>1. CASE WatchdogTick BY <3>1 DEF WatchdogTick, FailInvalidActiveRuns
    <3>2. CASE WatchdogList BY <3>2 DEF WatchdogList, QueuedEnvs
    <3>3. CASE WatchdogRest BY <3>3 DEF WatchdogRest
    <3>4. CASE recoverEnvironmentWorker
      <4>1. CASE UNCHANGED <<regVars, workerVars>>
        BY <3>4, <4>1 DEF recoverEnvironmentWorker
      <4>2. ASSUME NEW w \in Workers, Spawn(target, w), pc' = [pc EXCEPT ![w] = "loop"],
                   UNCHANGED <<wrun, outcome>>
            PROVE  TypeOK'
        BY <3>4, <4>2, SpawnTypes DEF recoverEnvironmentWorker
      <4>3. QED BY <3>4, <4>1, <4>2 DEF recoverEnvironmentWorker
    <3>5. ASSUME NEW e \in Envs, WatchdogVisit(e) PROVE TypeOK' BY <3>5 DEF WatchdogVisit
    <3>6. QED BY <2>12, <3>1, <3>2, <3>3, <3>4, <3>5 DEF Watchdog
  <2>13. CASE Start
    <3>1. CASE Launch BY <3>1 DEF Launch
    <3>2. CASE MarkRunningInterrupted BY <3>2 DEF MarkRunningInterrupted
    <3>3. CASE StartReconcile BY <3>3 DEF StartReconcile, FailInvalidActiveRuns
    <3>4. CASE StartList BY <3>4 DEF StartList, QueuedEnvs
    <3>5. CASE StartDone BY <3>5 DEF StartDone
    <3>6. ASSUME NEW e \in Envs, StartSchedule(e) PROVE TypeOK' BY <3>6, ScheduleTypes DEF StartSchedule
    <3>7. QED BY <2>13, <3>1, <3>2, <3>3, <3>4, <3>5, <3>6 DEF Start
  <2>14. CASE StartError BY <2>14 DEF StartError, ProcessGone
  <2>15. ASSUME NEW e \in Envs, HeartbeatStale(e) PROVE TypeOK' BY <2>15 DEF HeartbeatStale
  <2>16. CASE Crash BY <2>16 DEF Crash, ProcessGone
  <2>17. CASE Close BY <2>17 DEF Close
  <2>18. CASE Exit BY <2>18 DEF Exit, ProcessGone
  <2>19. CASE UNCHANGED vars BY <2>19 DEF vars
  <2>20. QED
    BY <2>1, <2>2, <2>3, <2>4, <2>5, <2>6, <2>7, <2>8, <2>9, <2>10, <2>11, <2>12, <2>13,
       <2>14, <2>15, <2>16, <2>17, <2>18, <2>19
    DEF Next, Foreground, Client, Worker
<1>3. QED
  BY <1>1, <1>2, PTL DEF Spec
-----------------------------------------------------------------------------
(* The inductive invariant *)

Ownership == OneRunningPerEnv /\ ExecutorOwnsRun /\ RollbackExclusive

\* A step that starts nothing: runs only leave the queue, and whoever owns a run
\* after the step owned it before.
Ebb ==
  /\ \A r \in Runs : status'[r] = status[r] \/ (status[r] = "queued" /\ status'[r] \in Terminal)
  /\ \A w \in Workers : pc'[w] \in Owning => pc[w] \in Owning /\ wrun'[w] = wrun[w]

\* Such a step cannot break the ownership of runs.
LEMMA EbbKeepsOwnership ==
  ASSUME Ownership, Ebb PROVE Ownership'
<1> USE DEF Terminal, Active
<1>1. \A r \in Runs : status'[r] \in Active => status[r] = status'[r]
  BY DEF Ebb
<1>2. OneRunningPerEnv'
  BY <1>1 DEF Ownership, OneRunningPerEnv
<1>3. RollbackExclusive'
  BY <1>1 DEF Ownership, RollbackExclusive
<1>4. ExecutorOwnsRun'
  BY DEF Ownership, ExecutorOwnsRun, Ebb
<1>5. QED
  BY <1>2, <1>3, <1>4 DEF Ownership

\* FailInvalidActiveRuns only touches queued runs.
LEMMA FailInvalidEbbs ==
  ASSUME TypeOK, FailInvalidActiveRuns, UNCHANGED <<pc, wrun>> PROVE Ebb
  BY DEF TypeOK, FailInvalidActiveRuns, Ebb, Terminal

\* When the process dies nobody owns a run.
LEMMA GoneEbbs ==
  ASSUME TypeOK, ProcessGone PROVE Ebb
  BY DEF TypeOK, ProcessGone, Ebb, Owning, db

\* schedule starts a worker that owns nothing yet.
LEMMA ScheduleEbbs ==
  ASSUME TypeOK, NEW e \in Envs, schedule(e), UNCHANGED status PROVE Ebb
<1>1. CASE UNCHANGED <<regVars, workerVars>>
  BY <1>1 DEF Ebb, workerVars
<1>2. ASSUME NEW w \in Workers, pc' = [pc EXCEPT ![w] = "loop"], UNCHANGED wrun PROVE Ebb
  BY <1>2 DEF Ebb, TypeOK, Owning
<1>3. QED
  BY <1>1, <1>2 DEF schedule

\* Every step preserves the ownership of runs.
LEMMA OwnershipStep ==
  ASSUME TypeOK, StartsAlone, Ownership, [Next]_vars PROVE Ownership'
<1> USE DEF db, regVars, workerVars, watchdogVars, clientVars, bounds, Goto
<1>1. ASSUME NEW r \in Runs, CreateRun(r) PROVE Ownership'
  <2>1. status' = [status EXCEPT ![r] = "queued"] /\ status[r] = "absent" /\ FenceOpen(r)
        /\ UNCHANGED <<pc, wrun>>
    BY <1>1 DEF CreateRun
  <2>2. OneRunningPerEnv'
    BY <2>1 DEF Ownership, OneRunningPerEnv, TypeOK
  <2>3. ExecutorOwnsRun'
    BY <2>1 DEF Ownership, ExecutorOwnsRun, TypeOK
  <2>4. RollbackExclusive'
    BY <2>1 DEF Ownership, RollbackExclusive, FenceOpen, TypeOK, Active
  <2>5. QED BY <2>2, <2>3, <2>4 DEF Ownership
<1>2. ASSUME Client, \A q \in Runs : ~CreateRun(q) PROVE Ownership'
  <2>1. ASSUME NEW q \in Runs, Notify(q) PROVE Ebb
    BY <2>1, ScheduleEbbs, EnvOfAssumption DEF Notify
  <2>2. ASSUME NEW q \in Runs, CancelRead(q) \/ CancelRunning(q) \/ Tamper(q) PROVE Ebb
    BY <2>2 DEF CancelRead, CancelRunning, Tamper, Ebb
  <2>3. ASSUME NEW q \in Runs, CancelQueued(q) PROVE Ebb
    BY <2>3 DEF CancelQueued, Ebb, TypeOK, Terminal
  <2>4. QED BY <1>2, <2>1, <2>2, <2>3, EbbKeepsOwnership DEF Client
<1>3. ASSUME NEW w \in Workers, NEW r \in Runs, ClaimRun(w, r) PROVE Ownership'
  <2>1. /\ status' = [status EXCEPT ![r] = "running"] /\ status[r] = "queued"
        /\ pc' = [pc EXCEPT ![w] = "start"] /\ wrun' = [wrun EXCEPT ![w] = r]
        /\ pc[w] = "claim" /\ EnvOf[r] = wenv[w] /\ ~HasRunning(wenv[w])
    BY <1>3 DEF ClaimRun, IsHead, Queued
  <2>2. OneRunningPerEnv'
    BY <2>1 DEF Ownership, OneRunningPerEnv, HasRunning, TypeOK
  <2>3. RollbackExclusive'
    BY <2>1 DEF Ownership, RollbackExclusive, TypeOK, Active
  <2>4. ASSUME NEW v \in Workers, pc'[v] \in Owning
        PROVE  /\ wrun'[v] \in Runs /\ status'[wrun'[v]] = "running"
               /\ \A u \in Workers : (pc'[u] \in Owning /\ wrun'[u] = wrun'[v]) => u = v
    <3>1. CASE v = w
      <4>1. wrun'[v] = r /\ status'[r] = "running"
        BY <2>1, <3>1 DEF TypeOK
      <4>2. ASSUME NEW u \in Workers, u # w, pc'[u] \in Owning PROVE wrun'[u] # r
        BY <2>1, <4>2 DEF Ownership, ExecutorOwnsRun, TypeOK
      <4>3. QED BY <3>1, <4>1, <4>2
    <3>2. CASE v # w
      <4>1. pc[v] \in Owning /\ wrun'[v] = wrun[v]
        BY <2>1, <2>4, <3>2 DEF TypeOK
      <4>2. wrun[v] \in Runs /\ status[wrun[v]] = "running" /\ wrun[v] # r
        BY <2>1, <4>1 DEF Ownership, ExecutorOwnsRun
      <4>3. ASSUME NEW u \in Workers, pc'[u] \in Owning, wrun'[u] = wrun'[v] PROVE u = v
        BY <2>1, <4>1, <4>2, <4>3 DEF Ownership, ExecutorOwnsRun, TypeOK
      <4>4. QED BY <2>1, <4>1, <4>2, <4>3 DEF TypeOK
    <3>3. QED BY <3>1, <3>2
  <2>5. QED BY <2>2, <2>3, <2>4 DEF Ownership, ExecutorOwnsRun
<1>4. ASSUME NEW w \in Workers, FinishRun(w) PROVE Ownership'
  <2>1. /\ status' = [status EXCEPT ![wrun[w]] = outcome[w]] /\ outcome[w] \in Terminal
        /\ pc' = [pc EXCEPT ![w] = "done"] /\ UNCHANGED wrun
        /\ pc[w] \in Owning
    BY <1>4 DEF FinishRun, TypeOK, Outcomes, Terminal, Owning
  <2>2. wrun[w] \in Runs
    BY <2>1 DEF Ownership, ExecutorOwnsRun
  <2>3. OneRunningPerEnv'
    BY <2>1, <2>2 DEF Ownership, OneRunningPerEnv, TypeOK, Terminal
  <2>4. RollbackExclusive'
    BY <2>1, <2>2 DEF Ownership, RollbackExclusive, TypeOK, Terminal, Active
  <2>5. ASSUME NEW v \in Workers, pc'[v] \in Owning
        PROVE  v # w /\ pc[v] \in Owning /\ wrun[v] # wrun[w]
    BY <2>1, <2>5 DEF Ownership, ExecutorOwnsRun, TypeOK, Owning
  <2>6. ExecutorOwnsRun'
    BY <2>1, <2>2, <2>5 DEF Ownership, ExecutorOwnsRun, TypeOK
  <2>7. QED BY <2>3, <2>4, <2>6 DEF Ownership
<1>5. ASSUME NEW w \in Workers, Worker(w), ~FinishRun(w), \A r \in Runs : ~ClaimRun(w, r)
      PROVE  Ebb
  <2> USE DEF Ebb, TypeOK, Owning
  <2>1. CASE WorkerLoop(w) BY <2>1 DEF WorkerLoop
  <2>2. CASE ClaimNothing(w) \/ ClaimProbe(w) BY <2>2 DEF ClaimNothing, ClaimProbe
  <2>3. ASSUME NEW r \in Runs, ClaimInvalid(w, r) PROVE Ebb
    BY <2>3 DEF ClaimInvalid, IsHead, Queued, Terminal
  <2>4. CASE Register(w) BY <2>4 DEF Register
  <2>5. ASSUME NEW o \in Outcomes, Execute(w, o) PROVE Ebb BY <2>5 DEF Execute
  <2>6. CASE Unregister(w) BY <2>6 DEF Unregister
  <2>7. CASE Leave(w) BY <2>7 DEF Leave
  <2>8. CASE HandoffProbe(w) \/ HandoffSchedule(w) BY <2>8 DEF HandoffProbe, HandoffSchedule
  <2>9. CASE ClaimError(w) \/ HandoffError(w) BY <2>9 DEF ClaimError, HandoffError
  <2>10. CASE FinishRefused(w) BY <2>10 DEF FinishRefused
  <2>11. CASE FinishLost(w) BY <2>11 DEF FinishLost
  <2>12. QED
    BY <1>5, <2>1, <2>2, <2>3, <2>4, <2>5, <2>6, <2>7, <2>8, <2>9, <2>10, <2>11
    DEF Worker, Claim, Perform, Retire, WorkerFault
<1>6. ASSUME Watchdog PROVE Ebb
  <2>1. CASE WatchdogTick
    <3>1. UNCHANGED <<pc, wrun>> /\ (FailInvalidActiveRuns \/ UNCHANGED status)
      BY <2>1 DEF WatchdogTick
    <3>2. CASE UNCHANGED status BY <3>1, <3>2 DEF Ebb
    <3>3. CASE FailInvalidActiveRuns BY <3>1, <3>3, FailInvalidEbbs
    <3>4. QED BY <3>1, <3>2, <3>3
  <2>2. CASE WatchdogList \/ WatchdogRest \/ \E e \in Envs : WatchdogVisit(e)
    <3>1. UNCHANGED <<status, pc, wrun>>
      BY <2>2 DEF WatchdogList, WatchdogRest, WatchdogVisit
    <3>2. QED BY <3>1 DEF Ebb
  <2>3. CASE recoverEnvironmentWorker
    <3>1. UNCHANGED <<status, wrun>>
      BY <2>3 DEF recoverEnvironmentWorker
    <3>2. UNCHANGED pc \/ \E w \in Workers : pc' = [pc EXCEPT ![w] = "loop"]
      BY <2>3 DEF recoverEnvironmentWorker
    <3>3. QED BY <3>1, <3>2 DEF Ebb, TypeOK, Owning
  <2>4. QED BY <1>6, <2>1, <2>2, <2>3 DEF Watchdog
<1>7. CASE MarkRunningInterrupted
  <2>1. \A w \in Workers : pc'[w] \notin Owning
    BY <1>7 DEF MarkRunningInterrupted, StartsAlone, Owning
  <2>2. \A r \in Runs : status'[r] \in Active => status'[r] = status[r]
    BY <1>7 DEF MarkRunningInterrupted, Active
  <2>3. QED
    BY <2>1, <2>2 DEF Ownership, OneRunningPerEnv, ExecutorOwnsRun, RollbackExclusive, Active
<1>8. ASSUME Start, ~MarkRunningInterrupted PROVE Ebb
  <2>1. CASE Launch \/ StartList \/ StartDone
    <3>1. UNCHANGED <<status, pc, wrun>>
      BY <2>1 DEF Launch, StartList, StartDone
    <3>2. QED BY <3>1 DEF Ebb
  <2>2. CASE StartReconcile
    <3>1. UNCHANGED <<pc, wrun>> /\ FailInvalidActiveRuns
      BY <2>2 DEF StartReconcile
    <3>2. QED BY <3>1, FailInvalidEbbs
  <2>3. ASSUME NEW e \in Envs, StartSchedule(e) PROVE Ebb
    BY <2>3, ScheduleEbbs DEF StartSchedule
  <2>4. QED BY <1>8, <2>1, <2>2, <2>3 DEF Start
<1>9. CASE StartError \/ Crash \/ Exit
  BY <1>9, GoneEbbs, EbbKeepsOwnership DEF StartError, Crash, Exit
<1>10. CASE Close \/ (\E e \in Envs : HeartbeatStale(e)) \/ UNCHANGED vars
  <2>1. Ebb
    BY <1>10 DEF Close, HeartbeatStale, vars, Ebb
  <2>2. QED BY <2>1, EbbKeepsOwnership
<1>11. QED
  <2>1. CASE Client
    BY <2>1, <1>1, <1>2 DEF Client
  <2>2. ASSUME NEW w \in Workers, Worker(w) PROVE Ownership'
    BY <2>2, <1>3, <1>4, <1>5, EbbKeepsOwnership
  <2>3. QED
    BY <2>1, <2>2, <1>6, <1>7, <1>8, <1>9, <1>10, EbbKeepsOwnership DEF Next, Foreground

\* Every step keeps start-up free of goroutines.
LEMMA StartsAloneStep ==
  ASSUME TypeOK, StartsAlone, [Next]_vars PROVE StartsAlone'
<1> USE DEF TypeOK, StartsAlone, db, regVars, workerVars, watchdogVars, clientVars, bounds, Goto
<1>1. CASE Client
  BY <1>1 DEF Client, CreateRun, Notify, CancelRead, CancelQueued, CancelRunning, Tamper
<1>2. ASSUME NEW w \in Workers, Worker(w) PROVE proc' = proc /\ pc[w] # "idle"
  <2>1. CASE WorkerLoop(w) BY <2>1 DEF WorkerLoop
  <2>2. CASE Claim(w) BY <2>2 DEF Claim, ClaimNothing, ClaimProbe, ClaimRun, ClaimInvalid
  <2>3. CASE Perform(w) BY <2>3 DEF Perform, Register, Execute, FinishRun, Unregister
  <2>4. CASE Retire(w) BY <2>4 DEF Retire, Leave, HandoffProbe, HandoffSchedule
  <2>5. CASE WorkerFault(w)
    BY <2>5 DEF WorkerFault, ClaimError, FinishRefused, FinishLost, HandoffError
  <2>6. QED BY <1>2, <2>1, <2>2, <2>3, <2>4, <2>5 DEF Worker
<1>3. CASE Watchdog
  BY <1>3 DEF Watchdog, WatchdogTick, WatchdogList, WatchdogVisit, WatchdogRest,
              recoverEnvironmentWorker
<1>4. CASE Start
  BY <1>4 DEF Start, Launch, MarkRunningInterrupted, StartReconcile, StartList, StartDone,
              StartSchedule
<1>5. CASE StartError \/ Crash \/ Exit
  BY <1>5 DEF StartError, Crash, Exit, ProcessGone
<1>6. CASE Close \/ (\E e \in Envs : HeartbeatStale(e)) \/ UNCHANGED vars
  BY <1>6 DEF Close, HeartbeatStale, vars
<1>7. QED
  BY <1>1, <1>2, <1>3, <1>4, <1>5, <1>6 DEF Next, Foreground

\* The queue's safety: one running run per environment, executors that own what
\* they execute, exclusive environment rollbacks.
THEOREM QueueSafety == Spec => [](OneRunningPerEnv /\ ExecutorOwnsRun /\ RollbackExclusive)
<1>1. Init => StartsAlone /\ Ownership
  BY DEF Init, StartsAlone, Ownership, OneRunningPerEnv, ExecutorOwnsRun, RollbackExclusive,
         Owning, Active
<1>2. TypeOK /\ StartsAlone /\ Ownership /\ [Next]_vars => (StartsAlone /\ Ownership)'
  BY OwnershipStep, StartsAloneStep
<1>3. Ownership => OneRunningPerEnv /\ ExecutorOwnsRun /\ RollbackExclusive
  BY DEF Ownership
<1>4. QED
  BY <1>1, <1>2, <1>3, TypeCorrect, PTL DEF Spec

\* The worker that executes a run owns its row: nobody ends the run behind its back
\* (ClaimRun, CancelRun and the start of the server are the writers that could).
THEOREM ExecutorsOwnTheirRuns == Spec => []ExecutorOwnsRun
<1>1. OneRunningPerEnv /\ ExecutorOwnsRun /\ RollbackExclusive => ExecutorOwnsRun
  OBVIOUS
<1>2. QED
  BY <1>1, QueueSafety, PTL

\* The rollback of an environment is its only active run, for any order of creations
\* and claims around it.
THEOREM RollbacksAreAlone == Spec => []RollbackExclusive
<1>1. OneRunningPerEnv /\ ExecutorOwnsRun /\ RollbackExclusive => RollbackExclusive
  OBVIOUS
<1>2. QED
  BY <1>1, QueueSafety, PTL

\* No writer ever changes a terminal status.
THEOREM TerminalStays == Spec => TerminalIsFinal
<1> USE DEF Terminal, Active
<1>1. TypeOK /\ [Next]_vars
        => [\A r \in Runs : status[r] \in Terminal => status'[r] = status[r]]_status
  <2> SUFFICES ASSUME TypeOK, [Next]_vars, status' # status, NEW r \in Runs, status[r] \in Terminal
               PROVE  status'[r] = status[r]
    OBVIOUS
  <2> USE DEF TypeOK, db, Goto
  <2>1. CASE Client
    BY <2>1 DEF Client, CreateRun, Notify, CancelRead, CancelQueued, CancelRunning, Tamper
  <2>2. ASSUME NEW w \in Workers, Worker(w) PROVE status'[r] = status[r]
    <3>1. CASE \E q \in Runs : ClaimRun(w, q) \/ ClaimInvalid(w, q)
      BY <3>1 DEF ClaimRun, ClaimInvalid, IsHead, Queued
    <3>2. CASE FinishRun(w)
      BY <3>2 DEF FinishRun
    <3>3. CASE UNCHANGED status
      BY <3>3
    <3>4. QED
      BY <2>2, <3>1, <3>2, <3>3
      DEF Worker, WorkerLoop, Claim, ClaimNothing, ClaimProbe, Perform, Register, Execute,
          Unregister, Retire, Leave, HandoffProbe, HandoffSchedule, WorkerFault, ClaimError,
          FinishRefused, FinishLost, HandoffError
  <2>3. CASE Watchdog
    BY <2>3 DEF Watchdog, WatchdogTick, WatchdogList, WatchdogVisit, WatchdogRest,
                recoverEnvironmentWorker, FailInvalidActiveRuns
  <2>4. CASE Start
    BY <2>4 DEF Start, Launch, MarkRunningInterrupted, StartReconcile, StartList, StartDone,
                StartSchedule, FailInvalidActiveRuns
  <2>5. CASE StartError \/ Crash \/ Exit
    BY <2>5 DEF StartError, Crash, Exit, ProcessGone
  <2>6. CASE Close \/ (\E e \in Envs : HeartbeatStale(e)) \/ UNCHANGED vars
    BY <2>6 DEF Close, HeartbeatStale, vars
  <2>7. QED
    BY <2>1, <2>2, <2>3, <2>4, <2>5, <2>6 DEF Next, Foreground
<1>2. QED
  BY <1>1, TypeCorrect, PTL DEF Spec, TerminalIsFinal

-----------------------------------------------------------------------------
(* Running runs and registrations *)

LivePhases == {"reconcile", "list", "schedule", "up", "closing"}

\* A step that starts no run and lets no owner go before its run is over.
Steady ==
  /\ proc' \in LivePhases => proc \in LivePhases
  /\ faults' = 0 => faults = 0
  /\ \A r \in Runs : status'[r] = "running" => status[r] = "running"
  /\ \A w \in Workers : (pc[w] \in Owning /\ wrun[w] \in Runs /\ status'[wrun[w]] = "running")
       => pc'[w] \in Owning /\ wrun'[w] = wrun[w]

\* Such a step leaves every running run its owner.
LEMMA SteadyKeepsOwners ==
  ASSUME RunningHasOwner, Steady PROVE RunningHasOwner'
<1>1. SUFFICES ASSUME faults' = 0, proc' \in LivePhases, NEW r \in Runs, status'[r] = "running"
               PROVE  \E w \in Workers : pc'[w] \in Owning /\ wrun'[w] = r
  BY DEF RunningHasOwner, LivePhases
<1>2. PICK w \in Workers : pc[w] \in Owning /\ wrun[w] = r
  BY <1>1 DEF RunningHasOwner, Steady, LivePhases
<1>3. QED
  BY <1>1, <1>2 DEF Steady

\* schedule leaves the owners alone.
LEMMA ScheduleSteady ==
  ASSUME TypeOK, NEW e \in Envs, schedule(e), UNCHANGED <<status, proc, faults>> PROVE Steady
<1>1. CASE UNCHANGED <<regVars, workerVars>>
  BY <1>1 DEF Steady, workerVars
<1>2. ASSUME NEW w \in Workers, pc[w] = "idle", pc' = [pc EXCEPT ![w] = "loop"], UNCHANGED wrun
      PROVE  Steady
  BY <1>2 DEF Steady, TypeOK, Owning
<1>3. QED
  BY <1>1, <1>2 DEF schedule, Spawn

\* Every step leaves every running run its owner, unless a database call failed.
LEMMA OwnerStep ==
  ASSUME TypeOK, RunningHasOwner, [Next]_vars PROVE RunningHasOwner'
<1> USE BoundsAssumption
    DEF TypeOK, db, regVars, workerVars, watchdogVars, clientVars, bounds, Goto
<1>1. ASSUME Client PROVE Steady
  <2>1. ASSUME NEW r \in Runs, Notify(r) PROVE Steady
    <3>1. schedule(EnvOf[r]) /\ UNCHANGED <<status, proc, faults>>
      BY <2>1 DEF Notify
    <3>2. QED BY <3>1, ScheduleSteady, EnvOfAssumption
  <2>2. ASSUME NEW r \in Runs, CreateRun(r) PROVE Steady
    BY <2>2 DEF CreateRun, Steady
  <2>3. ASSUME NEW r \in Runs, CancelQueued(r) PROVE Steady
    BY <2>3 DEF CancelQueued, Steady
  <2>4. ASSUME NEW r \in Runs, CancelRead(r) \/ CancelRunning(r) \/ Tamper(r) PROVE Steady
    BY <2>4 DEF CancelRead, CancelRunning, Tamper, Steady
  <2>5. QED BY <1>1, <2>1, <2>2, <2>3, <2>4 DEF Client
<1>2. ASSUME NEW w \in Workers, NEW r \in Runs, ClaimRun(w, r) PROVE RunningHasOwner'
  <2>1. /\ status' = [status EXCEPT ![r] = "running"] /\ UNCHANGED <<proc, faults>>
        /\ pc[w] = "claim" /\ pc' = [pc EXCEPT ![w] = "start"] /\ wrun' = [wrun EXCEPT ![w] = r]
    BY <1>2 DEF ClaimRun
  <2>2. ASSUME NEW q \in Runs, q # r, NEW v \in Workers, pc[v] \in Owning, wrun[v] = q
        PROVE  pc'[v] \in Owning /\ wrun'[v] = q
    BY <2>1, <2>2 DEF Owning
  <2>3. pc'[w] \in Owning /\ wrun'[w] = r
    BY <2>1 DEF Owning
  <2>4. QED BY <2>1, <2>2, <2>3 DEF RunningHasOwner
<1>3. ASSUME NEW w \in Workers, FinishLost(w) PROVE RunningHasOwner'
  BY <1>3 DEF FinishLost, Fault, RunningHasOwner
<1>4. ASSUME NEW w \in Workers, Worker(w), ~FinishLost(w), \A r \in Runs : ~ClaimRun(w, r)
      PROVE  Steady
  <2> USE DEF Steady, Owning, Fault, NoFault
  <2>1. CASE WorkerLoop(w) BY <2>1 DEF WorkerLoop
  <2>2. CASE ClaimNothing(w) \/ ClaimProbe(w) BY <2>2 DEF ClaimNothing, ClaimProbe
  <2>3. ASSUME NEW r \in Runs, ClaimInvalid(w, r) PROVE Steady
    BY <2>3 DEF ClaimInvalid, IsHead, Queued
  <2>4. CASE Register(w) BY <2>4 DEF Register
  <2>5. ASSUME NEW o \in Outcomes, Execute(w, o) PROVE Steady BY <2>5 DEF Execute
  <2>6. CASE Unregister(w) BY <2>6 DEF Unregister
  <2>7. CASE Leave(w) BY <2>7 DEF Leave
  <2>8. CASE HandoffProbe(w) \/ HandoffSchedule(w) BY <2>8 DEF HandoffProbe, HandoffSchedule
  <2>9. CASE ClaimError(w) \/ HandoffError(w) BY <2>9 DEF ClaimError, HandoffError
  <2>10. CASE FinishRefused(w) BY <2>10 DEF FinishRefused
  <2>11. CASE FinishRun(w) BY <2>11 DEF FinishRun, Outcomes
  <2>12. QED
    BY <1>4, <2>1, <2>2, <2>3, <2>4, <2>5, <2>6, <2>7, <2>8, <2>9, <2>10, <2>11
    DEF Worker, Claim, Perform, Retire, WorkerFault
<1>5. ASSUME Watchdog PROVE Steady
  <2> USE DEF Fault, NoFault
  <2>1. CASE WatchdogTick
    <3>1. /\ UNCHANGED <<pc, wrun, proc>> /\ (faults' = 0 => faults = 0)
          /\ FailInvalidActiveRuns \/ UNCHANGED status
      BY <2>1 DEF WatchdogTick
    <3>2. QED BY <3>1 DEF Steady, FailInvalidActiveRuns
  <2>2. CASE WatchdogList \/ WatchdogRest \/ \E e \in Envs : WatchdogVisit(e)
    <3>1. UNCHANGED <<status, pc, wrun, proc>> /\ (faults' = 0 => faults = 0)
      BY <2>2 DEF WatchdogList, WatchdogRest, WatchdogVisit
    <3>2. QED BY <3>1 DEF Steady
  <2>3. CASE recoverEnvironmentWorker
    <3>1. UNCHANGED <<status, wrun, proc, faults>>
      BY <2>3 DEF recoverEnvironmentWorker
    <3>2. UNCHANGED pc \/ \E w \in Workers : pc[w] = "idle" /\ pc' = [pc EXCEPT ![w] = "loop"]
      BY <2>3 DEF recoverEnvironmentWorker, Spawn
    <3>3. QED BY <3>1, <3>2 DEF Steady, Owning
  <2>4. QED BY <1>5, <2>1, <2>2, <2>3 DEF Watchdog
<1>6. CASE MarkRunningInterrupted
  BY <1>6 DEF MarkRunningInterrupted, RunningHasOwner
<1>7. ASSUME Start, ~MarkRunningInterrupted PROVE Steady
  <2>1. CASE Launch \/ StartList \/ StartDone
    BY <2>1 DEF Launch, StartList, StartDone, Steady, LivePhases
  <2>2. CASE StartReconcile
    BY <2>2 DEF StartReconcile, FailInvalidActiveRuns, Steady, LivePhases
  <2>3. ASSUME NEW e \in Envs, StartSchedule(e) PROVE Steady
    BY <2>3, ScheduleSteady DEF StartSchedule
  <2>4. QED BY <1>7, <2>1, <2>2, <2>3 DEF Start
<1>8. CASE StartError \/ Crash \/ Exit
  BY <1>8 DEF StartError, Crash, Exit, ProcessGone, RunningHasOwner
<1>9. ASSUME Close \/ (\E e \in Envs : HeartbeatStale(e)) \/ UNCHANGED vars PROVE Steady
  BY <1>9 DEF Close, HeartbeatStale, vars, Steady, LivePhases
<1>10. QED
  <2>1. ASSUME NEW w \in Workers, Worker(w) PROVE RunningHasOwner'
    BY <2>1, <1>2, <1>3, <1>4, SteadyKeepsOwners
  <2>2. QED
    BY <2>1, <1>1, <1>5, <1>6, <1>7, <1>8, <1>9, SteadyKeepsOwners DEF Next, Foreground

\* No run is "running" without a goroutine that will finish it, whatever stops,
\* crashes and restarts happen, as long as no database call fails.
THEOREM RunningRunsHaveOwners == Spec => []RunningHasOwner
<1>1. Init => RunningHasOwner
  BY DEF Init, RunningHasOwner
<1>2. TypeOK /\ RunningHasOwner /\ [Next]_vars => RunningHasOwner'
  BY OwnerStep
<1>3. QED
  BY <1>1, <1>2, TypeCorrect, PTL DEF Spec

\* Starting an idle worker for an environment, the registration included.
LEMMA SpawnRegisters ==
  ASSUME TypeOK, RegistryNamesLiveWorker, NEW e \in Envs \cup {NoEnv}, NEW w \in Workers,
         Spawn(e, w), pc' = [pc EXCEPT ![w] = "loop"]
  PROVE  RegistryNamesLiveWorker'
  BY WorkersAssumption, EnvOfAssumption DEF TypeOK, RegistryNamesLiveWorker, Spawn

\* schedule keeps registrations pointing at live workers.
LEMMA ScheduleRegisters ==
  ASSUME TypeOK, RegistryNamesLiveWorker, NEW e \in Envs, schedule(e)
  PROVE  RegistryNamesLiveWorker'
<1>1. CASE UNCHANGED <<regVars, workerVars>>
  BY <1>1 DEF RegistryNamesLiveWorker, regVars, workerVars
<1>2. CASE registry[e] = NoWorker /\ ~UNCHANGED <<regVars, workerVars>>
  BY <1>2, SpawnRegisters DEF schedule
<1>3. QED
  BY <1>1, <1>2 DEF schedule

\* Every step keeps registrations pointing at live workers.
LEMMA RegistryStep ==
  ASSUME TypeOK, RegistryNamesLiveWorker, [Next]_vars PROVE RegistryNamesLiveWorker'
<1> USE WorkersAssumption
    DEF TypeOK, db, regVars, workerVars, watchdogVars, clientVars, bounds, Goto
<1>1. CASE Client
  <2>1. ASSUME NEW r \in Runs, Notify(r) PROVE RegistryNamesLiveWorker'
    BY <2>1, ScheduleRegisters, EnvOfAssumption DEF Notify
  <2>2. CASE \E r \in Runs : CreateRun(r) \/ CancelRead(r) \/ CancelQueued(r) \/ CancelRunning(r)
                               \/ Tamper(r)
    <3>1. UNCHANGED <<registry, wenv, pc>>
      BY <2>2 DEF CreateRun, CancelRead, CancelQueued, CancelRunning, Tamper
    <3>2. QED BY <3>1 DEF RegistryNamesLiveWorker
  <2>3. QED BY <1>1, <2>1, <2>2 DEF Client
<1>2. ASSUME NEW w \in Workers, Worker(w) PROVE RegistryNamesLiveWorker'
  <2>1. CASE WorkerLoop(w) \/ Claim(w) \/ Perform(w) \/ ClaimError(w) \/ FinishRefused(w)
             \/ FinishLost(w)
    <3>1. /\ UNCHANGED <<registry, wenv>>
          /\ \E l \in WorkerPCs \ {"idle", "handoff", "reschedule"} : pc' = [pc EXCEPT ![w] = l]
      <4> USE DEF WorkerPCs, Owning, Attached
      <4>1. CASE WorkerLoop(w) BY <4>1 DEF WorkerLoop
      <4>2. CASE Claim(w) BY <4>2 DEF Claim, ClaimNothing, ClaimProbe, ClaimRun, ClaimInvalid
      <4>3. CASE Perform(w) BY <4>3 DEF Perform, Register, Execute, FinishRun, Unregister
      <4>4. CASE ClaimError(w) \/ FinishRefused(w) \/ FinishLost(w)
        BY <4>4 DEF ClaimError, FinishRefused, FinishLost
      <4>5. QED BY <2>1, <4>1, <4>2, <4>3, <4>4
    <3>2. QED BY <3>1 DEF RegistryNamesLiveWorker
  <2>2. CASE Leave(w)
    BY <2>2 DEF Leave, RegistryNamesLiveWorker
  <2>3. CASE HandoffProbe(w) \/ HandoffError(w)
    BY <2>3 DEF HandoffProbe, HandoffError, RegistryNamesLiveWorker
  <2>4. CASE HandoffSchedule(w)
    BY <2>4 DEF HandoffSchedule, RegistryNamesLiveWorker
  <2>5. QED BY <1>2, <2>1, <2>2, <2>3, <2>4 DEF Worker, Retire, WorkerFault
<1>3. CASE Watchdog
  <2>1. CASE WatchdogTick \/ WatchdogList \/ WatchdogRest \/ \E e \in Envs : WatchdogVisit(e)
    <3>1. UNCHANGED <<registry, wenv, pc>>
      BY <2>1 DEF WatchdogTick, WatchdogList, WatchdogRest, WatchdogVisit
    <3>2. QED BY <3>1 DEF RegistryNamesLiveWorker
  <2>2. CASE recoverEnvironmentWorker
    <3>1. CASE UNCHANGED <<registry, wenv, pc>>
      BY <3>1 DEF RegistryNamesLiveWorker
    <3>2. CASE ~UNCHANGED <<registry, wenv, pc>>
      BY <2>2, <3>2, SpawnRegisters DEF recoverEnvironmentWorker
    <3>3. QED BY <3>1, <3>2
  <2>3. QED BY <1>3, <2>1, <2>2 DEF Watchdog
<1>4. CASE Start
  <2>1. CASE Launch \/ MarkRunningInterrupted \/ StartReconcile \/ StartList \/ StartDone
    <3>1. UNCHANGED <<registry, wenv, pc>>
      BY <2>1 DEF Launch, MarkRunningInterrupted, StartReconcile, StartList, StartDone
    <3>2. QED BY <3>1 DEF RegistryNamesLiveWorker
  <2>2. ASSUME NEW e \in Envs, StartSchedule(e) PROVE RegistryNamesLiveWorker'
    BY <2>2, ScheduleRegisters DEF StartSchedule
  <2>3. QED BY <1>4, <2>1, <2>2 DEF Start
<1>5. CASE StartError \/ Crash \/ Exit
  BY <1>5 DEF StartError, Crash, Exit, ProcessGone, RegistryNamesLiveWorker
<1>6. CASE Close \/ (\E e \in Envs : HeartbeatStale(e)) \/ UNCHANGED vars
  <2>1. UNCHANGED <<registry, wenv, pc>>
    BY <1>6 DEF Close, HeartbeatStale, vars
  <2>2. QED BY <2>1 DEF RegistryNamesLiveWorker
<1>7. QED
  BY <1>1, <1>2, <1>3, <1>4, <1>5, <1>6 DEF Next, Foreground

\* schedule may trust a registration: it names a live worker of the environment.
THEOREM RegistrationsAreLive == Spec => []RegistryNamesLiveWorker
<1>1. Init => RegistryNamesLiveWorker
  BY DEF Init, RegistryNamesLiveWorker
<1>2. TypeOK /\ RegistryNamesLiveWorker /\ [Next]_vars => RegistryNamesLiveWorker'
  BY RegistryStep
<1>3. QED
  BY <1>1, <1>2, TypeCorrect, PTL DEF Spec
=============================================================================

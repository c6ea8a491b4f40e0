------------------------------ MODULE RunQueue ------------------------------
(***************************************************************************)
(* The environment FIFO: submission of a run, the per-environment workers  *)
(* that claim and execute queued runs, the watchdog that replaces stalled  *)
(* workers, user cancellation, storage faults, shutdown, crash and         *)
(* restart (internal/service/run_scheduler.go, run_executor.go,            *)
(* run_cancellation.go, internal/store/runs.go).                           *)
(*                                                                         *)
(* What a run does to its environment is abstract here: executing one ends *)
(* with an outcome.  A database statement or transaction is one step; two  *)
(* of them are never merged, so everything that may interleave does.       *)
(***************************************************************************)
EXTENDS Integers, FiniteSets

CONSTANTS
  Envs,        \* environments
  Runs,        \* runs, each named by the place of its identifier in their order
  EnvOf,       \* the environment a run targets
  CapturedAt,  \* the moment of its plan capture, in the clock's smallest unit
  Places,      \* the second and the decimal places of its fraction, in that unit
  Rollbacks,   \* the runs of kind environment_rollback
  Workers,     \* worker goroutines (tokens); bounds those alive at one time
  NoWorker, NoRun, NoEnv,
  Cancellable, \* bound: the runs somebody tries to cancel
  MaxCrashes,  \* bound: stops and crashes of the process
  MaxFaults,   \* bound: database calls that fail
  MaxTampers   \* bound: queued runs made invalid from outside

ASSUME RunsAssumption == Runs \subseteq Nat /\ NoRun \notin Runs
ASSUME EnvOfAssumption == EnvOf \in [Runs -> Envs] /\ NoEnv \notin Envs
ASSUME CapturedAtAssumption == CapturedAt \in [Runs -> Nat] /\ Places \subseteq Nat \ {0}
ASSUME WorkersAssumption == NoWorker \notin Workers
ASSUME RollbacksAssumption == Rollbacks \subseteq Runs
ASSUME BoundsAssumption == MaxCrashes \in Nat /\ MaxFaults \in Nat /\ MaxTampers \in Nat

VARIABLES
  \* the database
  status,      \* runs.status of every run, "absent" before its insert
  corrupt,     \* runs whose row fails the active-run validation
  \* the process
  proc,        \* phase of the process
  registry,    \* scheduler.workers: the worker registered for an environment
  fresh,       \* its heartbeat is younger than queueWorkerStaleAfter
  pc, wenv, wrun, outcome,     \* the worker goroutines
  wd, todo, target,            \* the watchdog (and the start-up loop)
  notify,      \* committed runs whose creator has not called schedule yet
  seen,        \* the status a cancel request has read
  stopped,     \* runs whose execution context was cancelled
  \* bounds
  crashes, faults, tampers

db == <<status, corrupt>>
workerVars == <<pc, wenv, wrun, outcome>>
watchdogVars == <<wd, todo, target>>
regVars == <<registry, fresh>>
clientVars == <<notify, seen, stopped>>
bounds == <<crashes, faults, tampers>>
vars == <<db, proc, regVars, workerVars, watchdogVars, clientVars, bounds>>

Terminal == {"succeeded", "failed", "cancelled", "interrupted"}
Active == {"queued", "running"}
Statuses == {"absent"} \cup Active \cup Terminal
Outcomes == {"succeeded", "failed", "cancelled"}
\* The worker owns wrun from its claim to the end of executeRun; it is attached
\* (executionControl.active) from register to unregister.
Owning == {"start", "exec", "finish", "refinish"}
Attached == {"exec", "finish", "refinish", "done"}
WorkerPCs == {"idle", "loop", "claim", "probe", "leave", "leaveEmpty", "handoff", "reschedule"}
               \cup Owning \cup Attached
Phases == {"down", "interrupt", "reconcile", "list", "schedule", "up", "closing"}

-----------------------------------------------------------------------------
(* Queries *)

Queued(e) == {r \in Runs : EnvOf[r] = e /\ status[r] = "queued"}
HasRunning(e) == \E r \in Runs : EnvOf[r] = e /\ status[r] = "running"
QueuedEnvs == {e \in Envs : Queued(e) # {}}

\* timeText writes created_at without the fraction's trailing zeros: the digits
\* of a are those of b cut off at one of the places.
CutsOff(a, b) == a # b /\ \E p \in Places : a = b - (b % p)

\* The order of those texts.  The closing 'Z' sorts after '.' and after every
\* digit, so a text comes after the longer ones that begin with its digits.
TextBefore(a, b) == CutsOff(b, a) \/ (a < b /\ ~CutsOff(a, b))

Before(r, q) ==
  \/ TextBefore(CapturedAt[r], CapturedAt[q])
  \/ CapturedAt[r] = CapturedAt[q] /\ r < q

\* ORDER BY created_at,id LIMIT 1
IsHead(r, e) == r \in Queued(e) /\ \A q \in Queued(e) \ {r} : Before(r, q)

\* Mutant: only the run that enters is asked whether it is a rollback.
FenceChecksNewRun(r) ==
  \A q \in Runs \ {r} : (EnvOf[q] = EnvOf[r] /\ status[q] \in Active) => r \notin Rollbacks

\* The triggers runs_environment_rollback_fence_insert/_update: an environment
\* rollback is the only active run of its environment.
FenceOpen(r) ==
  \A q \in Runs \ {r} :
    (EnvOf[q] = EnvOf[r] /\ status[q] \in Active) => (r \notin Rollbacks /\ q \notin Rollbacks)

RootAlive == proc # "closing"
Fault == faults < MaxFaults /\ faults' = faults + 1
NoFault == faults' = faults

-----------------------------------------------------------------------------
(* Worker registration *)

\* A new token replaces whatever is registered and a goroutine is started.
Spawn(e, w) ==
  /\ pc[w] = "idle"
  /\ registry' = [registry EXCEPT ![e] = w]
  /\ fresh' = [fresh EXCEPT ![e] = TRUE]
  /\ wenv' = [wenv EXCEPT ![w] = e]

\* schedule: start a worker unless one is registered.
schedule(e) ==
  \/ /\ registry[e] # NoWorker
     /\ UNCHANGED <<regVars, workerVars>>
  \/ /\ registry[e] = NoWorker
     /\ \E w \in Workers :
          /\ Spawn(e, w)
          /\ pc' = [pc EXCEPT ![w] = "loop"]
     /\ UNCHANGED <<wrun, outcome>>

touch(w) ==
  fresh' = IF registry[wenv[w]] = w THEN [fresh EXCEPT ![wenv[w]] = TRUE] ELSE fresh

\* Ten seconds pass without a touch.
HeartbeatStale(e) ==
  /\ registry[e] # NoWorker
  /\ fresh[e]
  /\ fresh' = [fresh EXCEPT ![e] = FALSE]
  /\ UNCHANGED <<db, proc, registry, workerVars, watchdogVars, clientVars, bounds>>

-----------------------------------------------------------------------------
(* Clients *)

\* CreateRun commits a queued run; its created_at is the moment of plan capture.
CreateRun(r) ==
  /\ proc \in {"up", "closing"}
  /\ status[r] = "absent"
  /\ FenceOpen(r)
  /\ status' = [status EXCEPT ![r] = "queued"]
  /\ notify' = notify \cup {r}
  /\ UNCHANGED <<corrupt, proc, regVars, workerVars, watchdogVars, seen, stopped, bounds>>

\* The creator then calls schedule, in another step.
Notify(r) ==
  /\ r \in notify
  /\ notify' = notify \ {r}
  /\ schedule(EnvOf[r])
  /\ UNCHANGED <<db, proc, watchdogVars, seen, stopped, bounds>>

\* CancelRun reads the run, then acts on the status it read.
CancelRead(r) ==
  /\ proc \in {"up", "closing"}
  /\ r \in Cancellable
  /\ seen[r] = "none"
  /\ status[r] \in Active
  /\ seen' = [seen EXCEPT ![r] = status[r]]
  /\ UNCHANGED <<db, proc, regVars, workerVars, watchdogVars, notify, stopped, bounds>>

\* Mutant: the statement cancels a run that has been claimed in the meantime.
CancelActive(r) ==
  /\ seen[r] = "queued"
  /\ seen' = [seen EXCEPT ![r] = "none"]
  /\ status' = IF status[r] \in Active THEN [status EXCEPT ![r] = "cancelled"] ELSE status
  /\ UNCHANGED <<corrupt, proc, regVars, workerVars, watchdogVars, notify, stopped, bounds>>

\* Mutant: the statement has no condition on the status.
CancelUnchecked(r) ==
  /\ seen[r] = "queued"
  /\ seen' = [seen EXCEPT ![r] = "none"]
  /\ status' = [status EXCEPT ![r] = "cancelled"]
  /\ UNCHANGED <<corrupt, proc, regVars, workerVars, watchdogVars, notify, stopped, bounds>>

CancelQueued(r) ==
  /\ seen[r] = "queued"
  /\ seen' = [seen EXCEPT ![r] = "none"]
  /\ status' = IF status[r] = "queued" THEN [status EXCEPT ![r] = "cancelled"] ELSE status
  /\ UNCHANGED <<corrupt, proc, regVars, workerVars, watchdogVars, notify, stopped, bounds>>

IsAttached(r) == \E w \in Workers : pc[w] \in Attached /\ wrun[w] = r

CancelRunning(r) ==
  /\ seen[r] = "running"
  /\ seen' = [seen EXCEPT ![r] = "none"]
  /\ stopped' = IF IsAttached(r) THEN stopped \cup {r} ELSE stopped
  /\ UNCHANGED <<db, proc, regVars, workerVars, watchdogVars, notify, bounds>>

\* A referenced row disappears or the row is edited outside the platform.
Tamper(r) ==
  /\ tampers < MaxTampers
  /\ status[r] = "queued"
  /\ corrupt' = corrupt \cup {r}
  /\ tampers' = tampers + 1
  /\ UNCHANGED <<status, proc, regVars, workerVars, watchdogVars, clientVars, crashes, faults>>

-----------------------------------------------------------------------------
(* The worker goroutine: environmentWorker, ClaimNextRun, executeRun *)

Goto(w, label) == pc' = [pc EXCEPT ![w] = label]

WorkerLoop(w) ==
  /\ pc[w] = "loop"
  /\ \/ ~RootAlive /\ Goto(w, "leave") /\ UNCHANGED fresh
     \/ RootAlive /\ touch(w) /\ Goto(w, "claim")
  /\ UNCHANGED <<db, proc, registry, wenv, wrun, outcome, watchdogVars, clientVars, bounds>>

\* Mutant: the claim does not look for a running run.
ClaimWhileRunning(w, r) ==
  /\ pc[w] = "claim"
  /\ RootAlive
  /\ IsHead(r, wenv[w])
  /\ FenceOpen(r)
  /\ r \notin corrupt
  /\ status' = [status EXCEPT ![r] = "running"]
  /\ wrun' = [wrun EXCEPT ![w] = r]
  /\ Goto(w, "start")
  /\ UNCHANGED <<corrupt, proc, regVars, wenv, outcome, watchdogVars, clientVars, bounds>>

\* UPDATE ... RETURNING picks the head of the queue if nothing is running.
ClaimRun(w, r) ==
  /\ pc[w] = "claim"
  /\ RootAlive
  /\ IsHead(r, wenv[w])
  /\ ~HasRunning(wenv[w])
  /\ FenceOpen(r)
  /\ r \notin corrupt
  /\ status' = [status EXCEPT ![r] = "running"]
  /\ wrun' = [wrun EXCEPT ![w] = r]
  /\ Goto(w, "start")
  /\ UNCHANGED <<corrupt, proc, regVars, wenv, outcome, watchdogVars, clientVars, bounds>>

\* The claimed row does not validate: the same transaction fails the run.
ClaimInvalid(w, r) ==
  /\ pc[w] = "claim"
  /\ RootAlive
  /\ IsHead(r, wenv[w])
  /\ ~HasRunning(wenv[w])
  /\ FenceOpen(r)
  /\ r \in corrupt
  /\ status' = [status EXCEPT ![r] = "failed"]
  /\ Goto(w, "leave")
  /\ UNCHANGED <<corrupt, proc, regVars, wenv, wrun, outcome, watchdogVars, clientVars, bounds>>

ClaimNothing(w) ==
  /\ pc[w] = "claim"
  /\ RootAlive
  /\ Queued(wenv[w]) = {} \/ HasRunning(wenv[w])
  /\ Goto(w, "probe")
  /\ UNCHANGED <<db, proc, regVars, wenv, wrun, outcome, watchdogVars, clientVars, bounds>>

\* A storage error, or the cancelled root context, ends the worker without a
\* hand-off.
ClaimError(w) ==
  /\ pc[w] \in {"claim", "probe"}
  /\ IF RootAlive THEN Fault ELSE NoFault
  /\ Goto(w, "leave")
  /\ UNCHANGED <<db, proc, regVars, wenv, wrun, outcome, watchdogVars, clientVars, crashes, tampers>>

\* After an empty claim: ErrConflict if a run is running, else ErrNotFound.
ClaimProbe(w) ==
  /\ pc[w] = "probe"
  /\ RootAlive
  /\ Goto(w, IF HasRunning(wenv[w]) THEN "leave" ELSE "leaveEmpty")
  /\ UNCHANGED <<db, proc, regVars, wenv, wrun, outcome, watchdogVars, clientVars, bounds>>

\* executeRun registers its cancel function; its context derives from the root.
Register(w) ==
  /\ pc[w] = "start"
  /\ Goto(w, "exec")
  /\ UNCHANGED <<db, proc, regVars, wenv, wrun, outcome, watchdogVars, clientVars, bounds>>

\* Validation, delivery and the job end.  A cancelled context may come too
\* late; only a cancelled context yields "cancelled".
Execute(w, o) ==
  /\ pc[w] = "exec"
  /\ o = "cancelled" => (wrun[w] \in stopped \/ ~RootAlive)
  /\ outcome' = [outcome EXCEPT ![w] = o]
  /\ Goto(w, "finish")
  /\ UNCHANGED <<db, proc, regVars, wenv, wrun, watchdogVars, clientVars, bounds>>

\* UpdateRunStatus(running -> outcome) in finishRun, first and second attempt.
FinishRun(w) ==
  /\ pc[w] \in {"finish", "refinish"}
  /\ status[wrun[w]] = "running"
  /\ status' = [status EXCEPT ![wrun[w]] = outcome[w]]
  /\ Goto(w, "done")
  /\ UNCHANGED <<corrupt, proc, regVars, wenv, wrun, outcome, watchdogVars, clientVars, bounds>>

\* The success transaction is refused (missing evidence) or hits a fault: the
\* run is to be failed instead.
FinishRefused(w) ==
  /\ pc[w] = "finish"
  /\ outcome[w] = "succeeded"
  /\ outcome' = [outcome EXCEPT ![w] = "failed"]
  /\ Goto(w, "refinish")
  /\ UNCHANGED <<db, proc, regVars, wenv, wrun, watchdogVars, clientVars, bounds>>

\* A fault in a write that is not tried again: the run stays "running".
FinishLost(w) ==
  /\ \/ pc[w] = "finish" /\ outcome[w] # "succeeded"
     \/ pc[w] = "refinish"
  /\ Fault
  /\ Goto(w, "done")
  /\ UNCHANGED <<db, proc, regVars, wenv, wrun, outcome, watchdogVars, clientVars, crashes, tampers>>

\* executeRun returns: unregister, touch, next round of the loop.
Unregister(w) ==
  /\ pc[w] = "done"
  /\ touch(w)
  /\ stopped' = stopped \ {wrun[w]}
  /\ wrun' = [wrun EXCEPT ![w] = NoRun]
  /\ outcome' = [outcome EXCEPT ![w] = "failed"]
  /\ Goto(w, "loop")
  /\ UNCHANGED <<db, proc, registry, wenv, watchdogVars, notify, seen, bounds>>

\* Mutant: the registration is removed only when the queue looked empty.
LeaveRegistered(w) ==
  /\ pc[w] \in {"leave", "leaveEmpty"}
  /\ IF registry[wenv[w]] = w /\ pc[w] = "leaveEmpty"
       THEN /\ registry' = [registry EXCEPT ![wenv[w]] = NoWorker]
            /\ fresh' = [fresh EXCEPT ![wenv[w]] = FALSE]
       ELSE UNCHANGED regVars
  /\ Goto(w, IF pc[w] = "leaveEmpty" /\ RootAlive THEN "handoff" ELSE "idle")
  /\ UNCHANGED <<db, proc, wenv, wrun, outcome, watchdogVars, clientVars, bounds>>

\* The deferred function: remove the registration if it is still this worker's,
\* then look again for work if the last claim was empty.
Leave(w) ==
  /\ pc[w] \in {"leave", "leaveEmpty"}
  /\ IF registry[wenv[w]] = w
       THEN /\ registry' = [registry EXCEPT ![wenv[w]] = NoWorker]
            /\ fresh' = [fresh EXCEPT ![wenv[w]] = FALSE]
       ELSE UNCHANGED regVars
  /\ Goto(w, IF pc[w] = "leaveEmpty" /\ RootAlive THEN "handoff" ELSE "idle")
  /\ UNCHANGED <<db, proc, wenv, wrun, outcome, watchdogVars, clientVars, bounds>>

HandoffProbe(w) ==
  /\ pc[w] = "handoff"
  /\ Goto(w, IF HasRunning(wenv[w]) THEN "idle" ELSE "reschedule")
  /\ UNCHANGED <<db, proc, regVars, wenv, wrun, outcome, watchdogVars, clientVars, bounds>>

\* Mutant: the leaving worker does not look for runs that came too late for it.
HandoffForgotten(w) ==
  /\ pc[w] = "reschedule"
  /\ Goto(w, "idle")
  /\ UNCHANGED <<db, proc, regVars, wenv, wrun, outcome, watchdogVars, clientVars, bounds>>

\* schedule, from the goroutine that ends here: the new worker takes its name.
HandoffSchedule(w) ==
  /\ pc[w] = "reschedule"
  /\ IF Queued(wenv[w]) # {} /\ registry[wenv[w]] = NoWorker
       THEN /\ registry' = [registry EXCEPT ![wenv[w]] = w]
            /\ fresh' = [fresh EXCEPT ![wenv[w]] = TRUE]
            /\ Goto(w, "loop")
       ELSE Goto(w, "idle") /\ UNCHANGED regVars
  /\ UNCHANGED <<db, proc, wenv, wrun, outcome, watchdogVars, clientVars, bounds>>

HandoffError(w) ==
  /\ pc[w] \in {"handoff", "reschedule"}
  /\ Fault
  /\ Goto(w, "idle")
  /\ UNCHANGED <<db, proc, regVars, wenv, wrun, outcome, watchdogVars, clientVars, crashes, tampers>>

-----------------------------------------------------------------------------
(* FailInvalidActiveRuns and the watchdog: queueWatchdog, reconcileQueue,    *)
(* recoverEnvironmentWorker                                                  *)

FailInvalidActiveRuns ==
  status' = [r \in Runs |-> IF status[r] = "queued" /\ r \in corrupt THEN "failed" ELSE status[r]]

WatchdogTick ==
  /\ wd = "wait" /\ RootAlive
  /\ wd' = "list"
  /\ \/ FailInvalidActiveRuns /\ NoFault
     \/ UNCHANGED status /\ Fault
  /\ UNCHANGED <<corrupt, proc, regVars, workerVars, todo, target, clientVars, crashes, tampers>>

WatchdogList ==
  /\ wd = "list"
  /\ \/ wd' = "visit" /\ todo' = QueuedEnvs /\ NoFault /\ RootAlive
     \/ wd' = "wait" /\ UNCHANGED todo /\ Fault
     \/ wd' = "wait" /\ UNCHANGED todo /\ NoFault /\ ~RootAlive
  /\ UNCHANGED <<db, proc, regVars, workerVars, target, clientVars, crashes, tampers>>

\* The environments are visited one by one; a running run or an error skips one.
WatchdogVisit(e) ==
  /\ wd = "visit" /\ e \in todo
  /\ todo' = todo \ {e}
  /\ \/ /\ RootAlive /\ ~HasRunning(e)
        /\ wd' = "spawn" /\ target' = e /\ NoFault
     \/ /\ HasRunning(e) \/ ~RootAlive
        /\ UNCHANGED <<wd, target>> /\ NoFault
     \/ UNCHANGED <<wd, target>> /\ Fault
  /\ UNCHANGED <<db, proc, regVars, workerVars, clientVars, crashes, tampers>>

WatchdogRest ==
  /\ wd = "visit" /\ todo = {}
  /\ wd' = "wait"
  /\ UNCHANGED <<db, proc, regVars, workerVars, todo, target, clientVars, bounds>>

\* Mutant: only a stale registration is repaired, a missing one is not.
RecoverStaleOnly ==
  /\ wd = "spawn"
  /\ wd' = "visit" /\ target' = NoEnv
  /\ \/ /\ registry[target] = NoWorker \/ fresh[target]
        /\ UNCHANGED <<regVars, workerVars>>
     \/ /\ registry[target] # NoWorker /\ ~fresh[target]
        /\ \E w \in Workers : Spawn(target, w) /\ pc' = [pc EXCEPT ![w] = "loop"]
        /\ UNCHANGED <<wrun, outcome>>
  /\ UNCHANGED <<db, proc, todo, clientVars, bounds>>

\* A worker that is registered and fresh stays; any other is replaced.
recoverEnvironmentWorker ==
  /\ wd = "spawn"
  /\ wd' = "visit" /\ target' = NoEnv
  /\ \/ /\ registry[target] # NoWorker /\ fresh[target]
        /\ UNCHANGED <<regVars, workerVars>>
     \/ /\ registry[target] = NoWorker \/ ~fresh[target]
        /\ \E w \in Workers : Spawn(target, w) /\ pc' = [pc EXCEPT ![w] = "loop"]
        /\ UNCHANGED <<wrun, outcome>>
  /\ UNCHANGED <<db, proc, todo, clientVars, bounds>>

-----------------------------------------------------------------------------
(* Process life cycle *)

\* Everything in memory is gone.
ProcessGone ==
  /\ proc' = "down"
  /\ registry' = [e \in Envs |-> NoWorker]
  /\ fresh' = [e \in Envs |-> FALSE]
  /\ pc' = [w \in Workers |-> "idle"]
  /\ wenv' = [w \in Workers |-> NoEnv]
  /\ wrun' = [w \in Workers |-> NoRun]
  /\ outcome' = [w \in Workers |-> "failed"]
  /\ wd' = "off" /\ todo' = {} /\ target' = NoEnv
  /\ notify' = {} /\ seen' = [r \in Runs |-> "none"] /\ stopped' = {}
  /\ UNCHANGED db

Crash ==
  /\ proc # "down"
  /\ crashes < MaxCrashes
  /\ crashes' = crashes + 1
  /\ ProcessGone
  /\ UNCHANGED <<faults, tampers>>

\* Platform.Close cancels the root context, from which every run's derives;
\* main returns without waiting for the workers.
Close ==
  /\ proc = "up"
  /\ crashes < MaxCrashes
  /\ crashes' = crashes + 1
  /\ proc' = "closing"
  /\ UNCHANGED <<db, regVars, workerVars, watchdogVars, clientVars, faults, tampers>>

Exit ==
  /\ proc = "closing"
  /\ ProcessGone
  /\ UNCHANGED bounds

Launch ==
  /\ proc = "down"
  /\ proc' = "interrupt"
  /\ UNCHANGED <<db, regVars, workerVars, watchdogVars, clientVars, bounds>>

\* Mutant: the start leaves the runs of the dead process "running".
InterruptNothing ==
  /\ proc = "interrupt"
  /\ proc' = "reconcile"
  /\ UNCHANGED <<db, regVars, workerVars, watchdogVars, clientVars, bounds>>

\* RunScheduler.Start: every "running" run belongs to the dead process.
MarkRunningInterrupted ==
  /\ proc = "interrupt"
  /\ status' = [r \in Runs |-> IF status[r] = "running" THEN "interrupted" ELSE status[r]]
  /\ proc' = "reconcile"
  /\ UNCHANGED <<corrupt, regVars, workerVars, watchdogVars, clientVars, bounds>>

StartReconcile ==
  /\ proc = "reconcile"
  /\ FailInvalidActiveRuns
  /\ proc' = "list"
  /\ UNCHANGED <<corrupt, regVars, workerVars, watchdogVars, clientVars, bounds>>

StartList ==
  /\ proc = "list"
  /\ todo' = QueuedEnvs
  /\ proc' = "schedule"
  /\ UNCHANGED <<db, regVars, workerVars, wd, target, clientVars, bounds>>

\* A failed start-up statement makes main return.
StartError ==
  /\ proc \in {"interrupt", "reconcile", "list"}
  /\ Fault
  /\ ProcessGone
  /\ UNCHANGED <<crashes, tampers>>

StartSchedule(e) ==
  /\ proc = "schedule" /\ e \in todo
  /\ todo' = todo \ {e}
  /\ schedule(e)
  /\ UNCHANGED <<db, proc, wd, target, clientVars, bounds>>

StartDone ==
  /\ proc = "schedule" /\ todo = {}
  /\ proc' = "up" /\ wd' = "wait"
  /\ UNCHANGED <<db, regVars, workerVars, todo, target, clientVars, bounds>>

-----------------------------------------------------------------------------
Init ==
  /\ status = [r \in Runs |-> "absent"]
  /\ corrupt = {}
  /\ proc = "down"
  /\ registry = [e \in Envs |-> NoWorker]
  /\ fresh = [e \in Envs |-> FALSE]
  /\ pc = [w \in Workers |-> "idle"]
  /\ wenv = [w \in Workers |-> NoEnv]
  /\ wrun = [w \in Workers |-> NoRun]
  /\ outcome = [w \in Workers |-> "failed"]
  /\ wd = "off" /\ todo = {} /\ target = NoEnv
  /\ notify = {} /\ seen = [r \in Runs |-> "none"] /\ stopped = {}
  /\ crashes = 0 /\ faults = 0 /\ tampers = 0

Client ==
  \E r \in Runs : CreateRun(r) \/ Notify(r) \/ CancelRead(r) \/ CancelQueued(r)
                    \/ CancelRunning(r) \/ Tamper(r)

Claim(w) == ClaimNothing(w) \/ ClaimProbe(w) \/ \E r \in Runs : ClaimRun(w, r) \/ ClaimInvalid(w, r)

Perform(w) == Register(w) \/ (\E o \in Outcomes : Execute(w, o)) \/ FinishRun(w) \/ Unregister(w)

Retire(w) == Leave(w) \/ HandoffProbe(w) \/ HandoffSchedule(w)

WorkerFault(w) == ClaimError(w) \/ FinishRefused(w) \/ FinishLost(w) \/ HandoffError(w)

Worker(w) == WorkerLoop(w) \/ Claim(w) \/ Perform(w) \/ Retire(w) \/ WorkerFault(w)

Watchdog ==
  WatchdogTick \/ WatchdogList \/ WatchdogRest \/ recoverEnvironmentWorker
    \/ \E e \in Envs : WatchdogVisit(e)

Start ==
  Launch \/ MarkRunningInterrupted \/ StartReconcile \/ StartList \/ StartDone
    \/ \E e \in Envs : StartSchedule(e)

Foreground ==
  \/ Client
  \/ \E w \in Workers : Worker(w)
  \/ Start
  \/ StartError
  \/ \E e \in Envs : HeartbeatStale(e)
  \/ Crash \/ Close \/ Exit

Next == Foreground \/ Watchdog

Spec == Init /\ [][Next]_vars

\* Goroutines are scheduled, jobs end (each has a timeout), the supervisor
\* restarts the process, a creator that committed goes on to schedule.
LiveWorkers ==
  /\ \A w \in Workers : WF_vars(WorkerLoop(w) \/ Claim(w) \/ Perform(w) \/ Retire(w) \/ ClaimError(w))
  /\ \A r \in Runs : WF_vars(Notify(r))
  /\ WF_vars(Start) /\ WF_vars(Exit)
FairSpec == Spec /\ LiveWorkers /\ WF_vars(Watchdog)

-----------------------------------------------------------------------------
(* Properties *)

TypeOK ==
  /\ status \in [Runs -> Statuses]
  /\ corrupt \subseteq Runs
  /\ proc \in Phases
  /\ registry \in [Envs -> Workers \cup {NoWorker}]
  /\ fresh \in [Envs -> BOOLEAN]
  /\ pc \in [Workers -> WorkerPCs]
  /\ wenv \in [Workers -> Envs \cup {NoEnv}]
  /\ wrun \in [Workers -> Runs \cup {NoRun}]
  /\ outcome \in [Workers -> Outcomes]
  /\ wd \in {"off", "wait", "list", "visit", "spawn"}
  /\ todo \subseteq Envs
  /\ target \in Envs \cup {NoEnv}
  /\ notify \subseteq Runs
  /\ seen \in [Runs -> {"none"} \cup Active]
  /\ stopped \subseteq Runs
  /\ crashes \in 0..MaxCrashes /\ faults \in 0..MaxFaults /\ tampers \in 0..MaxTampers

\* An environment never has two running runs, however many workers the watchdog
\* and the hand-off have started for it (ClaimNextRun).
OneRunningPerEnv ==
  \A q, r \in Runs :
    (status[q] = "running" /\ status[r] = "running" /\ EnvOf[q] = EnvOf[r]) => q = r

\* Whoever executes a run owns it in the database: from the claim to the final
\* status write the run is "running", and no other goroutine executes it.
ExecutorOwnsRun ==
  \A w \in Workers : pc[w] \in Owning =>
    /\ wrun[w] \in Runs
    /\ status[wrun[w]] = "running"
    /\ \A v \in Workers : (pc[v] \in Owning /\ wrun[v] = wrun[w]) => v = w

\* Outside start-up a running run has a goroutine that will finish it, as long
\* as no database call has failed: a crash leaves no run "running" for good.
RunningHasOwner ==
  (faults = 0 /\ proc \in {"reconcile", "list", "schedule", "up", "closing"}) =>
    \A r \in Runs : status[r] = "running" =>
      \E w \in Workers : pc[w] \in Owning /\ wrun[w] = r

\* An active environment rollback is the only active run of its environment.
RollbackExclusive ==
  \A q, r \in Runs :
    (q # r /\ EnvOf[q] = EnvOf[r] /\ status[q] \in Active /\ status[r] \in Active)
      => q \notin Rollbacks

\* A registration always names a goroutine of that environment that is alive
\* and will remove it, so that schedule can trust it and start nothing.
RegistryNamesLiveWorker ==
  \A e \in Envs : registry[e] # NoWorker =>
    pc[registry[e]] \notin {"idle", "handoff", "reschedule"} /\ wenv[registry[e]] = e

\* The start-up statements run before any worker, watchdog or client does.
StartsAlone ==
  proc \in {"down", "interrupt", "reconcile", "list"} =>
    wd = "off" /\ notify = {} /\ \A w \in Workers : pc[w] = "idle"

\* The inductive invariant behind the safety properties above.
IInv ==
  TypeOK /\ OneRunningPerEnv /\ ExecutorOwnsRun /\ RollbackExclusive
    /\ RegistryNamesLiveWorker /\ StartsAlone

\* A terminal status is final, whoever races: cancel, finish, reconcile,
\* restart, a second worker.
TerminalIsFinal ==
  [][\A r \in Runs : status[r] \in Terminal => status'[r] = status[r]]_status

\* Runs of an environment start in the order of their capture: no queued run is
\* overtaken by one captured later (docs/backend-design.md, section 7.7).  The
\* claim compares texts, and the text of a full second, without a fraction,
\* sorts after the texts of all other moments of that second.
StartsInOrder ==
  [][\A q, r \in Runs :
       (status[r] = "queued" /\ status'[r] = "running" /\ EnvOf[q] = EnvOf[r]
          /\ CapturedAt[q] < CapturedAt[r])
         => status[q] # "queued"]_status

\* A running run without a goroutine: its final status write was lost.
Wedged(e) ==
  \E r \in Runs : EnvOf[r] = e /\ status[r] = "running"
    /\ ~\E w \in Workers : pc[w] \in Owning /\ wrun[w] = r

\* Again and again no run waits in the queue, unless its environment is wedged by
\* a lost final write, in which case only a restart helps.  Runs are finitely many
\* and are queued once, so each of them leaves the queue.
QueueDrains ==
  []<>(\A r \in Runs : status[r] = "queued" => Wedged(EnvOf[r]))
=============================================================================

----------------------------- MODULE Environments -----------------------------
(* Environments and their numbered revisions, what refers to them (runs,    *)
(* image builds, checks), and the branches of releases and scenarios whose  *)
(* scope names the same options. A request reads the environment, checks    *)
(* its new snapshot and reads the next number, in one order or the other,   *)
(* and commits: four moments at which others may come between. A            *)
(* transaction takes the writer slot before it reads (beginCatalogWrite),   *)
(* so it is one step.                                                       *)
EXTENDS PlatformOptions

CONSTANTS Envs, Branches, Jobs, Writers,
          Snapshots,     \* facts and host groups a request may ask for
          Scopes,        \* constraints a branch may have
          MaxRevision    \* bound: revisions of an environment

ASSUME EnvironmentsAssumption ==
    /\ MaxRevision \in Nat \ {0} /\ Envs # {}
    /\ Snapshots \subseteq SUBSET Options /\ Scopes \subseteq SUBSET Options

VARIABLES env,        \* status, current revision, installed components
          revision,   \* environment -> number -> snapshot or NoRevision
          scope,      \* branch -> its fixed scope, or NoScope
          job,        \* runs and builds: the revision each one names
          check,      \* health and SSH checks stored, and those under way
          writer      \* requests that create a revision

envVars == <<env, revision, scope, job, check, writer, optionVars>>

Numbers == 1..MaxRevision
Revisions == [stored : BOOLEAN, values : SUBSET Options, base : 0..MaxRevision, source : 0..MaxRevision]
Requests == [step : {"idle", "read", "checked", "numbered", "ready"}, env : Envs, seen : 0..MaxRevision, next : 0..MaxRevision,
             values : SUBSET Options, source : 0..MaxRevision]
NoRevision == [stored |-> FALSE, values |-> {}, base |-> 0, source |-> 0]
NoScope    == [stored |-> FALSE, values |-> {}]
NoJob      == [status |-> "none", kind |-> "run", env |-> CHOOSE e \in Envs : TRUE, revision |-> 0]
NoWriter  == [step |-> "idle", env |-> CHOOSE e \in Envs : TRUE, seen |-> 0, next |-> 0,
               values |-> {}, source |-> 0]

Stored(e) == {n \in Numbers : revision[e][n].stored}
Newest(e) == CHOOSE n \in Stored(e) \cup {0} : \A m \in Stored(e) : m <= n
CurrentRevision(e) == revision[e][env[e].current]
Present(e) == env[e].status \in {"active", "archived"}
UsersOf(e) == {j \in Jobs : job[j].status # "none" /\ job[j].env = e}
ActiveUsers(e) == {j \in UsersOf(e) : job[j].status = "active"}

\* loadPlatformReferenceIndex: every stored row, however old.
References ==
    UNION ({revision[e][n].values : e \in Envs, n \in Numbers}
           \cup {scope[b].values : b \in Branches})

EnvironmentsInit ==
    /\ OptionsInit
    /\ env = [e \in Envs |-> [status |-> "absent", current |-> 0, installed |-> FALSE]]
    /\ revision = [e \in Envs |-> [n \in Numbers |-> NoRevision]]
    /\ scope = [b \in Branches |-> NoScope]
    /\ job = [j \in Jobs |-> NoJob]
    /\ check = [stored |-> {}, running |-> {}]
    /\ writer = [w \in Writers |-> NoWriter]

-----------------------------------------------------------------------------
(* Creating an environment, and the requests that add a revision            *)

\* Create and Import into a new environment: everything is checked again in
\* the transaction, against no previous revision.
CreateEnvironment(e, V) ==
    /\ env[e].status = "absent"
    /\ ValidateFacts(V, TRUE) /\ ValidateChanges(V, {})
    /\ env' = [env EXCEPT ![e] = [status |-> "active", current |-> 1, installed |-> FALSE]]
    /\ revision' = [revision EXCEPT ![e][1] = [NoRevision EXCEPT !.stored = TRUE, !.values = V]]
    /\ UNCHANGED <<scope, job, check, writer, optionVars>>

\* GetEnvironment: the request goes on with the revision it has seen.
ReadEnvironment(w, e) ==
    /\ writer[w].step = "idle" /\ env[e].status = "active"
    /\ writer' = [writer EXCEPT ![w] = [NoWriter EXCEPT !.step = "read", !.env = e,
                                            !.seen = env[e].current]]
    /\ UNCHANGED <<env, revision, scope, job, check, optionVars>>

NextEnvironmentRevision(w, step, V, source) ==
    /\ Present(writer[w].env) /\ Newest(writer[w].env) < MaxRevision
    /\ writer' = [writer EXCEPT ![w].step = step, ![w].values = V, ![w].source = source,
                                ![w].next = Newest(writer[w].env) + 1]
    /\ UNCHANGED <<env, revision, scope, job, check, optionVars>>

\* What a request finds wrong before its transaction: an edit and an import
\* are held against the revision they have seen, a restored snapshot need not
\* be complete.
Acceptable(r, V, source) ==
    /\ ValidateFacts(V, source = 0)
    /\ source = 0 => ValidateChanges(V, revision[r.env][r.seen].values)

Checks(w, step, V) ==
    /\ writer' = [writer EXCEPT ![w].step = step, ![w].values = V]
    /\ UNCHANGED <<env, revision, scope, job, check, optionVars>>

\* updateEnvironmentRevision checks and then reads the number.
CheckEdit(w, V) ==
    writer[w].step = "read" /\ Acceptable(writer[w], V, 0) /\ Checks(w, "checked", V)

PrepareEdit(w) ==
    writer[w].step = "checked" /\ NextEnvironmentRevision(w, "ready", writer[w].values, 0)

\* RestoreRevision and Import read the number first.
PrepareImport(w, V) ==
    writer[w].step = "read" /\ NextEnvironmentRevision(w, "numbered", V, 0)

PrepareRestore(w, n) ==
    LET e == writer[w].env IN
    /\ writer[w].step = "read" /\ n \in Stored(e)
    /\ NextEnvironmentRevision(w, "numbered", revision[e][n].values, n)

CheckPrepared(w) ==
    LET r == writer[w] IN
    r.step = "numbered" /\ Acceptable(r, r.values, r.source) /\ Checks(w, "ready", r.values)

\* validateEnvironmentCatalogTx, with the revision the transaction finds.
ValidInTransaction(r) ==
    IF r.source = 0
    THEN ValidateFacts(r.values, TRUE) /\ ValidateChanges(r.values, CurrentRevision(r.env).values)
    ELSE /\ revision[r.env][r.source].stored
         /\ revision[r.env][r.source].values = r.values
         /\ ValidateFacts(r.values, FALSE)

StoreRevision(w) ==
    LET r == writer[w] IN
    /\ revision' = [revision EXCEPT ![r.env][r.next] =
           [stored |-> TRUE, values |-> r.values, base |-> r.seen, source |-> r.source]]
    /\ env' = [env EXCEPT ![r.env].current = r.next]
    /\ writer' = [writer EXCEPT ![w] = NoWriter]
    /\ UNCHANGED <<scope, job, check, optionVars>>

\* Mutant: trusts what the request has checked before the transaction.
CommitTrusting(w) ==
    /\ writer[w].step = "ready"
    /\ env[writer[w].env].status = "active"
    /\ ~revision[writer[w].env][writer[w].next].stored
    /\ env[writer[w].env].current = writer[w].seen
    /\ StoreRevision(w)

\* Mutant: any prepared number may be stored, wherever the environment is now.
CommitAnyNumber(w) ==
    LET r == writer[w] IN
    /\ r.step = "ready"
    /\ env[r.env].status = "active"
    /\ ValidInTransaction(r)
    /\ ~revision[r.env][r.next].stored
    /\ StoreRevision(w)

\* CreateEnvironmentRevision; the triggers refuse an archived environment.
CommitRevision(w) ==
    LET r == writer[w] IN
    /\ r.step = "ready"
    /\ env[r.env].status = "active"
    /\ env[r.env].current = r.seen
    /\ ValidInTransaction(r)
    /\ ~revision[r.env][r.next].stored
    /\ StoreRevision(w)

RequestEnds(w) ==
    /\ writer[w].step # "idle"
    /\ writer' = [writer EXCEPT ![w] = NoWriter]
    /\ UNCHANGED <<env, revision, scope, job, check, optionVars>>

-----------------------------------------------------------------------------
(* Deleting, archiving                                                      *)

\* With its checks; runs count even when they have been cleaned up.
DeleteEnvironmentRevision(e, n) ==
    /\ env[e].status = "active" /\ n \in Stored(e) /\ n # env[e].current
    /\ \A j \in UsersOf(e) : job[j].revision # n
    /\ revision' = [revision EXCEPT ![e][n] = NoRevision]
    /\ check' = [check EXCEPT !.stored = @ \ {<<e, n>>}]
    /\ UNCHANGED <<env, scope, job, writer, optionVars>>

DeleteEnvironment(e) ==
    /\ Present(e) /\ UsersOf(e) = {} /\ ~env[e].installed
    /\ env' = [env EXCEPT ![e] = [status |-> "deleted", current |-> 0, installed |-> FALSE]]
    /\ revision' = [revision EXCEPT ![e] = [n \in Numbers |-> NoRevision]]
    /\ check' = [check EXCEPT !.stored = {c \in @ : c[1] # e}]
    /\ UNCHANGED <<scope, job, writer, optionVars>>

ArchiveEnvironment(e) ==
    /\ env[e].status = "active" /\ ActiveUsers(e) = {} /\ ~env[e].installed
    /\ env' = [env EXCEPT ![e].status = "archived"]
    /\ UNCHANGED <<revision, scope, job, check, writer, optionVars>>

UnarchiveEnvironment(e) ==
    /\ env[e].status = "archived"
    /\ env' = [env EXCEPT ![e].status = "active"]
    /\ UNCHANGED <<revision, scope, job, check, writer, optionVars>>

-----------------------------------------------------------------------------
(* Runs, image builds and checks                                            *)

\* A run is planned, or a build is requested, for the revision that is current.
PlanJob(j, e, kind) ==
    /\ job[j].status = "none" /\ env[e].status = "active"
    /\ job' = [job EXCEPT ![j] = [status |-> "none", kind |-> kind,
                                      env |-> e, revision |-> env[e].current]]
    /\ UNCHANGED <<env, revision, scope, check, writer, optionVars>>

\* CreateRun checks the facts of its revision again, CreateComponentImageBuild
\* is a plain insert; foreign keys and triggers hold for both.
CreateJob(j) ==
    LET e == job[j].env  n == job[j].revision IN
    /\ job[j].status = "none" /\ n # 0
    /\ env[e].status = "active" /\ revision[e][n].stored
    /\ job[j].kind = "run" => ValidateFacts(revision[e][n].values, TRUE)
    /\ job' = [job EXCEPT ![j].status = "active"]
    /\ UNCHANGED <<env, revision, scope, check, writer, optionVars>>

\* A run that ends has installed something, or rolled it back, or neither.
EndJob(j, installed) ==
    /\ job[j].status = "active"
    /\ job[j].kind = "build" => installed = env[job[j].env].installed
    /\ job' = [job EXCEPT ![j].status = "ended"]
    /\ env' = [env EXCEPT ![job[j].env].installed = installed]
    /\ UNCHANGED <<revision, scope, check, writer, optionVars>>

\* A check takes seconds: the revision it has probed may be gone when it ends.
BeginCheck(e) ==
    /\ env[e].status = "active" /\ check.running = {}
    /\ check' = [check EXCEPT !.running = {<<e, env[e].current>>}]
    /\ UNCHANGED <<env, revision, scope, job, writer, optionVars>>

EndCheck(c) ==
    /\ c \in check.running
    /\ check' = [stored |-> IF env[c[1]].status = "active" /\ revision[c[1]][c[2]].stored
                            THEN check.stored \cup {c} ELSE check.stored,
                 running |-> {}]
    /\ UNCHANGED <<env, revision, scope, job, writer, optionVars>>

-----------------------------------------------------------------------------
(* Release lines and scenarios: their scope is fixed with the first record. *)

CreateBranch(b, V) ==
    /\ scope[b] = NoScope
    /\ ValidateConstraints(V) /\ ValidateChanges(V, {})
    /\ scope' = [scope EXCEPT ![b] = [stored |-> TRUE, values |-> V]]
    /\ UNCHANGED <<env, revision, job, check, writer, optionVars>>

\* The last draft of the line, or the scenario, has been deleted.
DeleteBranch(b) ==
    /\ scope[b].stored
    /\ scope' = [scope EXCEPT ![b] = NoScope]
    /\ UNCHANGED <<env, revision, job, check, writer, optionVars>>

-----------------------------------------------------------------------------
EnvironmentStep(e) ==
    \/ \E V \in Snapshots : CreateEnvironment(e, V)
    \/ \E n \in Numbers : DeleteEnvironmentRevision(e, n)
    \/ DeleteEnvironment(e) \/ ArchiveEnvironment(e) \/ UnarchiveEnvironment(e) \/ BeginCheck(e)

WriterStep(w) ==
    \/ \E e \in Envs : ReadEnvironment(w, e)
    \/ \E V \in Snapshots : CheckEdit(w, V) \/ PrepareImport(w, V)
    \/ \E n \in Numbers : PrepareRestore(w, n)
    \/ PrepareEdit(w) \/ CheckPrepared(w) \/ CommitRevision(w) \/ RequestEnds(w)

JobStep(j) ==
    \/ \E e \in Envs, kind \in {"run", "build"} : PlanJob(j, e, kind)
    \/ CreateJob(j)
    \/ \E installed \in BOOLEAN : EndJob(j, installed)

BranchStep(b) == (\E V \in Scopes : CreateBranch(b, V)) \/ DeleteBranch(b)

EnvironmentsNext ==
    \/ \E e \in Envs : EnvironmentStep(e)
    \/ \E w \in Writers : WriterStep(w)
    \/ \E j \in Jobs : JobStep(j)
    \/ \E b \in Branches : BranchStep(b)
    \/ \E c \in check.running : EndCheck(c)
    \/ AdministratorStep(References) /\ UNCHANGED <<env, revision, scope, job, check, writer>>

EnvironmentsSpec == EnvironmentsInit /\ [][EnvironmentsNext]_envVars

-----------------------------------------------------------------------------
(* Properties                                                               *)

EnvironmentsTypeOK ==
    /\ OptionsTypeOK
    /\ env \in [Envs -> [status : {"absent", "active", "archived", "deleted"},
                         current : 0..MaxRevision, installed : BOOLEAN]]
    /\ revision \in [Envs -> [Numbers -> Revisions]]
    /\ scope \in [Branches -> [stored : BOOLEAN, values : SUBSET Options]]
    /\ job \in [Jobs -> [status : {"none", "active", "ended"}, kind : {"run", "build"},
                         env : Envs, revision : 0..MaxRevision]]
    /\ check \in [stored : SUBSET (Envs \X Numbers), running : SUBSET (Envs \X Numbers)]
    /\ writer \in [Writers -> Requests]

\* No stored record names an option, a category or a revision that is gone,
\* whatever was deleted between its check and its commit.
ReferencesResolve ==
    /\ ValuesKnown(References)
    /\ \A e \in Envs : Present(e) => env[e].current \in Stored(e)
    /\ \A e \in Envs : \A j \in UsersOf(e) : Present(e) /\ job[j].revision \in Stored(e)
    /\ \A c \in check.stored : Present(c[1]) /\ c[2] \in Stored(c[1])

\* No edit is lost: a revision was made from the one before it, the current
\* one is the newest, and a number is never given twice.
RevisionsFollow ==
    \A e \in Envs : Present(e) =>
        /\ env[e].current = Newest(e)
        /\ \A n \in Stored(e) : revision[e][n].base = n - 1

\* Nothing runs, is built or is installed on an archived environment.
ArchivedIsIdle ==
    \A e \in Envs : env[e].status = "archived" => ActiveUsers(e) = {} /\ ~env[e].installed

\* However edits, restores, imports, runs, checks, deletions and the work of
\* the administrator interleave: the history of the environments is intact.
HistoryIsIntact == DirectoryIsWhole /\ ReferencesResolve /\ RevisionsFollow /\ ArchivedIsIdle

\* The parts of the inductive invariant behind it (EnvironmentsProofs).  The
\* current revision is the newest; an environment that is gone has none.
NoneIsNewer ==
    \A e \in Envs :
        IF Present(e) THEN \A n \in Stored(e) : n <= env[e].current /\ revision[e][n].base = n - 1
        ELSE Stored(e) = {}

\* A request has seen a revision that was current once, and has been given a
\* number that followed the newest of its time.
RequestsLagBehind ==
    \A w \in Writers : LET r == writer[w] IN
        r.step # "idle" =>
            /\ env[r.env].status # "absent"
            /\ Present(r.env) => r.seen <= env[r.env].current
            /\ Present(r.env) /\ r.step \in {"numbered", "ready"} => r.seen < r.next /\ r.next <= env[r.env].current + 1

\* A step that stores a snapshot or a scope brings nothing retired to where it
\* was not; unless it repeats an old one, an environment states what is
\* required when it is stored, not only when it was checked.
NothingRetiredIsAdopted ==
    [][/\ \A e \in Envs, n \in Numbers : (~revision[e][n].stored /\ revision[e][n].stored') =>
              LET s == revision'[e][n] IN
              IF s.source # 0 THEN s.values = revision[e][s.source].values
              ELSE /\ Complete(s.values)
                   /\ s.values \subseteq
                        {o \in Options : ~Retired(o)} \cup
                        (IF env[e].current = 0 THEN {} ELSE CurrentRevision(e).values)
       /\ \A b \in Branches : scope'[b] # scope[b] => \A o \in scope'[b].values : ~Retired(o)
      ]_envVars

\* "A restore reproduces an immutable historical snapshot. It may predate a
\* newly required catalog dimension" (internal/service/environments.go:392);
\* and a branch keeps its scope for ever: what is stored stays acceptable.
HistoryStaysAcceptable ==
    /\ \A e \in Envs : \A n \in Stored(e) : ValidateFacts(revision[e][n].values, FALSE)
    /\ \A b \in Branches : ValidateConstraints(scope[b].values)
=============================================================================

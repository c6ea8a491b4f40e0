-------------------------- MODULE CatalogRestore --------------------------
(* Restoring a recovery point into the live, empty catalog of a running     *)
(* platform. The rows go in one transaction; the playbooks are files, which *)
(* are staged beforehand and promoted one by one before that transaction    *)
(* commits, so that a failure has to take them back.                        *)
EXTENDS Naturals, FiniteSets

CONSTANTS Playbooks,       \* paths of the playbooks of the recovery point
          MaxGeneration,   \* bound: generation of the target that others move on
          MaxRestoreCrashes

ASSUME RestoreAssumption == MaxGeneration \in Nat \ {0} /\ MaxRestoreCrashes \in Nat

VARIABLES target,          \* components and scenarios of the live database
          targetGeneration,
          files,           \* path -> what the playbook root holds there
          plan,            \* what the previewed planDigest covers, NoDigest when none
          attempt,         \* how far the restore under way is
          created,         \* files the restore under way has created
          foreign,         \* paths that held other content before any restore
          restoreCrashes

restoreVars == <<target, targetGeneration, files, plan, attempt, created,
                 foreign, restoreCrashes>>

NoDigest == [target |-> "none", generation |-> 0]
Digest   == [target |-> target, generation |-> targetGeneration]

\* A path may already hold the very content of the recovery point.
RestoreInit ==
    /\ target = "empty" /\ targetGeneration = 1
    /\ files \in [Playbooks -> {"absent", "same", "other"}]
    /\ foreign = {p \in Playbooks : files[p] = "other"}
    /\ plan = NoDigest /\ attempt = "none" /\ created = {} /\ restoreCrashes = 0

Up == attempt # "crashed"
InTransaction == attempt = "promoting"

\* CurrentDatabaseRestorePlan refuses a target that is not empty.
Preview ==
    /\ attempt = "none" /\ target = "empty"
    /\ plan' = Digest
    /\ UNCHANGED <<target, targetGeneration, files, attempt, created, foreign, restoreCrashes>>

\* RestoreCurrentDatabase plans again, compares digests and stages the files.
StageRestore ==
    /\ attempt = "none" /\ plan # NoDigest /\ plan = Digest
    /\ attempt' = "staged"
    /\ UNCHANGED <<target, targetGeneration, files, plan, created, foreign, restoreCrashes>>

\* Mutant: what was read before the transaction is not read again.
StillAsPlannedOnce == TRUE

\* The checks the transaction repeats before its first insert.
StillAsPlanned == target = "empty" /\ plan = Digest

\* The rows are inserted but not yet committed; users, options, slugs or
\* foreign keys that conflict end the attempt in RestoreFails.
InsertRows ==
    /\ attempt = "staged" /\ StillAsPlanned
    /\ attempt' = "promoting"
    /\ UNCHANGED <<target, targetGeneration, files, plan, created, foreign, restoreCrashes>>

\* A file of the same content is left alone, other content is a conflict.
Promote(p) ==
    /\ attempt = "promoting" /\ files[p] = "absent"
    /\ files' = [files EXCEPT ![p] = "same"]
    /\ created' = created \cup {p}
    /\ UNCHANGED <<target, targetGeneration, plan, attempt, foreign, restoreCrashes>>

Promoted == \A p \in Playbooks : files[p] = "same"

\* The generation becomes one more than both the target's and the catalog's.
CommitRestore ==
    /\ attempt = "promoting" /\ Promoted
    /\ target' = "restored" /\ targetGeneration' = targetGeneration + 1
    /\ attempt' = "none" /\ created' = {} /\ plan' = NoDigest
    /\ UNCHANGED <<files, foreign, restoreCrashes>>

\* cleanupPromotedPlaybooks removes the files the attempt has created.
Cleanup == [p \in Playbooks |-> IF p \in created THEN "absent" ELSE files[p]]

\* Any check, insert, copy or the commit itself fails.
RestoreFails ==
    /\ attempt \in {"staged", "promoting"}
    /\ files' = Cleanup
    /\ attempt' = "none" /\ created' = {} /\ plan' = NoDigest
    /\ UNCHANGED <<target, targetGeneration, foreign, restoreCrashes>>

\* The process dies: the transaction rolls back, a copy may be left torn.
CrashRestore ==
    /\ Up /\ restoreCrashes < MaxRestoreCrashes
    /\ restoreCrashes' = restoreCrashes + 1
    /\ \/ files' = files
       \/ \E p \in Playbooks : /\ InTransaction /\ files[p] = "absent"
                               /\ files' = [files EXCEPT ![p] = "torn"]
    /\ attempt' = "crashed" /\ created' = {} /\ plan' = NoDigest
    /\ UNCHANGED <<target, targetGeneration, foreign>>

RestartRestore ==
    /\ attempt = "crashed" /\ attempt' = "none"
    /\ UNCHANGED <<target, targetGeneration, files, plan, created, foreign, restoreCrashes>>

\* Component owners keep working: a component appears, goes away again, or the
\* generation moves. SQLite has one writer, so never inside the transaction.
OtherWriter ==
    /\ Up /\ ~InTransaction /\ targetGeneration < MaxGeneration
    /\ \/ target = "empty" /\ target' = "other" /\ UNCHANGED targetGeneration
       \/ target = "other" /\ target' = "empty" /\ targetGeneration' = targetGeneration + 1
    /\ UNCHANGED <<files, plan, attempt, created, foreign, restoreCrashes>>

RestoreNext ==
    \/ Preview \/ StageRestore \/ InsertRows
    \/ \E p \in Playbooks : Promote(p)
    \/ CommitRestore \/ RestoreFails \/ CrashRestore \/ RestartRestore \/ OtherWriter

RestoreSpec == RestoreInit /\ [][RestoreNext]_restoreVars

---------------------------------------------------------------------------
RestoreTypeOK ==
    /\ target \in {"empty", "other", "restored"} /\ targetGeneration \in 1..(MaxGeneration + 1)
    /\ files \in [Playbooks -> {"absent", "same", "other", "torn"}]
    /\ plan \in [target : {"none", "empty"}, generation : 0..(MaxGeneration + 1)]
    /\ attempt \in {"none", "staged", "promoting", "crashed"}
    /\ created \subseteq Playbooks /\ foreign \subseteq Playbooks
    /\ restoreCrashes \in 0..MaxRestoreCrashes

\* While the rows are being inserted nobody else writes; part of the inductive
\* invariant behind RestoreIsWhole (CatalogCopiesProofs).
TransactionIsAlone == InTransaction => target = "empty"

\* Rows and files arrive together or not at all: a catalog that was restored
\* has every playbook with its content, a restore replaces only an empty
\* catalog, and content that was there before is neither overwritten nor taken
\* away, through every failed attempt and crash (promotePlaybooks,
\* cleanupPromotedPlaybooks, RestoreCurrentDatabase).
RestoreIsWhole ==
    /\ [][target' = "restored" /\ target # "restored" =>
             target = "empty" /\ \A p \in Playbooks : files'[p] = "same"]_restoreVars
    /\ [][\A p \in Playbooks \ created : files[p] # "absent" => files'[p] = files[p]]_restoreVars
=============================================================================

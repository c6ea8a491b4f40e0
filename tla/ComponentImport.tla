-------------------------- MODULE ComponentImport --------------------------
(***************************************************************************)
(* The batch import of new components: every draft, action and Playbook of *)
(* a request is created, or none is.  The files are staged in a directory  *)
(* of the batch with a manifest, renamed into the managed tree, and only   *)
(* then does one transaction insert the rows; a restarted server asks the  *)
(* database which of the two outcomes a leftover batch had.  A draft       *)
(* created from a template copies its files the same way.                  *)
(*                                                                         *)
(* An import holds no lock, so two of them may race for a component slug.  *)
(* Managed directories contain the release's fresh id: batches never share *)
(* one, and a file is named here by its batch and its slug.                *)
(***************************************************************************)
EXTENDS Integers, FiniteSets, Sequences

CONSTANTS Slugs, Imports, NoImport, MaxImportCrashes, MaxImportFaults, MaxDeletes

ASSUME ImportAssumption == NoImport \notin Imports

VARIABLES request,       \* per import: its slugs and their ordering dependencies
          importStep,    \* what the goroutine of the import does next
          staging,       \* the batch directory: none, without or with its manifest
          finals,        \* files renamed into the managed tree
          drafts,        \* slug -> the import whose rows exist
          deleted,       \* rows removed since, by their owners
          importServing, importCrashes, importFaults

importVars == <<request, importStep, staging, finals, drafts, deleted, importServing,
                importCrashes, importFaults>>

NoRequest == [slugs |-> {}, order |-> <<>>]

ImportInit ==
  /\ request = [i \in Imports |-> NoRequest]
  /\ importStep = [i \in Imports |-> "idle"]
  /\ staging = [i \in Imports |-> "none"]
  /\ finals = {} /\ drafts = [s \in Slugs |-> NoImport] /\ deleted = {}
  /\ importServing = TRUE /\ importCrashes = 0 /\ importFaults = 0

\* Kahn's order: the first of the slugs whose dependencies are all placed, again
\* and again; it stops early when the ordering dependencies have a cycle.
PlanOrder(slugs, needs) ==
  LET place[n \in 0..Cardinality(slugs)] ==
        IF n = 0 THEN <<>>
        ELSE LET placed == {place[n - 1][k] : k \in DOMAIN place[n - 1]}
                 ready == {s \in slugs \ placed : \A d \in needs : d[1] = s => d[2] \in placed}
             IN IF ready = {} THEN place[n - 1]
                ELSE Append(place[n - 1], CHOOSE s \in ready : TRUE)
  IN place[Cardinality(slugs)]

\* PreviewImport, repeated by Import: no slug exists, no dependency leaves the
\* request, and the order covers it.
ImportRequested(i) ==
  /\ importServing /\ importStep[i] = "idle" /\ request[i] = NoRequest
  /\ \E slugs \in (SUBSET {s \in Slugs : drafts[s] = NoImport}) \ {{}} :
     \E needs \in SUBSET {d \in slugs \X slugs : d[1] # d[2]} :
       LET order == PlanOrder(slugs, needs) IN
       /\ Len(order) = Cardinality(slugs)
       /\ request' = [request EXCEPT ![i] = [slugs |-> slugs, order |-> order]]
  /\ importStep' = [importStep EXCEPT ![i] = "stage"]
  /\ UNCHANGED <<staging, finals, drafts, deleted, importServing, importCrashes, importFaults>>

\* stageComponentImportFiles: the directory first, the manifest last.
StageFiles(i) ==
  /\ importServing /\ importStep[i] = "stage"
  /\ staging' = [staging EXCEPT ![i] = IF @ = "none" THEN "directory" ELSE "manifest"]
  /\ importStep' = IF staging[i] = "none" THEN importStep ELSE [importStep EXCEPT ![i] = "promote"]
  /\ UNCHANGED <<request, finals, drafts, deleted, importServing, importCrashes, importFaults>>

\* One rename; the last one leaves the transaction to do.
PromoteFile(i) ==
  /\ importServing /\ importStep[i] = "promote"
  /\ \E s \in request[i].slugs : <<i, s>> \notin finals /\ finals' = finals \cup {<<i, s>>}
  /\ importStep' = IF \A s \in request[i].slugs : <<i, s>> \in finals'
                     THEN [importStep EXCEPT ![i] = "commit"] ELSE importStep
  /\ UNCHANGED <<request, staging, drafts, deleted, importServing, importCrashes, importFaults>>

\* Mutant: two imports of a slug both pass the preview and nothing checks again.
NothingTaken(i) == FALSE

\* CreateComponentImport: one transaction; slugs are unique.
Taken(i) == \E s \in request[i].slugs : drafts[s] # NoImport
RowsInserted(i) == [s \in Slugs |-> IF s \in request[i].slugs THEN i ELSE drafts[s]]

CommitImport(i) ==
  /\ importServing /\ importStep[i] = "commit"
  /\ IF Taken(i)
       THEN importStep' = [importStep EXCEPT ![i] = "abandon"] /\ UNCHANGED drafts
       ELSE importStep' = [importStep EXCEPT ![i] = "done"] /\ drafts' = RowsInserted(i)
  /\ UNCHANGED <<request, staging, finals, deleted, importServing, importCrashes, importFaults>>

\* Staging, a rename or the transaction fails.
ImportStepFails(i) ==
  /\ importServing /\ importStep[i] \in {"stage", "promote", "commit"} /\ importFaults < MaxImportFaults
  /\ importFaults' = importFaults + 1
  /\ importStep' = [importStep EXCEPT ![i] = "abandon"]
  /\ UNCHANGED <<request, staging, finals, drafts, deleted, importServing, importCrashes>>

\* The rows whose files the clean-up removes: those of this batch it promoted,
\* unless the transaction committed.
Kept(i, committed) == IF committed THEN finals ELSE {f \in finals : f[1] # i}

\* cleanupComponentImportManifest: its error is ignored, the batch directory
\* then waits for the next start.
CleanUpImport(i) ==
  /\ importServing /\ importStep[i] \in {"abandon", "done"}
  /\ \/ /\ finals' = Kept(i, importStep[i] = "done")
        /\ staging' = [staging EXCEPT ![i] = "none"]
        /\ UNCHANGED importFaults
     \/ /\ importFaults < MaxImportFaults /\ importFaults' = importFaults + 1
        /\ UNCHANGED <<finals, staging>>
  /\ importStep' = [importStep EXCEPT ![i] = "idle"]
  /\ UNCHANGED <<request, drafts, deleted, importServing, importCrashes>>

\* An owner abandons and deletes an imported draft, rows and files.
DeleteImportedDraft(s) ==
  /\ importServing /\ drafts[s] # NoImport /\ Cardinality(deleted) < MaxDeletes
  /\ importStep[drafts[s]] = "idle"
  /\ drafts' = [drafts EXCEPT ![s] = NoImport]
  /\ finals' = finals \ {<<drafts[s], s>>}
  /\ deleted' = deleted \cup {<<drafts[s], s>>}
  /\ UNCHANGED <<request, importStep, staging, importServing, importCrashes, importFaults>>

CrashImport ==
  /\ importServing /\ importCrashes < MaxImportCrashes
  /\ importCrashes' = importCrashes + 1
  /\ importServing' = FALSE
  /\ importStep' = [i \in Imports |-> "idle"]
  /\ UNCHANGED <<request, staging, finals, drafts, deleted, importFaults>>

\* RecoverComponentImportFiles: every batch directory must hold a manifest, and
\* all or none of its releases must exist; an error stops the server's start.
Found(i) == {s \in request[i].slugs : drafts[s] = i}
Recoverable(i) == staging[i] = "manifest" /\ Found(i) \in {{}, request[i].slugs}
Leftover == {i \in Imports : staging[i] # "none"}

RecoverImports ==
  /\ ~ importServing /\ \A i \in Leftover : Recoverable(i)
  /\ finals' = {f \in finals : f[1] \in Leftover => Found(f[1]) # {}}
  /\ staging' = [i \in Imports |-> "none"]
  /\ importServing' = TRUE
  /\ UNCHANGED <<request, importStep, drafts, deleted, importCrashes, importFaults>>

ImportNext ==
  \/ \E i \in Imports : \/ ImportRequested(i) \/ StageFiles(i) \/ PromoteFile(i) \/ CommitImport(i)
                        \/ ImportStepFails(i) \/ CleanUpImport(i)
  \/ \E s \in Slugs : DeleteImportedDraft(s)
  \/ CrashImport \/ RecoverImports

ImportSpec == ImportInit /\ [][ImportNext]_importVars

----------------------------------------------------------------------------
ImportTypeOK ==
  /\ \A i \in Imports : request[i].slugs \subseteq Slugs
  /\ importStep \in [Imports -> {"idle", "stage", "promote", "commit", "abandon", "done"}]
  /\ staging \in [Imports -> {"none", "directory", "manifest"}]
  /\ finals \subseteq Imports \X Slugs /\ drafts \in [Slugs -> Imports \cup {NoImport}]
  /\ deleted \subseteq Imports \X Slugs /\ importServing \in BOOLEAN

\* The drafts of an import, the ones their owners deleted since included.
Created(i) == Found(i) \cup {s \in request[i].slugs : <<i, s>> \in deleted}

\* Whatever fails or crashes, an import that is over left all its drafts with
\* their files, or no draft and, once no batch directory waits for the next
\* start, no file.  (A draft deleted by its owner since counts as created.)
ImportIsWhole ==
  \A i \in Imports :
    importServing /\ importStep[i] = "idle" =>
      /\ Created(i) \in {{}, request[i].slugs}
      /\ \A s \in Found(i) : <<i, s>> \in finals
      /\ staging[i] = "none" => \A s \in request[i].slugs \ Found(i) : <<i, s>> \notin finals

\* The parts of the inductive invariant behind it (RecordsProofs).  A batch
\* touches what its request names.
NothingUnrequested ==
  \A i \in Imports, s \in Slugs :
    <<i, s>> \in finals \/ drafts[s] = i \/ <<i, s>> \in deleted => s \in request[i].slugs

\* Where files are without their rows, a batch directory tells of them.
LeftoversAreStaged ==
  \A i \in Imports : staging[i] = "none" => \A s \in request[i].slugs \ Found(i) : <<i, s>> \notin finals

\* What an import has made of its rows and files at each of its steps.
StepIsTraced ==
  \A i \in Imports :
    /\ importStep[i] # "idle" => importServing
    /\ importStep[i] \in {"promote", "commit", "done"} => staging[i] = "manifest"
    /\ importStep[i] \in {"stage", "promote", "commit", "abandon"} => Created(i) = {}
    /\ importStep[i] \in {"commit", "done"} => \A s \in request[i].slugs : <<i, s>> \in finals
    /\ importStep[i] = "done" => Found(i) = request[i].slugs
    /\ importStep[i] = "idle" => Created(i) \in {{}, request[i].slugs}
    /\ \A s \in Found(i) : <<i, s>> \in finals

\* docs/platform-manual.md:230, the start-up recovery keeps committed files or
\* removes orphans: no crash leaves a batch the recovery refuses.
RestartRecovers ==
  ~ importServing => \A i \in Leftover : Recoverable(i)
=============================================================================

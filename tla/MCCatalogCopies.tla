--------------------------- MODULE MCCatalogCopies ---------------------------
(* Small instances of what becomes of a catalog besides its rows: the release *)
(* lines a backup exports, the backups themselves and their restoration, the  *)
(* media of a release on their way to an environment, and the files of MCP    *)
(* clients. They share no state; `focus` says which of them a behaviour runs. *)
EXTENDS ReleaseLines, CatalogBackup, CatalogRestore, MCMediaDelivery, Transfers

VARIABLE focus

copiesVars == <<lineVars, backupVars, restoreVars, mediaVars, transferVars, focus>>

CopiesInit ==
    /\ focus \in {"lines", "backup", "restore", "artifacts", "images", "transfers"}
    /\ LinesInit /\ BackupInit /\ RestoreInit /\ MediaInit /\ TransfersInit
    /\ focus = "restore" \/ \A p \in Playbooks : files[p] = "absent"

\* Bound: artifacts and images one at a time.
About(kind, away) ==
    /\ \A q \in Requests : request[q] # None => request[q].medium \in kind /\ request[q].loc # away
    /\ at[away].now = None

MediaFocus == \/ focus = "artifacts" /\ About(Artifacts, hub)'
              \/ focus = "images" /\ About(Images, url)'

CopiesNext ==
    /\ \/ /\ focus = "lines" /\ LinesNext
          /\ UNCHANGED <<backupVars, restoreVars, mediaVars, transferVars>>
       \/ /\ focus = "backup" /\ BackupNext
          /\ UNCHANGED <<lineVars, restoreVars, mediaVars, transferVars>>
       \/ /\ focus = "restore" /\ RestoreNext
          /\ UNCHANGED <<lineVars, backupVars, mediaVars, transferVars>>
       \/ /\ MediaNext /\ MediaFocus
          /\ UNCHANGED <<lineVars, backupVars, restoreVars, transferVars>>
       \/ /\ focus = "transfers" /\ TransfersNext
          /\ UNCHANGED <<lineVars, backupVars, restoreVars, mediaVars>>
    /\ UNCHANGED focus

CopiesSpec == CopiesInit /\ [][CopiesNext]_copiesVars /\ BackupFairness

\* Every variable of the five holds what its type says.
CopiesTypeOK == LinesTypeOK /\ BackupTypeOK /\ RestoreTypeOK /\ MediaTypeOK /\ TransfersTypeOK
=============================================================================

------------------------------ MODULE MCRecords ------------------------------
(* Small instances of the components that keep records others rely on, in   *)
(* files or in rows: the Playbook workspace of a release, the import of     *)
(* components, the archive of runs, the results directory of a standalone   *)
(* job, and the environments with the directory of their options.  They     *)
(* share no state; `focus` says which of them a behaviour runs.             *)
EXTENDS PlaybookJournal, ComponentImport, RunArchive, StandaloneJob, Environments, TLC

CONSTANTS MaxBusy,   \* bound: revisions, work under way and options out of use
          os, ver, hg, linux, v1

VARIABLE focus

recordVars == <<journalVars, importVars, archiveVars, jobVars, envVars, focus>>

\* An operating system and its versions, which nobody has thought of at first.
SmallCategoryOf == (linux :> os) @@ (v1 :> ver)
SmallParentCategory == (os :> NoCategory) @@ (ver :> os) @@ (hg :> NoCategory)
SmallParentOption == (linux :> NoOption) @@ (v1 :> linux)
SmallSnapshots == {{linux}, {linux, v1}}
SmallScopes == {{linux, v1}}

\* Any bodies that install are safe to repeat, and all that undo or none.
SmallRetrySafe ==
    LET undoes == {b \in Body : b.undo}
    IN  {S \in SUBSET Body : undoes \subseteq S \/ undoes \cap S = {}}

RecordsInit ==
    /\ focus \in {"journal", "import", "archive", "job", "environments"}
    /\ JournalInit /\ ImportInit /\ ArchiveInit /\ JobInit /\ EnvironmentsInit
    /\ focus = "journal" \/ release.root = CHOOSE r \in Roots : TRUE
    /\ retrySafe \in IF focus = "job" THEN SmallRetrySafe ELSE {{}}

RecordsNext ==
    /\ \/ /\ focus = "journal" /\ JournalNext
          /\ UNCHANGED <<importVars, archiveVars, jobVars, envVars>>
       \/ /\ focus = "import" /\ ImportNext
          /\ UNCHANGED <<journalVars, archiveVars, jobVars, envVars>>
       \/ /\ focus = "archive" /\ ArchiveNext
          /\ UNCHANGED <<journalVars, importVars, jobVars, envVars>>
       \/ /\ focus = "job" /\ JobNext
          /\ UNCHANGED <<journalVars, importVars, archiveVars, envVars>>
       \/ /\ focus = "environments" /\ EnvironmentsNext
          /\ UNCHANGED <<journalVars, importVars, archiveVars, jobVars>>
    /\ UNCHANGED focus

RecordsSpec == RecordsInit /\ [][RecordsNext]_recordVars

\* The more revisions there are, the less goes on at once; a request between
\* its check and its number counts twice.
Busy ==
    /\ \A e \in Envs :
        Newest(e)
        + Cardinality({w \in Writers : writer[w].step # "idle"})
        + Cardinality({w \in Writers : writer[w].step \in {"checked", "numbered"}})
        + Cardinality(check.running)
        + Cardinality({j \in Jobs : job[j].revision # 0})
        + Cardinality({x \in Categories : category[x] \in {"retired", "deleted"}})
        + Cardinality({o \in Options : option[o] \in {"retired", "deleted"}}) <= MaxBusy

RecordSymmetry == Permutations(HistoryRuns) \cup Permutations(Writers)

\* Every variable of the five holds what its type says.
RecordsTypeOK == JournalTypeOK /\ ImportTypeOK /\ ArchiveTypeOK /\ JobTypeOK /\ EnvironmentsTypeOK
=============================================================================

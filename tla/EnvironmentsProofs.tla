------------------------- MODULE EnvironmentsProofs -------------------------
(***************************************************************************)
(* Theorems about the environments and the directory of their options, for *)
(* any directory, any number of environments, requests, runs and checks,   *)
(* and any number of revisions.                                            *)
(***************************************************************************)
EXTENDS MCRecords, RecordsProofs

\* The inductive invariant of the environments and of their options.
EnvInv ==
  /\ EnvironmentsTypeOK /\ DirectoryIsWhole /\ OptionsFollowCategories
  /\ ReferencesResolve /\ NoneIsNewer /\ ArchivedIsIdle /\ RequestsLagBehind

---------------------------------------------------------------------------
(* The directory.                                                            *)

\* The rules of a directory that no step of a record disturbs.
DirectoryInv == OptionsTypeOK /\ DirectoryIsWhole /\ OptionsFollowCategories

LEMMA DirectoryStarts == OptionsInit => DirectoryInv
<1> SUFFICES ASSUME OptionsInit PROVE DirectoryInv
  OBVIOUS
<1> USE DirectoryAssumption, InstalledAssumption
<1>1. OptionsTypeOK
  BY DEF OptionsInit, OptionsTypeOK, Known
<1>2. /\ \A c \in Categories : category[c] \in Known <=> c \in Installed
      /\ \A c \in Categories : c \in Installed => category[c] = "active"
      /\ \A o \in Options : option[o] \in Known <=> o \in Installed
  BY DEF OptionsInit, Known
<1>3. DirectoryIsWhole
  BY <1>2 DEF DirectoryIsWhole, Dimensions
<1>4. OptionsFollowCategories
  BY <1>2 DEF OptionsFollowCategories
<1>5. QED
  BY <1>1, <1>3, <1>4 DEF DirectoryInv

\* A step that changes one category, which is then active or retired.
LEMMA CategoryStep ==
  ASSUME DirectoryInv, NEW c \in Categories, CreateCategory(c) \/ RetireCategory(c) \/ RestoreCategory(c)
  PROVE  DirectoryInv' /\ \A V \in SUBSET Options : ValuesKnown(V) => ValuesKnown(V)'
<1> USE DirectoryAssumption DEF DirectoryInv
<1>1. PICK s \in Known : category' = [category EXCEPT ![c] = s] /\ option' = option
  BY DEF CreateCategory, RetireCategory, RestoreCategory, Known
<1>2. /\ category'[c] \in Known /\ \A d \in Categories \ {c} : category'[d] = category[d]
      /\ \A d \in Categories : category[d] \in Known => category'[d] \in Known
  BY <1>1 DEF OptionsTypeOK
<1>3. OptionsTypeOK'
  BY <1>1 DEF OptionsTypeOK
<1>4. \A V \in SUBSET Options : ValuesKnown(V) => ValuesKnown(V)'
  BY <1>1, <1>2 DEF ValuesKnown
<1>5. OptionsFollowCategories'
  BY <1>1 DEF OptionsFollowCategories
<1>6. category'[HostGroups] = "active"
  BY <1>1, <1>2 DEF DirectoryIsWhole, CreateCategory, RetireCategory, RestoreCategory
<1>7. \A d \in Categories : category'[d] \in Known /\ d # HostGroups /\ ParentCategory[d] # NoCategory =>
         /\ category'[ParentCategory[d]] \in Known
         /\ category'[d] = "active" => category'[ParentCategory[d]] = "active"
  <2> SUFFICES ASSUME NEW d \in Categories, category'[d] \in Known, d # HostGroups, ParentCategory[d] # NoCategory
               PROVE  /\ category'[ParentCategory[d]] \in Known
                      /\ category'[d] = "active" => category'[ParentCategory[d]] = "active"
    OBVIOUS
  <2>1. ParentCategory[d] \in Categories
    OBVIOUS
  <2>2. CASE d # c
    <3>1. category'[d] = category[d] /\ d \in Dimensions
      BY <1>2, <2>2 DEF Dimensions
    <3>2. category[ParentCategory[d]] \in Known /\ (category[d] = "active" => category[ParentCategory[d]] = "active")
      BY <3>1 DEF DirectoryIsWhole
    <3>3. ParentCategory[d] = c /\ category[d] = "active" => category'[c] = "active"
      BY <1>1, <1>2, <3>2 DEF CreateCategory, RetireCategory, RestoreCategory, OptionsTypeOK
    <3>4. QED
      BY <1>2, <2>1, <3>1, <3>2, <3>3
  <2>3. CASE d = c
    <3>1. CASE CreateCategory(c)
      <4>1. category[ParentCategory[c]] = "active" /\ category[c] = "absent"
        BY <2>3, <3>1 DEF CreateCategory
      <4>2. QED
        BY <1>2, <2>1, <2>3, <4>1 DEF Known
    <3>2. CASE RestoreCategory(c)
      <4>1. category[ParentCategory[c]] = "active" /\ category' = [category EXCEPT ![c] = "active"]
        BY <2>3, <3>2 DEF RestoreCategory
      <4>2. category'[ParentCategory[c]] = "active"
        BY <2>1, <2>3, <4>1 DEF OptionsTypeOK
      <4>3. QED
        BY <2>3, <4>2 DEF Known
    <3>3. CASE RetireCategory(c)
      <4>1. category[c] \in Known /\ category' = [category EXCEPT ![c] = "retired"]
        BY <3>3 DEF RetireCategory
      <4>2. category[ParentCategory[c]] \in Known
        BY <2>3, <4>1 DEF DirectoryIsWhole, Dimensions
      <4>3. category'[c] = "retired"
        BY <4>1 DEF OptionsTypeOK
      <4>4. QED
        BY <1>2, <2>1, <2>3, <4>2, <4>3
    <3>4. QED
      BY <3>1, <3>2, <3>3
  <2>4. QED
    BY <2>2, <2>3
<1>8. \A o \in Options : option'[o] \in Known =>
         category'[CategoryOf[o]] \in Known /\ (ParentOption[o] # NoOption => option'[ParentOption[o]] \in Known)
  BY <1>1, <1>2 DEF DirectoryIsWhole
<1>9. DirectoryIsWhole'
  BY <1>6, <1>7, <1>8 DEF DirectoryIsWhole, Dimensions
<1>10. QED
  BY <1>3, <1>4, <1>5, <1>9

\* A step that changes one option, which is then active or retired.
LEMMA OptionStep ==
  ASSUME DirectoryInv, NEW o \in Options, CreateOption(o) \/ RetireOption(o) \/ RestoreOption(o)
  PROVE  DirectoryInv' /\ \A V \in SUBSET Options : ValuesKnown(V) => ValuesKnown(V)'
<1> USE DirectoryAssumption DEF DirectoryInv
<1>1. PICK s \in Known : option' = [option EXCEPT ![o] = s] /\ category' = category
  BY DEF CreateOption, RetireOption, RestoreOption, Known
<1>2. /\ option'[o] \in Known /\ \A x \in Options \ {o} : option'[x] = option[x]
      /\ \A x \in Options : option[x] \in Known => option'[x] \in Known
  BY <1>1 DEF OptionsTypeOK
<1>3. OptionsTypeOK'
  BY <1>1 DEF OptionsTypeOK
<1>4. \A V \in SUBSET Options : ValuesKnown(V) => ValuesKnown(V)'
  BY <1>1, <1>2 DEF ValuesKnown
<1>5. /\ category[CategoryOf[o]] \in Known
      /\ ParentOption[o] # NoOption =>
           option[ParentOption[o]] \in Known /\ CategoryOf[ParentOption[o]] = ParentCategory[CategoryOf[o]]
  BY DEF CreateOption, RetireOption, RestoreOption, DirectoryIsWhole, OptionsFollowCategories, Known
<1>6. OptionsFollowCategories'
  BY <1>2, <1>5 DEF OptionsFollowCategories
<1>7. DirectoryIsWhole'
  BY <1>1, <1>2, <1>5 DEF DirectoryIsWhole, Dimensions
<1>8. QED
  BY <1>3, <1>4, <1>6, <1>7

\* What is deleted is neither named by a record nor the parent of anything.
LEMMA DeletionStep ==
  ASSUME DirectoryInv, NEW used \in SUBSET Options,
         (\E c \in Categories : DeleteCategory(c, used)) \/ (\E o \in Options : DeleteOption(o, used))
  PROVE  DirectoryInv' /\ (ValuesKnown(used) => ValuesKnown(used)')
<1> USE DirectoryAssumption DEF DirectoryInv
<1>1. ASSUME NEW c \in Categories, DeleteCategory(c, used)
      PROVE  DirectoryInv' /\ (ValuesKnown(used) => ValuesKnown(used)')
  <2>1. /\ category[c] \in Known /\ c # HostGroups /\ \A o \in used : CategoryOf[o] # c
        /\ \A d \in Categories : ParentCategory[d] = c => category[d] \notin Known
        /\ category' = [category EXCEPT ![c] = "deleted"]
        /\ option' = [o \in Options |-> IF CategoryOf[o] = c /\ option[o] \in Known
                                        THEN "deleted" ELSE option[o]]
    BY <1>1 DEF DeleteCategory, InCategory
  <2>2. /\ \A d \in Categories : category'[d] = IF d = c THEN "deleted" ELSE category[d]
        /\ \A o \in Options : option'[o] \in Known <=> option[o] \in Known /\ CategoryOf[o] # c
    BY <2>1 DEF OptionsTypeOK, Known
  <2>3. OptionsTypeOK'
    BY <2>1 DEF OptionsTypeOK
  <2>4. OptionsFollowCategories'
    BY <2>2 DEF OptionsFollowCategories
  <2>5. category'[HostGroups] = "active"
    BY <2>1, <2>2 DEF DirectoryIsWhole
  <2>6. \A d \in Dimensions' : d \in Dimensions /\ d # c
    BY <2>2 DEF Dimensions, Known
  <2>7. \A d \in Dimensions' : ParentCategory[d] # NoCategory =>
           /\ category'[ParentCategory[d]] \in Known
           /\ category'[d] = "active" => category'[ParentCategory[d]] = "active"
    <3> SUFFICES ASSUME NEW d \in Dimensions', ParentCategory[d] # NoCategory
                 PROVE  category'[ParentCategory[d]] = category[ParentCategory[d]]
      BY <2>2, <2>6 DEF DirectoryIsWhole, Dimensions
    <3>1. d \in Categories /\ ParentCategory[d] \in Categories /\ category[d] \in Known
      BY <2>6 DEF Dimensions
    <3>2. QED
      BY <2>1, <2>2, <3>1
  <2>8. \A o \in Options : option'[o] \in Known =>
           category'[CategoryOf[o]] \in Known /\ (ParentOption[o] # NoOption => option'[ParentOption[o]] \in Known)
    <3> SUFFICES ASSUME NEW o \in Options, option'[o] \in Known
                 PROVE  category'[CategoryOf[o]] \in Known /\ (ParentOption[o] # NoOption => option'[ParentOption[o]] \in Known)
      OBVIOUS
    <3>1. option[o] \in Known /\ CategoryOf[o] # c /\ CategoryOf[o] \in Categories /\ category[CategoryOf[o]] \in Known
      BY <2>2 DEF DirectoryIsWhole
    <3>2. ParentOption[o] # NoOption =>
            /\ ParentOption[o] \in Options /\ option[ParentOption[o]] \in Known
            /\ CategoryOf[ParentOption[o]] = ParentCategory[CategoryOf[o]]
      BY <3>1 DEF DirectoryIsWhole, OptionsFollowCategories
    <3>3. ParentCategory[CategoryOf[o]] # c
      BY <2>1, <3>1
    <3>4. QED
      BY <2>2, <3>1, <3>2, <3>3
  <2>9. DirectoryIsWhole'
    BY <2>5, <2>7, <2>8 DEF DirectoryIsWhole
  <2>10. ValuesKnown(used) => ValuesKnown(used)'
    BY <2>1, <2>2 DEF ValuesKnown
  <2>11. QED
    BY <2>3, <2>4, <2>9, <2>10
<1>2. ASSUME NEW o \in Options, DeleteOption(o, used)
      PROVE  DirectoryInv' /\ (ValuesKnown(used) => ValuesKnown(used)')
  <2>1. /\ option[o] \in Known /\ o \notin used /\ category' = category
        /\ \A q \in Options : ParentOption[q] = o => option[q] \notin Known
        /\ option' = [option EXCEPT ![o] = "deleted"]
    BY <1>2 DEF DeleteOption
  <2>2. \A x \in Options : option'[x] = IF x = o THEN "deleted" ELSE option[x]
    BY <2>1 DEF OptionsTypeOK
  <2>3. "deleted" \notin Known
    BY DEF Known
  <2>4. OptionsTypeOK' /\ OptionsFollowCategories'
    BY <2>1, <2>2, <2>3 DEF OptionsTypeOK, OptionsFollowCategories
  <2>5. DirectoryIsWhole'
    BY <2>1, <2>2, <2>3 DEF DirectoryIsWhole, Dimensions
  <2>6. ValuesKnown(used) => ValuesKnown(used)'
    BY <2>1, <2>2 DEF ValuesKnown
  <2>7. QED
    BY <2>4, <2>5, <2>6
<1>3. QED
  BY <1>1, <1>2

\* What the administrator does leaves the directory whole and what is used known.
LEMMA AdministratorKeeps ==
  ASSUME DirectoryInv, NEW used \in SUBSET Options, ValuesKnown(used), AdministratorStep(used)
  PROVE  DirectoryInv' /\ ValuesKnown(used)'
  BY CategoryStep, OptionStep, DeletionStep DEF AdministratorStep

---------------------------------------------------------------------------
(* The environments.                                                         *)

\* What stored records name is known if each of them names what is known.
LEMMA ReferencesAreValues ==
  /\ ValuesKnown(References) <=>
       /\ \A e \in Envs, n \in Numbers : ValuesKnown(revision[e][n].values)
       /\ \A b \in Branches : ValuesKnown(scope[b].values)
  /\ ValuesKnown(References)' <=>
       /\ \A e \in Envs, n \in Numbers : ValuesKnown(revision[e][n].values)'
       /\ \A b \in Branches : ValuesKnown(scope[b].values)'
<1>1. ValuesKnown(References) <=>
       /\ \A e \in Envs, n \in Numbers : ValuesKnown(revision[e][n].values)
       /\ \A b \in Branches : ValuesKnown(scope[b].values)
  BY DEF References, ValuesKnown
<1>2. ValuesKnown(References)' <=>
       /\ \A e \in Envs, n \in Numbers : ValuesKnown(revision[e][n].values)'
       /\ \A b \in Branches : ValuesKnown(scope[b].values)'
  BY DEF References, ValuesKnown
<1>3. QED
  BY <1>1, <1>2

\* The newest of some numbers is the one that none of them exceeds.
LEMMA NewestIs ==
  ASSUME NEW S \in SUBSET Nat, NEW n \in S, \A m \in S : m <= n
  PROVE  (CHOOSE k \in S \cup {0} : \A m \in S : m <= k) = n
<1>1. \A k \in S \cup {0} : (\A m \in S : m <= k) => k = n
  OBVIOUS
<1>2. n \in S \cup {0} /\ \A m \in S : m <= n
  OBVIOUS
<1>3. QED
  BY <1>1, <1>2

\* An environment that is there has its current revision, the newest.
LEMMA CurrentIsNewest ==
  ASSUME EnvInv, NEW e \in Envs, Present(e)
  PROVE  /\ env[e].current \in Numbers /\ revision[e][env[e].current].stored /\ Newest(e) = env[e].current
         /\ CurrentRevision(e) \in Revisions
<1>1. env[e].current \in Stored(e) /\ \A m \in Stored(e) : m <= env[e].current
  BY DEF EnvInv, ReferencesResolve, NoneIsNewer
<1>2. Stored(e) \in SUBSET Nat
  BY DEF Stored, Numbers
<1>3. Newest(e) = env[e].current
  BY <1>1, <1>2, NewestIs DEF Newest
<1>4. QED
  BY <1>1, <1>3 DEF Stored, CurrentRevision, EnvInv, EnvironmentsTypeOK

LEMMA EnvironmentsStart == EnvironmentsInit => EnvInv
<1> SUFFICES ASSUME EnvironmentsInit PROVE EnvInv
  OBVIOUS
<1> USE EnvironmentsAssumption DEF EnvironmentsInit
<1>1. DirectoryInv
  BY DirectoryStarts
<1>2. (CHOOSE e \in Envs : TRUE) \in Envs
  OBVIOUS
<1>3. NoRevision \in Revisions /\ ~NoRevision.stored /\ NoRevision.values = {}
  BY DEF NoRevision, Revisions
<1>4. NoWriter \in Requests /\ NoWriter.step = "idle"
  BY <1>2 DEF NoWriter, Requests
<1>5. /\ NoJob \in [status : {"none", "active", "ended"}, kind : {"run", "build"}, env : Envs, revision : 0..MaxRevision]
      /\ NoJob.status = "none"
  BY <1>2 DEF NoJob
<1>6. NoScope \in [stored : BOOLEAN, values : SUBSET Options] /\ NoScope.values = {}
  BY DEF NoScope
<1>7. EnvironmentsTypeOK
  <2>1. /\ env \in [Envs -> [status : {"absent", "active", "archived", "deleted"},
                            current : 0..MaxRevision, installed : BOOLEAN]]
        /\ revision \in [Envs -> [Numbers -> Revisions]]
        /\ check \in [stored : SUBSET (Envs \X Numbers), running : SUBSET (Envs \X Numbers)]
    BY <1>3
  <2>2. /\ scope \in [Branches -> [stored : BOOLEAN, values : SUBSET Options]]
        /\ writer \in [Writers -> Requests]
        /\ job \in [Jobs -> [status : {"none", "active", "ended"}, kind : {"run", "build"},
                            env : Envs, revision : 0..MaxRevision]]
    BY <1>4, <1>5, <1>6
  <2>3. QED
    BY <1>1, <2>1, <2>2 DEF EnvironmentsTypeOK, DirectoryInv
<1>8. \A e \in Envs : ~Present(e) /\ Stored(e) = {} /\ UsersOf(e) = {} /\ env[e].status = "absent"
  BY <1>3, <1>5 DEF Present, Stored, UsersOf
<1>9. ReferencesResolve
  <2>1. ValuesKnown(References)
    <3>1. ValuesKnown({})
      BY DEF ValuesKnown
    <3>2. (\A e \in Envs, n \in Numbers : revision[e][n].values = {}) /\ \A b \in Branches : scope[b].values = {}
      BY <1>3, <1>6
    <3>3. QED
      BY <3>1, <3>2, ReferencesAreValues
  <2>2. check.stored = {}
    OBVIOUS
  <2>3. QED
    BY <1>8, <2>1, <2>2 DEF ReferencesResolve
<1>10. RequestsLagBehind
  BY <1>4 DEF RequestsLagBehind
<1>11. QED
  BY <1>1, <1>7, <1>8, <1>9, <1>10 DEF EnvInv, DirectoryInv, NoneIsNewer, ArchivedIsIdle

\* A step that leaves the directory alone keeps its rules and what is known.
LEMMA DirectoryStays ==
  ASSUME EnvInv, UNCHANGED optionVars
  PROVE  DirectoryInv' /\ \A V : ValuesKnown(V)' = ValuesKnown(V)
  BY DEF EnvInv, EnvironmentsTypeOK, DirectoryInv, OptionsTypeOK, DirectoryIsWhole, Dimensions,
         OptionsFollowCategories, optionVars, ValuesKnown

\* The part of the invariant that concerns an environment and what names it.
\* Its records, jobs and checks hold together.
RecordsTyped ==
  /\ env \in [Envs -> [status : {"absent", "active", "archived", "deleted"},
                      current : 0..MaxRevision, installed : BOOLEAN]]
  /\ revision \in [Envs -> [Numbers -> Revisions]]
  /\ scope \in [Branches -> [stored : BOOLEAN, values : SUBSET Options]]
  /\ job \in [Jobs -> [status : {"none", "active", "ended"}, kind : {"run", "build"},
                      env : Envs, revision : 0..MaxRevision]]
  /\ check \in [stored : SUBSET (Envs \X Numbers), running : SUBSET (Envs \X Numbers)]

\* The same as HistoryIsIntact says of records, revision by revision.
RecordsSound ==
  /\ \A e \in Envs, n \in Numbers : ValuesKnown(revision[e][n].values)
  /\ \A b \in Branches : ValuesKnown(scope[b].values)
  /\ \A e \in Envs :
       IF Present(e)
         THEN /\ env[e].current \in Numbers /\ revision[e][env[e].current].stored
              /\ \A n \in Numbers : revision[e][n].stored =>
                    n <= env[e].current /\ revision[e][n].base = n - 1
         ELSE \A n \in Numbers : ~revision[e][n].stored
  /\ \A j \in Jobs, e \in Envs : job[j].status # "none" /\ job[j].env = e =>
       /\ Present(e) /\ job[j].revision \in Numbers /\ revision[e][job[j].revision].stored
       /\ env[e].status = "archived" => job[j].status # "active"
  /\ \A e \in Envs : env[e].status = "archived" => ~env[e].installed
  /\ \A e \in Envs, n \in Numbers : <<e, n>> \in check.stored => Present(e) /\ revision[e][n].stored

LEMMA InvariantIsParts ==
  /\ EnvInv <=> DirectoryInv /\ RecordsTyped /\ RecordsSound /\ writer \in [Writers -> Requests] /\ RequestsLagBehind
  /\ EnvInv' <=> DirectoryInv' /\ RecordsTyped' /\ RecordsSound' /\ (writer \in [Writers -> Requests])'
                   /\ RequestsLagBehind'
<1>1. EnvInv <=> DirectoryInv /\ RecordsTyped /\ RecordsSound /\ writer \in [Writers -> Requests] /\ RequestsLagBehind
  <2>1. EnvironmentsTypeOK <=> OptionsTypeOK /\ RecordsTyped /\ writer \in [Writers -> Requests]
    BY DEF EnvironmentsTypeOK, RecordsTyped
  <2>2. ASSUME RecordsTyped
        PROVE  RecordsSound <=> ReferencesResolve /\ NoneIsNewer /\ ArchivedIsIdle
    <3>1. \A c \in check.stored : c = <<c[1], c[2]>> /\ c[1] \in Envs /\ c[2] \in Numbers
      BY <2>2 DEF RecordsTyped
    <3>2. ASSUME RecordsSound PROVE ReferencesResolve /\ NoneIsNewer /\ ArchivedIsIdle
      <4>1. ReferencesResolve
        BY <2>2, <3>1, <3>2, ReferencesAreValues DEF RecordsTyped, RecordsSound, ReferencesResolve, Stored, UsersOf
      <4>2. NoneIsNewer /\ ArchivedIsIdle
        BY <3>2 DEF RecordsSound, NoneIsNewer, ArchivedIsIdle, Stored, UsersOf, ActiveUsers
      <4>3. QED
        BY <4>1, <4>2
    <3>3. ASSUME ReferencesResolve, NoneIsNewer, ArchivedIsIdle PROVE RecordsSound
      <4>1. /\ \A e \in Envs, n \in Numbers : ValuesKnown(revision[e][n].values)
            /\ \A b \in Branches : ValuesKnown(scope[b].values)
        BY <3>3, ReferencesAreValues DEF ReferencesResolve
      <4>2. \A e \in Envs :
              IF Present(e)
                THEN /\ env[e].current \in Numbers /\ revision[e][env[e].current].stored
                     /\ \A n \in Numbers : revision[e][n].stored =>
                           n <= env[e].current /\ revision[e][n].base = n - 1
                ELSE \A n \in Numbers : ~revision[e][n].stored
        BY <3>3 DEF ReferencesResolve, NoneIsNewer, Stored
      <4>3. \A j \in Jobs, e \in Envs : job[j].status # "none" /\ job[j].env = e =>
              /\ Present(e) /\ job[j].revision \in Numbers /\ revision[e][job[j].revision].stored
              /\ env[e].status = "archived" => job[j].status # "active"
        <5> SUFFICES ASSUME NEW j \in Jobs, job[j].status # "none"
                     PROVE  /\ Present(job[j].env) /\ job[j].revision \in Stored(job[j].env)
                            /\ env[job[j].env].status = "archived" => job[j].status # "active"
          BY DEF Stored
        <5>1. job[j].env \in Envs /\ j \in UsersOf(job[j].env)
          BY <2>2 DEF RecordsTyped, UsersOf
        <5>2. QED
          BY <3>3, <5>1 DEF ReferencesResolve, ArchivedIsIdle, ActiveUsers
      <4>4. \A e \in Envs : env[e].status = "archived" => ~env[e].installed
        BY <3>3 DEF ArchivedIsIdle
      <4>5. \A e \in Envs, n \in Numbers : <<e, n>> \in check.stored => Present(e) /\ revision[e][n].stored
        BY <3>3 DEF ReferencesResolve, Stored
      <4>6. QED
        BY <4>1, <4>2, <4>3, <4>4, <4>5 DEF RecordsSound
    <3>4. QED
      BY <3>2, <3>3
  <2>3. QED
    BY <2>1, <2>2 DEF EnvInv, DirectoryInv
<1>2. QED
  BY <1>1, PTL

\* The administrator's steps.
LEMMA AdministratorMoves ==
  ASSUME EnvInv, AdministratorStep(References), UNCHANGED <<env, revision, scope, job, check, writer>>
  PROVE  EnvInv'
<1>1. SUFFICES ASSUME NEW used, used = References PROVE EnvInv'
  OBVIOUS
<1>2. DirectoryInv /\ RecordsTyped /\ RecordsSound /\ writer \in [Writers -> Requests] /\ RequestsLagBehind
  BY InvariantIsParts
<1>3. used \in SUBSET Options
  BY <1>1, <1>2 DEF RecordsTyped, References, Revisions
<1>4. ValuesKnown(used) /\ AdministratorStep(used)
  BY <1>1 DEF EnvInv, ReferencesResolve
<1>5. DirectoryInv' /\ ValuesKnown(used)'
  BY <1>2, <1>3, <1>4, AdministratorKeeps
<1>6. References' = used
  BY <1>1 DEF References
<1>7. ValuesKnown(References)'
  BY <1>5, <1>6 DEF ValuesKnown
<1>8. RecordsSound'
  BY <1>2, <1>7, ReferencesAreValues DEF RecordsSound, Present
<1>9. RecordsTyped' /\ (writer \in [Writers -> Requests])' /\ RequestsLagBehind'
  BY <1>2 DEF RecordsTyped, RequestsLagBehind, Present
<1>10. QED
  BY <1>5, <1>8, <1>9, InvariantIsParts

\* A step of the records: what is left to show when the directory stands still.
LEMMA RecordsMove ==
  ASSUME EnvInv, UNCHANGED optionVars, RecordsTyped', RecordsSound', (writer \in [Writers -> Requests])',
         RequestsLagBehind'
  PROVE  EnvInv'
  BY DirectoryStays, InvariantIsParts

\* The parts of the invariant and what a record may then name.
LEMMA Parts ==
  ASSUME EnvInv
  PROVE  /\ RecordsTyped /\ RecordsSound /\ writer \in [Writers -> Requests] /\ RequestsLagBehind
         /\ UNCHANGED optionVars => \A V : ValuesKnown(V)' = ValuesKnown(V)
  BY InvariantIsParts, DirectoryStays

\* One revision of one environment is written.
LEMMA RevisionChanges ==
  ASSUME RecordsTyped, NEW e \in Envs, NEW n \in Numbers, NEW s \in Revisions,
         revision' = [revision EXCEPT ![e][n] = s]
  PROVE  /\ revision' \in [Envs -> [Numbers -> Revisions]] /\ revision'[e][n] = s
         /\ \A f \in Envs, m \in Numbers : ~(f = e /\ m = n) => revision'[f][m] = revision[f][m]
  BY DEF RecordsTyped

\* A request stays behind an environment that only moves on.
LEMMA RequestsStay ==
  ASSUME EnvInv, UNCHANGED writer, RecordsTyped',
         \A e \in Envs : env[e].status # "absent" =>
           env'[e].status # "absent" /\ (Present(e)' => Present(e) /\ env[e].current <= env'[e].current)
  PROVE  RequestsLagBehind'
<1> SUFFICES ASSUME NEW w \in Writers, writer[w].step # "idle"
             PROVE  /\ env'[writer[w].env].status # "absent"
                    /\ Present(writer[w].env)' => writer[w].seen <= env'[writer[w].env].current
                    /\ Present(writer[w].env)' /\ writer[w].step \in {"numbered", "ready"} =>
                         writer[w].seen < writer[w].next /\ writer[w].next <= env'[writer[w].env].current + 1
  BY DEF RequestsLagBehind
<1>1. SUFFICES ASSUME NEW e \in Envs, e = writer[w].env
               PROVE  /\ env'[e].status # "absent"
                      /\ Present(e)' => writer[w].seen <= env'[e].current
                      /\ Present(e)' /\ writer[w].step \in {"numbered", "ready"} =>
                           writer[w].seen < writer[w].next /\ writer[w].next <= env'[e].current + 1
  <2>1. writer[w].env \in Envs
    BY Parts DEF Requests
  <2>2. QED
    BY <2>1 DEF Present
<1>2. /\ env[e].status # "absent"
      /\ Present(e) => writer[w].seen <= env[e].current
      /\ Present(e) /\ writer[w].step \in {"numbered", "ready"} =>
           writer[w].seen < writer[w].next /\ writer[w].next <= env[e].current + 1
  BY <1>1, Parts DEF RequestsLagBehind
<1>3. /\ env[e].current \in Int /\ env'[e].current \in Int
      /\ writer[w].seen \in Int /\ writer[w].next \in Int
  BY Parts, EnvironmentsAssumption DEF RecordsTyped, Requests
<1>4. QED
  BY <1>2, <1>3

LEMMA CreateStep ==
  ASSUME EnvInv, NEW e \in Envs, NEW V \in Snapshots, CreateEnvironment(e, V)
  PROVE  EnvInv'
<1>1. SUFFICES ASSUME NEW s, s = [NoRevision EXCEPT !.stored = TRUE, !.values = V],
                      NEW x, x = [status |-> "active", current |-> 1, installed |-> FALSE]
               PROVE  EnvInv'
  OBVIOUS
<1>2. V \in SUBSET Options /\ 1 \in Numbers /\ 1 \in 0..MaxRevision
  BY EnvironmentsAssumption DEF Numbers
<1>3. s \in Revisions /\ s.stored /\ s.values = V /\ s.base = 0
  <2>1. s = [stored |-> TRUE, values |-> V, base |-> 0, source |-> 0]
    BY <1>1 DEF NoRevision
  <2>2. 0 \in 0..MaxRevision
    BY EnvironmentsAssumption
  <2>3. QED
    BY <1>2, <2>1, <2>2 DEF Revisions
<1>4. /\ env[e].status = "absent" /\ ValuesKnown(V)
      /\ env' = [env EXCEPT ![e] = x] /\ revision' = [revision EXCEPT ![e][1] = s]
      /\ UNCHANGED <<scope, job, check, writer, optionVars>>
  BY <1>1 DEF CreateEnvironment, ValidateFacts, ValidateConstraints
<1>5. x \in [status : {"absent", "active", "archived", "deleted"}, current : 0..MaxRevision, installed : BOOLEAN]
      /\ x.status = "active" /\ x.current = 1
  BY <1>1, <1>2
<1>6. /\ revision' \in [Envs -> [Numbers -> Revisions]] /\ revision'[e][1] = s
      /\ \A f \in Envs, m \in Numbers : ~(f = e /\ m = 1) => revision'[f][m] = revision[f][m]
  <2>1. RecordsTyped /\ 1 \in Numbers /\ s \in Revisions /\ revision' = [revision EXCEPT ![e][1] = s]
    BY <1>2, <1>3, <1>4, Parts
  <2>2. QED
    BY <2>1, RevisionChanges, ZenonT(60)
<1>7. env'[e] = x /\ \A f \in Envs \ {e} : env'[f] = env[f]
  BY <1>4, Parts DEF RecordsTyped
<1>8. RecordsTyped'
  BY <1>4, <1>5, <1>6, Parts DEF RecordsTyped
<1>9. ~Present(e) /\ Present(e)' /\ \A f \in Envs \ {e} : Present(f)' = Present(f)
  BY <1>4, <1>5, <1>7 DEF Present
<1>10. RecordsSound'
  <2>1. \A f \in Envs, n \in Numbers : ValuesKnown(revision'[f][n].values)
    BY <1>3, <1>4, <1>6, Parts DEF RecordsSound
  <2>2. \A b \in Branches : ValuesKnown(scope'[b].values)
    BY <1>4, Parts DEF RecordsSound
  <2>3. \A n \in Numbers : revision'[e][n].stored => n <= x.current /\ revision'[e][n].base = n - 1
    BY <1>3, <1>5, <1>6, <1>9, Parts DEF RecordsSound
  <2>4. \A f \in Envs :
          IF Present(f)'
            THEN /\ env'[f].current \in Numbers /\ revision'[f][env'[f].current].stored
                 /\ \A n \in Numbers : revision'[f][n].stored =>
                       n <= env'[f].current /\ revision'[f][n].base = n - 1
            ELSE \A n \in Numbers : ~revision'[f][n].stored
    <3> SUFFICES ASSUME NEW f \in Envs
                 PROVE  IF Present(f)'
                          THEN /\ env'[f].current \in Numbers /\ revision'[f][env'[f].current].stored
                               /\ \A n \in Numbers : revision'[f][n].stored =>
                                     n <= env'[f].current /\ revision'[f][n].base = n - 1
                          ELSE \A n \in Numbers : ~revision'[f][n].stored
      OBVIOUS
    <3>1. CASE f = e
      BY <1>2, <1>3, <1>5, <1>6, <1>7, <1>9, <2>3, <3>1
    <3>2. CASE f # e
      BY <1>6, <1>7, <1>9, <3>2, Parts DEF RecordsSound
    <3>3. QED
      BY <3>1, <3>2
  <2>5. \A j \in Jobs : job[j].status # "none" => job[j].env # e
    BY <1>9, Parts DEF RecordsSound, RecordsTyped
  <2>6. \A j \in Jobs, f \in Envs : job'[j].status # "none" /\ job'[j].env = f =>
          /\ Present(f)' /\ job'[j].revision \in Numbers /\ revision'[f][job'[j].revision].stored
          /\ env'[f].status = "archived" => job'[j].status # "active"
    BY <1>4, <1>6, <1>7, <1>9, <2>5, Parts DEF RecordsSound
  <2>7. \A f \in Envs : env'[f].status = "archived" => ~env'[f].installed
    BY <1>5, <1>7, Parts DEF RecordsSound
  <2>8. \A f \in Envs, n \in Numbers : <<f, n>> \in check'.stored => Present(f)' /\ revision'[f][n].stored
    BY <1>4, <1>6, <1>9, Parts DEF RecordsSound
  <2>9. QED
    BY <1>4, <2>1, <2>2, <2>4, <2>6, <2>7, <2>8 DEF RecordsSound, ValuesKnown, optionVars
<1>11. RequestsLagBehind'
  <2>1. \A f \in Envs : env[f].status # "absent" =>
           env'[f].status # "absent" /\ (Present(f)' => Present(f) /\ env[f].current <= env'[f].current)
    BY <1>4, <1>7, <1>9, Parts DEF RecordsTyped
  <2>2. QED
    BY <1>4, <1>8, <2>1, RequestsStay
<1>12. QED
  BY <1>4, <1>8, <1>10, <1>11, Parts, RecordsMove

\* A request moves on its own; the records stay.
LEMMA RequestMoves ==
  ASSUME EnvInv, NEW w \in Writers, NEW r \in Requests, writer' = [writer EXCEPT ![w] = r],
         UNCHANGED <<env, revision, scope, job, check, optionVars>>,
         r.step # "idle" =>
           /\ env[r.env].status # "absent"
           /\ Present(r.env) => r.seen <= env[r.env].current
           /\ Present(r.env) /\ r.step \in {"numbered", "ready"} => r.seen < r.next /\ r.next <= env[r.env].current + 1
  PROVE  EnvInv'
<1>1. writer' \in [Writers -> Requests] /\ writer'[w] = r /\ \A v \in Writers \ {w} : writer'[v] = writer[v]
  BY Parts
<1>2. RecordsTyped'
  BY Parts DEF RecordsTyped
<1>3. RecordsSound'
  BY Parts DEF RecordsSound, Present, ValuesKnown, optionVars
<1>4. RequestsLagBehind'
  BY <1>1, Parts DEF RequestsLagBehind, Present
<1>5. QED
  BY <1>1, <1>2, <1>3, <1>4, RecordsMove

LEMMA RequestEndsStep ==
  ASSUME EnvInv, NEW w \in Writers,
         RequestEnds(w) \/ \E e \in Envs : ReadEnvironment(w, e)
  PROVE  EnvInv'
<1>1. NoWriter \in Requests /\ NoWriter.step = "idle"
  <2>1. (CHOOSE e \in Envs : TRUE) \in Envs
    BY EnvironmentsAssumption
  <2>2. QED
    BY <2>1, EnvironmentsAssumption DEF NoWriter, Requests
<1>2. CASE RequestEnds(w)
  BY <1>1, <1>2, RequestMoves DEF RequestEnds
<1>3. CASE \E e \in Envs : ReadEnvironment(w, e)
  <2>1. PICK e \in Envs : ReadEnvironment(w, e)
    BY <1>3
  <2>2. SUFFICES ASSUME NEW r, r = [NoWriter EXCEPT !.step = "read", !.env = e, !.seen = env[e].current]
                 PROVE  EnvInv'
    OBVIOUS
  <2>3. /\ env[e].status = "active" /\ writer' = [writer EXCEPT ![w] = r]
        /\ UNCHANGED <<env, revision, scope, job, check, optionVars>>
    BY <2>1, <2>2 DEF ReadEnvironment
  <2>4. env[e].current \in 0..MaxRevision
    BY Parts DEF RecordsTyped
  <2>5. r = [step |-> "read", env |-> e, seen |-> env[e].current, next |-> 0, values |-> {}, source |-> 0]
    BY <2>2 DEF NoWriter
  <2>6. r \in Requests /\ r.env = e /\ r.seen = env[e].current /\ r.step = "read"
    BY <2>4, <2>5, EnvironmentsAssumption DEF Requests
  <2>7. env[e].status # "absent" /\ env[e].current <= env[e].current
    BY <2>3, <2>4
  <2>8. QED
    BY <2>3, <2>6, <2>7, RequestMoves
<1>4. QED
  BY <1>2, <1>3

\* The number a request is given follows the newest of its environment.
LEMMA NumberStep ==
  ASSUME EnvInv, NEW w \in Writers, NEW V \in SUBSET Options, NEW source \in 0..MaxRevision,
         NEW step \in {"numbered", "ready"}, writer[w].step # "idle",
         NextEnvironmentRevision(w, step, V, source)
  PROVE  EnvInv'
<1> DEFINE e == writer[w].env
<1>1. writer \in [Writers -> Requests] /\ writer[w] \in Requests /\ e \in Envs
  BY Parts DEF Requests
<1>3. /\ Present(e) /\ Newest(e) < MaxRevision
      /\ UNCHANGED <<env, revision, scope, job, check, optionVars>>
      /\ writer' = [writer EXCEPT ![w].step = step, ![w].values = V, ![w].source = source,
                                  ![w].next = Newest(e) + 1]
  BY DEF NextEnvironmentRevision
<1>4. Newest(e) = env[e].current /\ env[e].current \in 0..MaxRevision /\ MaxRevision \in Nat
  BY <1>1, <1>3, CurrentIsNewest, Parts, EnvironmentsAssumption DEF RecordsTyped
<1>5. SUFFICES ASSUME NEW r, r = [writer[w] EXCEPT !.step = step, !.values = V, !.source = source, !.next = Newest(e) + 1]
               PROVE  EnvInv'
  OBVIOUS
<1>6. writer' = [writer EXCEPT ![w] = r]
  BY <1>1, <1>3, <1>5
<1>7. Newest(e) + 1 \in 0..MaxRevision
  BY <1>3, <1>4
<1>8. r = [step |-> step, env |-> e, seen |-> writer[w].seen, next |-> Newest(e) + 1, values |-> V, source |-> source]
  BY <1>1, <1>5 DEF Requests
<1>9. r \in Requests /\ r.env = e /\ r.seen = writer[w].seen /\ r.next = Newest(e) + 1
  BY <1>1, <1>7, <1>8 DEF Requests
<1>10. env[e].status # "absent" /\ writer[w].seen <= env[e].current /\ writer[w].seen \in Nat
  BY <1>1, <1>3, Parts DEF RequestsLagBehind, Present, Requests
<1>11. r.seen < r.next /\ r.next <= env[e].current + 1
  BY <1>4, <1>9, <1>10
<1> HIDE DEF e
<1>12. QED
  BY <1>3, <1>6, <1>9, <1>10, <1>11, RequestMoves

\* A request that has been checked keeps what it has seen and its number.
LEMMA CheckStep ==
  ASSUME EnvInv, NEW w \in Writers, NEW V \in SUBSET Options, writer[w].step # "idle",
         NEW step \in {"checked", "ready"}, step = "ready" => writer[w].step = "numbered",
         Checks(w, step, V)
  PROVE  EnvInv'
<1>1. writer \in [Writers -> Requests] /\ writer[w] \in Requests
  BY Parts
<1>2. SUFFICES ASSUME NEW r, r = [writer[w] EXCEPT !.step = step, !.values = V]
               PROVE  EnvInv'
  OBVIOUS
<1>3. r \in Requests /\ r.step = step
      /\ r.env = writer[w].env /\ r.seen = writer[w].seen /\ r.next = writer[w].next
  BY <1>1, <1>2 DEF Requests
<1>4. /\ writer' = [writer EXCEPT ![w] = r]
      /\ UNCHANGED <<env, revision, scope, job, check, optionVars>>
  BY <1>1, <1>2 DEF Checks
<1>5. /\ env[r.env].status # "absent"
      /\ Present(r.env) => r.seen <= env[r.env].current
      /\ Present(r.env) /\ r.step \in {"numbered", "ready"} => r.seen < r.next /\ r.next <= env[r.env].current + 1
  BY <1>3, Parts DEF RequestsLagBehind
<1>6. QED
  BY <1>3, <1>4, <1>5, RequestMoves

LEMMA PrepareStep ==
  ASSUME EnvInv, NEW w \in Writers,
         \/ \E V \in Snapshots : CheckEdit(w, V) \/ PrepareImport(w, V)
         \/ \E n \in Numbers : PrepareRestore(w, n)
         \/ PrepareEdit(w) \/ CheckPrepared(w)
  PROVE  EnvInv'
<1>1. writer[w] \in Requests /\ writer[w].env \in Envs /\ writer[w].values \in SUBSET Options
  BY Parts DEF Requests
<1>2. \A V \in Snapshots : V \in SUBSET Options
  BY EnvironmentsAssumption
<1>3. 0 \in 0..MaxRevision
  BY EnvironmentsAssumption
<1>4. CASE \E V \in Snapshots : CheckEdit(w, V)
  BY <1>2, <1>4, CheckStep DEF CheckEdit
<1>5. CASE \E V \in Snapshots : PrepareImport(w, V)
  BY <1>2, <1>3, <1>5, NumberStep DEF PrepareImport
<1>6. CASE \E n \in Numbers : PrepareRestore(w, n)
  <2>1. PICK n \in Numbers : PrepareRestore(w, n)
    BY <1>6
  <2>2. revision[writer[w].env][n] \in Revisions
    BY <1>1, Parts DEF RecordsTyped
  <2>3. revision[writer[w].env][n].values \in SUBSET Options
    BY <2>2 DEF Revisions
  <2>4. n \in 0..MaxRevision
    BY EnvironmentsAssumption DEF Numbers
  <2>5. QED
    BY <2>1, <2>3, <2>4, NumberStep DEF PrepareRestore
<1>7. CASE PrepareEdit(w)
  BY <1>1, <1>3, <1>7, NumberStep DEF PrepareEdit
<1>8. CASE CheckPrepared(w)
  BY <1>1, <1>8, CheckStep DEF CheckPrepared
<1>9. QED
  BY <1>4, <1>5, <1>6, <1>7, <1>8

\* A revision is stored only by a request that has seen the current one, and is
\* given the number after it.
LEMMA CommitFacts ==
  ASSUME EnvInv, NEW w \in Writers, CommitRevision(w)
  PROVE  LET r == writer[w] IN
         /\ r \in Requests /\ r.env \in Envs /\ env[r.env].status = "active" /\ env[r.env].current = r.seen
         /\ r.next = r.seen + 1 /\ r.next \in Numbers /\ ~revision[r.env][r.next].stored
         /\ ValuesKnown(r.values) /\ ValidInTransaction(r) /\ StoreRevision(w)
<1>1. /\ writer[w] \in Requests /\ writer[w].step = "ready"
      /\ env[writer[w].env].status = "active" /\ env[writer[w].env].current = writer[w].seen
      /\ ~revision[writer[w].env][writer[w].next].stored
      /\ ValidInTransaction(writer[w]) /\ StoreRevision(w)
  BY Parts DEF CommitRevision
<1>2. writer[w].seen < writer[w].next /\ writer[w].next <= writer[w].seen + 1
  BY <1>1, Parts DEF RequestsLagBehind, Present
<1>3. writer[w].seen \in 0..MaxRevision /\ writer[w].next \in 0..MaxRevision /\ MaxRevision \in Nat
  BY <1>1, EnvironmentsAssumption DEF Requests
<1>4. writer[w].next = writer[w].seen + 1 /\ writer[w].next \in Numbers
  BY <1>2, <1>3 DEF Numbers
<1>5. ValuesKnown(writer[w].values)
  BY <1>1 DEF ValidInTransaction, ValidateFacts, ValidateConstraints
<1>6. writer[w].env \in Envs
  BY <1>1 DEF Requests
<1>7. QED
  BY <1>1, <1>4, <1>5, <1>6

LEMMA CommitRequestStep ==
  ASSUME EnvInv, NEW w \in Writers, CommitRevision(w)
  PROVE  EnvInv'
<1>1. SUFFICES ASSUME NEW r, r = writer[w], NEW e, e = r.env,
                      NEW s, s = [stored |-> TRUE, values |-> r.values, base |-> r.seen, source |-> r.source]
               PROVE  EnvInv'
  OBVIOUS
<1>2. /\ r \in Requests /\ e \in Envs /\ env[e].status = "active" /\ env[e].current = r.seen
      /\ r.next = r.seen + 1 /\ r.next \in Numbers /\ ~revision[e][r.next].stored
      /\ ValuesKnown(r.values) /\ StoreRevision(w)
  BY <1>1, CommitFacts
<1>3. /\ revision' = [revision EXCEPT ![e][r.next] = s]
      /\ env' = [env EXCEPT ![e].current = r.next]
      /\ writer' = [writer EXCEPT ![w] = NoWriter]
      /\ UNCHANGED <<scope, job, check, optionVars>>
  BY <1>1, <1>2 DEF StoreRevision
<1>4. s \in Revisions /\ s.stored /\ s.values = r.values /\ s.base = r.seen
  BY <1>1, <1>2 DEF Revisions, Requests
<1>5. /\ revision' \in [Envs -> [Numbers -> Revisions]] /\ revision'[e][r.next] = s
      /\ \A f \in Envs, m \in Numbers : ~(f = e /\ m = r.next) => revision'[f][m] = revision[f][m]
  <2>1. RecordsTyped
    BY Parts
  <2>2. QED
    BY <1>2, <1>3, <1>4, <2>1, RevisionChanges, ZenonT(60)
<1>6. r.next \in 0..MaxRevision /\ r.seen \in 0..MaxRevision /\ MaxRevision \in Nat
  BY <1>2, EnvironmentsAssumption DEF Requests
<1>7. /\ env' \in [Envs -> [status : {"absent", "active", "archived", "deleted"},
                            current : 0..MaxRevision, installed : BOOLEAN]]
      /\ env'[e].current = r.next /\ env'[e].status = "active"
      /\ \A f \in Envs : env'[f].status = env[f].status /\ env'[f].installed = env[f].installed
      /\ \A f \in Envs \ {e} : env'[f] = env[f]
  BY <1>2, <1>3, <1>6, Parts DEF RecordsTyped
<1>8. RecordsTyped'
  BY <1>3, <1>5, <1>7, Parts DEF RecordsTyped
<1>9. \A f \in Envs : Present(f)' = Present(f)
  BY <1>7 DEF Present
<1>10. Present(e)
  BY <1>2 DEF Present
<1>11. \A f \in Envs, n \in Numbers : revision[f][n].stored => revision'[f][n].stored
  BY <1>4, <1>5
<1>12. RecordsSound'
  <2>1. \A f \in Envs, n \in Numbers : ValuesKnown(revision'[f][n].values)
    BY <1>2, <1>4, <1>5, Parts DEF RecordsSound
  <2>2. \A b \in Branches : ValuesKnown(scope'[b].values)
    BY <1>3, Parts DEF RecordsSound
  <2>3. \A n \in Numbers : revision'[e][n].stored => n <= r.next /\ revision'[e][n].base = n - 1
    <3> SUFFICES ASSUME NEW n \in Numbers, revision'[e][n].stored
                 PROVE  n <= r.next /\ revision'[e][n].base = n - 1
      OBVIOUS
    <3>1. CASE n = r.next
      <4>1. revision'[e][n].base = r.seen /\ n = r.seen + 1
        BY <1>2, <1>4, <1>5, <3>1
      <4>2. QED
        BY <1>6, <3>1, <4>1
    <3>2. CASE n # r.next
      <4>1. n <= r.seen /\ revision'[e][n].base = n - 1
        BY <1>2, <1>5, <1>10, <3>2, Parts DEF RecordsSound
      <4>2. n \in Int
        BY DEF Numbers
      <4>3. QED
        BY <1>2, <1>6, <4>1, <4>2
    <3>3. QED
      BY <3>1, <3>2
  <2>4. \A f \in Envs :
          IF Present(f)'
            THEN /\ env'[f].current \in Numbers /\ revision'[f][env'[f].current].stored
                 /\ \A n \in Numbers : revision'[f][n].stored =>
                       n <= env'[f].current /\ revision'[f][n].base = n - 1
            ELSE \A n \in Numbers : ~revision'[f][n].stored
    <3> SUFFICES ASSUME NEW f \in Envs
                 PROVE  IF Present(f)'
                          THEN /\ env'[f].current \in Numbers /\ revision'[f][env'[f].current].stored
                               /\ \A n \in Numbers : revision'[f][n].stored =>
                                     n <= env'[f].current /\ revision'[f][n].base = n - 1
                          ELSE \A n \in Numbers : ~revision'[f][n].stored
      OBVIOUS
    <3>1. CASE f = e
      BY <1>2, <1>4, <1>5, <1>7, <1>9, <1>10, <2>3, <3>1
    <3>2. CASE f # e
      BY <1>5, <1>7, <1>9, <3>2, Parts, SMTT(30) DEF RecordsSound
    <3>3. QED
      BY <3>1, <3>2
  <2>5. \A j \in Jobs, f \in Envs : job'[j].status # "none" /\ job'[j].env = f =>
          /\ Present(f)' /\ job'[j].revision \in Numbers /\ revision'[f][job'[j].revision].stored
          /\ env'[f].status = "archived" => job'[j].status # "active"
    BY <1>3, <1>7, <1>9, <1>11, Parts DEF RecordsSound
  <2>6. \A f \in Envs : env'[f].status = "archived" => ~env'[f].installed
    BY <1>7, Parts DEF RecordsSound
  <2>7. \A f \in Envs, n \in Numbers : <<f, n>> \in check'.stored => Present(f)' /\ revision'[f][n].stored
    BY <1>3, <1>9, <1>11, Parts DEF RecordsSound
  <2>8. QED
    BY <1>3, <2>1, <2>2, <2>4, <2>5, <2>6, <2>7 DEF RecordsSound, ValuesKnown, optionVars
<1>13. writer' \in [Writers -> Requests] /\ writer'[w].step = "idle" /\ \A v \in Writers \ {w} : writer'[v] = writer[v]
  <2>1. NoWriter \in Requests /\ NoWriter.step = "idle"
    <3>1. (CHOOSE f \in Envs : TRUE) \in Envs
      BY EnvironmentsAssumption
    <3>2. QED
      BY <3>1, EnvironmentsAssumption DEF NoWriter, Requests
  <2>2. QED
    BY <1>3, <2>1, Parts
<1>14. RequestsLagBehind'
  <2>1. SUFFICES ASSUME NEW v \in Writers \ {w}, NEW q \in Requests, q = writer[v], q.step # "idle",
                        NEW f \in Envs, f = q.env
                 PROVE  /\ env'[f].status # "absent"
                        /\ Present(f)' => q.seen <= env'[f].current
                        /\ Present(f)' /\ q.step \in {"numbered", "ready"} => q.seen < q.next /\ q.next <= env'[f].current + 1
    <3>1. \A v \in Writers : writer[v] \in Requests /\ writer[v].env \in Envs
      BY Parts DEF Requests
    <3>2. QED
      BY <1>13, <3>1 DEF RequestsLagBehind, Present
  <2>2. /\ env[f].status # "absent"
        /\ Present(f) => q.seen <= env[f].current
        /\ Present(f) /\ q.step \in {"numbered", "ready"} => q.seen < q.next /\ q.next <= env[f].current + 1
    BY <2>1, Parts DEF RequestsLagBehind
  <2>3. q.seen \in Int /\ q.next \in Int
    BY DEF Requests
  <2>4. env[f].current \in Int /\ env'[f].current \in Int /\ env[f].current <= env'[f].current
    BY <1>2, <1>6, <1>7, Parts DEF RecordsTyped
  <2>5. QED
    BY <1>7, <1>9, <2>2, <2>3, <2>4
<1>15. QED
  BY <1>3, <1>8, <1>12, <1>13, <1>14, RecordsMove

\* A revision nobody names is deleted with its checks.
LEMMA DeleteRevisionStep ==
  ASSUME EnvInv, NEW e \in Envs, NEW n \in Numbers, DeleteEnvironmentRevision(e, n)
  PROVE  EnvInv'
<1>1. NoRevision \in Revisions /\ ~NoRevision.stored /\ NoRevision.values = {}
  BY EnvironmentsAssumption DEF NoRevision, Revisions
<1>2. /\ env[e].status = "active" /\ n # env[e].current /\ RecordsTyped
      /\ \A j \in Jobs : job[j].status # "none" /\ job[j].env = e => job[j].revision # n
      /\ revision' = [revision EXCEPT ![e][n] = NoRevision]
      /\ check' = [check EXCEPT !.stored = @ \ {<<e, n>>}]
      /\ UNCHANGED <<env, scope, job, writer, optionVars>>
  BY Parts DEF DeleteEnvironmentRevision, UsersOf
<1>3. /\ revision' \in [Envs -> [Numbers -> Revisions]] /\ revision'[e][n] = NoRevision
      /\ \A f \in Envs, m \in Numbers : ~(f = e /\ m = n) => revision'[f][m] = revision[f][m]
  BY <1>1, <1>2, RevisionChanges
<1>4. /\ check'.stored = check.stored \ {<<e, n>>}
      /\ check' \in [stored : SUBSET (Envs \X Numbers), running : SUBSET (Envs \X Numbers)]
  BY <1>2 DEF RecordsTyped
<1>5. RecordsTyped'
  BY <1>2, <1>3, <1>4 DEF RecordsTyped
<1>6. Present(e) /\ \A f \in Envs : Present(f)' = Present(f)
  BY <1>2 DEF Present
<1>7. RecordsSound'
  <2>1. /\ \A f \in Envs, m \in Numbers : ValuesKnown(revision'[f][m].values)
        /\ \A b \in Branches : ValuesKnown(scope'[b].values)
    <3>1. ValuesKnown({})
      BY DEF ValuesKnown
    <3>2. \A f \in Envs, m \in Numbers : revision'[f][m].values = {} \/ revision'[f][m] = revision[f][m]
      BY <1>1, <1>3
    <3>3. /\ \A f \in Envs, m \in Numbers : ValuesKnown(revision[f][m].values)
          /\ \A b \in Branches : ValuesKnown(scope[b].values)
      BY Parts DEF RecordsSound
    <3>4. \A f \in Envs, m \in Numbers : ValuesKnown(revision'[f][m].values)
      BY <3>1, <3>2, <3>3
    <3>5. QED
      BY <1>2, <3>3, <3>4
  <2>2. \A f \in Envs :
          IF Present(f)'
            THEN /\ env'[f].current \in Numbers /\ revision'[f][env'[f].current].stored
                 /\ \A m \in Numbers : revision'[f][m].stored =>
                       m <= env'[f].current /\ revision'[f][m].base = m - 1
            ELSE \A m \in Numbers : ~revision'[f][m].stored
    BY <1>1, <1>2, <1>3, <1>6, Parts DEF RecordsSound
  <2>3. \A j \in Jobs, f \in Envs : job'[j].status # "none" /\ job'[j].env = f =>
          /\ Present(f)' /\ job'[j].revision \in Numbers /\ revision'[f][job'[j].revision].stored
          /\ env'[f].status = "archived" => job'[j].status # "active"
    BY <1>2, <1>3, <1>6, Parts DEF RecordsSound
  <2>4. \A f \in Envs : env'[f].status = "archived" => ~env'[f].installed
    BY <1>2, Parts DEF RecordsSound
  <2>5. \A f \in Envs, m \in Numbers : <<f, m>> \in check'.stored => Present(f)' /\ revision'[f][m].stored
    BY <1>3, <1>4, <1>6, Parts DEF RecordsSound
  <2>6. QED
    BY <1>2, <2>1, <2>2, <2>3, <2>4, <2>5 DEF RecordsSound, ValuesKnown, optionVars
<1>8. RequestsLagBehind' /\ (writer \in [Writers -> Requests])'
  <2>1. \A f \in Envs : env'[f] = env[f] /\ env[f].current \in Int
    BY <1>2 DEF RecordsTyped
  <2>2. QED
    BY <1>2, <1>5, <1>6, <2>1, Parts, RequestsStay
<1>9. QED
  BY <1>2, <1>5, <1>7, <1>8, RecordsMove

\* An environment goes with all its revisions and checks.
LEMMA DeleteStep ==
  ASSUME EnvInv, NEW e \in Envs, DeleteEnvironment(e)
  PROVE  EnvInv'
<1>1. NoRevision \in Revisions /\ ~NoRevision.stored /\ NoRevision.values = {}
  BY EnvironmentsAssumption DEF NoRevision, Revisions
<1>2. /\ Present(e) /\ RecordsTyped
      /\ \A j \in Jobs : ~(job[j].status # "none" /\ job[j].env = e)
      /\ env' = [env EXCEPT ![e] = [status |-> "deleted", current |-> 0, installed |-> FALSE]]
      /\ revision' = [revision EXCEPT ![e] = [n \in Numbers |-> NoRevision]]
      /\ check' = [check EXCEPT !.stored = {c \in @ : c[1] # e}]
      /\ UNCHANGED <<scope, job, writer, optionVars>>
  BY Parts DEF DeleteEnvironment, UsersOf
<1>3. /\ revision' \in [Envs -> [Numbers -> Revisions]] /\ \A m \in Numbers : revision'[e][m] = NoRevision
      /\ \A f \in Envs \ {e} : revision'[f] = revision[f]
  BY <1>1, <1>2 DEF RecordsTyped
<1>4. /\ \A f \in Envs, m \in Numbers : <<f, m>> \in check'.stored => f # e /\ <<f, m>> \in check.stored
      /\ check' \in [stored : SUBSET (Envs \X Numbers), running : SUBSET (Envs \X Numbers)]
  <2>1. check.stored \in SUBSET (Envs \X Numbers) /\ check'.stored = {c \in check.stored : c[1] # e}
        /\ check' = [stored |-> check'.stored, running |-> check.running]
    BY <1>2 DEF RecordsTyped
  <2>2. QED
    BY <1>2, <2>1 DEF RecordsTyped
<1>5. /\ env' \in [Envs -> [status : {"absent", "active", "archived", "deleted"},
                            current : 0..MaxRevision, installed : BOOLEAN]]
      /\ env'[e].status = "deleted" /\ \A f \in Envs \ {e} : env'[f] = env[f]
  BY <1>2, EnvironmentsAssumption DEF RecordsTyped
<1>6. RecordsTyped'
  BY <1>2, <1>3, <1>4, <1>5 DEF RecordsTyped
<1>7. ~Present(e)' /\ \A f \in Envs \ {e} : Present(f)' = Present(f)
  BY <1>5 DEF Present
<1>8. RecordsSound'
  <2>1. /\ \A f \in Envs, m \in Numbers : ValuesKnown(revision'[f][m].values)
        /\ \A b \in Branches : ValuesKnown(scope'[b].values)
    <3>1. ValuesKnown({})
      BY DEF ValuesKnown
    <3>2. QED
      BY <1>1, <1>2, <1>3, <3>1, Parts, ZenonT(60) DEF RecordsSound
  <2>2. \A f \in Envs :
          IF Present(f)'
            THEN /\ env'[f].current \in Numbers /\ revision'[f][env'[f].current].stored
                 /\ \A m \in Numbers : revision'[f][m].stored =>
                       m <= env'[f].current /\ revision'[f][m].base = m - 1
            ELSE \A m \in Numbers : ~revision'[f][m].stored
    <3> SUFFICES ASSUME NEW f \in Envs
                 PROVE  IF Present(f)'
                          THEN /\ env'[f].current \in Numbers /\ revision'[f][env'[f].current].stored
                               /\ \A m \in Numbers : revision'[f][m].stored =>
                                     m <= env'[f].current /\ revision'[f][m].base = m - 1
                          ELSE \A m \in Numbers : ~revision'[f][m].stored
      OBVIOUS
    <3>1. CASE f = e
      BY <1>1, <1>3, <1>7, <3>1
    <3>2. CASE f # e
      BY <1>3, <1>5, <1>7, <3>2, Parts DEF RecordsSound
    <3>3. QED
      BY <3>1, <3>2
  <2>3. \A j \in Jobs, f \in Envs : job'[j].status # "none" /\ job'[j].env = f =>
          /\ Present(f)' /\ job'[j].revision \in Numbers /\ revision'[f][job'[j].revision].stored
          /\ env'[f].status = "archived" => job'[j].status # "active"
    BY <1>2, <1>3, <1>5, <1>7, Parts DEF RecordsSound
  <2>4. \A f \in Envs : env'[f].status = "archived" => ~env'[f].installed
    BY <1>5, Parts DEF RecordsSound
  <2>5. \A f \in Envs, m \in Numbers : <<f, m>> \in check'.stored => Present(f)' /\ revision'[f][m].stored
    BY <1>3, <1>4, <1>7, Parts DEF RecordsSound
  <2>6. QED
    BY <1>2, <2>1, <2>2, <2>3, <2>4, <2>5 DEF RecordsSound, ValuesKnown, optionVars
<1>9. RequestsLagBehind' /\ (writer \in [Writers -> Requests])'
  <2>1. \A f \in Envs : env[f].status # "absent" =>
           env'[f].status # "absent" /\ (Present(f)' => Present(f) /\ env[f].current <= env'[f].current)
    <3>1. \A f \in Envs : env[f].current \in Int
      BY <1>2 DEF RecordsTyped
    <3>2. QED
      BY <1>5, <1>7, <3>1
  <2>2. QED
    BY <1>2, <1>6, <2>1, Parts, RequestsStay
<1>10. QED
  BY <1>2, <1>6, <1>8, <1>9, RecordsMove

\* Steps that store and delete no revision: an environment is archived or
\* taken back, a run or a build comes and goes, a check is stored.
LEMMA RevisionsStay ==
  ASSUME EnvInv, RecordsTyped', UNCHANGED <<revision, scope, writer, optionVars>>,
         \A e \in Envs : env'[e].current = env[e].current /\ Present(e)' = Present(e)
                         /\ (env[e].status # "absent" => env'[e].status # "absent"),
         \A j \in Jobs, e \in Envs : job'[j].status # "none" /\ job'[j].env = e =>
             /\ Present(e) /\ job'[j].revision \in Numbers /\ revision[e][job'[j].revision].stored
             /\ env'[e].status = "archived" => job'[j].status # "active",
         \A e \in Envs : env'[e].status = "archived" => ~env'[e].installed,
         \A e \in Envs, n \in Numbers : <<e, n>> \in check'.stored => Present(e) /\ revision[e][n].stored
  PROVE  EnvInv'
<1>1. RecordsSound'
  <2>1. /\ \A f \in Envs, m \in Numbers : ValuesKnown(revision'[f][m].values)
        /\ \A b \in Branches : ValuesKnown(scope'[b].values)
    BY Parts DEF RecordsSound
  <2>2. \A f \in Envs :
          IF Present(f)'
            THEN /\ env'[f].current \in Numbers /\ revision'[f][env'[f].current].stored
                 /\ \A m \in Numbers : revision'[f][m].stored =>
                       m <= env'[f].current /\ revision'[f][m].base = m - 1
            ELSE \A m \in Numbers : ~revision'[f][m].stored
    BY Parts DEF RecordsSound
  <2>3. QED
    BY <2>1, <2>2 DEF RecordsSound, ValuesKnown, optionVars
<1>2. RequestsLagBehind' /\ (writer \in [Writers -> Requests])'
  <2>1. \A f \in Envs : env[f].current <= env'[f].current
    BY Parts DEF RecordsTyped
  <2>2. QED
    BY <2>1, Parts, RequestsStay
<1>3. QED
  BY <1>1, <1>2, RecordsMove

LEMMA ArchivingStep ==
  ASSUME EnvInv, NEW e \in Envs, ArchiveEnvironment(e) \/ UnarchiveEnvironment(e)
  PROVE  EnvInv'
<1>1. RecordsTyped /\ RecordsSound
  BY Parts
<1>2. PICK s \in {"active", "archived"} :
        /\ env' = [env EXCEPT ![e].status = s] /\ env[e].status \in {"active", "archived"}
        /\ s = "archived" => ~env[e].installed /\ \A j \in Jobs : ~(job[j].status = "active" /\ job[j].env = e)
  BY DEF ArchiveEnvironment, UnarchiveEnvironment, ActiveUsers, UsersOf
<1>3. UNCHANGED <<revision, scope, job, check, writer, optionVars>>
  BY DEF ArchiveEnvironment, UnarchiveEnvironment
<1>4. /\ env' \in [Envs -> [status : {"absent", "active", "archived", "deleted"},
                            current : 0..MaxRevision, installed : BOOLEAN]]
      /\ env'[e].status = s /\ \A f \in Envs \ {e} : env'[f] = env[f]
      /\ \A f \in Envs : env'[f].current = env[f].current /\ env'[f].installed = env[f].installed
  BY <1>1, <1>2, SMTT(30) DEF RecordsTyped
<1>5. RecordsTyped'
  BY <1>1, <1>3, <1>4 DEF RecordsTyped
<1>6. \A f \in Envs : Present(f)' = Present(f) /\ (env[f].status # "absent" => env'[f].status # "absent")
  BY <1>2, <1>4 DEF Present
<1>7. \A j \in Jobs, f \in Envs : job'[j].status # "none" /\ job'[j].env = f =>
         /\ Present(f) /\ job'[j].revision \in Numbers /\ revision[f][job'[j].revision].stored
         /\ env'[f].status = "archived" => job'[j].status # "active"
  BY <1>1, <1>2, <1>3, <1>4 DEF RecordsSound
<1>8. \A f \in Envs : env'[f].status = "archived" => ~env'[f].installed
  BY <1>1, <1>2, <1>4 DEF RecordsSound
<1>9. \A f \in Envs, n \in Numbers : <<f, n>> \in check'.stored => Present(f) /\ revision[f][n].stored
  BY <1>1, <1>3 DEF RecordsSound
<1>10. QED
  BY <1>3, <1>4, <1>5, <1>6, <1>7, <1>8, <1>9, RevisionsStay

LEMMA JobsStep ==
  ASSUME EnvInv, NEW j \in Jobs, JobStep(j)
  PROVE  EnvInv'
<1>1. RecordsTyped /\ RecordsSound /\ job[j].env \in Envs
  BY Parts DEF RecordsTyped
<1>2. UNCHANGED <<revision, scope, check, writer, optionVars>>
  BY DEF JobStep, PlanJob, CreateJob, EndJob
<1>3. \A f \in Envs, n \in Numbers : <<f, n>> \in check'.stored => Present(f) /\ revision[f][n].stored
  BY <1>1, <1>2 DEF RecordsSound
<1>4. CASE \E e \in Envs, kind \in {"run", "build"} : PlanJob(j, e, kind)
  <2>1. PICK e \in Envs, kind \in {"run", "build"} : PlanJob(j, e, kind)
    BY <1>4
  <2>2. /\ env' = env
        /\ job' = [job EXCEPT ![j] = [status |-> "none", kind |-> kind, env |-> e, revision |-> env[e].current]]
    BY <2>1 DEF PlanJob
  <2>3. /\ job' \in [Jobs -> [status : {"none", "active", "ended"}, kind : {"run", "build"},
                              env : Envs, revision : 0..MaxRevision]]
        /\ job'[j].status = "none" /\ \A k \in Jobs \ {j} : job'[k] = job[k]
    BY <1>1, <2>2 DEF RecordsTyped
  <2>4. RecordsTyped'
    BY <1>1, <1>2, <2>2, <2>3 DEF RecordsTyped
  <2>5. \A k \in Jobs, f \in Envs : job'[k].status # "none" /\ job'[k].env = f =>
           /\ Present(f) /\ job'[k].revision \in Numbers /\ revision[f][job'[k].revision].stored
           /\ env'[f].status = "archived" => job'[k].status # "active"
    BY <1>1, <2>2, <2>3 DEF RecordsSound
  <2>6. \A f \in Envs : Present(f)' = Present(f) /\ (env'[f].status = "archived" => ~env'[f].installed)
    BY <1>1, <2>2 DEF RecordsSound, Present
  <2>7. QED
    BY <1>2, <1>3, <2>2, <2>4, <2>5, <2>6, RevisionsStay
<1>5. CASE CreateJob(j)
  <2>1. SUFFICES ASSUME NEW e \in Envs, e = job[j].env PROVE EnvInv'
    BY <1>1
  <2>2. /\ env' = env /\ job' = [job EXCEPT ![j].status = "active"] /\ job[j].revision # 0
        /\ env[e].status = "active" /\ revision[e][job[j].revision].stored
    BY <1>5, <2>1 DEF CreateJob
  <2>3. /\ job' \in [Jobs -> [status : {"none", "active", "ended"}, kind : {"run", "build"},
                              env : Envs, revision : 0..MaxRevision]]
        /\ job'[j].env = e /\ job'[j].revision = job[j].revision /\ job[j].revision \in Numbers
        /\ \A k \in Jobs \ {j} : job'[k] = job[k]
    <3>1. job[j].revision \in 0..MaxRevision /\ MaxRevision \in Nat
      BY <1>1, EnvironmentsAssumption DEF RecordsTyped
    <3>2. job[j].revision \in Numbers
      BY <2>2, <3>1 DEF Numbers
    <3>3. SUFFICES ASSUME NEW x, x = [job[j] EXCEPT !.status = "active"]
                   PROVE  /\ job' \in [Jobs -> [status : {"none", "active", "ended"}, kind : {"run", "build"},
                                                env : Envs, revision : 0..MaxRevision]]
                          /\ job'[j].env = e /\ job'[j].revision = job[j].revision
                          /\ \A k \in Jobs \ {j} : job'[k] = job[k]
      BY <3>2
    <3>4. /\ x \in [status : {"none", "active", "ended"}, kind : {"run", "build"},
                     env : Envs, revision : 0..MaxRevision]
          /\ x.env = e /\ x.revision = job[j].revision
      BY <1>1, <2>1, <3>3, ZenonT(60) DEF RecordsTyped
    <3>5. job' = [job EXCEPT ![j] = x]
      BY <1>1, <2>2, <3>3 DEF RecordsTyped
    <3>6. QED
      BY <1>1, <3>4, <3>5 DEF RecordsTyped
  <2>4. RecordsTyped'
    BY <1>1, <1>2, <2>2, <2>3 DEF RecordsTyped
  <2>5. Present(e)
    BY <2>2 DEF Present
  <2>6. \A k \in Jobs, f \in Envs : job'[k].status # "none" /\ job'[k].env = f =>
           /\ Present(f) /\ job'[k].revision \in Numbers /\ revision[f][job'[k].revision].stored
           /\ env'[f].status = "archived" => job'[k].status # "active"
    BY <1>1, <2>2, <2>3, <2>5 DEF RecordsSound
  <2>7. \A f \in Envs : Present(f)' = Present(f) /\ (env'[f].status = "archived" => ~env'[f].installed)
    BY <1>1, <2>2 DEF RecordsSound, Present
  <2>8. QED
    BY <1>2, <1>3, <2>2, <2>4, <2>6, <2>7, RevisionsStay
<1>6. CASE \E installed \in BOOLEAN : EndJob(j, installed)
  <2>1. PICK installed \in BOOLEAN : EndJob(j, installed)
    BY <1>6
  <2>2. SUFFICES ASSUME NEW e \in Envs, e = job[j].env PROVE EnvInv'
    BY <1>1
  <2>3. /\ job[j].status = "active" /\ job' = [job EXCEPT ![j].status = "ended"]
        /\ env' = [env EXCEPT ![e].installed = installed]
    BY <2>1, <2>2 DEF EndJob
  <2>4. /\ job' \in [Jobs -> [status : {"none", "active", "ended"}, kind : {"run", "build"},
                              env : Envs, revision : 0..MaxRevision]]
        /\ job'[j].env = e /\ job'[j].revision = job[j].revision /\ job'[j].status = "ended"
        /\ \A k \in Jobs \ {j} : job'[k] = job[k]
    BY <1>1, <2>2, <2>3, ZenonT(60) DEF RecordsTyped
  <2>5. /\ env' \in [Envs -> [status : {"absent", "active", "archived", "deleted"},
                              current : 0..MaxRevision, installed : BOOLEAN]]
        /\ \A f \in Envs : env'[f].current = env[f].current /\ env'[f].status = env[f].status
        /\ \A f \in Envs \ {e} : env'[f] = env[f]
    <3>1. SUFFICES ASSUME NEW x, x = [env[e] EXCEPT !.installed = installed]
                   PROVE  /\ env' \in [Envs -> [status : {"absent", "active", "archived", "deleted"},
                                                current : 0..MaxRevision, installed : BOOLEAN]]
                          /\ \A f \in Envs : env'[f].current = env[f].current /\ env'[f].status = env[f].status
                          /\ \A f \in Envs \ {e} : env'[f] = env[f]
      OBVIOUS
    <3>2. /\ x \in [status : {"absent", "active", "archived", "deleted"}, current : 0..MaxRevision, installed : BOOLEAN]
          /\ x.current = env[e].current /\ x.status = env[e].status
      <4>1. env[e] \in [status : {"absent", "active", "archived", "deleted"}, current : 0..MaxRevision, installed : BOOLEAN]
        BY <1>1 DEF RecordsTyped
      <4>2. x = [status |-> env[e].status, current |-> env[e].current, installed |-> installed]
        BY <3>1, <4>1
      <4>3. env[e].status \in {"absent", "active", "archived", "deleted"} /\ env[e].current \in 0..MaxRevision
        BY <4>1
      <4>4. QED
        BY <4>2, <4>3
    <3>3. env' = [env EXCEPT ![e] = x] /\ \A f \in Envs : env'[f] = IF f = e THEN x ELSE env[f]
      <4>1. env' = [env EXCEPT ![e] = x]
        BY <1>1, <2>3, <3>1 DEF RecordsTyped
      <4>2. QED
        BY <1>1, <4>1 DEF RecordsTyped
    <3>4. QED
      BY <1>1, <3>2, <3>3 DEF RecordsTyped
  <2>6. RecordsTyped'
    BY <1>1, <1>2, <2>4, <2>5 DEF RecordsTyped
  <2>7. env[e].status # "archived"
    BY <1>1, <2>2, <2>3 DEF RecordsSound
  <2>8. \A k \in Jobs, f \in Envs : job'[k].status # "none" /\ job'[k].env = f =>
           /\ Present(f) /\ job'[k].revision \in Numbers /\ revision[f][job'[k].revision].stored
           /\ env'[f].status = "archived" => job'[k].status # "active"
    BY <1>1, <2>2, <2>3, <2>4, <2>5, SMTT(30) DEF RecordsSound
  <2>9. \A f \in Envs : Present(f)' = Present(f) /\ (env'[f].status = "archived" => ~env'[f].installed)
    BY <1>1, <2>5, <2>7 DEF RecordsSound, Present
  <2>10. QED
    BY <1>2, <1>3, <2>5, <2>6, <2>8, <2>9, RevisionsStay
<1>7. QED
  BY <1>4, <1>5, <1>6 DEF JobStep

\* A check is stored only for a revision that is still there.
LEMMA ChecksStep ==
  ASSUME EnvInv, (\E e \in Envs : BeginCheck(e)) \/ \E c \in check.running : EndCheck(c)
  PROVE  EnvInv'
<1>1. RecordsTyped /\ RecordsSound
  BY Parts
<1>2. UNCHANGED <<env, revision, scope, job, writer, optionVars>>
  BY DEF BeginCheck, EndCheck
<1>3. /\ check' \in [stored : SUBSET (Envs \X Numbers), running : SUBSET (Envs \X Numbers)]
      /\ \A f \in Envs, n \in Numbers : <<f, n>> \in check'.stored => Present(f) /\ revision[f][n].stored
  <2>1. CASE \E e \in Envs : BeginCheck(e)
    <3>1. PICK e \in Envs : env[e].status = "active" /\ check' = [check EXCEPT !.running = {<<e, env[e].current>>}]
      BY <2>1 DEF BeginCheck
    <3>2. env[e].current \in Numbers
      BY <1>1, <3>1 DEF RecordsSound, Present
    <3>3. check'.stored = check.stored /\ check' = [stored |-> check.stored, running |-> {<<e, env[e].current>>}]
      BY <1>1, <3>1 DEF RecordsTyped
    <3>4. QED
      BY <1>1, <3>2, <3>3 DEF RecordsTyped, RecordsSound
  <2>2. CASE \E c \in check.running : EndCheck(c)
    <3>1. PICK c \in check.running : EndCheck(c)
      BY <2>2
    <3>2. PICK e \in Envs, m \in Numbers : c = <<e, m>>
      BY <1>1, <3>1 DEF RecordsTyped
    <3>3. check' = [stored |-> IF env[e].status = "active" /\ revision[e][m].stored
                               THEN check.stored \cup {<<e, m>>} ELSE check.stored,
                    running |-> {}]
      BY <3>1, <3>2 DEF EndCheck
    <3>4. QED
      BY <1>1, <3>2, <3>3 DEF RecordsTyped, RecordsSound, Present
  <2>3. QED
    BY <2>1, <2>2
<1>4. RecordsTyped'
  BY <1>1, <1>2, <1>3 DEF RecordsTyped
<1>5. /\ \A f \in Envs : Present(f)' = Present(f) /\ (env'[f].status = "archived" => ~env'[f].installed)
      /\ \A k \in Jobs, f \in Envs : job'[k].status # "none" /\ job'[k].env = f =>
           /\ Present(f) /\ job'[k].revision \in Numbers /\ revision[f][job'[k].revision].stored
           /\ env'[f].status = "archived" => job'[k].status # "active"
  BY <1>1, <1>2 DEF RecordsSound, Present
<1>6. QED
  BY <1>2, <1>3, <1>4, <1>5, RevisionsStay

LEMMA BranchesStep ==
  ASSUME EnvInv, NEW b \in Branches, BranchStep(b)
  PROVE  EnvInv'
<1>1. RecordsTyped /\ RecordsSound
  BY Parts
<1>2. UNCHANGED <<env, revision, job, check, writer, optionVars>>
  BY DEF BranchStep, CreateBranch, DeleteBranch
<1>3. PICK V \in SUBSET Options, stored \in BOOLEAN :
        scope' = [scope EXCEPT ![b] = [stored |-> stored, values |-> V]] /\ ValuesKnown(V)
  <2>1. ValuesKnown({})
    BY DEF ValuesKnown
  <2>2. QED
    BY <2>1, EnvironmentsAssumption DEF BranchStep, CreateBranch, DeleteBranch, ValidateConstraints, NoScope
<1>4. /\ scope' \in [Branches -> [stored : BOOLEAN, values : SUBSET Options]]
      /\ scope'[b].values = V /\ \A a \in Branches \ {b} : scope'[a] = scope[a]
  BY <1>1, <1>3 DEF RecordsTyped
<1>5. RecordsTyped'
  BY <1>1, <1>2, <1>4 DEF RecordsTyped
<1>6. \A a \in Branches : ValuesKnown(scope'[a].values)
  BY <1>1, <1>3, <1>4 DEF RecordsSound
<1>7. RecordsSound'
  BY <1>1, <1>2, <1>6 DEF RecordsSound, Present, ValuesKnown, optionVars
<1>8. RequestsLagBehind' /\ (writer \in [Writers -> Requests])'
  <2>1. \A f \in Envs : env[f].current <= env[f].current
    BY <1>1 DEF RecordsTyped
  <2>2. \A f \in Envs : Present(f)' = Present(f)
    BY <1>2 DEF Present
  <2>3. QED
    BY <1>2, <1>5, <2>1, <2>2, Parts, RequestsStay
<1>9. QED
  BY <1>2, <1>5, <1>7, <1>8, RecordsMove

LEMMA EnvironmentsStep == EnvInv /\ [EnvironmentsNext]_envVars => EnvInv'
<1> SUFFICES ASSUME EnvInv, [EnvironmentsNext]_envVars PROVE EnvInv'
  OBVIOUS
<1>1. ASSUME NEW e \in Envs, EnvironmentStep(e) PROVE EnvInv'
  BY <1>1, CreateStep, DeleteRevisionStep, DeleteStep, ArchivingStep, ChecksStep DEF EnvironmentStep
<1>2. ASSUME NEW w \in Writers, WriterStep(w) PROVE EnvInv'
  BY <1>2, RequestEndsStep, PrepareStep, CommitRequestStep DEF WriterStep
<1>3. CASE UNCHANGED envVars
  <2>1. UNCHANGED <<env, revision, scope, job, check, writer, optionVars>>
    BY <1>3 DEF envVars
  <2>2. RecordsTyped' /\ (writer \in [Writers -> Requests])' /\ RequestsLagBehind'
    BY <2>1, Parts DEF RecordsTyped, RequestsLagBehind, Present
  <2>3. RecordsSound'
    BY <2>1, Parts DEF RecordsSound, Present, ValuesKnown, optionVars
  <2>4. QED
    BY <2>1, <2>2, <2>3, RecordsMove
<1>4. QED
  BY <1>1, <1>2, <1>3, JobsStep, BranchesStep, ChecksStep, AdministratorMoves DEF EnvironmentsNext

\* However edits, restores, imports, runs, checks, deletions and the work of the
\* administrator interleave: no record names what is gone, no edit is lost, the
\* directory is whole, and nothing goes on in an archived environment.
THEOREM EnvironmentHistoryIsIntact == EnvironmentsSpec => [](EnvironmentsTypeOK /\ HistoryIsIntact)
<1>1. EnvInv => EnvironmentsTypeOK /\ HistoryIsIntact
  <2> SUFFICES ASSUME EnvInv PROVE RevisionsFollow
    BY DEF EnvInv, HistoryIsIntact
  <2>1. \A e \in Envs : Present(e) => env[e].current = Newest(e)
    BY CurrentIsNewest
  <2>2. QED
    BY <2>1 DEF EnvInv, NoneIsNewer, RevisionsFollow
<1>2. QED
  BY EnvironmentsStart, EnvironmentsStep, <1>1, PTL DEF EnvironmentsSpec

\* What a step stores of a snapshot and of a scope.
StoresNothingRetired ==
  /\ \A e \in Envs, n \in Numbers : (~revision[e][n].stored /\ revision[e][n].stored') =>
       LET s == revision'[e][n] IN
       IF s.source # 0 THEN s.values = revision[e][s.source].values
       ELSE /\ Complete(s.values)
            /\ s.values \subseteq {o \in Options : ~Retired(o)} \cup
                                  (IF env[e].current = 0 THEN {} ELSE CurrentRevision(e).values)
  /\ \A b \in Branches : scope'[b] # scope[b] => \A o \in scope'[b].values : ~Retired(o)

LEMMA StoringStep ==
  ASSUME EnvInv, EnvironmentsNext
  PROVE  StoresNothingRetired
<1>1. RecordsTyped
  BY Parts
<1>2. CASE UNCHANGED <<revision, scope>>
  BY <1>2 DEF StoresNothingRetired
<1>3. ASSUME NEW e \in Envs, NEW V \in Snapshots, CreateEnvironment(e, V)
      PROVE  StoresNothingRetired
  <2>1. SUFFICES ASSUME NEW s, s = [NoRevision EXCEPT !.stored = TRUE, !.values = V]
                 PROVE  StoresNothingRetired
    OBVIOUS
  <2>2. s = [stored |-> TRUE, values |-> V, base |-> 0, source |-> 0]
    BY <2>1 DEF NoRevision
  <2>3. revision' = [revision EXCEPT ![e][1] = s] /\ scope' = scope /\ Complete(V)
        /\ V \subseteq {o \in Options : ~Retired(o)}
    <3>1. V \subseteq Options
      BY EnvironmentsAssumption
    <3>2. QED
      BY <1>3, <2>1, <3>1 DEF CreateEnvironment, ValidateFacts, ValidateChanges
  <2>4. \A f \in Envs, m \in Numbers : revision'[f][m] = revision[f][m] \/ revision'[f][m] = s
    BY <1>1, <2>3 DEF RecordsTyped
  <2>5. s.source = 0 /\ s.values = V
    BY <2>2
  <2>6. QED
    BY <2>3, <2>4, <2>5 DEF StoresNothingRetired
<1>4. ASSUME NEW w \in Writers, CommitRevision(w)
      PROVE  StoresNothingRetired
  <2>1. SUFFICES ASSUME NEW r, r = writer[w], NEW e, e = r.env,
                        NEW s, s = [stored |-> TRUE, values |-> r.values, base |-> r.seen, source |-> r.source]
                 PROVE  StoresNothingRetired
    OBVIOUS
  <2>2. r \in Requests /\ e \in Envs /\ r.next \in Numbers /\ ValidInTransaction(r) /\ env[e].status = "active"
    BY <1>4, <2>1, CommitFacts
  <2>3. revision' = [revision EXCEPT ![e][r.next] = s] /\ scope' = scope
    BY <1>4, <2>1, CommitFacts DEF StoreRevision
  <2>4. \A f \in Envs, m \in Numbers :
          IF f = e /\ m = r.next THEN revision'[f][m] = s ELSE revision'[f][m] = revision[f][m]
    BY <1>1, <2>2, <2>3 DEF RecordsTyped
  <2>5. s.source = r.source /\ s.values = r.values
    BY <2>1
  <2>6. CASE r.source # 0
    <3>1. revision[e][r.source].values = r.values
      BY <2>1, <2>2, <2>6 DEF ValidInTransaction
    <3>2. ASSUME NEW f \in Envs, NEW m \in Numbers, ~revision[f][m].stored, revision'[f][m].stored
          PROVE  f = e /\ revision'[f][m] = s
      BY <2>4, <3>2
    <3>3. ASSUME NEW f \in Envs, NEW m \in Numbers, ~revision[f][m].stored, revision'[f][m].stored
          PROVE  /\ revision'[f][m].source # 0
                 /\ revision'[f][m].values = revision[f][revision'[f][m].source].values
      BY <2>5, <2>6, <3>1, <3>2, <3>3
    <3>4. QED
      BY <2>3, <3>3 DEF StoresNothingRetired
  <2>7. CASE r.source = 0
    <3>1. Complete(r.values) /\ \A o \in r.values \ CurrentRevision(e).values : ~Retired(o)
      BY <2>1, <2>2, <2>7 DEF ValidInTransaction, ValidateFacts, ValidateChanges
    <3>2. env[e].current # 0
      <4>1. Present(e)
        BY <2>2 DEF Present
      <4>2. QED
        BY <2>2, <4>1, CurrentIsNewest DEF Numbers
    <3>3. r.values \subseteq Options
      BY <2>2 DEF Requests
    <3>4. r.values \subseteq {o \in Options : ~Retired(o)} \cup
                             (IF env[e].current = 0 THEN {} ELSE CurrentRevision(e).values)
      BY <3>1, <3>2, <3>3
    <3>5. QED
      BY <2>3, <2>4, <2>5, <2>7, <3>1, <3>4 DEF StoresNothingRetired
  <2>8. QED
    BY <2>6, <2>7
<1>5. ASSUME NEW e \in Envs, DeleteEnvironment(e) \/ \E n \in Numbers : DeleteEnvironmentRevision(e, n)
      PROVE  StoresNothingRetired
  <2>1. scope' = scope
    BY <1>5 DEF DeleteEnvironment, DeleteEnvironmentRevision
  <2>2. \A f \in Envs, m \in Numbers : revision'[f][m] = revision[f][m] \/ revision'[f][m] = NoRevision
    BY <1>1, <1>5 DEF DeleteEnvironment, DeleteEnvironmentRevision, RecordsTyped
  <2>3. ~NoRevision.stored
    BY DEF NoRevision
  <2>4. QED
    BY <2>1, <2>2, <2>3 DEF StoresNothingRetired
<1>6. ASSUME NEW b \in Branches, BranchStep(b)
      PROVE  StoresNothingRetired
  <2>1. PICK x : /\ scope' = [scope EXCEPT ![b] = x] /\ revision' = revision
                 /\ \A o \in x.values : ~Retired(o)
    <3>1. CASE \E V \in Scopes : CreateBranch(b, V)
      <4>1. PICK V \in Scopes : CreateBranch(b, V)
        BY <3>1
      <4>2. /\ scope' = [scope EXCEPT ![b] = [stored |-> TRUE, values |-> V]] /\ revision' = revision
            /\ \A o \in [stored |-> TRUE, values |-> V].values : ~Retired(o)
        BY <4>1 DEF CreateBranch, ValidateChanges
      <4>3. QED
        BY <4>2
    <3>2. CASE DeleteBranch(b)
      <4>1. scope' = [scope EXCEPT ![b] = NoScope] /\ revision' = revision /\ NoScope.values = {}
        BY <3>2 DEF DeleteBranch, NoScope
      <4>2. QED
        BY <4>1
    <3>3. QED
      BY <1>6, <3>1, <3>2 DEF BranchStep
  <2>2. \A a \in Branches : scope'[a] = scope[a] \/ scope'[a] = x
    BY <1>1, <2>1 DEF RecordsTyped
  <2>3. QED
    BY <2>1, <2>2 DEF StoresNothingRetired
<1>7. \A e \in Envs : EnvironmentStep(e) => StoresNothingRetired
  BY <1>2, <1>3, <1>5 DEF EnvironmentStep, ArchiveEnvironment, UnarchiveEnvironment, BeginCheck
<1>8. \A w \in Writers : WriterStep(w) => StoresNothingRetired
  <2>1. \A w \in Writers : (\E e \in Envs : ReadEnvironment(w, e)) \/ RequestEnds(w) =>
            UNCHANGED <<revision, scope>>
    BY DEF ReadEnvironment, RequestEnds
  <2>2. \A w, V, step : Checks(w, step, V) => UNCHANGED <<revision, scope>>
    BY DEF Checks
  <2>3. \A w, V, step, source :
            NextEnvironmentRevision(w, step, V, source) => UNCHANGED <<revision, scope>>
    BY DEF NextEnvironmentRevision
  <2>4. \A w \in Writers : PrepareEdit(w) \/ CheckPrepared(w) => UNCHANGED <<revision, scope>>
    BY <2>2, <2>3 DEF PrepareEdit, CheckPrepared
  <2>5. \A w \in Writers, V \in Snapshots :
            CheckEdit(w, V) \/ PrepareImport(w, V) => UNCHANGED <<revision, scope>>
    BY <2>2, <2>3 DEF CheckEdit, PrepareImport
  <2>6. \A w \in Writers, n \in Numbers : PrepareRestore(w, n) => UNCHANGED <<revision, scope>>
    BY <2>3 DEF PrepareRestore
  <2>7. QED
    BY <1>2, <1>4, <2>1, <2>4, <2>5, <2>6 DEF WriterStep
<1>9. \A j \in Jobs : JobStep(j) => UNCHANGED <<revision, scope>>
  BY DEF JobStep, PlanJob, CreateJob, EndJob
<1>10. \A c \in check.running : EndCheck(c) => UNCHANGED <<revision, scope>>
  BY DEF EndCheck
<1>11. QED
  BY <1>2, <1>6, <1>7, <1>8, <1>9, <1>10 DEF EnvironmentsNext

\* A step that stores a snapshot or a scope brings nothing retired to where it
\* was not, whatever was retired between its check and its commit.
THEOREM RetiredIsNotAdopted == EnvironmentsSpec => NothingRetiredIsAdopted
<1>1. EnvInv /\ [EnvironmentsNext]_envVars => [StoresNothingRetired]_envVars
  BY StoringStep
<1>2. QED
  <2>1. [][StoresNothingRetired]_envVars => NothingRetiredIsAdopted
    BY PTL DEF StoresNothingRetired, NothingRetiredIsAdopted
  <2>2. QED
    BY EnvironmentsStart, EnvironmentsStep, <1>1, <2>1, PTL DEF EnvironmentsSpec

---------------------------------------------------------------------------
(* The records side by side.                                                 *)

RecordsInv == JournalInv /\ ImportInv /\ ArchiveInv /\ JobInv /\ EnvInv

\* One kind of record moves at a time, the others are left alone.
LEMMA OneRecordMoves ==
  [RecordsNext]_recordVars =>
    /\ [JournalNext]_journalVars /\ [ImportNext]_importVars /\ [ArchiveNext]_archiveVars
    /\ [JobNext]_jobVars /\ [EnvironmentsNext]_envVars
BY DEF RecordsNext, recordVars

\* Every variable of the records holds what its type says, for every value of
\* the constants and any interleaving of the five.
THEOREM RecordsAreTyped == RecordsSpec => []RecordsTypeOK
<1>1. RecordsInit => RecordsInv
  BY JournalStarts, ImportStarts, ArchiveStarts, JobStarts, EnvironmentsStart DEF RecordsInit, RecordsInv
<1>2. RecordsInv /\ [RecordsNext]_recordVars => RecordsInv'
  BY OneRecordMoves, JournalStep, ImportStepKeeps, ArchiveStep, JobStepKeeps, EnvironmentsStep DEF RecordsInv
<1>3. RecordsInv => RecordsTypeOK
  BY DEF RecordsInv, RecordsTypeOK, JournalInv, ImportInv, ArchiveInv, JobInv, EnvInv
<1>4. QED
  BY <1>1, <1>2, <1>3, PTL DEF RecordsSpec
===============================================================================

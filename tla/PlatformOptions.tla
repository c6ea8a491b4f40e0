--------------------------- MODULE PlatformOptions ---------------------------
(* The directory of environment dimensions and host groups an administrator *)
(* keeps, and the rules that say which of its values a record may name. An  *)
(* option of a child category belongs to an option of the parent category.  *)
(* Ids are generated, so what has been deleted never comes back.            *)
EXTENDS Naturals, FiniteSets

CONSTANTS Categories, Options, NoCategory, NoOption,
          HostGroups,      \* the protected category of host groups
          CategoryOf,      \* option -> its category
          ParentCategory,  \* category -> category or NoCategory
          ParentOption,    \* option -> option of the parent category or NoOption
          Required,        \* dimensions every environment has to state
          Installed        \* categories and options the bootstrap installs

ASSUME DirectoryAssumption ==
    /\ HostGroups \in Categories /\ ParentCategory[HostGroups] = NoCategory
    /\ CategoryOf \in [Options -> Categories]
    /\ ParentCategory \in [Categories -> Categories \cup {NoCategory}]
    /\ ParentOption \in [Options -> Options \cup {NoOption}]
    /\ Required \subseteq Categories \ {HostGroups}

\* initialPlatformCategories: whatever is installed is installed with its parents.
ASSUME InstalledAssumption ==
    /\ HostGroups \in Installed
    /\ \A c \in Categories \cap Installed :
           ParentCategory[c] # NoCategory => ParentCategory[c] \in Installed
    /\ \A o \in Options \cap Installed :
           /\ CategoryOf[o] \in Installed
           /\ ParentOption[o] # NoOption =>
                  ParentOption[o] \in Installed /\ CategoryOf[ParentOption[o]] = ParentCategory[CategoryOf[o]]

VARIABLES category, option   \* "absent", "active", "retired", "deleted"

optionVars == <<category, option>>

Known == {"active", "retired"}
Dimensions == {c \in Categories \ {HostGroups} : category[c] \in Known}
InCategory(V, c) == {o \in V : CategoryOf[o] = c}

\* BootstrapPlatformCatalog, once, into an empty directory.
OptionsInit ==
    /\ category = [c \in Categories |-> IF c \in Installed THEN "active" ELSE "absent"]
    /\ option = [o \in Options |-> IF o \in Installed THEN "active" ELSE "absent"]

-----------------------------------------------------------------------------
(* What a record may name: a set of options, its facts or constraints and   *)
(* its host groups.                                                         *)

ValuesKnown(V) == \A o \in V : option[o] \in Known /\ category[CategoryOf[o]] \in Known

\* In every child category the options chosen are those of the chosen parent
\* options, at least one for each; retired categories are not exempt.
ParentsCovered(V) ==
    \A c \in Dimensions : ParentCategory[c] # NoCategory =>
        {ParentOption[o] : o \in InCategory(V, c)} = InCategory(V, ParentCategory[c])

ValidateConstraints(V) == ValuesKnown(V) /\ ParentsCovered(V)

Complete(V) ==
    \A c \in Dimensions \cap Required : category[c] = "active" => InCategory(V, c) # {}

\* A fact has one value; the inventory names any number of host groups.
ValidateFacts(V, requireComplete) ==
    /\ \A c \in Dimensions : Cardinality(InCategory(V, c)) <= 1
    /\ ValidateConstraints(V)
    /\ requireComplete => Complete(V)

Retired(o) == option[o] = "retired" \/ category[CategoryOf[o]] = "retired"

\* What is retired may stay where it was and comes nowhere else.
ValidateChanges(V, previous) == \A o \in V \ previous : ~Retired(o)

-----------------------------------------------------------------------------
(* Operations of the administrator, each one transaction that repeats what  *)
(* the service has checked before. `used` is what stored records name.      *)

CreateCategory(c) ==
    /\ category[c] = "absent" /\ c # HostGroups
    /\ ParentCategory[c] # NoCategory =>
           /\ category[ParentCategory[c]] = "active" /\ ParentCategory[c] # HostGroups
           /\ ParentCategory[ParentCategory[c]] = NoCategory
    /\ category' = [category EXCEPT ![c] = "active"]
    /\ UNCHANGED option

CreateOption(o) ==
    LET c == CategoryOf[o]  p == ParentOption[o] IN
    /\ option[o] = "absent" /\ category[c] = "active"
    /\ IF ParentCategory[c] = NoCategory THEN p = NoOption
       ELSE p # NoOption /\ CategoryOf[p] = ParentCategory[c] /\ option[p] = "active"
    /\ option' = [option EXCEPT ![o] = "active"]
    /\ UNCHANGED category

RetireCategory(c) ==
    /\ category[c] \in Known /\ c # HostGroups
    /\ \A d \in Categories : ParentCategory[d] = c => category[d] # "active"
    /\ category' = [category EXCEPT ![c] = "retired"]
    /\ UNCHANGED option

RestoreCategory(c) ==
    /\ category[c] \in Known
    /\ ParentCategory[c] # NoCategory => category[ParentCategory[c]] = "active"
    /\ category' = [category EXCEPT ![c] = "active"]
    /\ UNCHANGED option

RetireOption(o) ==
    /\ option[o] \in Known
    /\ \A q \in Options : ParentOption[q] = o => option[q] # "active"
    /\ option' = [option EXCEPT ![o] = "retired"]
    /\ UNCHANGED category

\* Only the category is asked: the parent option may still be retired.
RestoreOption(o) ==
    /\ option[o] \in Known /\ category[CategoryOf[o]] = "active"
    /\ option' = [option EXCEPT ![o] = "active"]
    /\ UNCHANGED category

\* With its options; a foreign key refuses it while it has child categories.
DeleteCategory(c, used) ==
    /\ category[c] \in Known /\ c # HostGroups
    /\ InCategory(used, c) = {}
    /\ \A d \in Categories : ParentCategory[d] = c => category[d] \notin Known
    /\ category' = [category EXCEPT ![c] = "deleted"]
    /\ option' = [o \in Options |-> IF CategoryOf[o] = c /\ option[o] \in Known
                                    THEN "deleted" ELSE option[o]]

DeleteOption(o, used) ==
    /\ option[o] \in Known /\ o \notin used
    /\ \A q \in Options : ParentOption[q] = o => option[q] \notin Known
    /\ option' = [option EXCEPT ![o] = "deleted"]
    /\ UNCHANGED category

AdministratorStep(used) ==
    \/ \E c \in Categories :
           CreateCategory(c) \/ RetireCategory(c) \/ RestoreCategory(c) \/ DeleteCategory(c, used)
    \/ \E o \in Options :
           CreateOption(o) \/ RetireOption(o) \/ RestoreOption(o) \/ DeleteOption(o, used)

-----------------------------------------------------------------------------
OptionsTypeOK ==
    /\ category \in [Categories -> Known \cup {"absent", "deleted"}]
    /\ option \in [Options -> Known \cup {"absent", "deleted"}]

\* Whatever is created, retired, restored and deleted in whatever order: what
\* can be chosen hangs on what exists, and a category in use on one in use.
DirectoryIsWhole ==
    /\ category[HostGroups] = "active"
    /\ \A c \in Dimensions : ParentCategory[c] # NoCategory =>
           /\ category[ParentCategory[c]] \in Known
           /\ category[c] = "active" => category[ParentCategory[c]] = "active"
    /\ \A o \in Options : option[o] \in Known =>
           /\ category[CategoryOf[o]] \in Known
           /\ ParentOption[o] # NoOption => option[ParentOption[o]] \in Known

\* What DirectoryIsWhole rests on: the parent of an option is in the parent of
\* its category, so neither goes without the other.
OptionsFollowCategories ==
    \A o \in Options : option[o] \in Known /\ ParentOption[o] # NoOption =>
        CategoryOf[ParentOption[o]] = ParentCategory[CategoryOf[o]]
=============================================================================

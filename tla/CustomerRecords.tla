-------------------------- MODULE CustomerRecords --------------------------
(***************************************************************************)
(* Customer accounts and their properties: opened, brought into service,   *)
(* archived and taken up again.                                            *)
(*                                                                         *)
(* Every check below is a query of its own.  A new property asks for an    *)
(* active account and then waits, for its foreign key, until an archive of *)
(* the account has committed; a change of a property's status, a crew      *)
(* assignment and the release of work read what they depend on without a   *)
(* lock, and write later.  Such a request is two steps here, and the       *)
(* archive of an account is two: its counts, and its commit.  Names,       *)
(* contacts, relationship types and audit events are left out.             *)
(***************************************************************************)
EXTENDS CrewPlanning

CONSTANTS
    Accounts,
    AccountOf       \* [Properties -> Accounts]

ASSUME RecordsAssumption == AccountOf \in [Properties -> Accounts]

VARIABLES
    account,    \* organization_customer_accounts.status
    property,   \* customer_properties.status
    profile,    \* property_onboarding_profiles.onboarding_status
    serving,    \* accounts with a job that is scheduled or in progress
    archiving,  \* the accounts whose archive has counted and not committed
    asked,      \* what a request has read before it writes
    overtaken   \* history: what was archived while a request that had passed
                \* its checks was under way

recordVars == <<account, property, profile, serving, archiving, asked, overtaken>>

-----------------------------------------------------------------------------
RecordStatus == {"none", "active", "archived"}
PropertyStatus == {"none", "onboarding", "active", "archived"}
Targets == PropertyStatus \ {"none"}
ProfileStatus == {"none", "incomplete", "active"}

\* target: the status asked for; new: the property is inserted; work: a job of
\* it is released.
Pending == [property : Properties, target : Targets \cup {"new", "work"}]

RecordsTypeOK ==
    /\ account \in [Accounts -> RecordStatus]
    /\ property \in [Properties -> PropertyStatus]
    /\ profile \in [Properties -> ProfileStatus]
    /\ serving \subseteq Accounts
    /\ archiving \subseteq Accounts
    /\ asked \in [Writers -> Pending \cup {None}]
    /\ overtaken \subseteq Accounts \cup Properties

RecordsInit ==
    /\ account = [a \in Accounts |-> "none"]
    /\ property = [x \in Properties |-> "none"]
    /\ profile = [x \in Properties |-> "none"]
    /\ serving = {} /\ archiving = {}
    /\ asked = [w \in Writers |-> None]
    /\ overtaken = {}

AccountManager ==
    \E u \in Users : user_has_active_membership(u, can_manage_property_portfolios)

Reads(w, x, target) ==
    /\ asked[w] = None
    /\ asked' = [asked EXCEPT ![w] = [property |-> x, target |-> target]]

\* A write that lands while the account's archive has counted escapes it.
Ends(w) ==
    LET a == AccountOf[asked[w].property] IN
    /\ asked' = [asked EXCEPT ![w] = None]
    /\ overtaken' = overtaken \cup (archiving \cap {a})

-----------------------------------------------------------------------------
(* Accounts. *)

create_account(a) == account' = [account EXCEPT ![a] = "active"]

create_customer_account(a) ==
    /\ AccountManager
    /\ account[a] = "none"
    /\ create_account(a)
    /\ UNCHANGED <<property, profile, serving, archiving, asked, overtaken, planVars>>

Current(a) == {x \in Properties : AccountOf[x] = a
                                  /\ property[x] \in {"onboarding", "active"}}

\* The account's row is locked; no current property and no unfinished job is
\* counted.  A second archive, or a reactivation, waits for the first.
archive_customer_account(a) ==
    /\ AccountManager
    /\ account[a] = "active" /\ a \notin archiving
    /\ Current(a) = {} /\ a \notin serving
    /\ archiving' = archiving \cup {a}
    /\ UNCHANGED <<account, property, profile, serving, asked, overtaken, planVars>>

UnderWay(a) == \E w \in Writers :
                   asked[w] # None /\ AccountOf[asked[w].property] = a

archive_account(a) ==
    /\ a \in archiving
    /\ archiving' = archiving \ {a}
    /\ account' = [account EXCEPT ![a] = "archived"]
    /\ overtaken' = overtaken \cup (IF UnderWay(a) THEN {a} ELSE {})
    /\ UNCHANGED <<property, profile, serving, asked, planVars>>

reactivate_account(a) ==
    /\ account[a] = "archived"
    /\ account' = [account EXCEPT ![a] = "active"]

reactivate_customer_account(a) ==
    /\ AccountManager
    /\ reactivate_account(a)
    /\ UNCHANGED <<property, profile, serving, archiving, asked, overtaken, planVars>>

-----------------------------------------------------------------------------
(* Properties. *)

\* The account is found active, ...
create_customer_property(w, x) ==
    /\ AccountManager
    /\ property[x] = "none" /\ account[AccountOf[x]] = "active"
    /\ Reads(w, x, "new")
    /\ UNCHANGED <<account, property, profile, serving, archiving, overtaken, planVars>>

\* ... and the property inserted, once no archive holds the account.  A second
\* one of the same name and address fails.
create_property(w) ==
    /\ asked[w] # None /\ asked[w].target = "new"
    /\ LET x == asked[w].property IN
       /\ AccountOf[x] \notin archiving
       /\ property' = [property EXCEPT ![x] = IF @ = "none" THEN "onboarding" ELSE @]
    /\ Ends(w)
    /\ UNCHANGED <<account, profile, serving, archiving, planVars>>

\* The profile is inserted or overwritten, of a property that is not archived.
persist_property_onboarding(x, status) ==
    /\ property[x] \notin {"none", "archived"}
    /\ profile' = [profile EXCEPT ![x] = status]

upsert_property_onboarding(x, status) ==
    /\ AccountManager
    /\ persist_property_onboarding(x, status)
    /\ UNCHANGED <<account, property, serving, archiving, asked, overtaken, planVars>>

property_activation_readiness(x) == profile[x] = "active" /\ assigned[x] # None

\* Mutant: activation does not ask for readiness.
ReadStatus_AnyProfile(w, x, target) ==
    /\ property[x] # "none" /\ account[AccountOf[x]] = "active"
    /\ target = "onboarding" => property[x] = "archived"
    /\ Reads(w, x, target)

\* What is read without a lock: an active account, the status, and for an
\* activation that is one, readiness.
ReadStatus(w, x, target) ==
    /\ property[x] # "none" /\ account[AccountOf[x]] = "active"
    /\ target = "onboarding" => property[x] = "archived"
    /\ target = "active" /\ property[x] # "active" => property_activation_readiness(x)
    /\ Reads(w, x, target)

update_customer_property_status(w, x, target) ==
    /\ AccountManager
    /\ ReadStatus(w, x, target)
    /\ UNCHANGED <<account, property, profile, serving, archiving, overtaken, planVars>>

\* Other requests that have read what this one changes.
Overtakes(w, x) ==
    \/ \E v \in Writers \ {w} : asked[v] # None /\ asked[v].property = x
    \/ \E v \in Writers : /\ work[v] # None
                          /\ work[v].op = "property" /\ work[v].property = x

\* The status is written whatever it has become, if the account is active;
\* an archive ends the assignment.
update_property_status(w) ==
    /\ asked[w] # None /\ asked[w].target \in Targets
    /\ LET x == asked[w].property
           target == asked[w].target
           writes == account[AccountOf[x]] = "active"
       IN /\ property' = IF writes THEN [property EXCEPT ![x] = target] ELSE property
          /\ assigned' = IF writes /\ target = "archived"
                         THEN [assigned EXCEPT ![x] = None] ELSE assigned
          /\ asked' = [asked EXCEPT ![w] = None]
          /\ overtaken' = overtaken \cup (archiving \cap {AccountOf[x]})
                          \cup (IF writes /\ target = "archived" /\ Overtakes(w, x)
                                THEN {x} ELSE {})
    /\ UNCHANGED <<account, profile, serving, archiving,
                   branch, territory, crew, plan, stop, work, held>>

\* A crew is given a property that is not archived; CrewPlanning has the rest.
AssignCrew(w, x, c) ==
    /\ property[x] \notin {"none", "archived"}
    /\ assign_property_crew(w, x, c)
    /\ UNCHANGED recordVars

-----------------------------------------------------------------------------
(* Work. *)

\* A service is released for an active account and a current property, ...
ReleaseWork(w, x) ==
    /\ property[x] \notin {"none", "archived"} /\ account[AccountOf[x]] = "active"
    /\ Reads(w, x, "work")
    /\ UNCHANGED <<account, property, profile, serving, archiving, overtaken, planVars>>

\* ... as a scheduled job.
ScheduleJob(w) ==
    /\ asked[w] # None /\ asked[w].target = "work"
    /\ serving' = serving \cup {AccountOf[asked[w].property]}
    /\ Ends(w)
    /\ UNCHANGED <<account, property, profile, archiving, planVars>>

\* The account's last unfinished job is completed.
CompleteWork(a) ==
    /\ a \in serving
    /\ serving' = serving \ {a}
    /\ UNCHANGED <<account, property, profile, archiving, asked, overtaken, planVars>>

-----------------------------------------------------------------------------
AccountStep ==
    \E a \in Accounts :
        \/ create_customer_account(a) \/ archive_customer_account(a)
        \/ archive_account(a) \/ reactivate_customer_account(a)
        \/ CompleteWork(a)

PropertyStep ==
    \E w \in Writers :
        \/ create_property(w) \/ update_property_status(w) \/ ScheduleJob(w)
        \/ insert_property_crew_assignment(w) /\ UNCHANGED recordVars
        \/ \E x \in Properties :
              \/ create_customer_property(w, x) \/ ReleaseWork(w, x)
              \/ \E target \in Targets : update_customer_property_status(w, x, target)
              \/ \E c \in Crews : AssignCrew(w, x, c)

RecordsStep ==
    \/ AccountStep \/ PropertyStep
    \/ \E x \in Properties, status \in ProfileStatus \ {"none"} :
          upsert_property_onboarding(x, status)

\* With the staff, and with the planning that does not concern properties: a
\* crew is given one by AssignCrew.
RecordsNext ==
    \/ Next /\ UNCHANGED <<planVars, recordVars>>
    \/ /\ HierarchyStep \/ CrewSetup \/ RouteStep
       /\ UNCHANGED <<vars, recordVars>>
    \/ RecordsStep /\ UNCHANGED vars
RecordsSpec == Init /\ PlanInit /\ RecordsInit
               /\ [][RecordsNext]_<<vars, planVars, recordVars>>

-----------------------------------------------------------------------------
(* Properties of the records. *)

\* Archived is out of service and active is in service: an archived property
\* has no crew, an active one has one, and an archived account has neither a
\* current property nor unfinished work; except for what was archived while a
\* request that had passed its checks was still to write.
ArchivedIsOutOfService ==
    /\ \A x \in Properties \ overtaken :
          /\ property[x] = "archived" => assigned[x] = None
          /\ property[x] = "active" => assigned[x] # None
    /\ \A a \in Accounts \ overtaken :
          account[a] = "archived" => Current(a) = {} /\ a \notin serving

=============================================================================

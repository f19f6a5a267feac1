---------------------------- MODULE CrewPlanning ----------------------------
(***************************************************************************)
(* Branches and territories, the crews that work in them, the properties   *)
(* given to a crew, and the day plans its managers draft and publish.      *)
(*                                                                         *)
(* A request is one transaction at READ COMMITTED.  What matters is which  *)
(* statement reads what: a check that is not repeated under the lock of    *)
(* the row that a statement then waits for holds in the statement's own    *)
(* snapshot only.  Such a request has two steps here, its check (in work)  *)
(* and its write, and anything can happen between them.  The stops of a    *)
(* plan are unique by job and by order; a write that would break that      *)
(* fails and leaves no trace.                                              *)
(***************************************************************************)
EXTENDS StaffAccess
LOCAL INSTANCE Functions

CONSTANTS
    Branches, Territories,
    BranchOf,       \* [Territories -> Branches]
    Primary,        \* the territory new crews get, in the main branch
    Crews, Properties, Jobs,
    Plans, CrewOf,  \* [Plans -> Crews], day plans of today or later
    Writers,        \* requests under way
    MaxCapacity,    \* the default capacity, and the largest
    Shift,          \* what a reorder adds out of the way, 10000
    MaxOrder        \* bound on the order of a stop

ASSUME PlanningAssumption ==
    /\ BranchOf \in [Territories -> Branches] /\ Primary \in Territories
    /\ CrewOf \in [Plans -> Crews]
    /\ None \notin Crews \cup Territories \cup Writers
    /\ MaxCapacity \in Nat \ {0} /\ MaxOrder \in Nat /\ Shift \in Nat
    /\ IsFiniteSet(Jobs) /\ Cardinality(Jobs) < Shift

VARIABLES
    branch, territory,  \* their status
    crew,       \* crews
    assigned,   \* the active assignment of each property
    plan,       \* day_plans
    stop,       \* day_plan_stops: the order of each job's stop, 0 for none
    work,       \* what a request has read before it writes
    held        \* the request that holds a crew's row

planVars == <<branch, territory, crew, assigned, plan, stop, work, held>>

-----------------------------------------------------------------------------
Lifecycle == {"none", "active", "inactive"}
Crew == [status : Lifecycle, capacity : 1..MaxCapacity,
         lead : Rows \cup {None}, territory : Territories]
Plan == [status : {"none", "draft", "published"}, capacity : 0..MaxCapacity]
Stops == [Jobs -> 0..MaxOrder]
Orders == UNION {{s \in [1..n -> Jobs] : IsInjective(s)} : n \in 1..Cardinality(Jobs)}

Work ==
         [op : {"branch"}, branch : Branches]
    \cup [op : {"territory", "create"}, territory : Territories]
    \cup [op : {"property"}, property : Properties, crew : Crews]
    \cup [op : {"draft"}, plan : Plans, capacity : 1..MaxCapacity]
    \cup [op : {"assign"}, plan : Plans, job : Jobs, seen : Stops]
    \cup [op : {"remove"}, plan : Plans, job : Jobs]
    \cup [op : {"reorder"}, plan : Plans, order : Orders]

PlanTypeOK ==
    /\ branch \in [Branches -> Lifecycle]
    /\ territory \in [Territories -> Lifecycle]
    /\ crew \in [Crews -> Crew]
    /\ assigned \in [Properties -> Crews \cup {None}]
    /\ plan \in [Plans -> Plan]
    /\ stop \in [Plans -> Stops]
    /\ work \in [Writers -> Work \cup {None}]
    /\ held \in [Crews -> Writers \cup {None}]

PlanInit ==
    /\ branch = [b \in Branches |-> "none"]
    /\ territory = [t \in Territories |-> "none"]
    /\ crew = [c \in Crews |-> [status |-> "none", capacity |-> MaxCapacity,
                                lead |-> None, territory |-> Primary]]
    /\ assigned = [x \in Properties |-> None]
    /\ plan = [p \in Plans |-> [status |-> "none", capacity |-> 0]]
    /\ stop = [p \in Plans |-> [j \in Jobs |-> 0]]
    /\ work = [w \in Writers |-> None]
    /\ held = [c \in Crews |-> None]

Scheduler == \E u \in Users : user_has_active_membership(u, can_manage_schedule)
Assigner == \E u \in Users : user_has_active_membership(u, can_manage_crew_assignments)
Administrator == \E u \in Users : user_has_active_membership(u, can_manage_organization)

Begins(w, q) == work[w] = None /\ work' = [work EXCEPT ![w] = q]
Does(w, op) == /\ work[w] # None
               /\ work[w].op = op
               /\ work' = [work EXCEPT ![w] = None]

-----------------------------------------------------------------------------
(* Branches and territories. *)

create_organization_branch(b) ==
    /\ Administrator
    /\ branch[b] = "none"
    /\ branch' = [branch EXCEPT ![b] = "active"]
    /\ UNCHANGED <<territory, crew, assigned, plan, stop, work, held>>

\* The branch of the new territory is found active, ...
create_service_territory(w, t) ==
    /\ Administrator
    /\ branch[BranchOf[t]] = "active"
    /\ Begins(w, [op |-> "create", territory |-> t])
    /\ UNCHANGED <<branch, territory, crew, assigned, plan, stop, held>>

\* ... and the territory is inserted.
InsertTerritory(w) ==
    /\ Does(w, "create")
    /\ LET t == work[w].territory IN
       IF territory[t] = "none"
       THEN territory' = [territory EXCEPT ![t] = "active"]
       ELSE UNCHANGED territory
    /\ UNCHANGED <<branch, crew, assigned, plan, stop, held>>

HasActiveCrews(ts) ==
    \E c \in Crews : crew[c].status = "active" /\ crew[c].territory \in ts

TerritoriesOf(b) == {t \in Territories : BranchOf[t] = b}

\* A branch to deactivate has no active crew or territory, ...
CheckBranchScope(w, b) ==
    /\ ~HasActiveCrews(TerritoriesOf(b))
    /\ \A t \in TerritoriesOf(b) : territory[t] # "active"
    /\ Begins(w, [op |-> "branch", branch |-> b])
    /\ UNCHANGED branch

update_organization_branch_status(w, b, status) ==
    /\ Administrator
    /\ branch[b] # "none"
    /\ CASE status = "inactive" -> CheckBranchScope(w, b)
         [] status = "active"   -> /\ branch' = [branch EXCEPT ![b] = "active"]
                                   /\ UNCHANGED work
    /\ UNCHANGED <<territory, crew, assigned, plan, stop, held>>

\* ... and becomes inactive.
DeactivateBranch(w) ==
    /\ Does(w, "branch")
    /\ branch' = [branch EXCEPT ![work[w].branch] = "inactive"]
    /\ UNCHANGED <<territory, crew, assigned, plan, stop, held>>

\* A territory to deactivate has no active crew, ...
CheckTerritoryScope(w, t) ==
    /\ ~HasActiveCrews({t})
    /\ Begins(w, [op |-> "territory", territory |-> t])
    /\ UNCHANGED territory

\* The branch of one to activate is active, in the same statement.
update_service_territory_status(w, t, status) ==
    /\ Administrator
    /\ territory[t] # "none"
    /\ CASE status = "inactive" -> CheckTerritoryScope(w, t)
         [] status = "active"   ->
               /\ branch[BranchOf[t]] = "active"
               /\ territory' = [territory EXCEPT ![t] = "active"]
               /\ UNCHANGED work
    /\ UNCHANGED <<branch, crew, assigned, plan, stop, held>>

\* ... and becomes inactive.
DeactivateTerritory(w) ==
    /\ Does(w, "territory")
    /\ territory' = [territory EXCEPT ![work[w].territory] = "inactive"]
    /\ UNCHANGED <<branch, crew, assigned, plan, stop, held>>

-----------------------------------------------------------------------------
(* Crews. *)

ActiveScope(t) == territory[t] = "active" /\ branch[BranchOf[t]] = "active"

create_crew(c) ==
    /\ crew[c].status = "none"
    /\ ActiveScope(Primary)
    /\ crew' = [crew EXCEPT ![c].status = "active"]

create_organization_crew(c) ==
    /\ Administrator
    /\ create_crew(c)
    /\ UNCHANGED <<branch, territory, assigned, plan, stop, work, held>>

\* An active assignment, or a draft or published plan of today or later.
HasOperationalWork(c) ==
    \/ \E x \in Properties : assigned[x] = c
    \/ \E p \in Plans : CrewOf[p] = c /\ plan[p].status # "none"

\* A lead is an active owner or crew lead.
CanLead(x) ==
    /\ member[x].status = "active"
    /\ member[x].role \in {"crew_lead", "organization_owner"}

\* The row of the crew is locked from the checks to the commit; the territory
\* t is None in a request that leaves it alone.
update_crew(c, status, capacity, lead, t) ==
    /\ crew[c].status # "none" /\ held[c] = None
    /\ t # None => ActiveScope(t)
    /\ ~(crew[c].status = "active" /\ status = "inactive" /\ HasOperationalWork(c))
    /\ lead # None => CanLead(lead)
    /\ crew' = [crew EXCEPT ![c] =
                    [status |-> status, capacity |-> capacity, lead |-> lead,
                     territory |-> IF t = None THEN @.territory ELSE t]]

update_organization_crew(c, status, capacity, lead, t) ==
    /\ Administrator
    /\ update_crew(c, status, capacity, lead, t)
    /\ UNCHANGED <<branch, territory, assigned, plan, stop, work, held>>

\* The crew is found active, ...
assign_property_crew(w, x, c) ==
    /\ Assigner
    /\ crew[c].status = "active"
    /\ Begins(w, [op |-> "property", property |-> x, crew |-> c])
    /\ UNCHANGED <<branch, territory, crew, assigned, plan, stop, held>>

\* ... and the assignment before is ended in favour of it.
insert_property_crew_assignment(w) ==
    /\ Does(w, "property")
    /\ assigned' = [assigned EXCEPT ![work[w].property] = work[w].crew]
    /\ UNCHANGED <<branch, territory, crew, plan, stop, held>>

-----------------------------------------------------------------------------
(* Drafting and publishing. *)

Listed(p) == {j \in Jobs : stop[p][j] # 0}

\* The crew is found active and its capacity read; the row that is inserted
\* may then wait for the crew's row, and does not look at its status again.
create_draft_day_plan(w, p) ==
    /\ Scheduler
    /\ crew[CrewOf[p]].status = "active"
    /\ Begins(w, [op |-> "draft", plan |-> p, capacity |-> crew[CrewOf[p]].capacity])
    /\ UNCHANGED <<branch, territory, crew, assigned, plan, stop, held>>

\* Mutant: a published plan becomes a draft again.
InsertDraft_AnyStatus(w) ==
    /\ Does(w, "draft")
    /\ plan' = [plan EXCEPT ![work[w].plan] =
                    [status |-> "draft", capacity |-> work[w].capacity]]
    /\ UNCHANGED <<branch, territory, crew, assigned, stop, held>>

\* An existing draft takes the new capacity; a published plan is left alone.
InsertDraft(w) ==
    /\ Does(w, "draft")
    /\ IF plan[work[w].plan].status = "published" THEN UNCHANGED plan
       ELSE plan' = [plan EXCEPT ![work[w].plan] =
                         [status |-> "draft", capacity |-> work[w].capacity]]
    /\ UNCHANGED <<branch, territory, crew, assigned, stop, held>>

PublishDayPlan(p) ==
    /\ plan[p].status = "draft" /\ Listed(p) # {}
    /\ plan' = [plan EXCEPT ![p].status = "published"]

publish_day_plan(p) ==
    /\ Scheduler
    /\ PublishDayPlan(p)
    /\ UNCHANGED <<branch, territory, crew, assigned, stop, work, held>>

\* The stops as the statement of an assignment finds them.
assign_day_plan_stop(w, p, j) ==
    /\ Scheduler
    /\ plan[p].status = "draft"
    /\ Begins(w, [op |-> "assign", plan |-> p, job |-> j, seen |-> stop[p]])
    /\ UNCHANGED <<branch, territory, crew, assigned, plan, stop, held>>

Largest(s) == CHOOSE n \in {s[j] : j \in Jobs} : \A j \in Jobs : s[j] <= n

\* Room for the stop, by the stops that were seen.
HasRoom(p, j, seen) ==
    \/ seen[j] # 0
    \/ Cardinality({k \in Jobs : seen[k] # 0}) < plan[p].capacity

\* The plan is locked and still a draft; what it holds is as it was seen.  A
\* stop that the job has by now keeps its place; a stop in the place that was
\* seen free makes the request fail.
AssignStop(w) ==
    /\ Does(w, "assign")
    /\ LET q == work[w]
           n == Largest(q.seen) + 1
       IN IF /\ plan[q.plan].status = "draft"
             /\ HasRoom(q.plan, q.job, q.seen)
             /\ stop[q.plan][q.job] = 0
             /\ \A k \in Jobs : stop[q.plan][k] # n
             /\ n <= MaxOrder
          THEN stop' = [stop EXCEPT ![q.plan][q.job] = n]
          ELSE UNCHANGED stop
    /\ UNCHANGED <<branch, territory, crew, assigned, plan, held>>

\* The plan is seen as a draft; its row is not locked.
remove_day_plan_stop(w, p, j) ==
    /\ Scheduler
    /\ plan[p].status = "draft" /\ stop[p][j] # 0
    /\ Begins(w, [op |-> "remove", plan |-> p, job |-> j])
    /\ UNCHANGED <<branch, territory, crew, assigned, plan, stop, held>>

\* The stop goes and the others move up, whatever the plan is by now.  (One
\* whose crew has reported progress is kept by a foreign key; progress is the
\* subject of CompletionReports.)
RemoveStop(w) ==
    /\ Does(w, "remove")
    /\ LET p == work[w].plan
           left == Listed(p) \ {work[w].job}
           Place(j) == Cardinality({k \in left : stop[p][k] <= stop[p][j]})
       IN stop' = [stop EXCEPT ![p] =
                      IF stop[p][work[w].job] = 0 THEN @
                      ELSE [j \in Jobs |-> IF j \in left THEN Place(j) ELSE 0]]
    /\ UNCHANGED <<branch, territory, crew, assigned, plan, held>>

\* The stops of a draft are as many as the new order has; which ones they are
\* is not asked.
reorder_day_plan_stops(w, p, s) ==
    /\ Scheduler
    /\ plan[p].status = "draft"
    /\ Cardinality(Listed(p)) = Cardinality(DOMAIN s)
    /\ Begins(w, [op |-> "reorder", plan |-> p, order |-> s])
    /\ UNCHANGED <<branch, territory, crew, assigned, plan, stop, held>>

\* All stops move out of the way, and those of the new order to their places
\* if the plan is still a draft.  A refused reorder is committed too.
ReorderStops(w) ==
    /\ Does(w, "reorder")
    /\ LET p == work[w].plan
           s == work[w].order
           Placed(j) == IF plan[p].status = "draft" /\ j \in {s[n] : n \in DOMAIN s}
                        THEN CHOOSE n \in DOMAIN s : s[n] = j
                        ELSE stop[p][j] + Shift
       IN /\ Largest(stop[p]) + Shift <= MaxOrder
          /\ stop' = [stop EXCEPT ![p] =
                         [j \in Jobs |-> IF stop[p][j] = 0 THEN 0 ELSE Placed(j)]]
    /\ UNCHANGED <<branch, territory, crew, assigned, plan, held>>

-----------------------------------------------------------------------------
HierarchyStep ==
    \/ \E b \in Branches : create_organization_branch(b)
    \/ \E w \in Writers :
          \/ \E t \in Territories : create_service_territory(w, t)
          \/ \E b \in Branches, s \in {"active", "inactive"} :
                update_organization_branch_status(w, b, s)
          \/ \E t \in Territories, s \in {"active", "inactive"} :
                update_service_territory_status(w, t, s)
          \/ InsertTerritory(w) \/ DeactivateBranch(w) \/ DeactivateTerritory(w)

CrewSetup ==
    \E c \in Crews :
        \/ create_organization_crew(c)
        \/ \E s \in {"active", "inactive"}, n \in 1..MaxCapacity,
              lead \in Rows \cup {None}, t \in Territories \cup {None} :
                 update_organization_crew(c, s, n, lead, t)

CrewStep ==
    \/ CrewSetup
    \/ \E w \in Writers :
          \/ \E x \in Properties, c \in Crews : assign_property_crew(w, x, c)
          \/ insert_property_crew_assignment(w)

RouteStep ==
    \/ \E p \in Plans : publish_day_plan(p)
    \/ \E w \in Writers :
          \/ \E p \in Plans :
                \/ create_draft_day_plan(w, p)
                \/ \E j \in Jobs : assign_day_plan_stop(w, p, j)
                                     \/ remove_day_plan_stop(w, p, j)
                \/ \E s \in Orders : reorder_day_plan_stops(w, p, s)
          \/ InsertDraft(w) \/ AssignStop(w) \/ RemoveStop(w) \/ ReorderStops(w)

\* With the staff who may plan.
PlanNext ==
    \/ Next /\ UNCHANGED planVars
    \/ (HierarchyStep \/ CrewStep \/ RouteStep) /\ UNCHANGED vars
PlanSpec == Init /\ PlanInit /\ [][PlanNext]_<<vars, planVars>>

-----------------------------------------------------------------------------
(* Properties. *)

\* What a crew was told stays: a published plan is not reopened, keeps the
\* capacity it was drafted with, and gains no stop, although requests that
\* saw it as a draft are still to write.  (It can lose one to such a request.)
PublishedIsSettled ==
    [][\A p \in Plans : plan[p].status = "published" =>
          /\ plan'[p] = plan[p]
          /\ \A j \in Jobs : stop'[p][j] # 0 => stop[p][j] # 0]_planVars

-----------------------------------------------------------------------------
(* What the documentation says and the code does not keep. *)

\* Concurrent edits do not take a plan over its capacity: a plan only grows
\* up to the capacity it was drafted with.
NeverOverbooked ==
    [][\A p \in Plans :
          LET n == Cardinality({j \in Jobs : stop'[p][j] # 0}) IN
          n > Cardinality(Listed(p)) => n <= plan[p].capacity]_planVars

=============================================================================

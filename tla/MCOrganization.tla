-------------------------- MODULE MCOrganization --------------------------
(***************************************************************************)
(* The provider's side for TLC, from one of eight sides chosen at the      *)
(* start: the staff; the rollout; branches, crews and their properties;    *)
(* day plans; the dispatch of jobs; a service day; a visit's thread; and   *)
(* customer accounts.  Each side lets the others' state be what one        *)
(* founder, one branch and one crew make of it.                            *)
(***************************************************************************)
EXTENDS Organization, TLC

CONSTANTS u1, u2, m1, m2, i1, b1, t1, c1, p1, v1, d1, e1

\* Chosen once: what a behaviour explores.
CONSTANT Sides
VARIABLE side

MCMailOf == u1 :> m1 @@ u2 :> m2
MCBranchOf == t1 :> b1
MCCrewOf == p1 :> c1
MCAccountOf == [x \in Properties |-> e1]

MCInit == OrganizationInit /\ side \in Sides

\* In the rollout u1 founds the organization and administers it; u2 joins.
OneJoins ==
    \/ bootstrap_organization(u1)
    \/ require_organization_membership(u1)
    \/ create_organization_invitation(u1, i1, m2, "manager")
    \/ accept_organization_invitation(u2, i1, 1)
    \/ \E r \in Requests, role \in Roles :
          update_organization_membership_role(u1, r, i1, role)
    \/ \E r \in Requests, status \in {"active", "suspended"} :
          update_organization_membership_status(u1, r, i1, status)
    \/ \E r \in Requests : update_membership(r)

OneManagerJoins ==
    \/ bootstrap_organization(u1)
    \/ member[i1].status = "none" /\ require_organization_membership(u1)
    \/ create_organization_invitation(u1, i1, m2, "manager")
    \/ accept_organization_invitation(u2, i1, 1)

\* The founder alone, with one crew.
FirstCrew ==
    /\ UNCHANGED vars
    /\ \/ create_organization_branch(b1)
       \/ \E w \in Writers : create_service_territory(w, t1) \/ InsertTerritory(w)
       \/ create_organization_crew(c1)

CapacityChange ==
    /\ UNCHANGED vars
    /\ \E n \in 1..MaxCapacity : update_organization_crew(c1, "active", n, None, None)

Founding == bootstrap_organization(u1) /\ UNCHANGED planVars

\* Only i1 lapses and is reissued.
StaffSide == Next /\ \A i \in Invites \ {i1} : invite'[i].token <= 1 /\ ~invite'[i].lapsed
RolloutSide == RolloutStep \/ (OneJoins /\ UNCHANGED rolloutVars)
CrewsSide ==
    \/ Founding
    \/ (HierarchyStep \/ CrewStep) /\ UNCHANGED vars
    \/ /\ UNCHANGED vars
       /\ \E w \in Writers : create_draft_day_plan(w, p1) \/ InsertDraft(w)
\* Plans hold other jobs than the visit's.
RoutesJob(q) ==
    q # None =>
        /\ (q.op \in {"assign", "remove"}) => (q.job # v1)
        /\ (q.op = "reorder") => (\A n \in DOMAIN q.order : q.order[n] # v1)

RoutesSide ==
    /\ \/ Founding \/ FirstCrew \/ CapacityChange
       \/ RouteStep /\ UNCHANGED vars
    /\ \A w \in Writers : RoutesJob(work'[w])

DispatchSide ==
    \/ (Founding \/ FirstCrew \/ CapacityChange) /\ UNCHANGED dispatchVars
    \/ DispatchStep

\* The visit's job is moved while it is carried out and told of.
VisitSide ==
    \/ (Founding \/ FirstCrew) /\ UNCHANGED <<dispatchVars, visitVars>>
    \/ ServiceStep /\ UNCHANGED vars
    \/ /\ \/ StartJob(v1) \/ CompleteJob(v1)
          \/ \E w \in Writers :
                \/ clock < 2 /\ update_job_dispatch_assignment(w, v1, c1, d1, FALSE)
                \/ LockMove(w) \/ update_dispatch_assignment(w)
       /\ UNCHANGED <<vars, visitVars>>

\* The visit is released by u1, who may be joined by u2 before; two requests are on
\* their way at most.
ThreadSide ==
    \/ OneManagerJoins /\ ~released /\ UNCHANGED <<planVars, dispatchVars, visitVars>>
    \/ (ConfirmVisit \/ release_provider_initial_service(d1)) /\ UNCHANGED vars
    \/ /\ ThreadStep
       /\ Cardinality(wire') <= 2
       /\ UNCHANGED <<vars, planVars, dispatchVars, serviceVars>>

RecordsSide ==
    \/ (Founding \/ FirstCrew) /\ UNCHANGED recordVars
    \/ RecordsStep /\ UNCHANGED vars

MCNext ==
    /\ UNCHANGED side
    /\ \/ /\ side = "staff" /\ StaffSide
          /\ UNCHANGED <<rolloutVars, planVars, dispatchVars, visitVars>>
       \/ /\ side = "rollout" /\ RolloutSide
          /\ UNCHANGED <<planVars, dispatchVars, visitVars>>
       \/ /\ side = "crews" /\ CrewsSide
          /\ UNCHANGED <<rolloutVars, dispatchVars, visitVars>>
       \/ /\ side = "routes" /\ RoutesSide
          /\ UNCHANGED <<rolloutVars, dispatchVars, visitVars>>
       \/ /\ side = "dispatch" /\ DispatchSide
          /\ UNCHANGED <<rolloutVars, visitVars>>
       \/ /\ side = "visit" /\ VisitSide
          /\ UNCHANGED rolloutVars
       \/ /\ side = "thread" /\ ThreadSide
          /\ UNCHANGED rolloutVars
       \/ /\ side = "customers" /\ RecordsSide
          /\ UNCHANGED <<rolloutVars, dispatchVars, visitVars>>
    /\ side # "customers" => UNCHANGED recordVars

MCSpec == MCInit /\ [][MCNext]_<<allVars, planVars, dispatchVars, visitVars, recordVars, side>>

Symmetry == Permutations(Requests) \cup Permutations(Writers) \cup Permutations(Jobs \ {v1})
=============================================================================

----------------------------- MODULE Organization -----------------------------
(***************************************************************************)
(* A provider's organization as a whole: its staff, the rollout of the     *)
(* workspace to them, the branches, crews and day plans, the dispatch of   *)
(* jobs, the service of a visit, and the customers' accounts.              *)
(*                                                                         *)
(* What they share is who may act, which each reads in its own             *)
(* transaction; the crews, whose rows a move holds; the jobs, which        *)
(* dispatchers, crews and the visit change; and the crew of a property,    *)
(* which planning gives and an archive takes away.                         *)
(***************************************************************************)
EXTENDS WorkspaceRollout, VisitService, CustomerRecords

\* Every module's state has its type.
OrganizationTypeOK == TypeOK /\ RolloutTypeOK /\ PlanTypeOK /\ DispatchTypeOK
                      /\ VisitTypeOK /\ RecordsTypeOK

organizationVars ==
    <<vars, rolloutVars, planVars, dispatchVars, visitVars, recordVars>>

OrganizationInit ==
    Init /\ RolloutInit /\ PlanInit /\ DispatchInit /\ VisitInit /\ RecordsInit

\* A crew is given a property by AssignCrew, of the records.
PlanningStep == HierarchyStep \/ CrewSetup \/ RouteStep

OrganizationNext ==
    \/ RolloutNext /\ UNCHANGED <<planVars, dispatchVars, visitVars, recordVars>>
    \/ PlanningStep
       /\ UNCHANGED <<vars, rolloutVars, dispatchVars, visitVars, recordVars>>
    \/ DispatchStep /\ UNCHANGED <<rolloutVars, visitVars, recordVars>>
    \/ VisitStep /\ UNCHANGED <<rolloutVars, recordVars>>
    \/ RecordsStep /\ UNCHANGED <<vars, rolloutVars, dispatchVars, visitVars>>

OrganizationSpec == OrganizationInit /\ [][OrganizationNext]_organizationVars

-----------------------------------------------------------------------------
\* Each stop of a plan has a place of its own: no write of a request that saw
\* the stops earlier, no removal and no reorder breaks the unique index.
StopsHavePlaces ==
    \A p \in Plans : \A j, k \in Jobs :
        stop[p][j] # 0 /\ stop[p][j] = stop[p][k] => j = k
=============================================================================

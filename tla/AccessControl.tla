--------------------------- MODULE AccessControl ---------------------------
(***************************************************************************)
(* The roles of the service organizations and of their customers, and what *)
(* each may do.  A handler of the backend asks one of these predicates of  *)
(* the active memberships of its caller before it calls a repository.      *)
(***************************************************************************)

AccessRole == {"organization_owner", "manager", "crew_lead", "crew_member",
               "property_owner", "property_manager", "support_admin"}

can_manage_organization(role) == role \in {"organization_owner", "support_admin"}
can_manage_schedule(role) ==
    role \in {"organization_owner", "manager", "support_admin"}
can_view_crew_route(role) ==
    role \in {"organization_owner", "manager", "crew_lead", "crew_member",
              "support_admin"}
can_manage_property_portfolios(role) ==
    role \in {"organization_owner", "manager", "property_manager", "support_admin"}
can_manage_crew_assignments(role) ==
    role \in {"organization_owner", "manager", "support_admin"}
can_submit_completion_report(role) ==
    role \in {"organization_owner", "manager", "crew_lead", "crew_member",
              "support_admin"}
can_review_completion_report(role) ==
    role \in {"organization_owner", "manager", "support_admin"}
can_deliver_completion_report(role) ==
    role \in {"organization_owner", "manager", "support_admin"}
=============================================================================

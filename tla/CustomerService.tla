-------------------------- MODULE CustomerService --------------------------
(***************************************************************************)
(* What a customer is shown and decides on, with everybody who works on    *)
(* it: the report of one job, a bid that came from another, and the phone  *)
(* of a crew member.  Each has rows of its own in the database; the phone  *)
(* changes the job and its stop through the same handlers as everybody.    *)
(***************************************************************************)
EXTENDS OfflineQueue, ProjectBids

CustomerInit == Init /\ BidsInit /\ OfflineInit

CustomerNext ==
    \/ Next /\ UNCHANGED <<bidsVars, phoneVars>>
    \/ BidsNext /\ UNCHANGED <<vars, phoneVars>>
    \/ PhoneStep /\ UNCHANGED bidsVars

CustomerSpec == CustomerInit /\ [][CustomerNext]_<<vars, bidsVars, phoneVars>>

CustomerTypeOK == TypeOK /\ BidsTypeOK /\ OfflineTypeOK
=============================================================================

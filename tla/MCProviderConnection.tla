------------------------ MODULE MCProviderConnection -------------------------
(* Two invitations, and one of three sides of what becomes of them: their   *)
(* delivery beside the bootstraps of one company name; one invitation's     *)
(* claims, reviews and capabilities; and the activation of one of two       *)
(* invitations of a property while the other has requests under way.        *)
EXTENDS ProviderConnection, TLC

CONSTANTS r1, r2, u1, u2, p1, o1

\* Chosen once: what a behaviour explores.
CONSTANT Sides
VARIABLE side

MCMailboxOf == u1 :> r1 @@ u2 :> r2

MCInit == Init /\ side \in Sides

\* u1 is the only account, and its mailbox the only one invited.
OneAccount ==
    /\ members' \subseteq {u1} \X Orgs
    /\ creating' \subseteq Properties \X {r1}

OneAttempt == \A i \in Invitations : Len(attempts'[i]) <= 1

\* One transaction creates the one invitation; it is delivered once.
OneInvitation ==
    /\ Cardinality(creating') + Cardinality({i \in Invitations : inv'[i].status # "none"}) <= 1
    /\ OneAttempt

OneProperty ==
    /\ creating' \subseteq {p1} \X Recipients
    /\ \A i \in Invitations : inv'[i].property \in {p1, NoOne}

OneOrganization == \A o \in Orgs \ {o1} : orgName'[o] = NoOne

Unreviewed == OwnerStep \/ DeliveryStep \/ RecipientStep \/ EnvironmentStep

MCNext ==
    /\ UNCHANGED side
    /\ \/ /\ side = "delivery"
          /\ Unreviewed
          /\ OneAccount /\ cap' = cap
       \/ /\ side = "claims"
          /\ Next
          /\ OneAccount /\ OneInvitation /\ OneProperty
       \/ /\ side = "activation"
          /\ Unreviewed
          /\ OneAttempt /\ OneProperty /\ OneOrganization
          /\ suppressed' = {} /\ \A i \in Invitations : Len(cap'[i]) <= 1

MCSpec == MCInit /\ [][MCNext]_<<vars, side>>

Symmetry == Permutations(Invitations) \cup Permutations(Claims)
=============================================================================

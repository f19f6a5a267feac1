------------------------- MODULE ProviderEngagement -------------------------
(***************************************************************************)
(* From a provider's recorded interest to a confirmed first visit: the     *)
(* owner's disclosure grants, the yard assessment, the versioned initial   *)
(* service proposals with the owner's decisions, the activation of one     *)
(* provider per property and the first-visit windows.                      *)
(*                                                                         *)
(* The invitation and its capability belong to ProviderConnection.  Here   *)
(* they are what these handlers read of them: inv, lapsed, cap, and the    *)
(* two groups of facts member (organization, claim, membership) and        *)
(* current (workspace, property, newest yard brief, no suppression).  The  *)
(* owner prepares a property in OwnerIntake; here it is prepared from the  *)
(* start, or never.                                                        *)
(*                                                                         *)
(* A handler is one step, taken when its authority is read, unless what it *)
(* read unlocked can change before it writes and somebody can tell: grant  *)
(* creation and proposal publication are two.                              *)
(***************************************************************************)
EXTENDS Naturals, Sequences, FiniteSets

CONSTANTS
    Invitations,        \* invitations of the owner
    Properties,         \* owner properties
    PropertyOf,         \* the property each invitation is for
    Methods,            \* assessment methods providers choose from
    Unsettled,          \* invitations that may lose authority by themselves
    NoOne,              \* no activation
    MaxCapabilities,    \* bound on capabilities of one invitation
    MaxGrants,          \* bound on grants of one invitation
    MaxGrantRequests,   \* bound on concurrent grant requests of one invitation
    MaxProposals,       \* bound on proposal versions of one assessment
    MaxVisits           \* bound on first-visit versions of one activation

ASSUME PropertyAssumption == PropertyOf \in [Invitations -> Properties]
ASSUME UnsettledAssumption == Unsettled \subseteq Invitations
ASSUME MethodAssumption == Methods \subseteq {"remote", "on_site"}
ASSUME NoOneAssumption == NoOne \notin Invitations \X Nat
ASSUME BoundAssumption ==
    /\ MaxCapabilities \in Nat /\ MaxGrants \in Nat /\ MaxGrantRequests \in Nat
    /\ MaxProposals \in Nat /\ MaxVisits \in Nat

VARIABLES
    inv,          \* status of each invitation, as far as these handlers see it
    lapsed,       \* its deadline, which is also its grants', has passed
    cap,          \* its newest capability with recorded interest
    member,       \* organization active, claim linked, actor an active member
    current,      \* owner workspace, property and brief current, unsuppressed
    grants,       \* disclosure grants of each invitation, oldest first
    granting,     \* grant requests that found the invitation eligible
    assess,       \* the assessment of each invitation
    proposals,    \* initial service proposals of each assessment, by version
    publishing,   \* invitations whose publication is past its checks
    decisions,    \* <<invitation, version, action>> owner decisions
    activation,   \* <<invitation, version>> activated for each property
    ownerProperty,\* owner_properties.status
    visit,        \* first-visit series of each property's activation
    visitDecided  \* <<property, version, action>> first-visit decisions

connVars == <<inv, lapsed, cap, member, current>>
grantVars == <<grants, granting>>
proposalVars == <<proposals, publishing, decisions>>
activationVars == <<activation, ownerProperty>>
visitVars == <<visit, visitDecided>>
vars == <<connVars, grantVars, assess, proposalVars, activationVars, visitVars>>

-----------------------------------------------------------------------------
\* "revoked" is what an activation makes of the invitations beside it, "closed"
\* every other end: revoked by the owner, declined, opted out, expired.
InvStatus == {"none", "opened", "closed", "revoked", "activated"}
GrantStatus == {"active", "revoked", "expired", "suspended"}
OpenAssessment == {"remote_review", "window_proposed", "window_change_requested",
                   "owner_confirmed", "in_progress"}
AssessStatus == OpenAssessment \cup {"none", "completed", "cannot_assess",
                                     "cancelled"}
ProposalStatus == {"sent", "superseded", "accepted", "declined", "expired"}
\* The values of the column, and "none" for no row.  Nothing writes the last three.
OwnerPropertyStatus == {"none", "draft", "profile_ready", "connection_in_progress",
                        "provider_setup", "active_care", "paused", "archived"}
VisitStatus == {"awaiting_provider", "proposed", "change_requested", "confirmed"}
Decisions == {"accept", "decline"}
VisitActions == {"confirm", "request_change"}

CapRow == [no : Nat, active : BOOLEAN]
GrantRow == [status : GrantStatus, cap : Nat]
AssessRow == [status : AssessStatus, method : {"remote", "on_site"}, grant : Nat]
ProposalRow == [status : ProposalStatus, due : BOOLEAN]
VisitRow == [status : VisitStatus, version : Nat]

TypeOK ==
    /\ inv \in [Invitations -> InvStatus]
    /\ lapsed \in [Invitations -> BOOLEAN]
    /\ cap \in [Invitations -> CapRow]
    /\ member \in [Invitations -> BOOLEAN]
    /\ current \in [Invitations -> BOOLEAN]
    /\ grants \in [Invitations -> Seq(GrantRow)]
    /\ granting \in [Invitations -> Nat]
    /\ assess \in [Invitations -> AssessRow]
    /\ proposals \in [Invitations -> Seq(ProposalRow)]
    /\ publishing \subseteq Invitations
    /\ decisions \subseteq Invitations \X Nat \X Decisions
    /\ activation \in [Properties -> (Invitations \X Nat) \cup {NoOne}]
    /\ ownerProperty \in [Properties -> OwnerPropertyStatus]
    /\ visit \in [Properties -> VisitRow]
    /\ visitDecided \subseteq Properties \X Nat \X VisitActions

NoAssessment == [status |-> "none", method |-> "remote", grant |-> 0]

Init ==
    /\ inv = [i \in Invitations |-> "none"]
    /\ lapsed = [i \in Invitations |-> FALSE]
    /\ cap = [i \in Invitations |-> [no |-> 0, active |-> FALSE]]
    /\ member = [i \in Invitations |-> FALSE]
    /\ current = [i \in Invitations |-> TRUE]
    /\ grants = [i \in Invitations |-> <<>>]
    /\ granting = [i \in Invitations |-> 0]
    /\ assess = [i \in Invitations |-> NoAssessment]
    /\ proposals = [i \in Invitations |-> <<>>]
    /\ publishing = {}
    /\ decisions = {}
    /\ activation = [p \in Properties |-> NoOne]
    /\ ownerProperty \in [Properties -> {"none", "profile_ready"}]
    /\ visit = [p \in Properties |-> [status |-> "awaiting_provider", version |-> 0]]
    /\ visitDecided = {}

-----------------------------------------------------------------------------
(* The connection flow and time, as these handlers see them.  A fact that  *)
(* no handler reads any more is left as it is, and Unsettled bounds whose  *)
(* facts change for the worse.                                             *)

InUse(p) == ownerProperty[p] \notin {"none", "archived"}

\* A property that has a provider already stays in that provider's setup.
Connect(p) ==
    ownerProperty' = [ownerProperty EXCEPT ![p] =
                        IF @ = "profile_ready" THEN "connection_in_progress" ELSE @]

\* From its creation, which connects the property, to its first read.
OpenInvitation(i) ==
    /\ inv[i] = "none" /\ InUse(PropertyOf[i])
    /\ inv' = [inv EXCEPT ![i] = "opened"]
    /\ Connect(PropertyOf[i])
    /\ UNCHANGED <<lapsed, cap, member, current, grantVars, assess,
                   proposalVars, activation, visitVars>>

\* A capability is issued and interest is recorded on it.
ExpressInterest(i) ==
    /\ inv[i] = "opened" /\ ~lapsed[i] /\ member[i]
    /\ ~cap[i].active
    /\ cap[i].no < MaxCapabilities
    /\ cap' = [cap EXCEPT ![i] = [no |-> @.no + 1, active |-> TRUE]]
    /\ UNCHANGED <<inv, lapsed, member, current, grantVars, assess,
                   proposalVars, activationVars, visitVars>>

\* A dispute or a read that finds the relationship inactive closes it.
CloseCapability(i) ==
    /\ i \in Unsettled
    /\ inv[i] = "opened" /\ cap[i].active
    /\ cap' = [cap EXCEPT ![i].active = FALSE]
    /\ UNCHANGED <<inv, lapsed, member, current, grantVars, assess,
                   proposalVars, activationVars, visitVars>>

\* Not every way to close an invitation closes its capability (see
\* ProviderConnection); none of them touches the grants.
CloseInvitation(i) ==
    /\ inv[i] = "opened"
    /\ inv' = [inv EXCEPT ![i] = "closed"]
    /\ cap' \in {cap, [cap EXCEPT ![i].active = FALSE]}
    /\ UNCHANGED <<lapsed, member, current, grantVars, assess, proposalVars,
                   activationVars, visitVars>>

ChangeMembership(i) ==
    /\ member[i] => i \in Unsettled
    /\ inv[i] \in {"opened", "activated"}
    /\ member' = [member EXCEPT ![i] = ~@]
    /\ UNCHANGED <<inv, lapsed, cap, current, grantVars, assess, proposalVars,
                   activationVars, visitVars>>

\* A newer brief, a suppression, an archived property: none of them reverts.
LoseCurrency(i) ==
    /\ i \in Unsettled
    /\ inv[i] = "opened" /\ current[i]
    /\ current' = [current EXCEPT ![i] = FALSE]
    /\ UNCHANGED <<inv, lapsed, cap, member, grantVars, assess, proposalVars,
                   activationVars, visitVars>>

Lapse(i) ==
    /\ i \in Unsettled
    /\ inv[i] = "opened" /\ ~lapsed[i]
    /\ lapsed' = [lapsed EXCEPT ![i] = TRUE]
    /\ UNCHANGED <<inv, cap, member, current, grantVars, assess, proposalVars,
                   activationVars, visitVars>>

FallDue(i, v) ==
    /\ v \in DOMAIN proposals[i]
    /\ ~proposals[i][v].due
    /\ proposals' = [proposals EXCEPT ![i][v].due = TRUE]
    /\ UNCHANGED <<connVars, grantVars, assess, publishing, decisions,
                   activationVars, visitVars>>

-----------------------------------------------------------------------------
(* Disclosure grants.                                                      *)

HasActiveGrant(i) == \E k \in DOMAIN grants[i] : grants[i][k].status = "active"
\* Everything but the grant: what eligibility, assessment and publication ask.
Authority(i) ==
    /\ inv[i] = "opened" /\ ~lapsed[i]
    /\ cap[i].active
    /\ member[i] /\ current[i]

\* A request judges the invitation eligible, in the snapshot it waits with for
\* the row locks.
GrantScan(i) ==
    /\ Authority(i)
    /\ ~HasActiveGrant(i)
    /\ granting[i] < MaxGrantRequests
    /\ granting' = [granting EXCEPT ![i] = @ + 1]
    /\ UNCHANGED <<connVars, grants, assess, proposalVars, activationVars, visitVars>>

NewGrant(i) ==
    /\ granting[i] > 0
    /\ Len(grants[i]) < MaxGrants
    /\ granting' = [granting EXCEPT ![i] = @ - 1]
    /\ grants' = [grants EXCEPT ![i] =
                    Append(@, [status |-> "active", cap |-> cap[i].no])]
    /\ UNCHANGED <<connVars, assess, proposalVars, activationVars, visitVars>>

\* Mutant: the invitation row is not locked, so its status is not read again.
GrantCommit_StaleInvitation(i) == ~HasActiveGrant(i) /\ NewGrant(i)

\* The locked rows are read as they are now; the absence of an active grant is
\* the snapshot's, and only the partial unique index makes it true.
GrantCommit(i) ==
    /\ inv[i] = "opened" /\ ~lapsed[i] /\ cap[i].active
    /\ ~HasActiveGrant(i)
    /\ NewGrant(i)

\* Conflict with the other request's grant, a changed review, a lost connection.
GrantRollback(i) ==
    /\ granting[i] > 0
    /\ granting' = [granting EXCEPT ![i] = @ - 1]
    /\ UNCHANGED <<connVars, grants, assess, proposalVars, activationVars, visitVars>>

RevokeGrant(i, k) ==
    /\ k \in DOMAIN grants[i]
    /\ grants[i][k].status = "active"
    /\ grants' = [grants EXCEPT ![i][k].status = "revoked"]
    /\ UNCHANGED <<connVars, granting, assess, proposalVars, activationVars, visitVars>>

\* Mutant: expiry does not look at the status.
ExpireDue_AnyStatus(s) ==
    [v \in DOMAIN s |-> IF s[v].due THEN [s[v] EXCEPT !.status = "expired"]
                        ELSE s[v]]

\* Proposals past their deadline expire before every read or write of them.
ExpireDue(s) ==
    [v \in DOMAIN s |-> IF s[v].status = "sent" /\ s[v].due
                        THEN [s[v] EXCEPT !.status = "expired"] ELSE s[v]]

\* The provider reads its newest grant, while it is active.
OpensGrant(i, k) ==
    /\ k > 0 /\ k = Len(grants[i])
    /\ grants[i][k].status = "active"
    /\ UNCHANGED <<connVars, granting, assess, publishing, decisions,
                   activationVars, visitVars>>

\* The grant looks at the capability its receipt names, not at the newest.
Effective(i, k) == Authority(i) /\ grants[i][k].cap = cap[i].no

ReconcileGrant(i, k, next) ==
    /\ grants' = [grants EXCEPT ![i][k].status = next]
    /\ UNCHANGED proposals

CloseDisclosure(i, k) ==
    /\ ~Effective(i, k)
    /\ ReconcileGrant(i, k, IF lapsed[i] THEN "expired" ELSE "suspended")

\* A selected photograph is no longer ready.
SuspendDisclosure(i, k) == Effective(i, k) /\ ReconcileGrant(i, k, "suspended")

\* The provider is shown the assessment of this grant, with its proposals.
Disclose(i, k) ==
    /\ Effective(i, k)
    /\ proposals' = IF assess[i].grant = k
                    THEN [proposals EXCEPT ![i] = ExpireDue(@)] ELSE proposals
    /\ UNCHANGED grants

OpenDisclosure(i, k) ==
    /\ OpensGrant(i, k)
    /\ CloseDisclosure(i, k) \/ SuspendDisclosure(i, k) \/ Disclose(i, k)

-----------------------------------------------------------------------------
(* Assessments.  One per invitation, for good; it stays bound to its grant.*)

\* The grant is locked; everything else is read beside it.
Assessable(i, k) ==
    /\ Authority(i)
    /\ k \in DOMAIN grants[i]
    /\ grants[i][k].status = "active"

CreateAssessment(i, k, method) ==
    /\ Assessable(i, k)
    /\ assess[i].status = "none"
    /\ assess' = [assess EXCEPT ![i] =
                    [status |-> IF method = "remote" THEN "remote_review"
                                ELSE "window_proposed",
                     method |-> method, grant |-> k]]
    /\ UNCHANGED <<connVars, grantVars, proposalVars, activationVars, visitVars>>

\* The owner needs no effective grant to answer.
DecideWindow(i, next) ==
    /\ assess[i].status = "window_proposed"
    /\ assess[i].method = "on_site"
    /\ next \in {"owner_confirmed", "window_change_requested"}
    /\ assess' = [assess EXCEPT ![i].status = next]
    /\ UNCHANGED <<connVars, grantVars, proposalVars, activationVars, visitVars>>

WriteAuthority(i) ==
    /\ Authority(i)
    /\ assess[i].grant \in DOMAIN grants[i]
    /\ grants[i][assess[i].grant].status = "active"

ProposeWindow(i) ==
    /\ WriteAuthority(i)
    /\ assess[i].method = "on_site"
    /\ assess[i].status = "window_change_requested"
    /\ assess' = [assess EXCEPT ![i].status = "window_proposed"]
    /\ UNCHANGED <<connVars, grantVars, proposalVars, activationVars, visitVars>>

\* <<status before, status after>> of begin, complete, cannot_assess and cancel
AssessmentTransition ==
    {<<"remote_review", "in_progress">>, <<"owner_confirmed", "in_progress">>,
     <<"in_progress", "completed">>}
    \cup OpenAssessment \X {"cannot_assess", "cancelled"}

TransitionAssessment(i, next) ==
    /\ <<assess[i].status, next>> \in AssessmentTransition
    /\ WriteAuthority(i)
    /\ assess' = [assess EXCEPT ![i].status = next]
    /\ UNCHANGED <<connVars, grantVars, proposalVars, activationVars, visitVars>>

-----------------------------------------------------------------------------
(* Initial service proposals.                                              *)

HasProposal(i, status) ==
    \E v \in DOMAIN proposals[i] : proposals[i][v].status = status

\* Holds the assessment row, which decisions do not lock.  No accepted proposal
\* closes the series; the newest version is the one the provider expects.
PublishBegin(i) ==
    /\ i \notin publishing
    /\ WriteAuthority(i)
    /\ assess[i].status = "completed"
    /\ ~HasProposal(i, "accepted")
    /\ publishing' = publishing \cup {i}
    /\ proposals' = [proposals EXCEPT ![i] = ExpireDue(@)]
    /\ UNCHANGED <<connVars, grantVars, assess, decisions, activationVars, visitVars>>

NewVersion(s) == Append(s, [status |-> "sent", due |-> FALSE])
Superseded(s) ==
    [v \in DOMAIN s |-> IF s[v].status = "sent"
                        THEN [s[v] EXCEPT !.status = "superseded"] ELSE s[v]]

PublishCommit(i) ==
    /\ i \in publishing
    /\ Len(proposals[i]) < MaxProposals
    /\ publishing' = publishing \ {i}
    /\ proposals' = [proposals EXCEPT ![i] = NewVersion(Superseded(@))]
    /\ UNCHANGED <<connVars, grantVars, assess, decisions, activationVars, visitVars>>

PublishRollback(i) ==
    /\ i \in publishing
    /\ publishing' = publishing \ {i}
    /\ UNCHANGED <<connVars, grantVars, assess, proposals, decisions,
                   activationVars, visitVars>>

\* The owner's list and the message routes of either side.
ReadProposals(i) ==
    /\ proposals' = [proposals EXCEPT ![i] = ExpireDue(@)]
    /\ UNCHANGED <<connVars, grantVars, assess, publishing, decisions,
                   activationVars, visitVars>>

\* Mutant: the request's word is stored instead of the proposal status.
Decided_StoresAction(action) == action

Decided(action) == IF action = "accept" THEN "accepted" ELSE "declined"

\* The handler locks the proposal and looks at nothing of the invitation, the
\* grant or the assessment.  What has fallen due expires first.
Decidable(i, v) ==
    /\ v \in DOMAIN proposals[i]
    /\ ExpireDue(proposals[i])[v].status = "sent"
    /\ v = Len(proposals[i])

\* Mutant: the partial unique index on accepted proposals is missing.
DecideProposal_NoIndex(i, v, action) ==
    /\ Decidable(i, v)
    /\ decisions' = decisions \cup {<<i, v, action>>}
    /\ proposals' = [proposals EXCEPT ![i] =
                       [ExpireDue(@) EXCEPT ![v].status = Decided(action)]]
    /\ UNCHANGED <<connVars, grantVars, assess, publishing, activationVars, visitVars>>

\* The index keeps a second accepted version out.
DecideProposal(i, v, action) ==
    /\ Decidable(i, v)
    /\ action = "accept" => ~HasProposal(i, "accepted")
    /\ decisions' = decisions \cup {<<i, v, action>>}
    /\ proposals' = [proposals EXCEPT ![i] =
                       [ExpireDue(@) EXCEPT ![v].status = Decided(action)]]
    /\ UNCHANGED <<connVars, grantVars, assess, publishing, activationVars, visitVars>>

-----------------------------------------------------------------------------
(* Activation and the first visit.                                         *)

Revoking(s) ==
    [k \in DOMAIN s |-> IF s[k].status = "active"
                        THEN [s[k] EXCEPT !.status = "revoked"] ELSE s[k]]

Competing(i) == {j \in Invitations \ {i} : /\ PropertyOf[j] = PropertyOf[i]
                                           /\ inv[j] = "opened"}

\* What is read with the rows of proposal, decision, property and invitation
\* locked.
Activatable(i, v) ==
    /\ inv[i] = "opened" /\ InUse(PropertyOf[i])
    /\ v \in DOMAIN proposals[i]
    /\ proposals[i][v].status = "accepted"
    /\ <<i, v, "accept">> \in decisions

\* The invitation is activated, its property goes into setup, and the others of
\* the property are closed with their capabilities and grants.
Activated(i, v) ==
    /\ inv' = [j \in Invitations |-> IF j = i THEN "activated"
                                     ELSE IF j \in Competing(i) THEN "revoked"
                                     ELSE inv[j]]
    /\ cap' = [j \in Invitations |->
                 IF j \in Competing(i) THEN [cap[j] EXCEPT !.active = FALSE]
                 ELSE cap[j]]
    /\ grants' = [j \in Invitations |->
                    IF j \in Competing(i) THEN Revoking(grants[j]) ELSE grants[j]]
    /\ activation' = [activation EXCEPT ![PropertyOf[i]] = <<i, v>>]
    /\ ownerProperty' = [ownerProperty EXCEPT ![PropertyOf[i]] = "provider_setup"]
    /\ UNCHANGED <<lapsed, member, current, granting, assess, proposalVars,
                   visitVars>>

\* Mutant: nobody looks for an active relationship of the property.
Activate_NoActiveCheck(i, v) == Activatable(i, v) /\ Activated(i, v)

\* Under the property's advisory lock.  The deadline is not looked at, and the
\* capability and the grant of the activated invitation stay as they are.
Activate(i, v) ==
    /\ Activatable(i, v)
    /\ activation[PropertyOf[i]] = NoOne
    /\ Activated(i, v)

ProposeVisit(p) ==
    /\ activation[p] # NoOne
    /\ LET i == activation[p][1] IN inv[i] = "activated" /\ member[i]
    /\ visit[p].status \in {"awaiting_provider", "change_requested"}
    /\ visit[p].version < MaxVisits
    /\ visit' = [visit EXCEPT ![p] = [status |-> "proposed",
                                      version |-> @.version + 1]]
    /\ UNCHANGED <<connVars, grantVars, assess, proposalVars, activationVars,
                   visitDecided>>

DecideVisit(p, action) ==
    /\ visit[p].status = "proposed"
    /\ visit' = [visit EXCEPT ![p].status =
                   IF action = "confirm" THEN "confirmed" ELSE "change_requested"]
    /\ visitDecided' = visitDecided \cup {<<p, visit[p].version, action>>}
    /\ UNCHANGED <<connVars, grantVars, assess, proposalVars, activationVars>>

-----------------------------------------------------------------------------
ConnectionStep ==
    \E i \in Invitations :
        \/ OpenInvitation(i) \/ ExpressInterest(i) \/ CloseCapability(i)
        \/ CloseInvitation(i) \/ ChangeMembership(i) \/ LoseCurrency(i)
        \/ Lapse(i)
        \/ \E v \in 1..MaxProposals : FallDue(i, v)

GrantStep ==
    \E i \in Invitations :
        \/ GrantScan(i) \/ GrantCommit(i) \/ GrantRollback(i)
        \/ \E k \in 1..MaxGrants : OpenDisclosure(i, k) \/ RevokeGrant(i, k)

AssessmentStep ==
    \E i \in Invitations :
        \/ \E k \in 1..MaxGrants, method \in Methods : CreateAssessment(i, k, method)
        \/ ProposeWindow(i)
        \/ \E next \in AssessStatus : \/ DecideWindow(i, next)
                                      \/ TransitionAssessment(i, next)

ProposalStep ==
    \E i \in Invitations :
        \/ PublishBegin(i) \/ PublishCommit(i) \/ PublishRollback(i)
        \/ ReadProposals(i)
        \/ \E v \in 1..MaxProposals, action \in Decisions :
              DecideProposal(i, v, action)

VisitStep ==
    \/ \E i \in Invitations, v \in 1..MaxProposals : Activate(i, v)
    \/ \E p \in Properties :
          \/ ProposeVisit(p)
          \/ \E action \in VisitActions : DecideVisit(p, action)

Next == \/ ConnectionStep \/ GrantStep \/ AssessmentStep \/ ProposalStep
        \/ VisitStep

Spec == Init /\ [][Next]_vars

-----------------------------------------------------------------------------
(* Invariants.                                                             *)

\* The owner's decisions and the proposals agree, each version is decided at
\* most once and at most one version is accepted, though publication and
\* decision do not exclude each other.
DecisionAgreement ==
    /\ \A i \in Invitations : \A v \in DOMAIN proposals[i] :
          \A action \in Decisions :
             (proposals[i][v].status = Decided(action))
               = (<<i, v, action>> \in decisions)
    /\ \A d, e \in decisions :
          d[1] = e[1] /\ d[3] = "accept" /\ e[3] = "accept" => d = e

\* One provider is activated per property, on the version the owner accepted,
\* and the property is in its setup from then on, whatever else is sent.
ActivationFollowsAcceptance ==
    /\ \A i \in Invitations :
          inv[i] = "activated" =>
            LET a == activation[PropertyOf[i]]
            IN /\ a # NoOne
               /\ a[1] = i
               /\ a[2] \in DOMAIN proposals[i]
               /\ proposals[i][a[2]].status = "accepted"
    /\ \A p \in Properties :
          ownerProperty[p] = "provider_setup" <=> activation[p] # NoOne

\* A provider whose invitation an activation revoked holds no grant and no
\* capability, and gets none from a request that was under way.
RevokedHoldsNothing ==
    \A i \in Invitations :
        inv[i] = "revoked" => ~HasActiveGrant(i) /\ ~cap[i].active

(* Action properties.                                                      *)

\* What is closed stays as it was closed: a grant never comes back, and a
\* proposal that was decided, superseded or expired never changes again.
HistoryIsFinal ==
    [][\A i \in Invitations :
        /\ \A k \in DOMAIN grants[i] :
              grants[i][k].status # "active" => grants'[i][k] = grants[i][k]
        /\ \A v \in DOMAIN proposals[i] :
              proposals[i][v].status # "sent" =>
                proposals'[i][v].status = proposals[i][v].status]_vars

(* What the documentation says and the code does not keep.                 *)

\* The proposal design: an accepted proposal closes the series.  Publication
\* looks for one before it writes and decisions do not wait for it, so a newer
\* version can open after the owner accepted.
AcceptedClosesSeries ==
    \A i \in Invitations : ~(HasProposal(i, "accepted") /\ HasProposal(i, "sent"))
=============================================================================

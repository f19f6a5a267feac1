------------------------- MODULE ProviderConnection -------------------------
(***************************************************************************)
(* How a Yard Owner's invitation connects a known provider: the invitation *)
(* and its delivery attempts, recipient opt-out and abuse reports, the     *)
(* recipient check, the organization claim with its review and appeal, and *)
(* the response capability with the responses it authorizes.               *)
(*                                                                         *)
(* A handler that takes FOR UPDATE on the row it reads runs in one step.   *)
(* Three handlers read a table they do not lock, or wait for an advisory   *)
(* lock, before they write; they are two steps and hold their locks in     *)
(* creating, retrying and bootstrapping in between.  A request the code    *)
(* answers without a write (NotFound, InvalidState, Conflict, a replayed   *)
(* idempotency key, a stale expected_version) is a stuttering step.        *)
(***************************************************************************)
EXTENDS Naturals, Sequences, FiniteSets

CONSTANTS
    Invitations,     \* ids of owner_provider_invitations rows
    Properties,      \* owner properties with a ready yard brief
    Recipients,      \* mailboxes an owner can name
    Users,           \* authenticated provider accounts
    MailboxOf,       \* the verified mailbox of each account
    Claims,          \* ids of organization claims
    Reviewers,       \* Provider Operations reviewers
    Orgs,            \* organization ids
    Names,           \* normalized company-name fingerprints
    NoOne,           \* SQL NULL
    MaxAttempts,     \* bound on delivery attempts of one invitation
    MaxCapabilities  \* bound on capabilities issued for one invitation

ASSUME MailboxAssumption == MailboxOf \in [Users -> Recipients]
ASSUME NoOneAssumption ==
    NoOne \notin Users \cup Reviewers \cup Orgs \cup Names \cup Properties
                 \cup Recipients \cup Invitations
ASSUME BoundAssumption == MaxAttempts \in Nat /\ MaxCapabilities \in Nat

VARIABLES
    inv,            \* [Invitations -> row]: status, property, recipient, lapsed
    attempts,       \* delivery attempt statuses of each invitation, oldest first
    suppressed,     \* mailboxes in owner_provider_recipient_suppressions
    reports,        \* <<invitation, reporter>> abuse reports
    check,          \* the account each invitation's recipient check binds
    claim,          \* [Claims -> row]
    cap,            \* response capabilities of each invitation, oldest first
    responses,      \* <<invitation, capability index, action>>
    orgName,        \* fingerprint of each organization, NoOne before creation
    members,        \* <<user, organization>> active memberships
    creating,       \* <<property, recipient>> create transactions past their checks
    retrying,       \* invitations whose retry transaction is past its checks
    bootstrapping   \* claims whose bootstrap passed its duplicate rescan

invVars == <<inv, attempts, suppressed, reports>>
claimVars == <<check, claim, orgName, members>>
capVars == <<cap, responses>>
txnVars == <<creating, retrying, bootstrapping>>
vars == <<invVars, claimVars, capVars, txnVars>>

-----------------------------------------------------------------------------
Live == {"pending_delivery", "delivered", "opened"}
Terminal == {"expired", "declined", "opted_out", "revoked", "activated"}
InvStatus == Live \cup Terminal \cup {"none", "failed"}
AttemptStatus == {"pending", "delivered", "failed", "suppressed"}

Linked == {"relationship_checked", "claimed"}
ActiveClaim == Linked \cup {"bootstrap_ready", "duplicate_review",
                            "under_review", "disputed"}
ClaimStatus == ActiveClaim \cup {"none", "rejected"}
ClaimKind == {"existing_relationship", "new_organization"}

CapStatus == {"active", "declined", "revoked", "expired", "suspended"}
Actions == {"preliminary_question", "express_interest", "decline", "report"}
ReviewActions == {"review_started", "cleared_for_bootstrap", "rejected",
                  "dispute_paused", "appeal_approved", "appeal_rejected"}

InvRow == [status : InvStatus, property : Properties \cup {NoOne},
           recipient : Recipients \cup {NoOne}, lapsed : BOOLEAN]
ClaimRow == [status : ClaimStatus, inv : Invitations \cup {NoOne},
             actor : Users \cup {NoOne}, kind : ClaimKind,
             name : Names \cup {NoOne}, org : Orgs \cup {NoOne},
             rejectedBy : Reviewers \cup {NoOne}, appealed : BOOLEAN,
             decidedBy : Reviewers \cup {NoOne}]
CapRow == [status : CapStatus, claim : Claims]

TypeOK ==
    /\ inv \in [Invitations -> InvRow]
    /\ attempts \in [Invitations -> Seq(AttemptStatus)]
    /\ suppressed \subseteq Recipients
    /\ reports \subseteq Invitations \X Users
    /\ check \in [Invitations -> Users \cup {NoOne}]
    /\ claim \in [Claims -> ClaimRow]
    /\ cap \in [Invitations -> Seq(CapRow)]
    /\ responses \subseteq Invitations \X Nat \X Actions
    /\ orgName \in [Orgs -> Names \cup {NoOne}]
    /\ members \subseteq Users \X Orgs
    /\ creating \subseteq Properties \X Recipients
    /\ retrying \subseteq Invitations
    /\ bootstrapping \subseteq Claims

NoInvitation == [status |-> "none", property |-> NoOne, recipient |-> NoOne,
                 lapsed |-> FALSE]
NoClaim == [status |-> "none", inv |-> NoOne, actor |-> NoOne,
            kind |-> "new_organization", name |-> NoOne, org |-> NoOne,
            rejectedBy |-> NoOne, appealed |-> FALSE, decidedBy |-> NoOne]

\* Organizations and memberships may exist already; nothing else does.
Init ==
    /\ inv = [i \in Invitations |-> NoInvitation]
    /\ attempts = [i \in Invitations |-> <<>>]
    /\ suppressed = {}
    /\ reports = {}
    /\ check = [i \in Invitations |-> NoOne]
    /\ claim = [c \in Claims |-> NoClaim]
    /\ cap = [i \in Invitations |-> <<>>]
    /\ responses = {}
    /\ orgName \in [Orgs -> Names \cup {NoOne}]
    /\ members \in SUBSET (Users \X {o \in Orgs : orgName[o] # NoOne})
    /\ creating = {}
    /\ retrying = {}
    /\ bootstrapping = {}

-----------------------------------------------------------------------------
(* Rows another open transaction holds FOR UPDATE.                         *)
ClaimFree(c) == c \notin bootstrapping
Free(i) ==
    /\ i \notin retrying
    /\ \A c \in bootstrapping : claim[c].inv # i

IsLive(i) == inv[i].status \in Live
IsMailboxOf(i, u) == MailboxOf[u] = inv[i].recipient
\* The caller is the account the recipient check bound, with its mailbox.
Checked(i, u) ==
    /\ u \in Users
    /\ check[i] = u
    /\ IsMailboxOf(i, u)
CheckedOpen(i, u) ==
    /\ inv[i].status = "opened"
    /\ ~inv[i].lapsed
    /\ Checked(i, u)
SameLive(i, p, r) ==
    \E j \in Invitations \ {i} :
        /\ IsLive(j)
        /\ inv[j].property = p
        /\ inv[j].recipient = r
OtherActiveClaim(c, i) ==
    \E d \in Claims \ {c} : claim[d].inv = i /\ claim[d].status \in ActiveClaim
ActiveMember(u, o) == <<u, o>> \in members
CompanyNamed(n) == \E o \in Orgs : orgName[o] = n

SetStatus(i, s) == inv' = [inv EXCEPT ![i].status = s]

Suppressing(s) ==
    [k \in DOMAIN s |-> IF s[k] = "pending" THEN "suppressed" ELSE s[k]]
SuppressPending(i) == attempts' = [attempts EXCEPT ![i] = Suppressing(@)]

Reconciled(s, next) ==
    [k \in DOMAIN s |-> IF s[k].status = "active"
                        THEN [s[k] EXCEPT !.status = next] ELSE s[k]]
ReconcileCapability(i, next) == cap' = [cap EXCEPT ![i] = Reconciled(@, next)]

-----------------------------------------------------------------------------
(* Owner: create, retry and revoke an invitation, activate a provider.     *)

\* Holds the advisory lock of (property, recipient); the suppression table is
\* read without a lock.
CreateBegin(p, r) ==
    /\ <<p, r>> \notin creating
    /\ r \notin suppressed
    /\ creating' = creating \cup {<<p, r>>}
    /\ UNCHANGED <<invVars, claimVars, capVars, retrying, bootstrapping>>

\* Lapsed live rows of the pair expire; the insert needs none live after that.
\* The expiry leaves capabilities and pending attempts as they are.
CreateCommit(i, p, r) ==
    LET Lapsed == {j \in Invitations : /\ IsLive(j) /\ inv[j].lapsed
                                       /\ inv[j].property = p
                                       /\ inv[j].recipient = r}
    IN /\ <<p, r>> \in creating
       /\ inv[i].status = "none"
       /\ \A j \in Lapsed : Free(j)
       /\ \A j \in Invitations \ Lapsed :
              ~(IsLive(j) /\ inv[j].property = p /\ inv[j].recipient = r)
       /\ inv' = [j \in Invitations |->
                    IF j = i THEN [status |-> "pending_delivery", property |-> p,
                                   recipient |-> r, lapsed |-> FALSE]
                    ELSE IF j \in Lapsed THEN [inv[j] EXCEPT !.status = "expired"]
                    ELSE inv[j]]
       /\ attempts' = [attempts EXCEPT ![i] = <<"pending">>]
       /\ creating' = creating \ {<<p, r>>}
       /\ UNCHANGED <<suppressed, reports, claimVars, capVars, retrying,
                      bootstrapping>>

\* Conflict with a live invitation, a unique violation or a lost connection.
CreateRollback(p, r) ==
    /\ <<p, r>> \in creating
    /\ creating' = creating \ {<<p, r>>}
    /\ UNCHANGED <<invVars, claimVars, capVars, retrying, bootstrapping>>

RetryBegin(i) ==
    /\ Free(i)
    /\ inv[i].status = "failed"
    /\ inv[i].recipient \notin suppressed
    /\ retrying' = retrying \cup {i}
    /\ UNCHANGED <<invVars, claimVars, capVars, creating, bootstrapping>>

\* Mutant: the partial unique index is missing.
RetryCommit_NoIndex(i) ==
    /\ i \in retrying
    /\ Len(attempts[i]) < MaxAttempts
    /\ inv' = [inv EXCEPT ![i].status = "pending_delivery", ![i].lapsed = FALSE]
    /\ attempts' = [attempts EXCEPT ![i] = Append(@, "pending")]
    /\ retrying' = retrying \ {i}
    /\ UNCHANGED <<suppressed, reports, claimVars, capVars, creating,
                   bootstrapping>>

\* Only the partial unique index keeps a second live row of the pair out.
RetryCommit(i) ==
    /\ i \in retrying
    /\ ~SameLive(i, inv[i].property, inv[i].recipient)
    /\ Len(attempts[i]) < MaxAttempts
    /\ inv' = [inv EXCEPT ![i].status = "pending_delivery", ![i].lapsed = FALSE]
    /\ attempts' = [attempts EXCEPT ![i] = Append(@, "pending")]
    /\ retrying' = retrying \ {i}
    /\ UNCHANGED <<suppressed, reports, claimVars, capVars, creating,
                   bootstrapping>>

RetryRollback(i) ==
    /\ i \in retrying
    /\ retrying' = retrying \ {i}
    /\ UNCHANGED <<invVars, claimVars, capVars, creating, bootstrapping>>

\* Mutant: revocation forgets the pending delivery attempt.
RevokeInvitation_KeepsAttempt(i) ==
    /\ Free(i)
    /\ IsLive(i)
    /\ LET s == IF inv[i].lapsed THEN "expired" ELSE "revoked"
       IN SetStatus(i, s) /\ ReconcileCapability(i, s)
    /\ UNCHANGED <<attempts, suppressed, reports, claimVars, responses, txnVars>>

RevokeInvitation(i) ==
    /\ Free(i)
    /\ IsLive(i)
    /\ \/ /\ inv[i].lapsed
          /\ SetStatus(i, "expired")
          /\ ReconcileCapability(i, "expired")
          /\ UNCHANGED attempts
       \/ /\ ~inv[i].lapsed
          /\ SetStatus(i, "revoked")
          /\ SuppressPending(i)
          /\ ReconcileCapability(i, "revoked")
    /\ UNCHANGED <<suppressed, reports, claimVars, responses, txnVars>>

\* Mutant: the competing invitations are closed without their capabilities.
ActivateRelationship_KeepsCapabilities(i) ==
    LET Competing == {j \in Invitations \ {i} :
                         IsLive(j) /\ inv[j].property = inv[i].property}
    IN /\ inv[i].status = "opened"
       /\ \A j \in Competing \cup {i} : Free(j)
       /\ \E k \in DOMAIN cap[i] : <<i, k, "express_interest">> \in responses
       /\ \A j \in Invitations :
              inv[j].property = inv[i].property => inv[j].status # "activated"
       /\ inv' = [j \in Invitations |->
                    IF j = i THEN [inv[j] EXCEPT !.status = "activated"]
                    ELSE IF j \in Competing
                    THEN [inv[j] EXCEPT !.status = "revoked"]
                    ELSE inv[j]]
       /\ UNCHANGED <<attempts, suppressed, reports, claimVars, capVars, txnVars>>

\* The owner activates the provider whose proposal was accepted: interest was
\* expressed on a capability of i and no relationship of the property exists.
\* The deadline is not looked at.  The live invitations beside it are revoked
\* with their capabilities; their delivery attempts stay as they are, and so
\* does the capability of i.
ActivateRelationship(i) ==
    LET Competing == {j \in Invitations \ {i} :
                         IsLive(j) /\ inv[j].property = inv[i].property}
    IN /\ inv[i].status = "opened"
       /\ \A j \in Competing \cup {i} : Free(j)
       /\ \E k \in DOMAIN cap[i] : <<i, k, "express_interest">> \in responses
       /\ \A j \in Invitations :
              inv[j].property = inv[i].property => inv[j].status # "activated"
       /\ inv' = [j \in Invitations |->
                    IF j = i THEN [inv[j] EXCEPT !.status = "activated"]
                    ELSE IF j \in Competing
                    THEN [inv[j] EXCEPT !.status = "revoked"]
                    ELSE inv[j]]
       /\ cap' = [j \in Invitations |->
                    IF j \in Competing THEN Reconciled(cap[j], "revoked")
                    ELSE cap[j]]
       /\ UNCHANGED <<attempts, suppressed, reports, claimVars, responses, txnVars>>

-----------------------------------------------------------------------------
(* Delivery adapter and expiry sweep.                                      *)

\* Mutant: a late receipt is applied without looking at the invitation.
RecordDelivery_LateReceipt(i, n, outcome) ==
    /\ Free(i)
    /\ n \in DOMAIN attempts[i]
    /\ attempts[i][n] = "pending"
    /\ attempts' = [attempts EXCEPT ![i][n] = outcome]
    /\ SetStatus(i, outcome)
    /\ UNCHANGED <<suppressed, reports, claimVars, capVars, txnVars>>

RecordDelivery(i, n, outcome) ==
    /\ Free(i)
    /\ n \in DOMAIN attempts[i]
    /\ attempts[i][n] = "pending"
    /\ inv[i].status = "pending_delivery"
    /\ n = Len(attempts[i])
    /\ attempts' = [attempts EXCEPT ![i][n] = outcome]
    /\ SetStatus(i, outcome)
    /\ UNCHANGED <<suppressed, reports, claimVars, capVars, txnVars>>

\* One batch: FOR UPDATE SKIP LOCKED under a LIMIT takes some of the lapsed rows.
ExpireInvitations(S) ==
    /\ S # {}
    /\ \A i \in S : Free(i) /\ IsLive(i) /\ inv[i].lapsed
    /\ inv' = [i \in Invitations |->
                 IF i \in S THEN [inv[i] EXCEPT !.status = "expired"] ELSE inv[i]]
    /\ attempts' = [i \in Invitations |->
                 IF i \in S THEN Suppressing(attempts[i]) ELSE attempts[i]]
    /\ cap' = [i \in Invitations |->
                 IF i \in S THEN Reconciled(cap[i], "expired") ELSE cap[i]]
    /\ UNCHANGED <<suppressed, reports, claimVars, responses, txnVars>>

-----------------------------------------------------------------------------
(* Recipient: opt out, report, preview, confirm the mailbox.               *)

OptOut(i, u) ==
    /\ Free(i)
    /\ IsLive(i)
    /\ IsMailboxOf(i, u)
    /\ \/ /\ inv[i].lapsed
          /\ SetStatus(i, "expired")
          /\ UNCHANGED <<attempts, suppressed, cap>>
       \/ /\ ~inv[i].lapsed
          /\ SetStatus(i, "opted_out")
          /\ ReconcileCapability(i, "revoked")
          /\ SuppressPending(i)
          /\ suppressed' = suppressed \cup {inv[i].recipient}
    /\ UNCHANGED <<reports, claimVars, responses, txnVars>>

\* The capability is not reconciled here.
ReportAbuse(i, u) ==
    /\ Free(i)
    /\ inv[i].status # "none"
    /\ IsMailboxOf(i, u)
    /\ <<i, u>> \notin reports
    /\ reports' = reports \cup {<<i, u>>}
    /\ inv' = [inv EXCEPT ![i].status = IF @ \in Live THEN "opted_out" ELSE @]
    /\ SuppressPending(i)
    /\ suppressed' = suppressed \cup {inv[i].recipient}
    /\ UNCHANGED <<claimVars, capVars, txnVars>>

\* Anyone with the link; a lapsed row expires without reconciling a capability.
PreviewInvitation(i) ==
    /\ Free(i)
    /\ \/ /\ IsLive(i) /\ inv[i].lapsed
          /\ SetStatus(i, "expired")
          /\ SuppressPending(i)
       \/ /\ inv[i].status = "delivered" /\ ~inv[i].lapsed
          /\ SetStatus(i, "opened")
          /\ UNCHANGED attempts
    /\ UNCHANGED <<suppressed, reports, claimVars, capVars, txnVars>>

VerifyRecipient(i, u) ==
    /\ Free(i)
    /\ inv[i].status = "opened"
    /\ IsMailboxOf(i, u)
    /\ \/ /\ inv[i].lapsed
          /\ SetStatus(i, "expired")
          /\ UNCHANGED check
       \/ /\ ~inv[i].lapsed
          /\ check[i] = NoOne
          /\ check' = [check EXCEPT ![i] = u]
          /\ UNCHANGED inv
    /\ UNCHANGED <<attempts, suppressed, reports, claim, orgName, members,
                   capVars, txnVars>>

-----------------------------------------------------------------------------
(* Recipient: claim an organization, bootstrap a new one, appeal.          *)

NewClaim(i, u, kind, s, n, o) ==
    [NoClaim EXCEPT !.status = s, !.inv = i, !.actor = u, !.kind = kind,
                    !.name = n, !.org = o]

CreateClaim(c, i, u, row) ==
    /\ claim[c].status = "none"
    /\ Free(i)
    /\ CheckedOpen(i, u)
    /\ ~OtherActiveClaim(c, i)
    /\ claim' = [claim EXCEPT ![c] = row]
    /\ UNCHANGED <<invVars, check, orgName, members, capVars, txnVars>>

CreateRelationshipClaim(c, i, u, o) ==
    /\ ActiveMember(u, o)
    /\ CreateClaim(c, i, u, NewClaim(i, u, "existing_relationship",
                            "relationship_checked", orgName[o], o))

\* The first scan for the name takes no lock.
CreateOrganizationClaim(c, i, u, n) ==
    CreateClaim(c, i, u, NewClaim(i, u, "new_organization",
        IF CompanyNamed(n) THEN "duplicate_review" ELSE "bootstrap_ready",
        n, NoOne))

\* Mutant: the final rescan takes no lock on the name.
BootstrapScan_NoNameLock(c) ==
    LET i == claim[c].inv
    IN /\ claim[c].status = "bootstrap_ready"
       /\ Free(i)
       /\ CheckedOpen(i, claim[c].actor)
       /\ ~CompanyNamed(claim[c].name)
       /\ bootstrapping' = bootstrapping \cup {c}
       /\ UNCHANGED <<invVars, claimVars, capVars, creating, retrying>>

\* Row locks, then the advisory lock of the name, then the final rescan.  A
\* duplicate goes to review at once.
BootstrapScan(c) ==
    LET i == claim[c].inv
    IN /\ claim[c].status = "bootstrap_ready"
       /\ Free(i)
       /\ CheckedOpen(i, claim[c].actor)
       /\ \A d \in bootstrapping : claim[d].name # claim[c].name
       /\ \/ /\ CompanyNamed(claim[c].name)
             /\ claim' = [claim EXCEPT ![c].status = "duplicate_review"]
             /\ UNCHANGED bootstrapping
          \/ /\ ~CompanyNamed(claim[c].name)
             /\ bootstrapping' = bootstrapping \cup {c}
             /\ UNCHANGED claim
       /\ UNCHANGED <<invVars, check, orgName, members, capVars, creating,
                      retrying>>

BootstrapCommit(c, o) ==
    /\ c \in bootstrapping
    /\ orgName[o] = NoOne
    /\ orgName' = [orgName EXCEPT ![o] = claim[c].name]
    /\ members' = members \cup {<<claim[c].actor, o>>}
    /\ claim' = [claim EXCEPT ![c].status = "claimed", ![c].org = o]
    /\ bootstrapping' = bootstrapping \ {c}
    /\ UNCHANGED <<invVars, check, capVars, creating, retrying>>

BootstrapRollback(c) ==
    /\ c \in bootstrapping
    /\ bootstrapping' = bootstrapping \ {c}
    /\ UNCHANGED <<invVars, claimVars, capVars, creating, retrying>>

\* Mutant: the partial unique index is missing.
AppealClaim_NoIndex(c) ==
    LET i == claim[c].inv
    IN /\ claim[c].status = "rejected"
       /\ Free(i)
       /\ CheckedOpen(i, check[i])
       /\ claim[c].rejectedBy # NoOne
       /\ claim' = [claim EXCEPT ![c].status = "under_review",
                                 ![c].appealed = TRUE]
       /\ UNCHANGED <<invVars, check, orgName, members, capVars, txnVars>>

\* Only the partial unique index keeps a second active claim of the invitation
\* out: the handler itself does not look for one.
AppealClaim(c) ==
    LET i == claim[c].inv
    IN /\ claim[c].status = "rejected"
       /\ Free(i)
       /\ CheckedOpen(i, check[i])
       /\ claim[c].rejectedBy # NoOne
       /\ ~OtherActiveClaim(c, i)
       /\ claim' = [claim EXCEPT ![c].status = "under_review",
                                 ![c].appealed = TRUE]
       /\ UNCHANGED <<invVars, check, orgName, members, capVars, txnVars>>

-----------------------------------------------------------------------------
(* Provider Operations: review a claim, pause it on a dispute, decide an   *)
(* appeal.  The handler locks the claim and not the invitation.            *)

AppealActions == {"appeal_approved", "appeal_rejected"}

\* <<action, status before, status after>>
ReviewTransition ==
    {<<"review_started", "duplicate_review", "under_review">>,
     <<"cleared_for_bootstrap", "duplicate_review", "bootstrap_ready">>,
     <<"cleared_for_bootstrap", "under_review", "bootstrap_ready">>,
     <<"rejected", "duplicate_review", "rejected">>,
     <<"rejected", "under_review", "rejected">>,
     <<"dispute_paused", "relationship_checked", "disputed">>,
     <<"dispute_paused", "claimed", "disputed">>,
     <<"appeal_approved", "under_review", "bootstrap_ready">>,
     <<"appeal_rejected", "under_review", "rejected">>}

Reviewed(row, rv, action, next) ==
    [row EXCEPT !.status = next,
                !.appealed = FALSE,
                !.rejectedBy = IF next = "rejected" THEN rv ELSE @,
                !.decidedBy = IF action \in AppealActions THEN rv ELSE @]

\* Mutant: an ordinary disposition may settle a claim under appeal.
DecideReview_BypassesAppeal(c, rv, action, next) ==
    LET isAppeal == action \in AppealActions
    IN /\ ClaimFree(c)
       /\ <<action, claim[c].status, next>> \in ReviewTransition
       /\ ~(isAppeal /\ claim[c].rejectedBy = rv)
       /\ isAppeal => claim[c].appealed
       /\ claim' = [claim EXCEPT ![c] = Reviewed(@, rv, action, next)]
       /\ IF next = "disputed"
          THEN ReconcileCapability(claim[c].inv, "suspended")
          ELSE UNCHANGED cap
       /\ UNCHANGED <<invVars, check, orgName, members, responses, txnVars>>

DecideReview(c, rv, action, next) ==
    LET isAppeal == action \in AppealActions
    IN /\ ClaimFree(c)
       /\ <<action, claim[c].status, next>> \in ReviewTransition
       /\ ~(isAppeal /\ claim[c].rejectedBy = rv)
       /\ isAppeal = claim[c].appealed
       /\ claim' = [claim EXCEPT ![c] = Reviewed(@, rv, action, next)]
       /\ IF next = "disputed"
          THEN ReconcileCapability(claim[c].inv, "suspended")
          ELSE UNCHANGED cap
       /\ UNCHANGED <<invVars, check, orgName, members, responses, txnVars>>

-----------------------------------------------------------------------------
(* Provider: take the response capability, open the inbox, respond.        *)

HasActiveCap(i) == \E k \in DOMAIN cap[i] : cap[i][k].status = "active"

IssueCapability(c) ==
    LET i == claim[c].inv
    IN /\ claim[c].status \in Linked
       /\ Free(i)
       /\ CheckedOpen(i, claim[c].actor)
       /\ ActiveMember(claim[c].actor, claim[c].org)
       /\ ~HasActiveCap(i)
       /\ Len(cap[i]) < MaxCapabilities
       /\ cap' = [cap EXCEPT ![i] = Append(@, [status |-> "active", claim |-> c])]
       /\ UNCHANGED <<invVars, claimVars, responses, txnVars>>

RelationshipActive(c) ==
    claim[c].status \in Linked /\ ActiveMember(claim[c].actor, claim[c].org)
Effective(i, k, linked) ==
    /\ inv[i].status = "opened" /\ ~inv[i].lapsed
    /\ cap[i][k].status = "active"
    /\ linked
ClosedStatus(i) ==
    IF inv[i].lapsed THEN "expired"
    ELSE IF inv[i].status # "opened" THEN "revoked"
    ELSE "suspended"

\* The query joins every capability of the account and keeps one (LIMIT 1), so
\* k may be an older, closed row.  The relationship is that of the invitation's
\* active claim.
OpenInbox(i, k) ==
    LET linked == \E c \in Claims : claim[c].inv = i /\ RelationshipActive(c)
    IN /\ Free(i)
       /\ Checked(i, check[i])
       /\ k \in DOMAIN cap[i]
       /\ cap[i][k].status = "active"
       /\ ~Effective(i, k, linked)
       /\ ReconcileCapability(i, ClosedStatus(i))
       /\ UNCHANGED <<invVars, claimVars, responses, txnVars>>

\* A stale capability is closed instead of used.
RespondStale(i, k) ==
    /\ Free(i)
    /\ Checked(i, check[i])
    /\ k \in DOMAIN cap[i]
    /\ cap[i][k].status = "active"
    /\ ~Effective(i, k, RelationshipActive(cap[i][k].claim))
    /\ ReconcileCapability(i, ClosedStatus(i))
    /\ UNCHANGED <<invVars, claimVars, responses, txnVars>>

Respond(i, k, action) ==
    /\ Free(i)
    /\ Checked(i, check[i])
    /\ k \in DOMAIN cap[i]
    /\ Effective(i, k, RelationshipActive(cap[i][k].claim))
    /\ <<i, k, action>> \notin responses
    /\ responses' = responses \cup {<<i, k, action>>}
    /\ \/ /\ action \in {"preliminary_question", "express_interest"}
          /\ UNCHANGED <<invVars, cap>>
       \/ /\ action = "decline"
          /\ SetStatus(i, "declined")
          /\ ReconcileCapability(i, "declined")
          /\ UNCHANGED <<attempts, suppressed, reports>>
       \/ /\ action = "report"
          /\ <<i, check[i]>> \notin reports
          /\ reports' = reports \cup {<<i, check[i]>>}
          /\ SetStatus(i, "opted_out")
          /\ SuppressPending(i)
          /\ suppressed' = suppressed \cup {inv[i].recipient}
          /\ ReconcileCapability(i, "revoked")
    /\ UNCHANGED <<claimVars, txnVars>>

-----------------------------------------------------------------------------
(* Time, and the organization routes beside this flow.                     *)

Lapse(i) ==
    /\ IsLive(i) /\ ~inv[i].lapsed
    /\ inv' = [inv EXCEPT ![i].lapsed = TRUE]
    /\ UNCHANGED <<attempts, suppressed, reports, claimVars, capVars, txnVars>>

\* A membership is suspended or reactivated.  Roles are not modelled: the rule
\* that keeps one active owner counts owners outside Users too.
UpdateMembershipStatus(u, o) ==
    /\ orgName[o] # NoOne
    /\ members' = IF ActiveMember(u, o) THEN members \ {<<u, o>>}
                  ELSE members \cup {<<u, o>>}
    /\ UNCHANGED <<invVars, check, claim, orgName, capVars, txnVars>>

\* The account route: it looks at the caller's memberships, never at the name,
\* and does not take the name's lock.
BootstrapOrganization(u, o, n) ==
    /\ orgName[o] = NoOne
    /\ \A p \in Orgs : ~ActiveMember(u, p)
    /\ orgName' = [orgName EXCEPT ![o] = n]
    /\ members' = members \cup {<<u, o>>}
    /\ UNCHANGED <<invVars, check, claim, capVars, txnVars>>

-----------------------------------------------------------------------------
OwnerStep ==
    \/ \E p \in Properties, r \in Recipients :
          \/ CreateBegin(p, r)
          \/ CreateRollback(p, r)
          \/ \E i \in Invitations : CreateCommit(i, p, r)
    \/ \E i \in Invitations :
          \/ RetryBegin(i) \/ RetryCommit(i) \/ RetryRollback(i)
          \/ RevokeInvitation(i) \/ ActivateRelationship(i)

DeliveryStep ==
    \/ \E i \in Invitations, n \in 1..MaxAttempts,
          outcome \in {"delivered", "failed"} : RecordDelivery(i, n, outcome)
    \/ \E S \in SUBSET Invitations : ExpireInvitations(S)

RecipientStep ==
    \/ \E i \in Invitations : PreviewInvitation(i)
    \/ \E i \in Invitations, u \in Users :
          \/ OptOut(i, u) \/ ReportAbuse(i, u) \/ VerifyRecipient(i, u)
          \/ \E c \in Claims :
                \/ \E o \in Orgs : CreateRelationshipClaim(c, i, u, o)
                \/ \E n \in Names : CreateOrganizationClaim(c, i, u, n)
    \/ \E c \in Claims :
          \/ BootstrapScan(c) \/ BootstrapRollback(c)
          \/ AppealClaim(c) \/ IssueCapability(c)
          \/ \E o \in Orgs : BootstrapCommit(c, o)
    \/ \E i \in Invitations, k \in 1..MaxCapabilities :
          \/ OpenInbox(i, k) \/ RespondStale(i, k)
          \/ \E action \in Actions : Respond(i, k, action)

ReviewStep ==
    \E c \in Claims, rv \in Reviewers, action \in ReviewActions,
       next \in ClaimStatus : DecideReview(c, rv, action, next)

EnvironmentStep ==
    \/ \E i \in Invitations : Lapse(i)
    \/ \E u \in Users, o \in Orgs :
          \/ UpdateMembershipStatus(u, o)
          \/ \E n \in Names : BootstrapOrganization(u, o, n)

Next == \/ OwnerStep \/ DeliveryStep \/ RecipientStep \/ ReviewStep
        \/ EnvironmentStep

Spec == Init /\ [][Next]_vars

-----------------------------------------------------------------------------
(* Invariants.                                                             *)

\* At most one live invitation exists for an owner property and a mailbox,
\* though create and retry check and insert in different transactions.
OneLiveInvitationPerRecipient ==
    \A i, j \in Invitations :
        /\ IsLive(i) /\ IsLive(j)
        /\ inv[i].property = inv[j].property
        /\ inv[i].recipient = inv[j].recipient
        => i = j

\* The invitation and its delivery attempts agree: only the newest attempt can
\* be pending, it is while delivery is awaited, and an invitation closed by the
\* owner or the recipient has none left to deliver, unless the activation of
\* another provider for the property is what closed it.
DeliveryAgreement ==
    \A i \in Invitations :
        LET last == Len(attempts[i])
            pending == {n \in DOMAIN attempts[i] : attempts[i][n] = "pending"}
        IN /\ (inv[i].status = "none") = (last = 0)
           /\ pending \subseteq {last}
           /\ inv[i].status = "pending_delivery" => pending = {last}
           /\ pending # {} =>
                \/ inv[i].status \in {"pending_delivery", "expired"}
                \/ /\ inv[i].status = "revoked"
                   /\ \E j \in Invitations : /\ inv[j].status = "activated"
                                             /\ inv[j].property = inv[i].property
           /\ inv[i].status \in {"delivered", "opened", "declined", "activated"}
                => attempts[i][last] = "delivered"
           /\ inv[i].status = "failed" => attempts[i][last] = "failed"

\* An invitation has at most one active organization claim, though a rejected
\* claim can come back by appeal after another was filed.
OneActiveClaim ==
    \A c, d \in Claims :
        /\ claim[c].status \in ActiveClaim /\ claim[d].status \in ActiveClaim
        /\ claim[c].inv = claim[d].inv
        => c = d

\* A claim that was rejected gets on only by an appeal that another reviewer
\* approved: ordinary dispositions cannot settle it.
RejectionNeedsIndependentApproval ==
    \A c \in Claims :
        /\ claim[c].status \in {"bootstrap_ready", "claimed", "disputed"}
        /\ claim[c].rejectedBy # NoOne
        => claim[c].decidedBy \notin {NoOne, claim[c].rejectedBy}

\* Two claims never bootstrap two organizations of one name: the rescan under
\* the name's lock sees what the first one committed.
OneBootstrapPerName ==
    \A c, d \in Claims :
        /\ \A e \in {c, d} : /\ claim[e].kind = "new_organization"
                             /\ claim[e].status \in {"claimed", "disputed"}
        /\ claim[c].name = claim[d].name
        => c = d

\* An active response capability is the invitation's only one and belongs to a
\* linked, undisputed claim of the account the recipient check bound; a revoked
\* invitation, by its owner or because another provider was activated, or a
\* declined one has none.
CapabilityFollowsClaim ==
    \A i \in Invitations : \A k \in DOMAIN cap[i] :
        LET c == cap[i][k].claim
        IN cap[i][k].status = "active" =>
             /\ k = Len(cap[i])
             /\ claim[c].inv = i
             /\ claim[c].status \in Linked
             /\ claim[c].actor = check[i]
             /\ claim[c].org # NoOne
             /\ inv[i].status \notin {"revoked", "declined"}

(* Action properties.                                                      *)

\* A closed invitation stays as it was closed: no late delivery receipt, retry,
\* preview or sweep moves it again.
TerminalStaysClosed ==
    [][\A i \in Invitations :
        inv[i].status \in Terminal => inv'[i].status = inv[i].status]_vars

(* What the documentation says and the code does not keep.                 *)

\* The API document: an opt-out suppresses future invitations to the address.
\* Create and retry read the suppression table without a lock, so an opt-out
\* that commits in between does not stop them.
OptOutStopsFutureInvitations ==
    [][\A i \in Invitations :
        inv'[i].status = "pending_delivery" /\ inv[i].status # "pending_delivery"
        => inv'[i].recipient \notin suppressed]_vars
=============================================================================

---------------------- MODULE ProviderConnection_proofs ----------------------
(***************************************************************************)
(* TLAPS proofs about ProviderConnection.                                  *)
(***************************************************************************)
EXTENDS ProviderConnection, TLAPS

(* A claim on file belongs to the account the recipient check bound.       *)
BoundClaims ==
    \A c \in Claims : claim[c].status # "none" =>
        /\ claim[c].inv \in Invitations
        /\ claim[c].actor \in Users
        /\ check[claim[c].inv] = claim[c].actor

(* What a handler checked before it let go of the processor still holds:   *)
(* the rows it locked keep their status until it commits.                  *)
LocksHeld ==
    /\ \A c \in bootstrapping : claim[c].status = "bootstrap_ready"
    /\ \A i \in retrying : inv[i].status = "failed"

-----------------------------------------------------------------------------

(* What the updates of one row keep of its type.                           *)
LEMMA InvRowStatus ==
    ASSUME NEW row \in InvRow, NEW s \in InvStatus
    PROVE  [row EXCEPT !.status = s] \in InvRow
BY DEF InvRow

LEMMA InvRowLapsed ==
    ASSUME NEW row \in InvRow, NEW b \in BOOLEAN
    PROVE  [row EXCEPT !.lapsed = b] \in InvRow
BY Zenon DEF InvRow

LEMMA InvRowFields ==
    ASSUME NEW row \in InvRow
    PROVE  /\ row.status \in InvStatus
           /\ row.recipient \in Recipients \cup {NoOne}
BY DEF InvRow

LEMMA NewInvRow ==
    ASSUME NEW p \in Properties, NEW r \in Recipients
    PROVE  [status |-> "pending_delivery", property |-> p, recipient |-> r,
            lapsed |-> FALSE] \in InvRow
BY DEF InvRow, InvStatus, Live

LEMMA ClaimRowStatus ==
    ASSUME NEW row \in ClaimRow, NEW s \in ClaimStatus
    PROVE  [row EXCEPT !.status = s] \in ClaimRow
BY DEF ClaimRow

LEMMA ClaimRowAppealed ==
    ASSUME NEW row \in ClaimRow, NEW b \in BOOLEAN
    PROVE  [row EXCEPT !.appealed = b] \in ClaimRow
BY ZenonT(30) DEF ClaimRow

LEMMA ClaimRowOrg ==
    ASSUME NEW row \in ClaimRow, NEW o \in Orgs
    PROVE  [row EXCEPT !.org = o] \in ClaimRow
BY DEF ClaimRow

LEMMA ClaimRowRejectedBy ==
    ASSUME NEW row \in ClaimRow, NEW v \in Reviewers \cup {NoOne}
    PROVE  [row EXCEPT !.rejectedBy = v] \in ClaimRow
BY DEF ClaimRow

LEMMA ClaimRowDecidedBy ==
    ASSUME NEW row \in ClaimRow, NEW v \in Reviewers \cup {NoOne}
    PROVE  [row EXCEPT !.decidedBy = v] \in ClaimRow
BY DEF ClaimRow

LEMMA ClaimRowFields ==
    ASSUME NEW row \in ClaimRow
    PROVE  /\ row.status \in ClaimStatus
           /\ row.inv \in Invitations \cup {NoOne}
           /\ row.actor \in Users \cup {NoOne}
           /\ row.name \in Names \cup {NoOne}
           /\ row.org \in Orgs \cup {NoOne}
           /\ row.rejectedBy \in Reviewers \cup {NoOne}
           /\ row.decidedBy \in Reviewers \cup {NoOne}
BY DEF ClaimRow

LEMMA NewClaimType ==
    ASSUME NEW i \in Invitations, NEW u \in Users, NEW kind \in ClaimKind,
           NEW s \in ClaimStatus, NEW n \in Names \cup {NoOne},
           NEW o \in Orgs \cup {NoOne}
    PROVE  NewClaim(i, u, kind, s, n, o) \in ClaimRow
BY DEF NewClaim, NoClaim, ClaimRow

LEMMA ReviewedType ==
    ASSUME NEW row \in ClaimRow, NEW rv \in Reviewers, NEW a,
           NEW next \in ClaimStatus
    PROVE  Reviewed(row, rv, a, next) \in ClaimRow
<1> DEFINE r1 == [row EXCEPT !.status = next]
           r2 == [r1 EXCEPT !.appealed = FALSE]
           r3 == [r2 EXCEPT !.rejectedBy = IF next = "rejected" THEN rv ELSE @]
           r4 == [r3 EXCEPT !.decidedBy = IF a \in AppealActions THEN rv ELSE @]
<1>1. r1 \in ClaimRow
  BY ClaimRowStatus
<1>2. r2 \in ClaimRow
  BY <1>1, ClaimRowAppealed
<1>3. r3 \in ClaimRow
  BY <1>2, ClaimRowRejectedBy, ClaimRowFields
<1>4. r4 \in ClaimRow
  BY ZenonT(60), <1>3, ClaimRowDecidedBy, ClaimRowFields
<1> QED
  BY <1>4 DEF Reviewed

(* Closing the pending attempts of an invitation keeps attempts of the     *)
(* right type.                                                             *)
LEMMA SuppressingType ==
    ASSUME NEW s \in Seq(AttemptStatus)
    PROVE  Suppressing(s) \in Seq(AttemptStatus)
BY DEF Suppressing, AttemptStatus

LEMMA CapRowStatus ==
    ASSUME NEW row \in CapRow, NEW s \in CapStatus
    PROVE  [row EXCEPT !.status = s] \in CapRow
BY DEF CapRow

(* Reconciling a capability keeps capabilities of the right type.          *)
LEMMA ReconciledType ==
    ASSUME NEW s \in Seq(CapRow), NEW next \in CapStatus
    PROVE  Reconciled(s, next) \in Seq(CapRow)
BY CapRowStatus DEF Reconciled

LEMMA ClosedStatusType == \A i : ClosedStatus(i) \in CapStatus
BY Zenon DEF ClosedStatus, CapStatus

(* The same for the tables the handlers share.                             *)
LEMMA SetStatusType ==
    ASSUME TypeOK, NEW i, NEW s \in InvStatus, SetStatus(i, s)
    PROVE  inv' \in [Invitations -> InvRow]
BY InvRowStatus DEF TypeOK, SetStatus

LEMMA SuppressPendingType ==
    ASSUME TypeOK, NEW i, SuppressPending(i)
    PROVE  attempts' \in [Invitations -> Seq(AttemptStatus)]
BY SuppressingType DEF TypeOK, SuppressPending

LEMMA ReconcileCapabilityType ==
    ASSUME TypeOK, NEW i, NEW s \in CapStatus, ReconcileCapability(i, s)
    PROVE  cap' \in [Invitations -> Seq(CapRow)]
BY ReconciledType DEF TypeOK, ReconcileCapability

LEMMA TypeInit == Init => TypeOK
BY DEF Init, TypeOK, NoInvitation, NoClaim, InvRow, InvStatus, ClaimRow,
       ClaimStatus, ClaimKind

(* Every handler writes rows of the declared type.                         *)
LEMMA TypeStep == TypeOK /\ BoundClaims /\ LocksHeld /\ [Next]_vars => TypeOK'
<1> SUFFICES ASSUME TypeOK, BoundClaims, LocksHeld, [Next]_vars PROVE TypeOK'
  OBVIOUS
<1>1. ASSUME NEW p \in Properties, NEW r \in Recipients,
           CreateBegin(p, r)
      PROVE  TypeOK'
  BY <1>1
  DEF CreateBegin, TypeOK, invVars, claimVars, capVars, txnVars
<1>2. ASSUME NEW p \in Properties, NEW r \in Recipients,
           CreateRollback(p, r)
      PROVE  TypeOK'
  BY <1>2
  DEF CreateRollback, TypeOK, invVars, claimVars, capVars, txnVars
<1>3. ASSUME NEW p \in Properties, NEW r \in Recipients, NEW i \in Invitations,
           CreateCommit(i, p, r)
      PROVE  TypeOK'
  <2>1. inv' \in [Invitations -> InvRow]
    BY <1>3, InvRowStatus, NewInvRow
    DEF CreateCommit, TypeOK, InvStatus, Terminal
  <2>2. attempts' \in [Invitations -> Seq(AttemptStatus)]
    BY <1>3
    DEF CreateCommit, TypeOK, AttemptStatus
  <2> QED
    BY <1>3, <2>1, <2>2
    DEF CreateCommit, TypeOK, invVars, claimVars, capVars, txnVars
<1>4. ASSUME NEW i \in Invitations,
           RetryBegin(i)
      PROVE  TypeOK'
  BY <1>4
  DEF RetryBegin, TypeOK, invVars, claimVars, capVars, txnVars
<1>5. ASSUME NEW i \in Invitations,
           RetryCommit(i)
      PROVE  TypeOK'
  <2>1. inv' \in [Invitations -> InvRow]
    BY <1>5, InvRowStatus, InvRowLapsed
    DEF RetryCommit, TypeOK, InvStatus, Live
  <2>2. attempts' \in [Invitations -> Seq(AttemptStatus)]
    BY <1>5
    DEF RetryCommit, TypeOK, AttemptStatus
  <2> QED
    BY <1>5, <2>1, <2>2
    DEF RetryCommit, TypeOK, invVars, claimVars, capVars, txnVars
<1>6. ASSUME NEW i \in Invitations,
           RetryRollback(i)
      PROVE  TypeOK'
  BY <1>6
  DEF RetryRollback, TypeOK, invVars, claimVars, capVars, txnVars
<1>7. ASSUME NEW i \in Invitations,
           RevokeInvitation(i)
      PROVE  TypeOK'
  <2>1. inv' \in [Invitations -> InvRow]
    BY <1>7, SetStatusType
    DEF RevokeInvitation, TypeOK, InvStatus, Live, Terminal, invVars
  <2>2. attempts' \in [Invitations -> Seq(AttemptStatus)]
    BY <1>7, SuppressPendingType
    DEF RevokeInvitation, TypeOK, invVars
  <2>3. cap' \in [Invitations -> Seq(CapRow)]
    BY <1>7, ReconcileCapabilityType
    DEF RevokeInvitation, TypeOK, CapStatus, capVars
  <2> QED
    BY <1>7, <2>1, <2>2, <2>3
    DEF RevokeInvitation, TypeOK, invVars, claimVars, capVars, txnVars
<1>8. ASSUME NEW i \in Invitations, NEW n \in 1..MaxAttempts,
           NEW outcome \in {"delivered", "failed"},
           RecordDelivery(i, n, outcome)
      PROVE  TypeOK'
  <2>1. inv' \in [Invitations -> InvRow]
    BY <1>8, SetStatusType
    DEF RecordDelivery, TypeOK, InvStatus, Live, Terminal, invVars
  <2>2. attempts' \in [Invitations -> Seq(AttemptStatus)]
    BY <1>8
    DEF RecordDelivery, TypeOK, AttemptStatus
  <2> QED
    BY <1>8, <2>1, <2>2
    DEF RecordDelivery, TypeOK, invVars, claimVars, capVars, txnVars
<1>9. ASSUME NEW S \in SUBSET Invitations,
           ExpireInvitations(S)
      PROVE  TypeOK'
  <2>1. inv' \in [Invitations -> InvRow]
    BY <1>9, InvRowStatus
    DEF ExpireInvitations, TypeOK, InvStatus, Terminal
  <2>2. attempts' \in [Invitations -> Seq(AttemptStatus)]
    BY <1>9, SuppressingType
    DEF ExpireInvitations, TypeOK
  <2>3. cap' \in [Invitations -> Seq(CapRow)]
    BY <1>9, ReconciledType
    DEF ExpireInvitations, TypeOK, CapStatus
  <2> QED
    BY <1>9, <2>1, <2>2, <2>3
    DEF ExpireInvitations, TypeOK, invVars, claimVars, capVars, txnVars
<1>10. ASSUME NEW i \in Invitations,
           PreviewInvitation(i)
      PROVE  TypeOK'
  <2>1. inv' \in [Invitations -> InvRow]
    BY <1>10, SetStatusType
    DEF PreviewInvitation, TypeOK, InvStatus, Live, Terminal, invVars
  <2>2. attempts' \in [Invitations -> Seq(AttemptStatus)]
    BY <1>10, SuppressPendingType
    DEF PreviewInvitation, TypeOK, invVars
  <2> QED
    BY <1>10, <2>1, <2>2
    DEF PreviewInvitation, TypeOK, invVars, claimVars, capVars, txnVars
<1>11. ASSUME NEW i \in Invitations, NEW u \in Users,
           OptOut(i, u)
      PROVE  TypeOK'
  <2>1. inv' \in [Invitations -> InvRow]
    BY <1>11, SetStatusType
    DEF OptOut, TypeOK, InvStatus, Live, Terminal, invVars
  <2>2. attempts' \in [Invitations -> Seq(AttemptStatus)]
    BY <1>11, SuppressPendingType
    DEF OptOut, TypeOK, invVars
  <2>3. cap' \in [Invitations -> Seq(CapRow)]
    BY <1>11, ReconcileCapabilityType
    DEF OptOut, TypeOK, CapStatus, capVars
  <2>4. suppressed' \subseteq Recipients
    BY <1>11, MailboxAssumption
    DEF OptOut, TypeOK, IsMailboxOf
  <2> QED
    BY <1>11, <2>1, <2>2, <2>3, <2>4
    DEF OptOut, TypeOK, invVars, claimVars, capVars, txnVars
<1>12. ASSUME NEW i \in Invitations, NEW u \in Users,
           ReportAbuse(i, u)
      PROVE  TypeOK'
  <2>1. inv' \in [Invitations -> InvRow]
    BY <1>12, InvRowStatus, InvRowFields
    DEF ReportAbuse, TypeOK, InvStatus, Terminal
  <2>2. attempts' \in [Invitations -> Seq(AttemptStatus)]
    BY <1>12, SuppressPendingType
    DEF ReportAbuse, TypeOK, invVars
  <2>3. suppressed' \subseteq Recipients
    BY <1>12, MailboxAssumption
    DEF ReportAbuse, TypeOK, IsMailboxOf
  <2> QED
    BY <1>12, <2>1, <2>2, <2>3
    DEF ReportAbuse, TypeOK, invVars, claimVars, capVars, txnVars
<1>13. ASSUME NEW i \in Invitations, NEW u \in Users,
           VerifyRecipient(i, u)
      PROVE  TypeOK'
  <2>1. inv' \in [Invitations -> InvRow]
    BY <1>13, SetStatusType
    DEF VerifyRecipient, TypeOK, InvStatus, Live, Terminal, invVars
  <2>2. check' \in [Invitations -> Users \cup {NoOne}]
    BY <1>13
    DEF VerifyRecipient, TypeOK
  <2> QED
    BY <1>13, <2>1, <2>2
    DEF VerifyRecipient, TypeOK, invVars, claimVars, capVars, txnVars
<1>14. ASSUME NEW c \in Claims, NEW i \in Invitations, NEW u \in Users,
           NEW o \in Orgs,
           CreateRelationshipClaim(c, i, u, o)
      PROVE  TypeOK'
  <2>1. claim' \in [Claims -> ClaimRow]
    BY <1>14, NewClaimType
    DEF CreateRelationshipClaim, TypeOK, CreateClaim, ClaimKind, ClaimStatus,
        ActiveClaim, Linked
  <2> QED
    BY <1>14, <2>1
    DEF CreateRelationshipClaim, TypeOK, CreateClaim, invVars, claimVars,
        capVars, txnVars
<1>15. ASSUME NEW c \in Claims, NEW i \in Invitations, NEW u \in Users,
           NEW n \in Names,
           CreateOrganizationClaim(c, i, u, n)
      PROVE  TypeOK'
  <2>1. claim' \in [Claims -> ClaimRow]
    BY <1>15, NewClaimType
    DEF CreateOrganizationClaim, TypeOK, CreateClaim, ClaimKind, ClaimStatus,
        ActiveClaim, Linked
  <2> QED
    BY <1>15, <2>1
    DEF CreateOrganizationClaim, TypeOK, CreateClaim, invVars, claimVars,
        capVars, txnVars
<1>16. ASSUME NEW c \in Claims,
           BootstrapScan(c)
      PROVE  TypeOK'
  <2>1. claim \in [Claims -> ClaimRow] /\ "duplicate_review" \in ClaimStatus
    BY DEF TypeOK, ClaimStatus, ActiveClaim
  <2>2. \/ UNCHANGED claim
        \/ claim' = [claim EXCEPT ![c].status = "duplicate_review"]
    BY <1>16 DEF BootstrapScan
  <2>3. [claim EXCEPT ![c].status = "duplicate_review"] \in [Claims -> ClaimRow]
    BY <2>1, ClaimRowStatus
  <2>4. claim' \in [Claims -> ClaimRow]
    BY <2>1, <2>2, <2>3
  <2> QED
    BY <1>16, <2>4
    DEF BootstrapScan, TypeOK, invVars, claimVars, capVars, txnVars
<1>17. ASSUME NEW c \in Claims,
           BootstrapRollback(c)
      PROVE  TypeOK'
  BY <1>17
  DEF BootstrapRollback, TypeOK, invVars, claimVars, capVars, txnVars
<1>18. ASSUME NEW c \in Claims,
           AppealClaim(c)
      PROVE  TypeOK'
  <2>1. claim' \in [Claims -> ClaimRow]
    BY <1>18, ClaimRowStatus, ClaimRowAppealed
    DEF AppealClaim, TypeOK, ClaimStatus, ActiveClaim, Linked
  <2> QED
    BY <1>18, <2>1
    DEF AppealClaim, TypeOK, invVars, claimVars, capVars, txnVars
<1>19. ASSUME NEW c \in Claims,
           IssueCapability(c)
      PROVE  TypeOK'
  <2>1. /\ [status |-> "active", claim |-> c] \in CapRow
        /\ cap \in [Invitations -> Seq(CapRow)]
    BY DEF CapRow, CapStatus, TypeOK
  <2>2. \A j \in Invitations :
           Append(cap[j], [status |-> "active", claim |-> c]) \in Seq(CapRow)
    BY <2>1
  <2>3. cap' \in [Invitations -> Seq(CapRow)]
    BY <1>19, <2>1, <2>2 DEF IssueCapability
  <2> QED
    BY <1>19, <2>3
    DEF IssueCapability, TypeOK, invVars, claimVars, capVars, txnVars
<1>20. ASSUME NEW c \in Claims, NEW o \in Orgs,
           BootstrapCommit(c, o)
      PROVE  TypeOK'
  <2>1. claim' \in [Claims -> ClaimRow]
    BY <1>20, ClaimRowStatus, ClaimRowOrg
    DEF BootstrapCommit, TypeOK, ClaimStatus, ActiveClaim, Linked
  <2> QED
    BY <1>20, <2>1, ClaimRowFields
    DEF BootstrapCommit, TypeOK, BoundClaims, LocksHeld, invVars, claimVars,
        capVars, txnVars
<1>21. ASSUME NEW i \in Invitations, NEW k \in 1..MaxCapabilities,
           OpenInbox(i, k)
      PROVE  TypeOK'
  <2>1. cap' \in [Invitations -> Seq(CapRow)]
    BY <1>21, ReconcileCapabilityType, ClosedStatusType
    DEF OpenInbox, TypeOK
  <2> QED
    BY <1>21, <2>1
    DEF OpenInbox, TypeOK, invVars, claimVars, capVars, txnVars
<1>22. ASSUME NEW i \in Invitations, NEW k \in 1..MaxCapabilities,
           RespondStale(i, k)
      PROVE  TypeOK'
  <2>1. cap' \in [Invitations -> Seq(CapRow)]
    BY <1>22, ReconcileCapabilityType, ClosedStatusType
    DEF RespondStale, TypeOK
  <2> QED
    BY <1>22, <2>1
    DEF RespondStale, TypeOK, invVars, claimVars, capVars, txnVars
<1>23. ASSUME NEW i \in Invitations, NEW k \in 1..MaxCapabilities, NEW a \in Actions,
           Respond(i, k, a)
      PROVE  TypeOK'
  <2>1. inv' \in [Invitations -> InvRow]
    BY <1>23, SetStatusType
    DEF Respond, TypeOK, InvStatus, Live, Terminal, invVars
  <2>2. attempts' \in [Invitations -> Seq(AttemptStatus)]
    BY <1>23, SuppressPendingType
    DEF Respond, TypeOK, invVars
  <2>3. cap' \in [Invitations -> Seq(CapRow)]
    BY <1>23, ReconcileCapabilityType
    DEF Respond, TypeOK, CapStatus, capVars
  <2>4. suppressed' \subseteq Recipients
    BY <1>23, MailboxAssumption
    DEF Respond, TypeOK, Checked, IsMailboxOf, invVars
  <2>5. reports' \subseteq Invitations \X Users
    BY <1>23
    DEF Respond, TypeOK, Checked, invVars
  <2> QED
    BY SMTT(30), <1>23, <2>1, <2>2, <2>3, <2>4, <2>5
    DEF Respond, TypeOK, Actions, invVars, claimVars, capVars, txnVars
<1>24. ASSUME NEW c \in Claims, NEW rv \in Reviewers, NEW a \in ReviewActions,
           NEW next \in ClaimStatus,
           DecideReview(c, rv, a, next)
      PROVE  TypeOK'
  <2>1. claim' \in [Claims -> ClaimRow]
    BY <1>24, ReviewedType
    DEF DecideReview, TypeOK
  <2>2. cap' \in [Invitations -> Seq(CapRow)]
    BY <1>24, ReconcileCapabilityType
    DEF DecideReview, TypeOK, CapStatus, capVars
  <2> QED
    BY <1>24, <2>1, <2>2
    DEF DecideReview, TypeOK, invVars, claimVars, capVars, txnVars
<1>25. ASSUME NEW i \in Invitations,
           Lapse(i)
      PROVE  TypeOK'
  <2>1. inv' \in [Invitations -> InvRow]
    BY <1>25, InvRowLapsed
    DEF Lapse, TypeOK
  <2> QED
    BY <1>25, <2>1
    DEF Lapse, TypeOK, invVars, claimVars, capVars, txnVars
<1>26. ASSUME NEW u \in Users, NEW o \in Orgs,
           UpdateMembershipStatus(u, o)
      PROVE  TypeOK'
  BY <1>26
  DEF UpdateMembershipStatus, TypeOK, invVars, claimVars, capVars, txnVars
<1>27. ASSUME NEW u \in Users, NEW o \in Orgs, NEW n \in Names,
           BootstrapOrganization(u, o, n)
      PROVE  TypeOK'
  BY <1>27
  DEF BootstrapOrganization, TypeOK, invVars, claimVars, capVars, txnVars
<1>28. CASE UNCHANGED vars
  BY <1>28 DEF vars, invVars, claimVars, capVars, txnVars, TypeOK
<1>29. ASSUME NEW i \in Invitations,
           ActivateRelationship(i)
      PROVE  TypeOK'
  <2>1. inv' \in [Invitations -> InvRow]
    BY <1>29, InvRowStatus
    DEF ActivateRelationship, TypeOK, InvStatus, Terminal
  <2>2. cap' \in [Invitations -> Seq(CapRow)]
    BY <1>29, ReconciledType
    DEF ActivateRelationship, TypeOK, CapStatus
  <2> QED
    BY <1>29, <2>1, <2>2
    DEF ActivateRelationship, TypeOK, invVars, claimVars, capVars, txnVars
<1> QED
  BY <1>1, <1>2, <1>3, <1>4, <1>5, <1>6, <1>7, <1>8, <1>9, <1>10, <1>11,
     <1>12, <1>13, <1>14, <1>15, <1>16, <1>17, <1>18, <1>19, <1>20, <1>21,
     <1>22, <1>23, <1>24, <1>25, <1>26, <1>27, <1>28, <1>29
  DEF Next, OwnerStep, DeliveryStep, RecipientStep, ReviewStep, EnvironmentStep

-----------------------------------------------------------------------------
(* What the row updates leave in each column.                              *)
LEMMA InvStatusFields ==
    ASSUME NEW row \in InvRow, NEW s
    PROVE  LET new == [row EXCEPT !.status = s]
           IN /\ new.status = s
              /\ new.property = row.property
              /\ new.recipient = row.recipient
BY DEF InvRow

LEMMA InvRenewFields ==
    ASSUME NEW row \in InvRow, NEW s, NEW b
    PROVE  LET new == [row EXCEPT !.status = s, !.lapsed = b]
           IN /\ new.status = s
              /\ new.property = row.property
              /\ new.recipient = row.recipient
BY DEF InvRow

LEMMA InvLapseFields ==
    ASSUME NEW row \in InvRow, NEW b
    PROVE  LET new == [row EXCEPT !.lapsed = b]
           IN /\ new.status = row.status
              /\ new.property = row.property
              /\ new.recipient = row.recipient
BY DEF InvRow

LEMMA ClaimStatusFields ==
    ASSUME NEW row \in ClaimRow, NEW s
    PROVE  LET new == [row EXCEPT !.status = s]
           IN /\ new.status = s /\ new.inv = row.inv /\ new.actor = row.actor
              /\ new.kind = row.kind /\ new.name = row.name
              /\ new.org = row.org /\ new.rejectedBy = row.rejectedBy
              /\ new.appealed = row.appealed /\ new.decidedBy = row.decidedBy
BY DEF ClaimRow

LEMMA ClaimAppealFields ==
    ASSUME NEW row \in ClaimRow, NEW s, NEW b
    PROVE  LET new == [row EXCEPT !.status = s, !.appealed = b]
           IN /\ new.status = s /\ new.inv = row.inv /\ new.actor = row.actor
              /\ new.kind = row.kind /\ new.name = row.name
              /\ new.org = row.org /\ new.rejectedBy = row.rejectedBy
              /\ new.appealed = b /\ new.decidedBy = row.decidedBy
BY DEF ClaimRow

LEMMA ClaimOrgFields ==
    ASSUME NEW row \in ClaimRow, NEW s, NEW o
    PROVE  LET new == [row EXCEPT !.status = s, !.org = o]
           IN /\ new.status = s /\ new.inv = row.inv /\ new.actor = row.actor
              /\ new.kind = row.kind /\ new.name = row.name
              /\ new.org = o /\ new.rejectedBy = row.rejectedBy
              /\ new.appealed = row.appealed /\ new.decidedBy = row.decidedBy
BY DEF ClaimRow

LEMMA ReviewedFields ==
    ASSUME NEW row \in ClaimRow, NEW rv, NEW a, NEW next
    PROVE  LET new == Reviewed(row, rv, a, next)
           IN /\ new.status = next /\ new.inv = row.inv /\ new.actor = row.actor
              /\ new.kind = row.kind /\ new.name = row.name
              /\ new.org = row.org /\ new.appealed = FALSE
              /\ new.rejectedBy = IF next = "rejected" THEN rv ELSE row.rejectedBy
              /\ new.decidedBy = IF a \in AppealActions THEN rv
                                 ELSE row.decidedBy
BY DEF ClaimRow, Reviewed

LEMMA NewClaimFields ==
    ASSUME NEW i, NEW u, NEW kind, NEW s, NEW n, NEW o
    PROVE  LET new == NewClaim(i, u, kind, s, n, o)
           IN /\ new.status = s /\ new.inv = i /\ new.actor = u
              /\ new.kind = kind /\ new.name = n
              /\ new.org = o /\ new.rejectedBy = NoOne
              /\ new.appealed = FALSE /\ new.decidedBy = NoOne
BY DEF NewClaim, NoClaim

-----------------------------------------------------------------------------
(* One live invitation per property and mailbox.                           *)
(* Only a commit of create or retry brings an invitation to life, and only *)
(* when no other of its pair is alive.                                     *)
NewlyLive(i) ==
    /\ inv'[i].status \in Live /\ inv[i].status \notin Live
    => \A j \in Invitations \ {i} :
         inv'[j].status \in Live => /\ inv'[j] = inv[j]
                                    /\ \/ inv'[j].property # inv'[i].property
                                       \/ inv'[j].recipient # inv'[i].recipient

LEMMA CreateNewlyLive ==
    ASSUME TypeOK, NEW p \in Properties, NEW r \in Recipients,
           NEW i \in Invitations, CreateCommit(i, p, r), NEW x \in Invitations
    PROVE  NewlyLive(x)
<1> DEFINE Lapsed == {j \in Invitations : /\ IsLive(j) /\ inv[j].lapsed
                                          /\ inv[j].property = p
                                          /\ inv[j].recipient = r}
           new == [status |-> "pending_delivery", property |-> p,
                   recipient |-> r, lapsed |-> FALSE]
<1>1. /\ inv[i].status = "none"
      /\ inv'[i] = new
      /\ \A j \in Invitations \ {i} :
            inv'[j] = IF j \in Lapsed THEN [inv[j] EXCEPT !.status = "expired"]
                      ELSE inv[j]
      /\ \A j \in Invitations \ Lapsed :
            ~(IsLive(j) /\ inv[j].property = p /\ inv[j].recipient = r)
  BY DEF CreateCommit
<1>2. \A j \in Lapsed : [inv[j] EXCEPT !.status = "expired"].status = "expired"
  BY InvStatusFields DEF TypeOK
<1>3. new.property = p /\ new.recipient = r
  OBVIOUS
<1> HIDE DEF Lapsed, new
<1>4. CASE x = i
  BY <1>1, <1>2, <1>3, <1>4 DEF NewlyLive, IsLive, Live
<1>5. CASE x # i
  BY <1>1, <1>2, <1>5 DEF NewlyLive, IsLive, Live
<1> QED
  BY <1>4, <1>5

LEMMA RetryNewlyLive ==
    ASSUME TypeOK, LocksHeld, NEW i \in Invitations, RetryCommit(i),
           NEW x \in Invitations
    PROVE  NewlyLive(x)
<1>1. inv' = [inv EXCEPT ![i].status = "pending_delivery", ![i].lapsed = FALSE]
      /\ ~SameLive(i, inv[i].property, inv[i].recipient)
  BY DEF RetryCommit
<1>2. /\ \A j \in Invitations \ {i} : inv'[j] = inv[j]
      /\ inv'[i].property = inv[i].property
      /\ inv'[i].recipient = inv[i].recipient
  BY <1>1, InvRenewFields DEF TypeOK
<1> QED
  BY ZenonT(60), <1>1, <1>2 DEF NewlyLive, SameLive, IsLive

-----------------------------------------------------------------------------
(* How one step may move an invitation.                                    *)
InvMove(j) ==
    /\ inv[j].status # "none" =>
         /\ inv'[j].property = inv[j].property
         /\ inv'[j].recipient = inv[j].recipient
    /\ \/ inv'[j].status = inv[j].status
       \/ /\ inv[j].status = "none" /\ inv'[j].status = "pending_delivery"
          /\ NewlyLive(j)
       \/ /\ inv[j].status = "failed" /\ inv'[j].status = "pending_delivery"
          /\ j \notin retrying' /\ NewlyLive(j)
       \/ inv[j].status = "pending_delivery" /\ inv'[j].status = "delivered"
       \/ inv[j].status = "pending_delivery" /\ inv'[j].status = "failed"
       \/ inv[j].status = "delivered" /\ inv'[j].status = "opened"
       \/ inv[j].status \in Live /\ inv'[j].status \in Terminal

InvMoves == \A j \in Invitations : InvMove(j)

LEMMA InvKept == UNCHANGED inv => InvMoves
BY DEF InvMoves, InvMove

LEMMA SetStatusMove ==
    ASSUME TypeOK, NEW i \in Invitations, NEW s, SetStatus(i, s)
    PROVE  /\ \A j \in Invitations \ {i} : inv'[j] = inv[j]
           /\ inv'[i].status = s
           /\ inv'[i].property = inv[i].property
           /\ inv'[i].recipient = inv[i].recipient
BY InvStatusFields DEF TypeOK, SetStatus

(* Every handler moves every invitation along its lifecycle.               *)
LEMMA InvMoveStep == TypeOK /\ LocksHeld /\ [Next]_vars => InvMoves
<1> SUFFICES ASSUME TypeOK, LocksHeld, [Next]_vars PROVE InvMoves
  OBVIOUS
<1> USE DEF Live, Terminal
<1>1. ASSUME NEW p \in Properties, NEW r \in Recipients,
           CreateBegin(p, r)
      PROVE  InvMoves
  BY <1>1, InvKept
  DEF CreateBegin, invVars
<1>2. ASSUME NEW p \in Properties, NEW r \in Recipients,
           CreateRollback(p, r)
      PROVE  InvMoves
  BY <1>2, InvKept
  DEF CreateRollback, invVars
<1>3. ASSUME NEW p \in Properties, NEW r \in Recipients, NEW i \in Invitations,
           CreateCommit(i, p, r)
      PROVE  InvMoves
  <2>1. \A j \in Invitations : NewlyLive(j)
    BY <1>3, CreateNewlyLive
  <2>2. inv'[i].status = "pending_delivery" /\ inv[i].status = "none"
    BY <1>3 DEF CreateCommit, TypeOK
  <2>3. ASSUME NEW j \in Invitations \ {i}
        PROVE  \/ inv'[j] = inv[j]
               \/ /\ inv[j].status \in Live
                  /\ inv'[j] = [inv[j] EXCEPT !.status = "expired"]
    BY <1>3 DEF CreateCommit, IsLive
  <2>4. ASSUME NEW j \in Invitations \ {i} PROVE InvMove(j)
    <3>1. CASE inv'[j] = inv[j]
      BY <3>1, <2>1 DEF InvMove
    <3>2. CASE /\ inv[j].status \in Live
               /\ inv'[j] = [inv[j] EXCEPT !.status = "expired"]
      <4>1. inv[j] \in InvRow
        BY DEF TypeOK
      <4>2. /\ inv'[j].status = "expired"
            /\ inv'[j].property = inv[j].property
            /\ inv'[j].recipient = inv[j].recipient
        BY <3>2, <4>1 DEF InvRow
      <4> QED
        BY <2>1, <3>2, <4>2 DEF InvMove
    <3> QED
      BY <2>3, <3>1, <3>2
  <2>5. InvMove(i)
    BY <2>1, <2>2 DEF InvMove
  <2> QED
    BY <2>4, <2>5 DEF InvMoves
<1>4. ASSUME NEW i \in Invitations,
           RetryBegin(i)
      PROVE  InvMoves
  BY <1>4, InvKept
  DEF RetryBegin, invVars
<1>5. ASSUME NEW i \in Invitations,
           RetryCommit(i)
      PROVE  InvMoves
  <2>1. NewlyLive(i) /\ i \notin retrying' /\ inv[i].status = "failed"
    BY <1>5, RetryNewlyLive DEF RetryCommit, LocksHeld
  <2>2. /\ \A j \in Invitations \ {i} : inv'[j] = inv[j]
        /\ inv'[i].status = "pending_delivery"
        /\ inv'[i].property = inv[i].property
        /\ inv'[i].recipient = inv[i].recipient
    BY <1>5, InvRenewFields DEF RetryCommit, TypeOK
  <2> QED
    BY <2>1, <2>2 DEF InvMoves, InvMove
<1>6. ASSUME NEW i \in Invitations,
           RetryRollback(i)
      PROVE  InvMoves
  BY <1>6, InvKept
  DEF RetryRollback, invVars
<1>7. ASSUME NEW i \in Invitations,
           RevokeInvitation(i)
      PROVE  InvMoves
  BY <1>7, SetStatusMove
  DEF RevokeInvitation, IsLive, InvMoves, InvMove
<1>8. ASSUME NEW i \in Invitations, NEW n \in 1..MaxAttempts,
           NEW outcome \in {"delivered", "failed"},
           RecordDelivery(i, n, outcome)
      PROVE  InvMoves
  BY <1>8, SetStatusMove
  DEF RecordDelivery, InvMoves, InvMove
<1>9. ASSUME NEW S \in SUBSET Invitations,
           ExpireInvitations(S)
      PROVE  InvMoves
  BY <1>9, InvStatusFields
  DEF ExpireInvitations, IsLive, TypeOK, InvMoves, InvMove
<1>10. ASSUME NEW i \in Invitations,
           PreviewInvitation(i)
      PROVE  InvMoves
  BY <1>10, SetStatusMove
  DEF PreviewInvitation, IsLive, InvMoves, InvMove
<1>11. ASSUME NEW i \in Invitations, NEW u \in Users,
           OptOut(i, u)
      PROVE  InvMoves
  BY <1>11, SetStatusMove
  DEF OptOut, IsLive, InvMoves, InvMove
<1>12. ASSUME NEW i \in Invitations, NEW u \in Users,
           ReportAbuse(i, u)
      PROVE  InvMoves
  BY <1>12, InvStatusFields
  DEF ReportAbuse, TypeOK, InvMoves, InvMove
<1>13. ASSUME NEW i \in Invitations, NEW u \in Users,
           VerifyRecipient(i, u)
      PROVE  InvMoves
  BY <1>13, SetStatusMove
  DEF VerifyRecipient, InvMoves, InvMove
<1>14. ASSUME NEW c \in Claims, NEW i \in Invitations, NEW u \in Users,
           NEW o \in Orgs,
           CreateRelationshipClaim(c, i, u, o)
      PROVE  InvMoves
  BY <1>14, InvKept
  DEF CreateRelationshipClaim, CreateClaim, invVars
<1>15. ASSUME NEW c \in Claims, NEW i \in Invitations, NEW u \in Users,
           NEW n \in Names,
           CreateOrganizationClaim(c, i, u, n)
      PROVE  InvMoves
  BY <1>15, InvKept
  DEF CreateOrganizationClaim, CreateClaim, invVars
<1>16. ASSUME NEW c \in Claims,
           BootstrapScan(c)
      PROVE  InvMoves
  BY <1>16, InvKept
  DEF BootstrapScan, invVars
<1>17. ASSUME NEW c \in Claims,
           BootstrapRollback(c)
      PROVE  InvMoves
  BY <1>17, InvKept
  DEF BootstrapRollback, invVars
<1>18. ASSUME NEW c \in Claims,
           AppealClaim(c)
      PROVE  InvMoves
  BY <1>18, InvKept
  DEF AppealClaim, invVars
<1>19. ASSUME NEW c \in Claims,
           IssueCapability(c)
      PROVE  InvMoves
  BY <1>19, InvKept
  DEF IssueCapability, invVars
<1>20. ASSUME NEW c \in Claims, NEW o \in Orgs,
           BootstrapCommit(c, o)
      PROVE  InvMoves
  BY <1>20, InvKept
  DEF BootstrapCommit, invVars
<1>21. ASSUME NEW i \in Invitations, NEW k \in 1..MaxCapabilities,
           OpenInbox(i, k)
      PROVE  InvMoves
  BY <1>21, InvKept
  DEF OpenInbox, invVars
<1>22. ASSUME NEW i \in Invitations, NEW k \in 1..MaxCapabilities,
           RespondStale(i, k)
      PROVE  InvMoves
  BY <1>22, InvKept
  DEF RespondStale, invVars
<1>23. ASSUME NEW i \in Invitations, NEW k \in 1..MaxCapabilities, NEW a \in Actions,
           Respond(i, k, a)
      PROVE  InvMoves
  BY <1>23, SetStatusMove
  DEF Respond, Effective, InvMoves, InvMove, invVars
<1>24. ASSUME NEW c \in Claims, NEW rv \in Reviewers, NEW a \in ReviewActions,
           NEW next \in ClaimStatus,
           DecideReview(c, rv, a, next)
      PROVE  InvMoves
  BY <1>24, InvKept
  DEF DecideReview, invVars
<1>25. ASSUME NEW i \in Invitations,
           Lapse(i)
      PROVE  InvMoves
  BY <1>25, InvLapseFields
  DEF Lapse, TypeOK, InvMoves, InvMove
<1>26. ASSUME NEW u \in Users, NEW o \in Orgs,
           UpdateMembershipStatus(u, o)
      PROVE  InvMoves
  BY <1>26, InvKept
  DEF UpdateMembershipStatus, invVars
<1>27. ASSUME NEW u \in Users, NEW o \in Orgs, NEW n \in Names,
           BootstrapOrganization(u, o, n)
      PROVE  InvMoves
  BY <1>27, InvKept
  DEF BootstrapOrganization, invVars
<1>28. CASE UNCHANGED vars
  BY <1>28 DEF vars, invVars, InvMoves, InvMove
<1>29. ASSUME NEW i \in Invitations,
           ActivateRelationship(i)
      PROVE  InvMoves
  <2>1. ASSUME NEW j \in Invitations
        PROVE  \/ inv'[j] = inv[j]
               \/ /\ inv[j].status \in Live
                  /\ \/ inv'[j] = [inv[j] EXCEPT !.status = "activated"]
                     \/ inv'[j] = [inv[j] EXCEPT !.status = "revoked"]
    BY <1>29 DEF ActivateRelationship, IsLive
  <2>2. ASSUME NEW j \in Invitations PROVE InvMove(j)
    <3>1. CASE inv'[j] = inv[j]
      BY <3>1 DEF InvMove
    <3>2. CASE /\ inv[j].status \in Live
               /\ \/ inv'[j] = [inv[j] EXCEPT !.status = "activated"]
                  \/ inv'[j] = [inv[j] EXCEPT !.status = "revoked"]
      <4>1. inv[j] \in InvRow
        BY DEF TypeOK
      <4>2. /\ inv'[j].status \in {"activated", "revoked"}
            /\ inv'[j].property = inv[j].property
            /\ inv'[j].recipient = inv[j].recipient
        BY <3>2, <4>1 DEF InvRow
      <4> QED
        BY <3>2, <4>2 DEF InvMove
    <3> QED
      BY <2>1, <3>1, <3>2
  <2> QED
    BY <2>2 DEF InvMoves
<1> QED
  BY <1>1, <1>2, <1>3, <1>4, <1>5, <1>6, <1>7, <1>8, <1>9, <1>10, <1>11,
     <1>12, <1>13, <1>14, <1>15, <1>16, <1>17, <1>18, <1>19, <1>20, <1>21,
     <1>22, <1>23, <1>24, <1>25, <1>26, <1>27, <1>28, <1>29
  DEF Next, OwnerStep, DeliveryStep, RecipientStep, ReviewStep, EnvironmentStep

-----------------------------------------------------------------------------
(* The steps that write a claim; every other step leaves the claims alone, *)
(* moves no recipient check that is set and takes no name lock.            *)
ClaimStep(c) ==
    \/ \E i \in Invitations, u \in Users, o \in Orgs :
           CreateRelationshipClaim(c, i, u, o)
    \/ \E i \in Invitations, u \in Users, n \in Names :
           CreateOrganizationClaim(c, i, u, n)
    \/ BootstrapScan(c)
    \/ \E o \in Orgs : BootstrapCommit(c, o)
    \/ AppealClaim(c)
    \/ \E rv \in Reviewers, a \in ReviewActions, next \in ClaimStatus :
           DecideReview(c, rv, a, next)

ClaimsKept == UNCHANGED claim /\ bootstrapping' \subseteq bootstrapping

LEMMA ClaimFrame ==
    [Next]_vars => (\E c \in Claims : ClaimStep(c)) \/ ClaimsKept
<1> SUFFICES ASSUME [Next]_vars PROVE (\E c \in Claims : ClaimStep(c)) \/ ClaimsKept
  OBVIOUS
<1>1. CASE OwnerStep
  BY <1>1 DEF OwnerStep, CreateBegin, CreateRollback, CreateCommit, RetryBegin,
     RetryCommit, RetryRollback, RevokeInvitation, ActivateRelationship,
     ClaimsKept, claimVars, txnVars
<1>2. CASE DeliveryStep
  BY <1>2 DEF DeliveryStep, RecordDelivery, ExpireInvitations, ClaimsKept,
     claimVars, txnVars
<1>3. CASE RecipientStep
  <2>1. ASSUME NEW i \in Invitations, PreviewInvitation(i)
        PROVE  ClaimsKept
    BY <2>1 DEF PreviewInvitation, ClaimsKept, claimVars, txnVars
  <2>2. ASSUME NEW i \in Invitations, NEW u \in Users, OptOut(i, u)
        PROVE  ClaimsKept
    BY <2>2 DEF OptOut, ClaimsKept, claimVars, txnVars
  <2>3. ASSUME NEW i \in Invitations, NEW u \in Users, ReportAbuse(i, u)
        PROVE  ClaimsKept
    BY <2>3 DEF ReportAbuse, ClaimsKept, claimVars, txnVars
  <2>4. ASSUME NEW i \in Invitations, NEW u \in Users, VerifyRecipient(i, u)
        PROVE  ClaimsKept
    BY <2>4 DEF VerifyRecipient, ClaimsKept, claimVars, txnVars
  <2>5. ASSUME NEW c \in Claims, NEW i \in Invitations, NEW u \in Users,
               NEW o \in Orgs, CreateRelationshipClaim(c, i, u, o)
        PROVE  ClaimStep(c)
    BY <2>5, Zenon DEF ClaimStep
  <2>6. ASSUME NEW c \in Claims, NEW i \in Invitations, NEW u \in Users,
               NEW n \in Names, CreateOrganizationClaim(c, i, u, n)
        PROVE  ClaimStep(c)
    BY <2>6, Zenon DEF ClaimStep
  <2>7. ASSUME NEW c \in Claims, BootstrapScan(c) PROVE ClaimStep(c)
    BY <2>7, Zenon DEF ClaimStep
  <2>8. ASSUME NEW c \in Claims, BootstrapRollback(c) PROVE ClaimsKept
    BY <2>8 DEF BootstrapRollback, ClaimsKept, claimVars, txnVars
  <2>9. ASSUME NEW c \in Claims, AppealClaim(c) PROVE ClaimStep(c)
    BY <2>9, Zenon DEF ClaimStep
  <2>10. ASSUME NEW c \in Claims, IssueCapability(c) PROVE ClaimsKept
    BY <2>10 DEF IssueCapability, ClaimsKept, claimVars, txnVars
  <2>11. ASSUME NEW c \in Claims, NEW o \in Orgs, BootstrapCommit(c, o)
         PROVE  ClaimStep(c)
    BY <2>11, Zenon DEF ClaimStep
  <2>12. ASSUME NEW i \in Invitations, NEW k \in 1..MaxCapabilities, OpenInbox(i, k)
         PROVE  ClaimsKept
    BY <2>12 DEF OpenInbox, ClaimsKept, claimVars, txnVars
  <2>13. ASSUME NEW i \in Invitations, NEW k \in 1..MaxCapabilities, RespondStale(i, k)
         PROVE  ClaimsKept
    BY <2>13 DEF RespondStale, ClaimsKept, claimVars, txnVars
  <2>14. ASSUME NEW i \in Invitations, NEW k \in 1..MaxCapabilities,
                NEW a \in Actions, Respond(i, k, a)
         PROVE  ClaimsKept
    BY <2>14 DEF Respond, ClaimsKept, claimVars, txnVars
  <2> QED
    BY <1>3, <2>1, <2>2, <2>3, <2>4, <2>5, <2>6, <2>7, <2>8, <2>9, <2>10,
       <2>11, <2>12, <2>13, <2>14, Zenon DEF RecipientStep
<1>4. CASE ReviewStep
  BY <1>4 DEF ReviewStep, ClaimStep
<1>5. CASE EnvironmentStep
  BY <1>5 DEF EnvironmentStep, Lapse, UpdateMembershipStatus,
     BootstrapOrganization, ClaimsKept, claimVars, txnVars
<1>6. CASE UNCHANGED vars
  BY <1>6 DEF vars, ClaimsKept, claimVars, txnVars
<1> QED
  BY <1>1, <1>2, <1>3, <1>4, <1>5, <1>6 DEF Next

LEMMA CheckFrame ==
    ASSUME TypeOK, [Next]_vars, NEW j \in Invitations, check[j] # NoOne
    PROVE  check'[j] = check[j]
<1>1. CASE OwnerStep
  BY <1>1 DEF OwnerStep, CreateBegin, CreateRollback, CreateCommit, RetryBegin,
     RetryCommit, RetryRollback, RevokeInvitation, ActivateRelationship,
     claimVars
<1>2. CASE DeliveryStep
  BY <1>2 DEF DeliveryStep, RecordDelivery, ExpireInvitations, claimVars
<1>3. CASE RecipientStep
  <2>1. ASSUME NEW i \in Invitations, NEW u \in Users, VerifyRecipient(i, u)
        PROVE  check'[j] = check[j]
    <3>1. UNCHANGED check \/ (check[i] = NoOne /\ check' = [check EXCEPT ![i] = u])
      BY <2>1 DEF VerifyRecipient
    <3> QED
      BY <3>1 DEF TypeOK
  <2>2. ASSUME NEW c \in Claims,
               \/ BootstrapScan(c) \/ BootstrapRollback(c)
               \/ AppealClaim(c) \/ IssueCapability(c)
               \/ \E o \in Orgs : BootstrapCommit(c, o)
        PROVE  UNCHANGED check
    BY <2>2 DEF BootstrapScan, BootstrapRollback, AppealClaim, IssueCapability,
       BootstrapCommit, claimVars
  <2>3. ASSUME NEW i \in Invitations,
               \/ PreviewInvitation(i)
               \/ \E u \in Users : OptOut(i, u) \/ ReportAbuse(i, u)
               \/ \E k \in 1..MaxCapabilities :
                     \/ OpenInbox(i, k) \/ RespondStale(i, k)
                     \/ \E a \in Actions : Respond(i, k, a)
        PROVE  UNCHANGED check
    BY <2>3 DEF PreviewInvitation, OptOut, ReportAbuse, OpenInbox, RespondStale,
       Respond, claimVars
  <2>4. ASSUME NEW i \in Invitations, NEW u \in Users, NEW c \in Claims,
               \/ \E o \in Orgs : CreateRelationshipClaim(c, i, u, o)
               \/ \E n \in Names : CreateOrganizationClaim(c, i, u, n)
        PROVE  UNCHANGED check
    BY <2>4 DEF CreateRelationshipClaim, CreateOrganizationClaim, CreateClaim
  <2> QED
    BY <1>3, <2>1, <2>2, <2>3, <2>4 DEF RecipientStep
<1>4. CASE ReviewStep
  BY <1>4 DEF ReviewStep, DecideReview
<1>5. CASE EnvironmentStep
  BY <1>5 DEF EnvironmentStep, Lapse, UpdateMembershipStatus,
     BootstrapOrganization, claimVars
<1>6. CASE UNCHANGED vars
  BY <1>6 DEF vars, claimVars
<1> QED
  BY <1>1, <1>2, <1>3, <1>4, <1>5, <1>6 DEF Next

(* What a claim step writes: one row, which keeps its identity or is new   *)
(* and bound to the checked account.                                       *)
ClaimWritten(c) ==
    /\ \A d \in Claims \ {c} : claim'[d] = claim[d]
    /\ claim[c].status # "none" =>
         /\ claim'[c].status # "none"
         /\ claim'[c].inv = claim[c].inv
         /\ claim'[c].actor = claim[c].actor
         /\ claim'[c].kind = claim[c].kind
         /\ claim'[c].name = claim[c].name
    /\ claim[c].status = "none" =>
         /\ claim'[c].inv \in Invitations
         /\ claim'[c].actor \in Users
         /\ check[claim'[c].inv] = claim'[c].actor
         /\ claim'[c].rejectedBy = NoOne
         /\ claim'[c].appealed = FALSE
         /\ ~OtherActiveClaim(c, claim'[c].inv)

LEMMA ClaimStepRow ==
    ASSUME TypeOK, LocksHeld, NEW c \in Claims, ClaimStep(c)
    PROVE  ClaimWritten(c)
<1>0. claim \in [Claims -> ClaimRow]
  BY DEF TypeOK
<1>a. ASSUME NEW i \in Invitations, NEW u \in Users, NEW o \in Orgs,
             CreateRelationshipClaim(c, i, u, o)
      PROVE  ClaimWritten(c)
  <2> DEFINE row == NewClaim(i, u, "existing_relationship",
                             "relationship_checked", orgName[o], o)
  <2>1. claim' = [claim EXCEPT ![c] = row] /\ claim[c].status = "none"
        /\ CheckedOpen(i, u) /\ ~OtherActiveClaim(c, i)
    BY <1>a DEF CreateRelationshipClaim, CreateClaim
  <2>2. claim'[c] = row /\ \A d \in Claims \ {c} : claim'[d] = claim[d]
    BY <1>0, <2>1
  <2>3. check[i] = u
    BY <2>1 DEF CheckedOpen, Checked
  <2>4. row.inv = i /\ row.actor = u /\ row.rejectedBy = NoOne
        /\ row.appealed = FALSE
    BY DEF NewClaim, NoClaim
  <2> HIDE DEF row
  <2> QED
    BY <2>1, <2>2, <2>3, <2>4, Zenon DEF ClaimWritten
<1>b. ASSUME NEW i \in Invitations, NEW u \in Users, NEW n \in Names,
             CreateOrganizationClaim(c, i, u, n)
      PROVE  ClaimWritten(c)
  <2> DEFINE s == IF CompanyNamed(n) THEN "duplicate_review" ELSE "bootstrap_ready"
             row == NewClaim(i, u, "new_organization", s, n, NoOne)
  <2>1. claim' = [claim EXCEPT ![c] = row] /\ claim[c].status = "none"
        /\ CheckedOpen(i, u) /\ ~OtherActiveClaim(c, i)
    BY <1>b DEF CreateOrganizationClaim, CreateClaim
  <2>2. claim'[c] = row /\ \A d \in Claims \ {c} : claim'[d] = claim[d]
    BY <1>0, <2>1
  <2>3. check[i] = u
    BY <2>1 DEF CheckedOpen, Checked
  <2>4. row.inv = i /\ row.actor = u /\ row.rejectedBy = NoOne
        /\ row.appealed = FALSE
    BY DEF NewClaim, NoClaim
  <2> HIDE DEF row
  <2> QED
    BY <2>1, <2>2, <2>3, <2>4, Zenon DEF ClaimWritten
<1>c. CASE BootstrapScan(c)
  <2>1. \/ UNCHANGED claim
        \/ claim' = [claim EXCEPT ![c].status = "duplicate_review"]
    BY <1>c DEF BootstrapScan
  <2>2. claim[c].status = "bootstrap_ready"
    BY <1>c DEF BootstrapScan
  <2>3. CASE claim' = [claim EXCEPT ![c].status = "duplicate_review"]
    BY <1>0, <2>2, <2>3, ClaimStatusFields DEF ClaimWritten
  <2>4. CASE UNCHANGED claim
    BY <2>2, <2>4 DEF ClaimWritten
  <2> QED
    BY <2>1, <2>3, <2>4
<1>d. ASSUME NEW o \in Orgs, BootstrapCommit(c, o)
      PROVE  ClaimWritten(c)
  <2>1. claim' = [claim EXCEPT ![c].status = "claimed", ![c].org = o]
        /\ claim[c].status = "bootstrap_ready"
    BY <1>d DEF BootstrapCommit, LocksHeld
  <2> QED
    BY <1>0, <2>1, ClaimOrgFields DEF ClaimWritten
<1>e. CASE AppealClaim(c)
  <2>1. claim' = [claim EXCEPT ![c].status = "under_review", ![c].appealed = TRUE]
        /\ claim[c].status = "rejected"
    BY <1>e DEF AppealClaim
  <2> QED
    BY <1>0, <2>1, ClaimAppealFields DEF ClaimWritten
<1>f. ASSUME NEW rv \in Reviewers, NEW a \in ReviewActions,
             NEW next \in ClaimStatus, DecideReview(c, rv, a, next)
      PROVE  ClaimWritten(c)
  <2>1. claim' = [claim EXCEPT ![c] = Reviewed(@, rv, a, next)]
    BY <1>f DEF DecideReview
  <2>2. claim[c].status # "none" /\ next # "none"
    BY <1>f DEF DecideReview, ReviewTransition
  <2>3. /\ claim'[c] = Reviewed(claim[c], rv, a, next)
        /\ \A d \in Claims \ {c} : claim'[d] = claim[d]
    BY <1>0, <2>1
  <2>4. /\ claim'[c].status = next
        /\ claim'[c].inv = claim[c].inv /\ claim'[c].actor = claim[c].actor
        /\ claim'[c].kind = claim[c].kind /\ claim'[c].name = claim[c].name
    BY <1>0, <2>3 DEF Reviewed, ClaimRow
  <2> QED
    BY <2>2, <2>3, <2>4 DEF ClaimWritten
<1> QED
  BY <1>a, <1>b, <1>c, <1>d, <1>e, <1>f DEF ClaimStep

-----------------------------------------------------------------------------
(* Types, bindings and locks together.                                     *)
LEMMA RetryFrame ==
    [Next]_vars => \/ retrying' \subseteq retrying
                   \/ \E i \in Invitations : RetryBegin(i)
<1> SUFFICES ASSUME [Next]_vars
             PROVE  \/ retrying' \subseteq retrying
                    \/ \E i \in Invitations : RetryBegin(i)
  OBVIOUS
<1>1. CASE OwnerStep
  BY <1>1 DEF OwnerStep, CreateBegin, CreateRollback, CreateCommit,
     RetryCommit, RetryRollback, RevokeInvitation, ActivateRelationship,
     txnVars
<1>2. CASE DeliveryStep
  BY <1>2 DEF DeliveryStep, RecordDelivery, ExpireInvitations, txnVars
<1>3. CASE RecipientStep
  <2>1. ASSUME NEW c \in Claims,
               \/ BootstrapScan(c) \/ BootstrapRollback(c)
               \/ AppealClaim(c) \/ IssueCapability(c)
               \/ \E o \in Orgs : BootstrapCommit(c, o)
        PROVE  UNCHANGED retrying
    BY <2>1 DEF BootstrapScan, BootstrapRollback, AppealClaim, IssueCapability,
       BootstrapCommit, txnVars
  <2>2. ASSUME NEW i \in Invitations,
               \/ PreviewInvitation(i)
               \/ \E u \in Users : \/ OptOut(i, u) \/ ReportAbuse(i, u)
                                  \/ VerifyRecipient(i, u)
               \/ \E k \in 1..MaxCapabilities :
                     \/ OpenInbox(i, k) \/ RespondStale(i, k)
                     \/ \E a \in Actions : Respond(i, k, a)
        PROVE  UNCHANGED retrying
    BY <2>2 DEF PreviewInvitation, OptOut, ReportAbuse, VerifyRecipient,
       OpenInbox, RespondStale, Respond, txnVars
  <2>3. ASSUME NEW i \in Invitations, NEW u \in Users, NEW c \in Claims,
               \/ \E o \in Orgs : CreateRelationshipClaim(c, i, u, o)
               \/ \E n \in Names : CreateOrganizationClaim(c, i, u, n)
        PROVE  UNCHANGED retrying
    BY <2>3 DEF CreateRelationshipClaim, CreateOrganizationClaim, CreateClaim,
       txnVars
  <2> QED
    BY <1>3, <2>1, <2>2, <2>3 DEF RecipientStep
<1>4. CASE ReviewStep
  BY <1>4 DEF ReviewStep, DecideReview, txnVars
<1>5. CASE EnvironmentStep
  BY <1>5 DEF EnvironmentStep, Lapse, UpdateMembershipStatus,
     BootstrapOrganization, txnVars
<1>6. CASE UNCHANGED vars
  BY <1>6 DEF vars, txnVars
<1> QED
  BY <1>1, <1>2, <1>3, <1>4, <1>5, <1>6 DEF Next

(* A claim step takes or keeps a name lock only on a claim that is ready.  *)
LEMMA BootstrapLock ==
    ASSUME TypeOK, LocksHeld, NEW c \in Claims, ClaimStep(c)
    PROVE  \/ c \notin bootstrapping' /\ bootstrapping' \subseteq bootstrapping
           \/ /\ UNCHANGED claim /\ claim[c].status = "bootstrap_ready"
              /\ bootstrapping' = bootstrapping \cup {c}
<1>a. ASSUME NEW i \in Invitations, NEW u \in Users, NEW o \in Orgs,
             CreateRelationshipClaim(c, i, u, o)
      PROVE  bootstrapping' = bootstrapping /\ claim[c].status = "none"
  BY <1>a DEF CreateRelationshipClaim, CreateClaim, txnVars
<1>b. ASSUME NEW i \in Invitations, NEW u \in Users, NEW n \in Names,
             CreateOrganizationClaim(c, i, u, n)
      PROVE  bootstrapping' = bootstrapping /\ claim[c].status = "none"
  BY <1>b DEF CreateOrganizationClaim, CreateClaim, txnVars
<1>c. CASE BootstrapScan(c)
  <2>1. c \notin bootstrapping
    BY <1>c DEF BootstrapScan, Free
  <2>2. \/ bootstrapping' = bootstrapping
        \/ UNCHANGED claim /\ bootstrapping' = bootstrapping \cup {c}
    BY <1>c DEF BootstrapScan
  <2>3. claim[c].status = "bootstrap_ready"
    BY <1>c DEF BootstrapScan
  <2> QED
    BY <2>1, <2>2, <2>3
<1>d. ASSUME NEW o \in Orgs, BootstrapCommit(c, o)
      PROVE  bootstrapping' = bootstrapping \ {c}
  BY <1>d DEF BootstrapCommit
<1>e. CASE AppealClaim(c)
  <2>1. bootstrapping' = bootstrapping /\ claim[c].status = "rejected"
    BY <1>e DEF AppealClaim, txnVars
  <2> QED
    BY <2>1 DEF LocksHeld
<1>f. ASSUME NEW rv \in Reviewers, NEW a \in ReviewActions,
             NEW next \in ClaimStatus, DecideReview(c, rv, a, next)
      PROVE  bootstrapping' = bootstrapping /\ c \notin bootstrapping
  BY <1>f DEF DecideReview, ClaimFree, txnVars
<1> QED
  BY <1>a, <1>b, <1>c, <1>d, <1>e, <1>f DEF ClaimStep, LocksHeld

LEMMA LocksStep == TypeOK /\ LocksHeld /\ [Next]_vars => LocksHeld'
<1> SUFFICES ASSUME TypeOK, LocksHeld, [Next]_vars PROVE LocksHeld'
  OBVIOUS
<1>1. ASSUME NEW i \in retrying' PROVE inv'[i].status = "failed"
  <2>1. CASE retrying' \subseteq retrying
    <3>1. i \in Invitations /\ inv[i].status = "failed" /\ InvMove(i)
      BY <1>1, <2>1, InvMoveStep DEF LocksHeld, TypeOK, InvMoves
    <3> QED
      BY <1>1, <3>1 DEF InvMove, Live
  <2>2. CASE \E j \in Invitations : RetryBegin(j)
    BY <1>1, <2>2 DEF RetryBegin, LocksHeld, invVars
  <2> QED
    BY <2>1, <2>2, RetryFrame
<1>2. ASSUME NEW d \in bootstrapping' PROVE claim'[d].status = "bootstrap_ready"
  <2>1. CASE ClaimsKept
    BY <1>2, <2>1 DEF ClaimsKept, LocksHeld
  <2>2. ASSUME NEW c \in Claims, ClaimStep(c)
        PROVE  claim'[d].status = "bootstrap_ready"
    <3>1. \A e \in Claims \ {c} : claim'[e] = claim[e]
      BY <2>2, ClaimStepRow DEF ClaimWritten
    <3>2. bootstrapping \subseteq Claims
      BY DEF TypeOK
    <3> QED
      BY <1>2, <2>2, <3>1, <3>2, BootstrapLock DEF LocksHeld
  <2> QED
    BY <2>1, <2>2, ClaimFrame
<1> QED
  BY <1>1, <1>2 DEF LocksHeld

LEMMA BoundStep ==
    TypeOK /\ BoundClaims /\ LocksHeld /\ [Next]_vars => BoundClaims'
<1> SUFFICES ASSUME TypeOK, BoundClaims, LocksHeld, [Next]_vars,
                    NEW c \in Claims, claim'[c].status # "none"
             PROVE  /\ claim'[c].inv \in Invitations
                    /\ claim'[c].actor \in Users
                    /\ check'[claim'[c].inv] = claim'[c].actor
  BY DEF BoundClaims
<1>1. ASSUME NEW j \in Invitations, check[j] \in Users
      PROVE  check'[j] = check[j]
  BY <1>1, CheckFrame, NoOneAssumption
<1>2. CASE claim'[c] = claim[c]
  BY <1>1, <1>2 DEF BoundClaims
<1>3. CASE ClaimStep(c)
  BY ZenonT(60), <1>1, <1>3, ClaimStepRow DEF BoundClaims, ClaimWritten
<1>4. ASSUME NEW d \in Claims \ {c}, ClaimStep(d) PROVE claim'[c] = claim[c]
  BY <1>4, ClaimStepRow DEF ClaimWritten
<1> QED
  BY <1>2, <1>3, <1>4, ClaimFrame DEF ClaimsKept

(* Rows keep the shapes the tables give them; what a handler found before  *)
(* it waited for a lock is still so when it commits.                       *)
THEOREM TypeCorrect == Spec => [](TypeOK /\ BoundClaims /\ LocksHeld)
<1>1. Init => BoundClaims /\ LocksHeld
  BY DEF Init, BoundClaims, LocksHeld, NoClaim
<1> QED
  BY <1>1, TypeInit, TypeStep, BoundStep, LocksStep, PTL DEF Spec

(* A closed invitation is never moved again, whatever arrives late.        *)
THEOREM ClosedForGood == Spec => TerminalStaysClosed
<1>1. TypeOK /\ LocksHeld /\ [Next]_vars
      => [\A i \in Invitations :
            inv[i].status \in Terminal => inv'[i].status = inv[i].status]_vars
  BY InvMoveStep DEF InvMoves, InvMove, Live, Terminal
<1> QED
  BY <1>1, TypeCorrect, PTL DEF Spec, TerminalStaysClosed

LEMMA OneLiveStep ==
    TypeOK /\ LocksHeld /\ OneLiveInvitationPerRecipient /\ [Next]_vars
    => OneLiveInvitationPerRecipient'
<1> SUFFICES ASSUME TypeOK, LocksHeld, OneLiveInvitationPerRecipient, [Next]_vars,
                    NEW i \in Invitations, NEW j \in Invitations,
                    inv'[i].status \in Live, inv'[j].status \in Live,
                    inv'[i].property = inv'[j].property,
                    inv'[i].recipient = inv'[j].recipient
             PROVE  i = j
  BY DEF OneLiveInvitationPerRecipient, IsLive
<1>1. InvMove(i) /\ InvMove(j)
  BY InvMoveStep DEF InvMoves
<1>2. CASE inv[i].status \in Live /\ inv[j].status \in Live
  BY <1>1, <1>2 DEF InvMove, OneLiveInvitationPerRecipient, IsLive, Live
<1>3. CASE inv[i].status \notin Live
  BY <1>1, <1>3 DEF InvMove, NewlyLive, Live, Terminal
<1>4. CASE inv[j].status \notin Live
  BY <1>1, <1>4 DEF InvMove, NewlyLive, Live, Terminal
<1> QED
  BY <1>2, <1>3, <1>4

(* Create and retry race for one property and mailbox in any order, and    *)
(* still at most one invitation of the pair is live.                       *)
THEOREM OneLive == Spec => []OneLiveInvitationPerRecipient
<1>1. Init => OneLiveInvitationPerRecipient
  BY DEF Init, NoInvitation, OneLiveInvitationPerRecipient, IsLive, Live
<1> QED
  BY <1>1, TypeCorrect, OneLiveStep, PTL DEF Spec

-----------------------------------------------------------------------------
(* One active claim per invitation.                                        *)
LEMMA OneActiveClaimStep ==
    TypeOK /\ BoundClaims /\ LocksHeld /\ OneActiveClaim /\ [Next]_vars
    => OneActiveClaim'
<1> SUFFICES ASSUME TypeOK, BoundClaims, LocksHeld, OneActiveClaim, [Next]_vars
             PROVE  OneActiveClaim'
  OBVIOUS
<1>1. ASSUME NEW c \in Claims, ClaimStep(c)
      PROVE  \/ claim'[c].status \notin ActiveClaim
             \/ /\ claim[c].status \in ActiveClaim
                /\ claim'[c].inv = claim[c].inv
             \/ ~OtherActiveClaim(c, claim'[c].inv)
  <2>1. CASE claim[c].status = "none"
    BY <1>1, <2>1, ClaimStepRow DEF ClaimWritten
  <2>2. CASE claim[c].status = "rejected"
    <3>1. AppealClaim(c)
      BY <1>1, <2>2 DEF ClaimStep, CreateRelationshipClaim, BootstrapScan,
         CreateOrganizationClaim, CreateClaim, BootstrapCommit, LocksHeld,
         DecideReview, ReviewTransition
    <3>2. ~OtherActiveClaim(c, claim[c].inv)
      BY <3>1 DEF AppealClaim
    <3> QED
      BY <1>1, <2>2, <3>2, ClaimStepRow DEF ClaimWritten
  <2>3. CASE claim[c].status \in ActiveClaim
    BY <1>1, <2>3, ClaimStepRow DEF ClaimWritten, ActiveClaim, Linked
  <2> QED
    BY <2>1, <2>2, <2>3, ClaimRowFields DEF TypeOK, ClaimStatus
<1>2. ASSUME NEW c \in Claims, ClaimStep(c) PROVE OneActiveClaim'
  <2>1. \A d \in Claims \ {c} : claim'[d] = claim[d]
    BY <1>2, ClaimStepRow DEF ClaimWritten
  <2>2. ASSUME NEW d \in Claims \ {c}, claim[d].status \in ActiveClaim,
               claim'[c].status \in ActiveClaim, claim[d].inv = claim'[c].inv
        PROVE  FALSE
    BY <1>1, <1>2, <2>2 DEF OneActiveClaim, OtherActiveClaim
  <2> QED
    BY <2>1, <2>2 DEF OneActiveClaim
<1>3. CASE ClaimsKept
  BY <1>3 DEF ClaimsKept, OneActiveClaim
<1> QED
  BY <1>2, <1>3, ClaimFrame

(* Filing, review and appeal in any order leave an invitation with at most *)
(* one active claim.                                                       *)
THEOREM OneActive == Spec => []OneActiveClaim
<1>1. Init => OneActiveClaim
  BY DEF Init, NoClaim, OneActiveClaim, ActiveClaim, Linked
<1> QED
  BY <1>1, TypeCorrect, OneActiveClaimStep, PTL DEF Spec

-----------------------------------------------------------------------------
(* A rejection stands until another reviewer approves the appeal.          *)
RejectionStands ==
    \A c \in Claims : claim[c].rejectedBy # NoOne =>
        \/ claim[c].status = "rejected"
        \/ claim[c].status = "under_review" /\ claim[c].appealed
        \/ claim[c].decidedBy \notin {NoOne, claim[c].rejectedBy}

LEMMA RejectionStep ==
    TypeOK /\ LocksHeld /\ RejectionStands /\ [Next]_vars => RejectionStands'
<1> SUFFICES ASSUME TypeOK, LocksHeld, RejectionStands, [Next]_vars,
                    NEW c \in Claims, claim'[c].rejectedBy # NoOne
             PROVE  \/ claim'[c].status = "rejected"
                    \/ claim'[c].status = "under_review" /\ claim'[c].appealed
                    \/ claim'[c].decidedBy \notin {NoOne, claim'[c].rejectedBy}
  BY DEF RejectionStands
<1>0. claim \in [Claims -> ClaimRow]
  BY DEF TypeOK
<1>1. CASE claim'[c] = claim[c]
  BY <1>1 DEF RejectionStands
<1>2. CASE BootstrapScan(c)
  <2>1. claim' = [claim EXCEPT ![c].status = "duplicate_review"] \/ UNCHANGED claim
    BY <1>2 DEF BootstrapScan
  <2>2. claim[c].status = "bootstrap_ready"
    BY <1>2 DEF BootstrapScan
  <2>3. /\ claim'[c].rejectedBy = claim[c].rejectedBy
        /\ claim'[c].decidedBy = claim[c].decidedBy
    <3>1. CASE claim' = [claim EXCEPT ![c].status = "duplicate_review"]
      BY <1>0, <3>1 DEF ClaimRow
    <3> QED
      BY <2>1, <3>1
  <2> QED
    BY <2>2, <2>3 DEF RejectionStands
<1>3. ASSUME NEW o \in Orgs, BootstrapCommit(c, o)
      PROVE  claim'[c].decidedBy \notin {NoOne, claim'[c].rejectedBy}
  <2>1. /\ claim' = [claim EXCEPT ![c].status = "claimed", ![c].org = o]
        /\ claim[c].status = "bootstrap_ready"
    BY <1>3 DEF BootstrapCommit, LocksHeld
  <2>2. /\ claim'[c].rejectedBy = claim[c].rejectedBy
        /\ claim'[c].decidedBy = claim[c].decidedBy
    BY <1>0, <2>1, ClaimOrgFields
  <2> QED
    BY <2>1, <2>2 DEF RejectionStands
<1>4. CASE AppealClaim(c)
  <2>1. claim' = [claim EXCEPT ![c].status = "under_review", ![c].appealed = TRUE]
    BY <1>4 DEF AppealClaim
  <2> QED
    BY <1>0, <2>1, ClaimAppealFields
<1>5. ASSUME NEW rv \in Reviewers, NEW a \in ReviewActions,
             NEW next \in ClaimStatus, DecideReview(c, rv, a, next)
      PROVE  \/ claim'[c].status = "rejected"
             \/ claim'[c].decidedBy \notin {NoOne, claim'[c].rejectedBy}
  <2>1. /\ <<a, claim[c].status, next>> \in ReviewTransition
        /\ ~(a \in AppealActions /\ claim[c].rejectedBy = rv)
        /\ (a \in AppealActions) = claim[c].appealed
    BY <1>5 DEF DecideReview
  <2>2. claim'[c] = Reviewed(claim[c], rv, a, next)
    BY <1>0, <1>5 DEF DecideReview
  <2>3. /\ claim'[c].status = next
        /\ claim'[c].rejectedBy = IF next = "rejected" THEN rv
                                  ELSE claim[c].rejectedBy
        /\ claim'[c].decidedBy = IF a \in AppealActions THEN rv
                                 ELSE claim[c].decidedBy
    BY <1>0, <2>2 DEF Reviewed, ClaimRow
  <2>4. CASE a \in AppealActions
    BY <2>1, <2>3, <2>4, NoOneAssumption
  <2>5. CASE a \notin AppealActions
    <3>1. claim[c].appealed # TRUE
      BY <2>1, <2>5
    <3>2. claim[c].status # "rejected"
      BY <2>1 DEF ReviewTransition
    <3> QED
      BY <2>3, <2>5, <3>1, <3>2 DEF RejectionStands
  <2> QED
    BY <2>4, <2>5
<1>6. ASSUME NEW d \in Claims \ {c}, ClaimStep(d) PROVE claim'[c] = claim[c]
  BY <1>6, ClaimStepRow DEF ClaimWritten
<1>7. CASE claim[c].status = "none" /\ ClaimStep(c)
  BY <1>7, ClaimStepRow DEF ClaimWritten
<1>8. ASSUME NEW i \in Invitations, NEW u \in Users,
             \/ \E o \in Orgs : CreateRelationshipClaim(c, i, u, o)
             \/ \E n \in Names : CreateOrganizationClaim(c, i, u, n)
      PROVE  claim[c].status = "none"
  BY <1>8 DEF CreateRelationshipClaim, CreateOrganizationClaim, CreateClaim
<1> QED
  BY <1>1, <1>2, <1>3, <1>4, <1>5, <1>6, <1>7, <1>8, ClaimFrame
  DEF ClaimStep, ClaimsKept

(* No ordinary disposition, and no reviewer alone, settles a claim that    *)
(* was rejected, whatever order reviews, appeals and disputes come in.     *)
THEOREM SecondReviewer == Spec => []RejectionNeedsIndependentApproval
<1>1. Init => RejectionStands
  BY DEF Init, NoClaim, RejectionStands
<1>2. RejectionStands => RejectionNeedsIndependentApproval
  BY DEF RejectionStands, RejectionNeedsIndependentApproval
<1> QED
  BY <1>1, <1>2, TypeCorrect, RejectionStep, PTL DEF Spec

-----------------------------------------------------------------------------
(* A claim that founded an organization, and what is known of its name.    *)
Bootstrapped(c) ==
    /\ claim[c].kind = "new_organization"
    /\ claim[c].status \in {"claimed", "disputed"}

NamesTaken ==
    /\ \A c \in Claims :
         /\ claim[c].status # "none" /\ claim[c].kind = "new_organization"
            => claim[c].name \in Names
         /\ claim[c].status = "relationship_checked"
            => claim[c].kind = "existing_relationship"
         /\ Bootstrapped(c) => CompanyNamed(claim[c].name)
    /\ \A c \in bootstrapping :
         /\ \A d \in bootstrapping : claim[c].name = claim[d].name => c = d
         /\ \A d \in Claims : Bootstrapped(d) => claim[c].name # claim[d].name

(* How a claim step moves a claim with respect to names.                   *)
NameMove(c) ==
    \/ /\ claim[c].status = "none"
       /\ \/ /\ claim'[c].kind = "existing_relationship"
             /\ claim'[c].status = "relationship_checked"
          \/ /\ claim'[c].kind = "new_organization"
             /\ claim'[c].status \in {"duplicate_review", "bootstrap_ready"}
             /\ claim'[c].name \in Names
       /\ UNCHANGED <<orgName, bootstrapping>>
    \/ /\ claim[c].status # "none"
       /\ ~CompanyNamed(claim[c].name)
       /\ \A d \in bootstrapping : claim[d].name # claim[c].name
       /\ bootstrapping' = bootstrapping \cup {c}
       /\ UNCHANGED <<claim, orgName>>
    \/ /\ claim[c].status # "none"
       /\ claim'[c].status # "relationship_checked"
       /\ c \in bootstrapping /\ bootstrapping' = bootstrapping \ {c}
       /\ \E o \in Orgs : /\ orgName[o] = NoOne
                          /\ orgName' = [orgName EXCEPT ![o] = claim[c].name]
    \/ /\ claim[c].status # "none"
       /\ claim'[c].status # "relationship_checked"
       /\ claim'[c].status \in {"claimed", "disputed"}
          => claim[c].status \in {"claimed", "disputed", "relationship_checked"}
       /\ UNCHANGED <<orgName, bootstrapping>>

LEMMA NameMoveStep ==
    ASSUME TypeOK, LocksHeld, NEW c \in Claims, ClaimStep(c)
    PROVE  NameMove(c)
<1>0. claim \in [Claims -> ClaimRow]
  BY DEF TypeOK
<1>1. ASSUME NEW i \in Invitations, NEW u \in Users, NEW o \in Orgs,
             CreateRelationshipClaim(c, i, u, o)
      PROVE  NameMove(c)
  <2>1. /\ claim[c].status = "none" /\ UNCHANGED <<orgName, bootstrapping>>
        /\ claim'[c] = NewClaim(i, u, "existing_relationship",
                                "relationship_checked", orgName[o], o)
    BY <1>0, <1>1 DEF CreateRelationshipClaim, CreateClaim, txnVars
  <2>2. /\ claim'[c].kind = "existing_relationship"
        /\ claim'[c].status = "relationship_checked"
    BY <2>1 DEF NewClaim, NoClaim
  <2> QED
    BY <2>1, <2>2 DEF NameMove
<1>2. ASSUME NEW i \in Invitations, NEW u \in Users, NEW n \in Names,
             CreateOrganizationClaim(c, i, u, n)
      PROVE  NameMove(c)
  <2> DEFINE s == IF CompanyNamed(n) THEN "duplicate_review" ELSE "bootstrap_ready"
  <2>1. /\ claim[c].status = "none" /\ UNCHANGED <<orgName, bootstrapping>>
        /\ claim'[c] = NewClaim(i, u, "new_organization", s, n, NoOne)
    BY <1>0, <1>2 DEF CreateOrganizationClaim, CreateClaim, txnVars
  <2>2. s \in {"duplicate_review", "bootstrap_ready"}
    OBVIOUS
  <2>3. /\ claim'[c].kind = "new_organization"
        /\ claim'[c].status = s /\ claim'[c].name = n
    BY <2>1 DEF NewClaim, NoClaim
  <2> HIDE DEF s
  <2> QED
    BY <2>1, <2>2, <2>3 DEF NameMove
<1>3. CASE BootstrapScan(c)
  <2>1. /\ claim[c].status = "bootstrap_ready" /\ UNCHANGED orgName
        /\ \A d \in bootstrapping : claim[d].name # claim[c].name
        /\ \/ /\ claim' = [claim EXCEPT ![c].status = "duplicate_review"]
              /\ UNCHANGED bootstrapping
           \/ /\ ~CompanyNamed(claim[c].name)
              /\ bootstrapping' = bootstrapping \cup {c}
              /\ UNCHANGED claim
    BY <1>3 DEF BootstrapScan
  <2>2. [claim EXCEPT ![c].status = "duplicate_review"][c].status
        = "duplicate_review"
    BY <1>0, ClaimStatusFields
  <2> QED
    BY <2>1, <2>2 DEF NameMove
<1>4. ASSUME NEW o \in Orgs, BootstrapCommit(c, o)
      PROVE  NameMove(c)
  <2>1. /\ claim[c].status = "bootstrap_ready"
        /\ claim' = [claim EXCEPT ![c].status = "claimed", ![c].org = o]
        /\ c \in bootstrapping /\ bootstrapping' = bootstrapping \ {c}
        /\ orgName[o] = NoOne
        /\ orgName' = [orgName EXCEPT ![o] = claim[c].name]
    BY <1>4 DEF BootstrapCommit, LocksHeld
  <2>2. claim'[c].status = "claimed"
    BY <1>0, <2>1, ClaimOrgFields
  <2> QED
    BY <2>1, <2>2 DEF NameMove
<1>5. CASE AppealClaim(c)
  <2>1. /\ claim[c].status = "rejected" /\ UNCHANGED <<orgName, bootstrapping>>
        /\ claim' = [claim EXCEPT ![c].status = "under_review", ![c].appealed = TRUE]
    BY <1>5 DEF AppealClaim, txnVars
  <2>2. claim'[c].status = "under_review"
    BY <1>0, <2>1, ClaimAppealFields
  <2> QED
    BY <2>1, <2>2 DEF NameMove
<1>6. ASSUME NEW rv \in Reviewers, NEW a \in ReviewActions,
             NEW next \in ClaimStatus, DecideReview(c, rv, a, next)
      PROVE  NameMove(c)
  <2>1. /\ <<a, claim[c].status, next>> \in ReviewTransition
        /\ UNCHANGED <<orgName, bootstrapping>>
        /\ claim'[c] = Reviewed(claim[c], rv, a, next)
    BY <1>0, <1>6 DEF DecideReview, txnVars
  <2>2. claim'[c].status = next
    BY <1>0, <2>1 DEF Reviewed, ClaimRow
  <2> QED
    BY <2>1, <2>2 DEF NameMove, ReviewTransition
<1> QED
  BY <1>1, <1>2, <1>3, <1>4, <1>5, <1>6 DEF ClaimStep

-----------------------------------------------------------------------------
(* An organization keeps its name.                                         *)
LEMMA NamesKept ==
    ASSUME TypeOK, [Next]_vars, NEW n \in Names, CompanyNamed(n)
    PROVE  CompanyNamed(n)'
<1>1. ASSUME NEW o \in Orgs, orgName[o] # NoOne PROVE orgName'[o] = orgName[o]
  <2>1. CASE OwnerStep
    BY <2>1 DEF OwnerStep, CreateBegin, CreateRollback, CreateCommit, RetryBegin,
       RetryCommit, RetryRollback, RevokeInvitation, ActivateRelationship,
       claimVars
  <2>2. CASE DeliveryStep
    BY <2>2 DEF DeliveryStep, RecordDelivery, ExpireInvitations, claimVars
  <2>3. CASE RecipientStep
    <3>1. ASSUME NEW c \in Claims, NEW p \in Orgs, BootstrapCommit(c, p)
          PROVE  orgName'[o] = orgName[o]
      BY <1>1, <3>1 DEF BootstrapCommit, TypeOK
    <3>2. ASSUME NEW c \in Claims,
                 \/ BootstrapScan(c) \/ BootstrapRollback(c)
                 \/ AppealClaim(c) \/ IssueCapability(c)
          PROVE  UNCHANGED orgName
      BY <3>2 DEF BootstrapScan, BootstrapRollback, AppealClaim,
         IssueCapability, claimVars
    <3>3. ASSUME NEW i \in Invitations,
                 \/ PreviewInvitation(i)
                 \/ \E u \in Users : \/ OptOut(i, u) \/ ReportAbuse(i, u)
                                    \/ VerifyRecipient(i, u)
                 \/ \E k \in 1..MaxCapabilities :
                       \/ OpenInbox(i, k) \/ RespondStale(i, k)
                       \/ \E a \in Actions : Respond(i, k, a)
          PROVE  UNCHANGED orgName
      BY <3>3 DEF PreviewInvitation, OptOut, ReportAbuse, VerifyRecipient,
         OpenInbox, RespondStale, Respond, claimVars
    <3>4. ASSUME NEW i \in Invitations, NEW u \in Users, NEW c \in Claims,
                 \/ \E p \in Orgs : CreateRelationshipClaim(c, i, u, p)
                 \/ \E m \in Names : CreateOrganizationClaim(c, i, u, m)
          PROVE  UNCHANGED orgName
      BY <3>4 DEF CreateRelationshipClaim, CreateOrganizationClaim, CreateClaim
    <3> QED
      BY <2>3, <3>1, <3>2, <3>3, <3>4 DEF RecipientStep
  <2>4. CASE ReviewStep
    BY <2>4 DEF ReviewStep, DecideReview
  <2>5. CASE EnvironmentStep
    BY <1>1, <2>5 DEF EnvironmentStep, Lapse, UpdateMembershipStatus,
       BootstrapOrganization, TypeOK, claimVars
  <2>6. CASE UNCHANGED vars
    BY <2>6 DEF vars, claimVars
  <2> QED
    BY <2>1, <2>2, <2>3, <2>4, <2>5, <2>6 DEF Next
<1> QED
  BY <1>1, NoOneAssumption DEF CompanyNamed

LEMMA NamesTakenStep ==
    TypeOK /\ BoundClaims /\ LocksHeld /\ NamesTaken /\ [Next]_vars => NamesTaken'
<1> SUFFICES ASSUME TypeOK, BoundClaims, LocksHeld, NamesTaken, [Next]_vars
             PROVE  NamesTaken'
  OBVIOUS
<1>0. bootstrapping \subseteq Claims
  BY DEF TypeOK
<1>1. CASE ClaimsKept
  <2>1. \A c \in Claims : Bootstrapped(c)' => Bootstrapped(c)
    BY <1>1 DEF ClaimsKept, Bootstrapped
  <2>2. \A c \in Claims : Bootstrapped(c) => CompanyNamed(claim[c].name)'
    BY <1>1, NamesKept DEF ClaimsKept, NamesTaken, Bootstrapped
  <2> QED
    BY <1>0, <1>1, <2>1, <2>2 DEF ClaimsKept, NamesTaken
<1>2. ASSUME NEW c \in Claims, ClaimStep(c) PROVE NamesTaken'
  <2>1. /\ \A d \in Claims \ {c} : claim'[d] = claim[d]
        /\ claim[c].status # "none" => /\ claim'[c].kind = claim[c].kind
                                       /\ claim'[c].name = claim[c].name
    BY <1>2, ClaimStepRow DEF ClaimWritten
  <2>2. NameMove(c)
    BY <1>2, NameMoveStep
  <2>3. \A d \in Claims \ {c} : Bootstrapped(d)' => Bootstrapped(d)
    BY <2>1 DEF Bootstrapped
  <2>4. ASSUME NEW d \in Claims, claim'[d].status # "none",
               claim'[d].kind = "new_organization"
        PROVE  claim'[d].name \in Names
    BY <2>1, <2>2, <2>4 DEF NamesTaken, NameMove
  <2>5. ASSUME NEW d \in Claims, claim'[d].status = "relationship_checked"
        PROVE  claim'[d].kind = "existing_relationship"
    BY <2>1, <2>2, <2>5 DEF NamesTaken, NameMove
  <2>6. \/ Bootstrapped(c)' => Bootstrapped(c)
        \/ /\ c \in bootstrapping /\ bootstrapping' = bootstrapping \ {c}
           /\ claim[c].status # "none"
           /\ \E o \in Orgs : orgName' = [orgName EXCEPT ![o] = claim[c].name]
    BY <2>1, <2>2 DEF NamesTaken, NameMove, Bootstrapped
  <2>7. ASSUME NEW d \in Claims, Bootstrapped(d)'
        PROVE  CompanyNamed(claim[d].name)'
    <3>1. CASE Bootstrapped(d)
      BY <2>1, <3>1, NamesKept DEF NamesTaken, Bootstrapped
    <3>2. CASE d = c /\ ~Bootstrapped(c)
      BY <2>1, <2>6, <2>7, <3>2 DEF CompanyNamed, TypeOK
    <3> QED
      BY <2>3, <2>7, <3>1, <3>2
  <2>8. ASSUME NEW d \in bootstrapping', NEW e \in bootstrapping',
               claim'[d].name = claim'[e].name
        PROVE  d = e
    <3>1. bootstrapping' \ {c} \subseteq bootstrapping
      BY <2>2 DEF NameMove
    <3> QED
      BY <1>0, <2>1, <2>2, <2>8, <3>1 DEF NamesTaken, NameMove, LocksHeld
  <2>9. ASSUME NEW d \in bootstrapping', NEW e \in Claims, Bootstrapped(e)'
        PROVE  claim'[d].name # claim'[e].name
    <3>1. d \in bootstrapping =>
             /\ d \in Claims /\ claim'[d].name = claim[d].name
             /\ \A a \in Claims : Bootstrapped(a) => claim[d].name # claim[a].name
      BY <1>0, <2>1 DEF NamesTaken, LocksHeld
    <3>2. CASE Bootstrapped(e)
      <4>1. claim'[e].name = claim[e].name /\ CompanyNamed(claim[e].name)
        BY <2>1, <3>2 DEF NamesTaken, Bootstrapped
      <4>2. CASE d \in bootstrapping
        BY <3>1, <3>2, <4>1, <4>2
      <4>3. CASE d \notin bootstrapping
        BY <2>2, <2>9, <4>1, <4>3 DEF NameMove
      <4> QED
        BY <4>2, <4>3
    <3>3. CASE e = c /\ ~Bootstrapped(c)
      <4>1. /\ d \in bootstrapping /\ d # c /\ c \in bootstrapping
            /\ claim'[c].name = claim[c].name
        BY <2>1, <2>6, <2>9, <3>3
      <4> QED
        BY <3>1, <3>3, <4>1 DEF NamesTaken
    <3> QED
      BY <2>3, <2>9, <3>2, <3>3
  <2> QED
    BY <2>4, <2>5, <2>7, <2>8, <2>9 DEF NamesTaken
<1> QED
  BY <1>1, <1>2, ClaimFrame

LEMMA OneBootstrapStep ==
    ASSUME TypeOK, BoundClaims, LocksHeld, NamesTaken, OneBootstrapPerName,
           [Next]_vars
    PROVE  OneBootstrapPerName'
<1>1. ASSUME NEW c \in Claims, NEW d \in Claims, Bootstrapped(c), Bootstrapped(d),
             claim[c].name = claim[d].name
      PROVE  c = d
  BY <1>1 DEF OneBootstrapPerName, Bootstrapped
<1>2. ASSUME NEW c \in Claims, NEW d \in Claims, Bootstrapped(c)',
             Bootstrapped(d)', claim'[c].name = claim'[d].name, c # d
      PROVE  FALSE
  <2>1. ASSUME NEW e \in Claims, ClaimStep(e)
        PROVE  /\ \A x \in Claims \ {e} : claim'[x] = claim[x]
               /\ Bootstrapped(e)' =>
                    /\ claim'[e].name = claim[e].name
                    /\ Bootstrapped(e) \/ e \in bootstrapping
    <3>1. NameMove(e) /\ ClaimWritten(e)
      BY <2>1, NameMoveStep, ClaimStepRow
    <3> QED
      BY <3>1 DEF NameMove, ClaimWritten, NamesTaken, Bootstrapped
  <2>2. ASSUME NEW e \in Claims, NEW x \in Claims \ {e}, ClaimStep(e),
               Bootstrapped(e)', Bootstrapped(x)'
        PROVE  claim'[e].name # claim'[x].name
    <3>1. claim'[x] = claim[x] /\ Bootstrapped(x)
      BY <2>1, <2>2 DEF Bootstrapped
    <3>2. claim'[e].name = claim[e].name /\ (Bootstrapped(e) \/ e \in bootstrapping)
      BY <2>1, <2>2
    <3> QED
      BY <1>1, <3>1, <3>2 DEF NamesTaken
  <2>3. CASE ClaimsKept
    BY <1>1, <1>2, <2>3 DEF ClaimsKept, Bootstrapped
  <2>4. ASSUME NEW e \in Claims, ClaimStep(e) PROVE FALSE
    <3>1. CASE e = c
      BY <1>2, <2>2, <2>4, <3>1
    <3>2. CASE e = d
      BY <1>2, <2>2, <2>4, <3>2
    <3>3. CASE e # c /\ e # d
      BY <1>1, <1>2, <2>1, <2>4, <3>3 DEF Bootstrapped
    <3> QED
      BY <3>1, <3>2, <3>3
  <2> QED
    BY <2>3, <2>4, ClaimFrame
<1> QED
  BY <1>2 DEF OneBootstrapPerName, Bootstrapped

(* However scans, commits and rollbacks of bootstraps interleave with the  *)
(* account route and with reviews, one name is bootstrapped once.          *)
THEOREM OneBootstrap == Spec => []OneBootstrapPerName
<1>1. Init => NamesTaken /\ OneBootstrapPerName
  BY DEF Init, NoClaim, NamesTaken, OneBootstrapPerName, Bootstrapped
<1> QED
  BY <1>1, TypeCorrect, NamesTakenStep, OneBootstrapStep, PTL DEF Spec

-----------------------------------------------------------------------------
(* How one step may treat the capabilities of an invitation.               *)
NoneActive(i) == \A k \in DOMAIN cap[i] : cap[i][k].status # "active"
Closing == {"revoked", "declined"}

CapMove(i) ==
    \/ NoneActive(i)'
    \/ /\ cap'[i] = cap[i]
       /\ inv'[i].status \in Closing => inv'[i].status = inv[i].status
    \/ /\ inv'[i] = inv[i]
       /\ \E c \in Claims : IssueCapability(c) /\ claim[c].inv = i

CapMoves == \A i \in Invitations : CapMove(i)

LEMMA CapKept == UNCHANGED <<inv, cap>> => CapMoves
BY DEF CapMoves, CapMove

LEMMA ReconciledCloses ==
    ASSUME NEW s \in Seq(CapRow), NEW next \in CapStatus \ {"active"}
    PROVE  \A k \in DOMAIN Reconciled(s, next) :
              Reconciled(s, next)[k].status # "active"
BY DEF Reconciled, CapRow

LEMMA ReconcileCloses ==
    ASSUME TypeOK, NEW i \in Invitations, NEW s \in CapStatus \ {"active"},
           ReconcileCapability(i, s)
    PROVE  /\ NoneActive(i)'
           /\ \A j \in Invitations \ {i} : cap'[j] = cap[j]
<1>1. /\ cap'[i] = Reconciled(cap[i], s)
      /\ \A j \in Invitations \ {i} : cap'[j] = cap[j]
  BY DEF TypeOK, ReconcileCapability
<1>2. cap[i] \in Seq(CapRow)
  BY DEF TypeOK
<1> QED
  BY <1>1, <1>2, ReconciledCloses DEF NoneActive

LEMMA ClosedStatusCloses == \A i : ClosedStatus(i) \in CapStatus \ {"active"}
BY Zenon DEF ClosedStatus, CapStatus

LEMMA CapMoveStep == TypeOK /\ LocksHeld /\ [Next]_vars => CapMoves
<1> SUFFICES ASSUME TypeOK, LocksHeld, [Next]_vars PROVE CapMoves
  OBVIOUS
<1> USE DEF Closing
<1>1. ASSUME NEW p \in Properties, NEW r \in Recipients,
             CreateBegin(p, r) \/ CreateRollback(p, r)
      PROVE  CapMoves
  BY <1>1, CapKept DEF CreateBegin, CreateRollback, invVars, capVars
<1>2. ASSUME NEW p \in Properties, NEW r \in Recipients,
             NEW i \in Invitations, CreateCommit(i, p, r)
      PROVE  CapMoves
  <2>1. UNCHANGED cap /\ inv'[i].status = "pending_delivery"
    BY <1>2 DEF CreateCommit, capVars, TypeOK
  <2>2. ASSUME NEW j \in Invitations \ {i}
        PROVE  inv'[j] = inv[j] \/ inv'[j] = [inv[j] EXCEPT !.status = "expired"]
    BY <1>2 DEF CreateCommit
  <2>3. \A j \in Invitations : [inv[j] EXCEPT !.status = "expired"].status = "expired"
    BY InvStatusFields DEF TypeOK
  <2> QED
    BY <2>1, <2>2, <2>3 DEF CapMoves, CapMove
<1>3. ASSUME NEW i \in Invitations, RetryBegin(i) \/ RetryRollback(i)
      PROVE  CapMoves
  BY <1>3, CapKept DEF RetryBegin, RetryRollback, invVars, capVars
<1>4. ASSUME NEW i \in Invitations, RetryCommit(i)
      PROVE  CapMoves
  <2>1. /\ UNCHANGED cap /\ inv'[i].status = "pending_delivery"
        /\ \A j \in Invitations \ {i} : inv'[j] = inv[j]
    BY <1>4, InvRenewFields DEF RetryCommit, capVars, TypeOK
  <2> QED
    BY <2>1 DEF CapMoves, CapMove
<1>5. ASSUME NEW i \in Invitations, RevokeInvitation(i)
      PROVE  CapMoves
  <2>1. \E s \in {"expired", "revoked"} : SetStatus(i, s) /\ ReconcileCapability(i, s)
    BY <1>5 DEF RevokeInvitation
  <2> QED
    BY <2>1, SetStatusMove, ReconcileCloses DEF CapStatus, CapMoves, CapMove
<1>6. ASSUME NEW i \in Invitations, ActivateRelationship(i)
      PROVE  CapMoves
  <2>1. ASSUME NEW j \in Invitations
        PROVE  \/ inv'[j] = inv[j] /\ cap'[j] = cap[j]
               \/ /\ inv'[j] = [inv[j] EXCEPT !.status = "activated"]
                  /\ cap'[j] = cap[j]
               \/ cap'[j] = Reconciled(cap[j], "revoked")
    BY <1>6 DEF ActivateRelationship, TypeOK
  <2>2. ASSUME NEW j \in Invitations PROVE CapMove(j)
    <3>1. cap[j] \in Seq(CapRow) /\ "revoked" \in CapStatus \ {"active"}
      BY DEF TypeOK, CapStatus
    <3>2. [inv[j] EXCEPT !.status = "activated"].status = "activated"
      BY InvStatusFields DEF TypeOK
    <3> QED
      BY <2>1, <3>1, <3>2, ReconciledCloses DEF CapMove, NoneActive
  <2> QED
    BY <2>2 DEF CapMoves
<1>7. ASSUME NEW i \in Invitations, NEW n \in 1..MaxAttempts,
             NEW outcome \in {"delivered", "failed"},
             RecordDelivery(i, n, outcome)
      PROVE  CapMoves
  BY <1>7, SetStatusMove DEF RecordDelivery, CapMoves, CapMove, capVars
<1>8. ASSUME NEW S \in SUBSET Invitations, ExpireInvitations(S)
      PROVE  CapMoves
  <2>1. ASSUME NEW j \in Invitations
        PROVE  \/ inv'[j] = inv[j] /\ cap'[j] = cap[j]
               \/ cap'[j] = Reconciled(cap[j], "expired")
    BY <1>8 DEF ExpireInvitations, TypeOK
  <2>2. ASSUME NEW j \in Invitations PROVE CapMove(j)
    <3>1. cap[j] \in Seq(CapRow) /\ "expired" \in CapStatus \ {"active"}
      BY DEF TypeOK, CapStatus
    <3> QED
      BY <2>1, <3>1, ReconciledCloses DEF CapMove, NoneActive
  <2> QED
    BY <2>2 DEF CapMoves
<1>9. ASSUME NEW i \in Invitations, PreviewInvitation(i)
      PROVE  CapMoves
  BY <1>9, SetStatusMove DEF PreviewInvitation, CapMoves, CapMove, capVars
<1>10. ASSUME NEW i \in Invitations, NEW u \in Users, OptOut(i, u)
       PROVE  CapMoves
  BY <1>10, SetStatusMove, ReconcileCloses
  DEF OptOut, CapStatus, CapMoves, CapMove
<1>11. ASSUME NEW i \in Invitations, NEW u \in Users, ReportAbuse(i, u)
       PROVE  CapMoves
  <2>1. /\ UNCHANGED cap
        /\ inv'[i].status \in {"opted_out", inv[i].status}
        /\ \A j \in Invitations \ {i} : inv'[j] = inv[j]
    BY <1>11, InvStatusFields DEF ReportAbuse, TypeOK, capVars
  <2> QED
    BY <2>1 DEF CapMoves, CapMove
<1>12. ASSUME NEW i \in Invitations, NEW u \in Users, VerifyRecipient(i, u)
       PROVE  CapMoves
  BY <1>12, SetStatusMove DEF VerifyRecipient, CapMoves, CapMove, capVars
<1>13. ASSUME NEW c \in Claims, NEW i \in Invitations, NEW u \in Users,
              \/ \E o \in Orgs : CreateRelationshipClaim(c, i, u, o)
              \/ \E n \in Names : CreateOrganizationClaim(c, i, u, n)
       PROVE  CapMoves
  BY <1>13, CapKept DEF CreateRelationshipClaim, CreateOrganizationClaim,
     CreateClaim, invVars, capVars
<1>14. ASSUME NEW c \in Claims,
              \/ BootstrapScan(c) \/ BootstrapRollback(c) \/ AppealClaim(c)
              \/ \E o \in Orgs : BootstrapCommit(c, o)
       PROVE  CapMoves
  BY <1>14, CapKept DEF BootstrapScan, BootstrapRollback, AppealClaim,
     BootstrapCommit, invVars, capVars
<1>15. ASSUME NEW c \in Claims, IssueCapability(c)
       PROVE  CapMoves
  <2>1. /\ UNCHANGED inv
        /\ cap' = [cap EXCEPT ![claim[c].inv] =
                       Append(@, [status |-> "active", claim |-> c])]
    BY <1>15 DEF IssueCapability, invVars
  <2>2. \A j \in Invitations : j # claim[c].inv => cap'[j] = cap[j]
    BY <2>1 DEF TypeOK
  <2> QED
    BY <1>15, <2>1, <2>2 DEF CapMoves, CapMove
<1>16. ASSUME NEW i \in Invitations, NEW k \in 1..MaxCapabilities,
              OpenInbox(i, k) \/ RespondStale(i, k)
       PROVE  CapMoves
  <2>1. UNCHANGED inv /\ ReconcileCapability(i, ClosedStatus(i))
    BY <1>16 DEF OpenInbox, RespondStale, invVars
  <2> QED
    BY <2>1, ClosedStatusCloses, ReconcileCloses DEF CapMoves, CapMove
<1>17. ASSUME NEW i \in Invitations, NEW k \in 1..MaxCapabilities,
              NEW a \in Actions, Respond(i, k, a)
       PROVE  CapMoves
  <2>1. \/ UNCHANGED <<inv, cap>>
        \/ \E s \in {"declined", "opted_out"}, t \in {"declined", "revoked"} :
              SetStatus(i, s) /\ ReconcileCapability(i, t)
    BY <1>17 DEF Respond, invVars
  <2>2. ASSUME NEW s, NEW t \in {"declined", "revoked"}, SetStatus(i, s),
               ReconcileCapability(i, t)
        PROVE  CapMoves
    BY <2>2, SetStatusMove, ReconcileCloses DEF CapStatus, CapMoves, CapMove
  <2> QED
    BY <2>1, <2>2, CapKept
<1>18. ASSUME NEW c \in Claims, NEW rv \in Reviewers, NEW a \in ReviewActions,
              NEW next \in ClaimStatus, DecideReview(c, rv, a, next)
       PROVE  CapMoves
  <2>1. UNCHANGED inv
    BY <1>18 DEF DecideReview, invVars
  <2>2. UNCHANGED cap \/ ReconcileCapability(claim[c].inv, "suspended")
    BY <1>18 DEF DecideReview
  <2>3. "suspended" \in CapStatus \ {"active"}
    BY DEF CapStatus
  <2>4. CASE ReconcileCapability(claim[c].inv, "suspended")
    <3>1. CASE claim[c].inv \in Invitations
      BY <2>1, <2>3, <2>4, <3>1, ReconcileCloses DEF CapMoves, CapMove
    <3>2. CASE claim[c].inv \notin Invitations
      <4>1. \A j \in Invitations : cap'[j] = cap[j]
        BY <2>4, <3>2 DEF ReconcileCapability, TypeOK
      <4> QED
        BY <2>1, <4>1 DEF CapMoves, CapMove
    <3> QED
      BY <3>1, <3>2
  <2> QED
    BY <2>1, <2>2, <2>4, CapKept
<1>19. ASSUME NEW i \in Invitations, Lapse(i)
       PROVE  CapMoves
  BY <1>19, InvLapseFields DEF Lapse, TypeOK, CapMoves, CapMove, capVars
<1>20. ASSUME NEW u \in Users, NEW o \in Orgs,
              \/ UpdateMembershipStatus(u, o)
              \/ \E n \in Names : BootstrapOrganization(u, o, n)
       PROVE  CapMoves
  BY <1>20, CapKept DEF UpdateMembershipStatus, BootstrapOrganization, invVars,
     capVars
<1>21. CASE UNCHANGED vars
  BY <1>21, CapKept DEF vars, invVars, capVars
<1> QED
  BY <1>1, <1>2, <1>3, <1>4, <1>5, <1>6, <1>7, <1>8, <1>9, <1>10, <1>11,
     <1>12, <1>13, <1>14, <1>15, <1>16, <1>17, <1>18, <1>19, <1>20, <1>21
  DEF Next, OwnerStep, DeliveryStep, RecipientStep, ReviewStep, EnvironmentStep

(* A linked claim is only ever left by a dispute, which closes the         *)
(* capability of its invitation.                                           *)
LEMMA LinkedStep ==
    ASSUME TypeOK, LocksHeld, NEW c \in Claims, NEW i \in Invitations,
           claim[c].inv = i, claim[c].status \in Linked, ClaimStep(c)
    PROVE  NoneActive(i)'
<1>1. \E rv \in Reviewers, a \in ReviewActions, next \in ClaimStatus :
         DecideReview(c, rv, a, next)
  <2>1. ASSUME NEW j \in Invitations, NEW u \in Users,
               \/ \E o \in Orgs : CreateRelationshipClaim(c, j, u, o)
               \/ \E n \in Names : CreateOrganizationClaim(c, j, u, n)
        PROVE  FALSE
    BY <2>1 DEF CreateRelationshipClaim, CreateOrganizationClaim, CreateClaim,
       Linked
  <2>2. ASSUME \/ BootstrapScan(c) \/ AppealClaim(c)
               \/ \E o \in Orgs : BootstrapCommit(c, o)
        PROVE  FALSE
    BY <2>2 DEF BootstrapScan, AppealClaim, BootstrapCommit, LocksHeld, Linked
  <2> QED
    BY <2>1, <2>2 DEF ClaimStep
<1>2. PICK rv \in Reviewers, a \in ReviewActions, next \in ClaimStatus :
         DecideReview(c, rv, a, next)
  BY <1>1
<1>3. next = "disputed"
  BY <1>2 DEF DecideReview, ReviewTransition, Linked
<1>4. ReconcileCapability(i, "suspended")
  BY <1>2, <1>3 DEF DecideReview
<1>5. "suspended" \in CapStatus \ {"active"}
  BY DEF CapStatus
<1> QED
  BY <1>4, <1>5, ReconcileCloses

LEMMA CapabilityStep ==
    ASSUME TypeOK, BoundClaims, LocksHeld, CapabilityFollowsClaim, [Next]_vars
    PROVE  CapabilityFollowsClaim'
<1> SUFFICES ASSUME NEW i \in Invitations, NEW k \in DOMAIN cap'[i],
                    cap'[i][k].status = "active"
             PROVE  /\ k = Len(cap'[i])
                    /\ claim'[cap'[i][k].claim].inv = i
                    /\ claim'[cap'[i][k].claim].status \in Linked
                    /\ claim'[cap'[i][k].claim].actor = check'[i]
                    /\ claim'[cap'[i][k].claim].org # NoOne
                    /\ inv'[i].status \notin {"revoked", "declined"}
  <2>1. CapabilityFollowsClaim' = (\A i \in Invitations : \A k \in DOMAIN cap'[i] :
          cap'[i][k].status = "active" =>
             /\ k = Len(cap'[i])
             /\ claim'[cap'[i][k].claim].inv = i
             /\ claim'[cap'[i][k].claim].status \in Linked
             /\ claim'[cap'[i][k].claim].actor = check'[i]
             /\ claim'[cap'[i][k].claim].org # NoOne
             /\ inv'[i].status \notin {"revoked", "declined"})
    BY Zenon DEF CapabilityFollowsClaim
  <2> QED
    BY <2>1, Zenon
<1>1. CapMove(i) /\ ~NoneActive(i)'
  BY CapMoveStep DEF CapMoves, NoneActive
<1>2. cap[i] \in Seq(CapRow)
  BY DEF TypeOK
<1>3. CASE /\ cap'[i] = cap[i]
           /\ inv'[i].status \in Closing => inv'[i].status = inv[i].status
  <2>0. cap[i][k] \in CapRow
    BY <1>2, <1>3
  <2>1. PICK c \in Claims : c = cap[i][k].claim
    BY <2>0 DEF CapRow
  <2>2. /\ k = Len(cap[i]) /\ claim[c].inv = i /\ claim[c].status \in Linked
        /\ claim[c].actor = check[i] /\ claim[c].org # NoOne
        /\ inv[i].status \notin {"revoked", "declined"}
    <3>1. k \in DOMAIN cap[i] /\ cap[i][k].status = "active"
      BY <1>3
    <3> QED
      BY <2>1, <3>1, Zenon DEF CapabilityFollowsClaim
  <2>3. check'[i] = check[i]
    BY <2>2, CheckFrame, NoOneAssumption DEF BoundClaims, Linked
  <2>4. claim'[c] = claim[c]
    <3>1. ASSUME NEW d \in Claims \ {c}, ClaimStep(d) PROVE claim'[c] = claim[c]
      BY <3>1, ClaimStepRow DEF ClaimWritten
    <3>2. CASE ClaimStep(c)
      BY <1>1, <2>2, <3>2, LinkedStep
    <3> QED
      BY <3>1, <3>2, ClaimFrame DEF ClaimsKept
  <2> QED
    BY <1>3, <2>1, <2>2, <2>3, <2>4 DEF Closing
<1>4. CASE /\ inv'[i] = inv[i]
           /\ \E c \in Claims : IssueCapability(c) /\ claim[c].inv = i
  <2>1. PICK c \in Claims : IssueCapability(c) /\ claim[c].inv = i
    BY <1>4
  <2> DEFINE row == [status |-> "active", claim |-> c]
  <2>2. /\ claim[c].status \in Linked /\ inv[i].status = "opened"
        /\ check[i] = claim[c].actor
        /\ <<claim[c].actor, claim[c].org>> \in members
        /\ ~HasActiveCap(i) /\ UNCHANGED <<claim, check>>
    BY <2>1 DEF IssueCapability, CheckedOpen, Checked, ActiveMember, claimVars
  <2>3. cap'[i] = Append(cap[i], row)
    BY <2>1 DEF IssueCapability, TypeOK
  <2>4. claim[c].org # NoOne
    BY <2>2, NoOneAssumption DEF TypeOK
  <2>5. row \in CapRow /\ row.claim = c
    BY DEF CapRow, CapStatus
  <2>6. \A n \in DOMAIN cap[i] : cap[i][n].status # "active"
    BY <2>2 DEF HasActiveCap
  <2> HIDE DEF row
  <2>7. k = Len(cap'[i]) /\ cap'[i][k] = row
    BY <1>2, <2>3, <2>5, <2>6
  <2> QED
    BY <1>4, <2>1, <2>2, <2>4, <2>5, <2>7
<1> QED
  BY <1>1, <1>3, <1>4 DEF CapMove

(* Disputes, revocations, activations and refusals race with the use of a  *)
(* capability; an active one always has its claim and its invitation.      *)
THEOREM CapabilityBacked == Spec => []CapabilityFollowsClaim
<1>1. Init => CapabilityFollowsClaim
  BY DEF Init, CapabilityFollowsClaim
<1> QED
  BY <1>1, TypeCorrect, CapabilityStep, PTL DEF Spec

-----------------------------------------------------------------------------
(* A status s and delivery attempts a that agree, and how a handler may    *)
(* change the two together.                                                *)
Reached == {"delivered", "opened", "declined", "activated"}

AttemptsAgree(s, a) ==
    /\ (s = "none") = (Len(a) = 0)
    /\ \A n \in 1..Len(a) : a[n] = "pending" =>
          n = Len(a) /\ s \in {"pending_delivery", "expired", "revoked"}
    /\ s = "pending_delivery" => a[Len(a)] = "pending"
    /\ s \in Reached => a[Len(a)] = "delivered"
    /\ s = "failed" => a[Len(a)] = "failed"

LEMMA AgreeClosed ==
    ASSUME NEW a \in Seq(AttemptStatus), NEW s \in Live,
           NEW t \in {"expired", "revoked"}, AttemptsAgree(s, a)
    PROVE  AttemptsAgree(t, a)
BY DEF AttemptsAgree, Live, Reached

LEMMA AgreeReached ==
    ASSUME NEW a \in Seq(AttemptStatus), NEW s \in {"delivered", "opened"},
           NEW t \in Reached, AttemptsAgree(s, a)
    PROVE  AttemptsAgree(t, a)
BY DEF AttemptsAgree, Reached

LEMMA AgreeSuppressed ==
    ASSUME NEW a \in Seq(AttemptStatus), NEW s \in InvStatus \ {"none"}, NEW t,
           AttemptsAgree(s, a),
           (t = s /\ s \notin Live) \/ t \in {"expired", "revoked", "opted_out"}
    PROVE  AttemptsAgree(t, Suppressing(a))
<1>1. /\ Len(Suppressing(a)) = Len(a)
      /\ \A n \in 1..Len(a) :
            Suppressing(a)[n] = IF a[n] = "pending" THEN "suppressed" ELSE a[n]
  BY DEF Suppressing
<1>2. Len(a) \in Nat /\ (Len(a) # 0 => Len(a) \in 1..Len(a))
  OBVIOUS
<1> QED
  BY <1>1, <1>2 DEF AttemptsAgree, Reached, Live

LEMMA AgreeRetried ==
    ASSUME NEW a \in Seq(AttemptStatus), AttemptsAgree("failed", a)
    PROVE  AttemptsAgree("pending_delivery", Append(a, "pending"))
BY DEF AttemptsAgree, AttemptStatus, Reached

LEMMA AgreeCreated == AttemptsAgree("pending_delivery", <<"pending">>)
BY DEF AttemptsAgree, Reached

LEMMA AgreeDelivered ==
    ASSUME NEW a \in Seq(AttemptStatus), NEW t \in {"delivered", "failed"},
           AttemptsAgree("pending_delivery", a)
    PROVE  AttemptsAgree(t, [a EXCEPT ![Len(a)] = t])
<1>1. Len(a) \in 1..Len(a)
  BY DEF AttemptsAgree
<1>2. /\ Len([a EXCEPT ![Len(a)] = t]) = Len(a)
      /\ \A n \in 1..Len(a) :
            [a EXCEPT ![Len(a)] = t][n] = IF n = Len(a) THEN t ELSE a[n]
  OBVIOUS
<1> QED
  BY <1>1, <1>2 DEF AttemptsAgree, Reached

(* Another provider of the property was activated.                         *)
Beside(i) ==
    \E j \in Invitations : /\ inv[j].status = "activated"
                           /\ inv[j].property = inv[i].property

AttemptMove(i) ==
    LET s == inv[i].status
        t == inv'[i].status
        a == attempts[i]
        b == attempts'[i]
    IN \/ /\ b = a
          /\ \/ t = s
             \/ s = "delivered" /\ t = "opened"
             \/ s = "opened" /\ t \in {"declined", "activated"}
             \/ s \in Live /\ t = "expired"
             \/ s \in Live /\ t = "revoked" /\ Beside(i)'
       \/ /\ b = Suppressing(a) /\ s # "none"
          /\ \/ t = s /\ s \notin Live
             \/ s \in Live /\ t \in {"expired", "revoked", "opted_out"}
       \/ s = "none" /\ t = "pending_delivery" /\ b = <<"pending">>
       \/ s = "failed" /\ t = "pending_delivery" /\ b = Append(a, "pending")
       \/ /\ s = "pending_delivery" /\ t \in {"delivered", "failed"}
          /\ b = [a EXCEPT ![Len(a)] = t]

AttemptMoves == \A i \in Invitations : AttemptMove(i)

LEMMA AttemptsKept == UNCHANGED <<inv, attempts>> => AttemptMoves
BY DEF AttemptMoves, AttemptMove

LEMMA SuppressPendingMove ==
    ASSUME TypeOK, NEW i \in Invitations, SuppressPending(i)
    PROVE  /\ attempts'[i] = Suppressing(attempts[i])
           /\ \A j \in Invitations \ {i} : attempts'[j] = attempts[j]
BY DEF TypeOK, SuppressPending

(* One row moves; the others stay.                                         *)
LEMMA OneAttemptMove ==
    ASSUME NEW i \in Invitations, AttemptMove(i),
           \A j \in Invitations \ {i} :
              inv'[j] = inv[j] /\ attempts'[j] = attempts[j]
    PROVE  AttemptMoves
BY DEF AttemptMoves, AttemptMove

LEMMA AttemptMoveStep == TypeOK /\ LocksHeld /\ [Next]_vars => AttemptMoves
<1> SUFFICES ASSUME TypeOK, LocksHeld, [Next]_vars PROVE AttemptMoves
  OBVIOUS
<1> USE DEF Live
<1>1. ASSUME NEW p \in Properties, NEW r \in Recipients,
             CreateBegin(p, r) \/ CreateRollback(p, r)
      PROVE  AttemptMoves
  BY <1>1, AttemptsKept DEF CreateBegin, CreateRollback, invVars
<1>2. ASSUME NEW p \in Properties, NEW r \in Recipients,
             NEW i \in Invitations, CreateCommit(i, p, r)
      PROVE  AttemptMoves
  <2>1. /\ inv[i].status = "none" /\ inv'[i].status = "pending_delivery"
        /\ attempts'[i] = <<"pending">>
        /\ \A j \in Invitations \ {i} : attempts'[j] = attempts[j]
    BY <1>2 DEF CreateCommit, TypeOK
  <2>2. ASSUME NEW j \in Invitations \ {i}
        PROVE  \/ inv'[j] = inv[j]
               \/ /\ inv[j].status \in Live
                  /\ inv'[j] = [inv[j] EXCEPT !.status = "expired"]
    BY <1>2 DEF CreateCommit, IsLive
  <2>3. \A j \in Invitations : [inv[j] EXCEPT !.status = "expired"].status = "expired"
    BY InvStatusFields DEF TypeOK
  <2> QED
    BY <2>1, <2>2, <2>3 DEF AttemptMoves, AttemptMove
<1>3. ASSUME NEW i \in Invitations, RetryBegin(i) \/ RetryRollback(i)
      PROVE  AttemptMoves
  BY <1>3, AttemptsKept DEF RetryBegin, RetryRollback, invVars
<1>4. ASSUME NEW i \in Invitations, RetryCommit(i)
      PROVE  AttemptMoves
  <2>1. /\ inv[i].status = "failed" /\ inv'[i].status = "pending_delivery"
        /\ \A j \in Invitations \ {i} : inv'[j] = inv[j]
    BY <1>4, InvRenewFields DEF RetryCommit, LocksHeld, TypeOK
  <2>2. /\ attempts'[i] = Append(attempts[i], "pending")
        /\ \A j \in Invitations \ {i} : attempts'[j] = attempts[j]
    BY <1>4 DEF RetryCommit, TypeOK
  <2>3. AttemptMove(i)
    BY <2>1, <2>2 DEF AttemptMove
  <2> QED
    BY <2>1, <2>2, <2>3, OneAttemptMove
<1>5. ASSUME NEW i \in Invitations, RevokeInvitation(i)
      PROVE  AttemptMoves
  <2>1. /\ inv[i].status \in Live
        /\ \/ SetStatus(i, "expired") /\ UNCHANGED attempts
           \/ SetStatus(i, "revoked") /\ SuppressPending(i)
    BY <1>5 DEF RevokeInvitation, IsLive
  <2>2. CASE SetStatus(i, "expired") /\ UNCHANGED attempts
    BY <2>1, <2>2, SetStatusMove DEF AttemptMoves, AttemptMove
  <2>3. CASE SetStatus(i, "revoked") /\ SuppressPending(i)
    <3>1. AttemptMove(i)
      BY <2>1, <2>3, SetStatusMove, SuppressPendingMove DEF AttemptMove
    <3> QED
      BY <2>3, <3>1, SetStatusMove, SuppressPendingMove, OneAttemptMove
  <2> QED
    BY <2>1, <2>2, <2>3
<1>6. ASSUME NEW i \in Invitations, ActivateRelationship(i)
      PROVE  AttemptMoves
  <2>1. /\ inv[i].status = "opened" /\ UNCHANGED attempts
        /\ inv'[i] = [inv[i] EXCEPT !.status = "activated"]
    BY <1>6 DEF ActivateRelationship, TypeOK
  <2>2. ASSUME NEW j \in Invitations \ {i}
        PROVE  \/ inv'[j] = inv[j]
               \/ /\ inv[j].status \in Live /\ inv[j].property = inv[i].property
                  /\ inv'[j] = [inv[j] EXCEPT !.status = "revoked"]
    BY <1>6 DEF ActivateRelationship, IsLive
  <2>3. inv'[i].status = "activated" /\ inv'[i].property = inv[i].property
    BY <2>1, InvStatusFields DEF TypeOK
  <2>4. ASSUME NEW j \in Invitations \ {i} PROVE AttemptMove(j)
    <3>1. LET new == [inv[j] EXCEPT !.status = "revoked"]
          IN new.status = "revoked" /\ new.property = inv[j].property
      BY InvStatusFields DEF TypeOK
    <3>2. CASE inv'[j] = inv[j]
      BY <2>1, <3>2 DEF AttemptMove
    <3>3. CASE inv'[j] # inv[j]
      <4>1. /\ inv[j].status \in Live /\ inv'[j].status = "revoked"
            /\ inv'[j].property = inv'[i].property
        BY <2>2, <2>3, <3>1, <3>3
      <4>2. Beside(j)'
        BY <2>3, <4>1 DEF Beside
      <4> QED
        BY <2>1, <4>1, <4>2 DEF AttemptMove
    <3> QED
      BY <3>2, <3>3
  <2>5. AttemptMove(i)
    BY <2>1, <2>3 DEF AttemptMove
  <2> QED
    BY <2>4, <2>5 DEF AttemptMoves
<1>7. ASSUME NEW i \in Invitations, NEW n \in 1..MaxAttempts,
             NEW outcome \in {"delivered", "failed"},
             RecordDelivery(i, n, outcome)
      PROVE  AttemptMoves
  <2>1. /\ SetStatus(i, outcome) /\ inv[i].status = "pending_delivery"
        /\ attempts'[i] = [attempts[i] EXCEPT ![Len(attempts[i])] = outcome]
        /\ \A j \in Invitations \ {i} : attempts'[j] = attempts[j]
    BY <1>7 DEF RecordDelivery, TypeOK
  <2>2. AttemptMove(i)
    BY <2>1, SetStatusMove DEF AttemptMove
  <2> QED
    BY <2>1, <2>2, SetStatusMove, OneAttemptMove
<1>8. ASSUME NEW S \in SUBSET Invitations, ExpireInvitations(S)
      PROVE  AttemptMoves
  <2>1. ASSUME NEW j \in Invitations
        PROVE  \/ inv'[j] = inv[j] /\ attempts'[j] = attempts[j]
               \/ /\ inv[j].status \in Live
                  /\ inv'[j] = [inv[j] EXCEPT !.status = "expired"]
                  /\ attempts'[j] = Suppressing(attempts[j])
    BY <1>8 DEF ExpireInvitations, IsLive
  <2>2. \A j \in Invitations : [inv[j] EXCEPT !.status = "expired"].status = "expired"
    BY InvStatusFields DEF TypeOK
  <2> QED
    BY <2>1, <2>2 DEF AttemptMoves, AttemptMove
<1>9. ASSUME NEW i \in Invitations, PreviewInvitation(i)
      PROVE  AttemptMoves
  <2>1. \/ /\ inv[i].status \in Live
           /\ SetStatus(i, "expired") /\ SuppressPending(i)
        \/ /\ inv[i].status = "delivered"
           /\ SetStatus(i, "opened") /\ UNCHANGED attempts
    BY <1>9 DEF PreviewInvitation, IsLive
  <2>2. AttemptMove(i)
    BY <2>1, SetStatusMove, SuppressPendingMove DEF AttemptMove
  <2> QED
    BY <2>1, <2>2, SetStatusMove, SuppressPendingMove, OneAttemptMove
<1>10. ASSUME NEW i \in Invitations, NEW u \in Users, OptOut(i, u)
       PROVE  AttemptMoves
  <2>1. /\ inv[i].status \in Live
        /\ \/ SetStatus(i, "expired") /\ UNCHANGED attempts
           \/ SetStatus(i, "opted_out") /\ SuppressPending(i)
    BY <1>10 DEF OptOut, IsLive
  <2>2. AttemptMove(i)
    BY <2>1, SetStatusMove, SuppressPendingMove DEF AttemptMove
  <2> QED
    BY <2>1, <2>2, SetStatusMove, SuppressPendingMove, OneAttemptMove
<1>11. ASSUME NEW i \in Invitations, NEW u \in Users, ReportAbuse(i, u)
       PROVE  AttemptMoves
  <2>1. /\ inv[i].status # "none" /\ SuppressPending(i)
        /\ inv'[i].status = IF inv[i].status \in Live THEN "opted_out"
                            ELSE inv[i].status
        /\ \A j \in Invitations \ {i} : inv'[j] = inv[j]
    BY <1>11, InvStatusFields DEF ReportAbuse, TypeOK
  <2>2. AttemptMove(i)
    BY <2>1, SuppressPendingMove DEF AttemptMove
  <2> QED
    BY <2>1, <2>2, SuppressPendingMove, OneAttemptMove
<1>12. ASSUME NEW i \in Invitations, NEW u \in Users, VerifyRecipient(i, u)
       PROVE  AttemptMoves
  BY <1>12, SetStatusMove DEF VerifyRecipient, AttemptMoves, AttemptMove
<1>13. ASSUME NEW c \in Claims, NEW i \in Invitations, NEW u \in Users,
              \/ \E o \in Orgs : CreateRelationshipClaim(c, i, u, o)
              \/ \E n \in Names : CreateOrganizationClaim(c, i, u, n)
       PROVE  AttemptMoves
  BY <1>13, AttemptsKept DEF CreateRelationshipClaim, CreateOrganizationClaim,
     CreateClaim, invVars
<1>14. ASSUME NEW c \in Claims,
              \/ BootstrapScan(c) \/ BootstrapRollback(c) \/ AppealClaim(c)
              \/ IssueCapability(c) \/ \E o \in Orgs : BootstrapCommit(c, o)
       PROVE  AttemptMoves
  BY <1>14, AttemptsKept DEF BootstrapScan, BootstrapRollback, AppealClaim,
     IssueCapability, BootstrapCommit, invVars
<1>15. ASSUME NEW i \in Invitations, NEW k \in 1..MaxCapabilities,
              OpenInbox(i, k) \/ RespondStale(i, k)
       PROVE  AttemptMoves
  BY <1>15, AttemptsKept DEF OpenInbox, RespondStale, invVars
<1>16. ASSUME NEW i \in Invitations, NEW k \in 1..MaxCapabilities,
              NEW a \in Actions, Respond(i, k, a)
       PROVE  AttemptMoves
  <2>1. \/ UNCHANGED <<inv, attempts>>
        \/ /\ inv[i].status = "opened"
           /\ SetStatus(i, "declined") /\ UNCHANGED attempts
        \/ /\ inv[i].status = "opened"
           /\ SetStatus(i, "opted_out") /\ SuppressPending(i)
    BY <1>16 DEF Respond, Effective, invVars
  <2>2. AttemptMove(i)
    BY <2>1, SetStatusMove, SuppressPendingMove DEF AttemptMove
  <2> QED
    BY <2>1, <2>2, SetStatusMove, SuppressPendingMove, OneAttemptMove
<1>17. ASSUME NEW c \in Claims, NEW rv \in Reviewers, NEW a \in ReviewActions,
              NEW next \in ClaimStatus, DecideReview(c, rv, a, next)
       PROVE  AttemptMoves
  BY <1>17, AttemptsKept DEF DecideReview, invVars
<1>18. ASSUME NEW i \in Invitations, Lapse(i)
       PROVE  AttemptMoves
  BY <1>18, InvLapseFields DEF Lapse, TypeOK, AttemptMoves, AttemptMove
<1>19. ASSUME NEW u \in Users, NEW o \in Orgs,
              \/ UpdateMembershipStatus(u, o)
              \/ \E n \in Names : BootstrapOrganization(u, o, n)
       PROVE  AttemptMoves
  BY <1>19, AttemptsKept DEF UpdateMembershipStatus, BootstrapOrganization,
     invVars
<1>20. CASE UNCHANGED vars
  BY <1>20, AttemptsKept DEF vars, invVars
<1> QED
  BY <1>1, <1>2, <1>3, <1>4, <1>5, <1>6, <1>7, <1>8, <1>9, <1>10, <1>11,
     <1>12, <1>13, <1>14, <1>15, <1>16, <1>17, <1>18, <1>19, <1>20
  DEF Next, OwnerStep, DeliveryStep, RecipientStep, ReviewStep, EnvironmentStep

(* The agreement of every invitation, and the activation that explains a   *)
(* revoked invitation with a delivery still pending.                       *)
AttemptsInv ==
    \A i \in Invitations :
        /\ AttemptsAgree(inv[i].status, attempts[i])
        /\ inv[i].status = "revoked"
           => ((\E n \in DOMAIN attempts[i] : attempts[i][n] = "pending") => Beside(i))

LEMMA BesideKept ==
    ASSUME TypeOK, LocksHeld, [Next]_vars, NEW i \in Invitations,
           inv[i].status # "none", Beside(i)
    PROVE  Beside(i)'
<1>1. PICK j \in Invitations : /\ inv[j].status = "activated"
                               /\ inv[j].property = inv[i].property
  BY DEF Beside
<1>2. /\ inv'[j].status = "activated" /\ inv'[j].property = inv[j].property
      /\ inv'[i].property = inv[i].property
  BY <1>1, InvMoveStep DEF InvMoves, InvMove, Live
<1> QED
  BY <1>1, <1>2 DEF Beside

LEMMA AttemptsInvStep ==
    TypeOK /\ LocksHeld /\ AttemptsInv /\ [Next]_vars => AttemptsInv'
<1> SUFFICES ASSUME TypeOK, LocksHeld, AttemptsInv, [Next]_vars,
                    NEW i \in Invitations
             PROVE  /\ AttemptsAgree(inv'[i].status, attempts'[i])
                    /\ inv'[i].status = "revoked"
                       => ((\E n \in DOMAIN attempts'[i] : attempts'[i][n] = "pending")
                           => Beside(i)')
  BY DEF AttemptsInv
<1>1. AttemptMove(i)
  BY AttemptMoveStep DEF AttemptMoves
<1>2. /\ attempts[i] \in Seq(AttemptStatus)
      /\ inv[i].status \in InvStatus
      /\ AttemptsAgree(inv[i].status, attempts[i])
  BY InvRowFields DEF TypeOK, AttemptsInv
<1>3. AttemptsAgree(inv'[i].status, attempts'[i])
  <2> DEFINE s == inv[i].status
             t == inv'[i].status
             a == attempts[i]
             b == attempts'[i]
  <2>0. a \in Seq(AttemptStatus) /\ s \in InvStatus /\ AttemptsAgree(s, a)
    BY <1>2
  <2>1. \/ b = a /\ t = s
        \/ b = a /\ s \in {"delivered", "opened"} /\ t \in Reached
        \/ b = a /\ s \in Live /\ t \in {"expired", "revoked"}
        \/ /\ b = Suppressing(a) /\ s \in InvStatus \ {"none"}
           /\ (t = s /\ s \notin Live) \/ t \in {"expired", "revoked", "opted_out"}
        \/ t = "pending_delivery" /\ b = <<"pending">>
        \/ s = "failed" /\ t = "pending_delivery" /\ b = Append(a, "pending")
        \/ /\ s = "pending_delivery" /\ t \in {"delivered", "failed"}
           /\ b = [a EXCEPT ![Len(a)] = t]
    BY <1>1, <2>0, Zenon DEF AttemptMove, Reached
  <2> HIDE DEF s, t, a, b
  <2>2. AttemptsAgree(t, b)
    <3>1. CASE b = a /\ s \in {"delivered", "opened"} /\ t \in Reached
      BY <2>0, <3>1, AgreeReached
    <3>2. CASE b = a /\ s \in Live /\ t \in {"expired", "revoked"}
      BY <2>0, <3>2, AgreeClosed
    <3>3. CASE /\ b = Suppressing(a) /\ s \in InvStatus \ {"none"}
               /\ (t = s /\ s \notin Live) \/ t \in {"expired", "revoked", "opted_out"}
      BY <2>0, <3>3, AgreeSuppressed
    <3>4. CASE s = "failed" /\ t = "pending_delivery" /\ b = Append(a, "pending")
      BY <2>0, <3>4, AgreeRetried
    <3>5. CASE /\ s = "pending_delivery" /\ t \in {"delivered", "failed"}
               /\ b = [a EXCEPT ![Len(a)] = t]
      BY <2>0, <3>5, AgreeDelivered
    <3> QED
      BY <2>0, <2>1, <3>1, <3>2, <3>3, <3>4, <3>5, AgreeCreated
  <2> QED
    BY <2>2 DEF t, b
<1>4. ASSUME inv'[i].status = "revoked",
             NEW n \in DOMAIN attempts'[i], attempts'[i][n] = "pending"
      PROVE  Beside(i)'
  <2>1. attempts'[i] # Suppressing(attempts[i])
    BY <1>2, <1>4 DEF Suppressing
  <2> QED
    BY <1>1, <1>4, <2>1, BesideKept DEF AttemptMove, AttemptsInv
<1> QED
  BY <1>3, <1>4

LEMMA AttemptsInvImplies == TypeOK /\ AttemptsInv => DeliveryAgreement
<1> SUFFICES ASSUME TypeOK, AttemptsInv, NEW i \in Invitations
             PROVE  LET last == Len(attempts[i])
                        pending == {n \in DOMAIN attempts[i] :
                                       attempts[i][n] = "pending"}
                    IN /\ (inv[i].status = "none") = (last = 0)
                       /\ pending \subseteq {last}
                       /\ inv[i].status = "pending_delivery" => pending = {last}
                       /\ pending # {} =>
                            \/ inv[i].status \in {"pending_delivery", "expired"}
                            \/ /\ inv[i].status = "revoked"
                               /\ \E j \in Invitations :
                                     /\ inv[j].status = "activated"
                                     /\ inv[j].property = inv[i].property
                       /\ inv[i].status \in
                             {"delivered", "opened", "declined", "activated"}
                          => attempts[i][last] = "delivered"
                       /\ inv[i].status = "failed" => attempts[i][last] = "failed"
  BY DEF DeliveryAgreement
<1>1. /\ attempts[i] \in Seq(AttemptStatus)
      /\ AttemptsAgree(inv[i].status, attempts[i])
      /\ inv[i].status = "revoked"
         => ((\E n \in DOMAIN attempts[i] : attempts[i][n] = "pending") => Beside(i))
  BY DEF TypeOK, AttemptsInv
<1>2. inv[i].status = "pending_delivery" => Len(attempts[i]) \in DOMAIN attempts[i]
  BY <1>1 DEF AttemptsAgree
<1> QED
  BY <1>1, <1>2 DEF AttemptsAgree, Reached, Beside

(* Late receipts, retries, reports, sweeps and activations in any order    *)
(* leave the attempts in agreement with the invitation.                    *)
THEOREM AttemptsFollow == Spec => []DeliveryAgreement
<1>1. Init => AttemptsInv
  BY DEF Init, NoInvitation, AttemptsInv, AttemptsAgree, Reached
<1> QED
  BY <1>1, TypeCorrect, AttemptsInvStep, AttemptsInvImplies, PTL DEF Spec
=============================================================================

---------------------------- MODULE ProjectBids ----------------------------
(***************************************************************************)
(* A project bid and the customer recommendation published from it.        *)
(*                                                                         *)
(* A crew leader asks for extra work at a stop; a manager drafts a bid for *)
(* it and sends the customer a link.  The link's holder may approve or     *)
(* reject the bid.  When the job belongs to an owner's active provider,    *)
(* sending also publishes version 1 of a recommendation that the signed-in *)
(* customer decides on; a revision supersedes it.  An approved bid is      *)
(* converted into add-ons of the job.                                      *)
(*                                                                         *)
(* Every request is one transaction under the lock of the bid's row, of    *)
(* the recommendation series' row, or both; what interleaves are requests, *)
(* and the pages customers look at while managers revise.  The draft alone *)
(* reads the amendment before it locks anything.  The outbox's dispatchers *)
(* and its managers are those of NotificationOutbox.                       *)
(***************************************************************************)
EXTENDS Naturals, Sequences, FiniteSets, AccessControl

CONSTANTS
    Members,        \* members of the organization
    RoleIn,         \* [Members -> AccessRole]
    Customers,      \* signed-in users with an active portal grant
    Scopes,         \* line items and message of a bid
    Keys,           \* idempotency keys
    MaxVersions,    \* bound on published versions
    MaxLinks,       \* bound on share tokens of the bid
    None            \* nothing, no page open

ASSUME BidAssumption ==
    /\ RoleIn \in [Members -> AccessRole]
    /\ MaxVersions \in Nat \ {0} /\ MaxLinks \in Nat \ {0}
    /\ None \notin Scopes

VARIABLES
    amendment,  \* status of the day plan amendment that asks for the work
    drafting,   \* scopes whose draft read the amendment and is not yet saved
    bid,        \* the project_bids row of the amendment
    visit,      \* the job was released to an owner's active provider, once and
                \* for all: it has a visit thread and a relationship
    series,     \* lifecycle_status of the recommendation series
    published,  \* its immutable publications, by version
    lapsed,     \* the newest publication has expired
    decisions,  \* its immutable decisions
    extra,      \* add-ons of the job, and how often its minutes were extended
    waiting,    \* links of notifications that are queued, failed or sending
    page,       \* the link and scope that the link's holder looks at
    screen,     \* the version that the signed-in customer looks at
    gone,       \* history: links that were revoked or have expired
    answered    \* history: the scope on the page of the answer

bidVars == <<amendment, drafting, bid>>
seriesVars == <<series, published, lapsed, decisions>>
pageVars == <<page, screen>>
bidHistory == <<gone, answered>>
bidsVars == <<bidVars, visit, seriesVars, extra, waiting, pageVars, bidHistory>>

-----------------------------------------------------------------------------
AmendmentStatus == {"submitted", "bid_review", "approved", "rejected"}
BidStatus == {"none", "draft", "sent", "approved", "rejected", "converted"}
SeriesStatus == {"draft", "pending", "approved", "declined",
                 "revision_requested", "expired", "withdrawn"}
Links == 1..MaxLinks

\* link: share_token, 0 before the first; expired: share_expires_at has come.
\* outlives: the link was renewed after the publication and expires later.
Bid == [status : BidStatus, scope : Scopes \cup {None}, link : 0..MaxLinks,
        expired : BOOLEAN, revoked : BOOLEAN, outlives : BOOLEAN]
Publication == [scope : Scopes, by : Members, key : Keys]
CustomerAction == {"approve", "decline", "request_revision"}
Decision == [version : 1..MaxVersions, action : CustomerAction,
             by : Customers, key : Keys]

BidsTypeOK ==
    /\ amendment \in AmendmentStatus
    /\ drafting \subseteq Scopes
    /\ bid \in Bid
    /\ visit \in BOOLEAN
    /\ series \in SeriesStatus
    /\ published \in Seq(Publication) /\ Len(published) <= MaxVersions
    /\ lapsed \in BOOLEAN
    /\ decisions \subseteq Decision
    /\ extra \in [addOns : Scopes \cup {None}, extended : 0..2]
    /\ waiting \subseteq Links
    /\ page \in [link : Links, scope : Scopes] \cup {None}
    /\ screen \in 0..MaxVersions
    /\ gone \in [Links -> {"no", "revoked", "expired"}]
    /\ answered \in Scopes \cup {None}

BidsInit ==
    /\ amendment = "submitted" /\ drafting = {}
    /\ bid = [status |-> "none", scope |-> None, link |-> 0,
              expired |-> FALSE, revoked |-> FALSE, outlives |-> FALSE]
    /\ visit \in BOOLEAN
    /\ series = "draft" /\ published = <<>> /\ lapsed = FALSE /\ decisions = {}
    /\ extra = [addOns |-> None, extended |-> 0]
    /\ waiting = {} /\ page = None /\ screen = 0
    /\ gone = [link \in Links |-> "no"] /\ answered = None

Version == Len(published)
manager(u) == can_manage_schedule(RoleIn[u])

-----------------------------------------------------------------------------
(* The amendment and the draft.                                            *)

\* The amendment asks for a bid; a manager may close it at any time, also
\* under a bid that was sent.
ReviewAmendment(status) ==
    /\ amendment \in {"submitted", "bid_review"}
    /\ status \in {"bid_review", "approved", "rejected"}
    /\ amendment' = status
    /\ UNCHANGED <<drafting, bid, visit, seriesVars, extra, waiting, pageVars,
                   bidHistory>>
review_day_plan_amendment(u, status) == manager(u) /\ ReviewAmendment(status)

BeginDraft(scope) ==
    /\ amendment = "bid_review"
    /\ drafting' = drafting \cup {scope}
    /\ UNCHANGED <<amendment, bid, visit, seriesVars, extra, waiting, pageVars,
                   bidHistory>>
save_project_bid_draft(u, scope) == manager(u) /\ BeginDraft(scope)

\* Mutant: the upsert replaces the scope whatever the bid's status.
SaveDraft_AnyStatus(scope) ==
    /\ scope \in drafting
    /\ drafting' = drafting \ {scope}
    /\ bid' = [bid EXCEPT !.scope = scope, !.status = IF @ = "none" THEN "draft" ELSE @]
    /\ UNCHANGED <<amendment, visit, seriesVars, extra, waiting, pageVars, bidHistory>>

\* The upsert: one bid per amendment, replaced as long as it is a draft.
SaveDraft(scope) ==
    /\ scope \in drafting
    /\ drafting' = drafting \ {scope}
    /\ bid' = IF bid.status \in {"none", "draft"}
              THEN [bid EXCEPT !.status = "draft", !.scope = scope] ELSE bid
    /\ UNCHANGED <<amendment, visit, seriesVars, extra, waiting, pageVars, bidHistory>>

-----------------------------------------------------------------------------
(* Sending, revising and revoking.  The customer's preferences allow the   *)
(* channel, or nothing happens.                                            *)

\* A link that never was, was revoked or has expired is replaced; a live one
\* is kept and gets seven more days.
Linked(row) ==
    [row EXCEPT !.link = IF row.link = 0 \/ row.revoked \/ row.expired
                         THEN row.link + 1 ELSE @,
                !.expired = FALSE, !.revoked = FALSE, !.outlives = Version > 0]

NewVersion(u, key, scope) ==
    /\ published' = Append(published, [scope |-> scope, by |-> u, key |-> key])
    /\ series' = "pending" /\ lapsed' = FALSE
    /\ UNCHANGED decisions

\* A publication of this user under this key: a replay or a conflict, and
\* nothing changes either way.
Known(u, key) ==
    \E v \in 1..Version : published[v].by = u /\ published[v].key = key

\* The exact chain from the bid to an active relationship's visit.
Publishable == visit /\ amendment = "bid_review"

\* Sending again a bid that was published changes nothing.
PublishFirst(u, key) ==
    IF Publishable
    THEN /\ ~Known(u, key) /\ Version = 0 /\ series = "draft"
         /\ NewVersion(u, key, bid.scope)
    ELSE UNCHANGED seriesVars

Send(u, key) ==
    /\ bid.status \in {"draft", "sent"}
    /\ LET row == [Linked(bid) EXCEPT !.status = "sent"]
       IN  /\ row.link \in Links
           /\ bid' = row
           /\ waiting' = waiting \cup {row.link}
    /\ PublishFirst(u, key)
    /\ UNCHANGED <<amendment, drafting, visit, extra, pageVars, bidHistory>>
send_project_bid(u, key) == manager(u) /\ Send(u, key)

\* The new version takes the place of the one before, and the notifications
\* of the bid that are not sent yet give way to a new one.
Rewritten(scope) == [Linked(bid) EXCEPT !.scope = scope, !.outlives = FALSE]
RequeueNotification == waiting' = {bid'.link}

\* Mutant: an approved recommendation can be revised.
Revise_Approved(u, key, version, scope) ==
    /\ ~Known(u, key)
    /\ bid.status = "sent" /\ Version > 0
    /\ version = Version /\ Version < MaxVersions
    /\ series \in {"pending", "revision_requested", "approved"}
    /\ scope # published[Version].scope
    /\ Rewritten(scope).link \in Links
    /\ bid' = Rewritten(scope)
    /\ RequeueNotification
    /\ NewVersion(u, key, scope)
    /\ UNCHANGED <<amendment, drafting, visit, extra, pageVars, bidHistory>>

\* version: the one the manager revises.
Revisable(u, key, version, scope) ==
    /\ ~Known(u, key)
    /\ bid.status = "sent" /\ Version > 0
    /\ version = Version /\ Version < MaxVersions
    /\ series \in {"pending", "revision_requested"}
    /\ scope # published[Version].scope

Revise(u, key, version, scope) ==
    /\ Revisable(u, key, version, scope)
    /\ Rewritten(scope).link \in Links
    /\ bid' = Rewritten(scope)
    /\ NewVersion(u, key, scope)
    /\ RequeueNotification
    /\ UNCHANGED <<amendment, drafting, visit, extra, pageVars, bidHistory>>
revise_project_bid(u, key, version, scope) ==
    manager(u) /\ Revise(u, key, version, scope)

\* Mutant: the notifications are left in the queue.
Revoke_KeepsQueue ==
    /\ bid.status = "sent" /\ ~bid.revoked
    /\ bid' = [bid EXCEPT !.revoked = TRUE]
    /\ gone' = [gone EXCEPT ![bid.link] = "revoked"]
    /\ UNCHANGED <<amendment, drafting, visit, seriesVars, extra, waiting,
                   pageVars, answered>>

\* The recommendation stays pending: the signed-in customer may still decide.
Revoke ==
    /\ bid.status = "sent" /\ ~bid.revoked
    /\ bid' = [bid EXCEPT !.revoked = TRUE]
    /\ waiting' = {}
    /\ gone' = [gone EXCEPT ![bid.link] = "revoked"]
    /\ UNCHANGED <<amendment, drafting, visit, seriesVars, extra, pageVars, answered>>
revoke_project_bid(u) == manager(u) /\ Revoke

-----------------------------------------------------------------------------
(* The link's holder.                                                      *)

Reachable == bid.link > 0 /\ ~bid.expired /\ ~bid.revoked

OpenLink ==
    /\ bid.status \in {"sent", "approved", "rejected", "converted"} /\ Reachable
    /\ page' = [link |-> bid.link, scope |-> bid.scope]
    /\ UNCHANGED <<bidVars, visit, seriesVars, extra, waiting, screen, bidHistory>>
get_shared_project_bid == OpenLink

\* Mutant: the recommendation is not closed with the bid.
DecideShared_KeepsSeries(status) ==
    /\ page # None /\ page.link = bid.link
    /\ bid.status = "sent" /\ Reachable
    /\ bid' = [bid EXCEPT !.status = status]
    /\ answered' = page.scope
    /\ UNCHANGED <<amendment, drafting, visit, seriesVars, extra, waiting, pageVars, gone>>

\* The request names the link and the answer, no version.  A recommendation
\* that is pending is withdrawn with it.
DecideShared(status) ==
    /\ page # None /\ page.link = bid.link
    /\ bid.status = "sent" /\ Reachable
    /\ bid' = [bid EXCEPT !.status = status]
    /\ series' = IF series = "pending" THEN "withdrawn" ELSE series
    /\ answered' = page.scope
    /\ UNCHANGED <<amendment, drafting, visit, published, lapsed, decisions, extra,
                   waiting, pageVars, gone>>
decide_shared_project_bid(status) ==
    status \in {"approved", "rejected"} /\ DecideShared(status)

-----------------------------------------------------------------------------
(* The signed-in customer.                                                 *)

\* Reading the recommendation records that it has expired.
ReconcileExpiration ==
    series' = IF series = "pending" /\ lapsed THEN "expired" ELSE series

ListRecommendations ==
    /\ visit
    /\ ReconcileExpiration
    /\ UNCHANGED <<bidVars, visit, published, lapsed, decisions, extra, waiting,
                   pageVars, bidHistory>>
list_customer_visit_recommendations == ListRecommendations

OpenRecommendation ==
    /\ visit /\ Version > 0
    /\ ReconcileExpiration
    /\ screen' = Version
    /\ UNCHANGED <<bidVars, visit, published, lapsed, decisions, extra, waiting,
                   page, bidHistory>>
get_customer_visit_recommendation == OpenRecommendation

\* A known key is a replay or a conflict.  The expiry that a refused request
\* notices is rolled back with it.
Decide(c, key, action) ==
    /\ visit /\ screen > 0
    /\ ~\E d \in decisions : d.by = c /\ d.key = key
    /\ screen = Version
    /\ series = "pending" /\ ~lapsed
    /\ decisions' = decisions \cup
         {[version |-> screen, action |-> action, by |-> c, key |-> key]}
    /\ series' = CASE action = "approve" -> "approved"
                   [] action = "decline" -> "declined"
                   [] OTHER -> "revision_requested"
    /\ UNCHANGED <<bidVars, visit, published, lapsed, extra, waiting, pageVars, bidHistory>>
decide_customer_visit_recommendation(c, key, action) == Decide(c, key, action)

-----------------------------------------------------------------------------
(* Conversion, and what happens around it.                                 *)

\* Line items that have an add-on are skipped; only the request that creates
\* the conversion's row extends the stop.
Convert ==
    /\ bid.status \in {"approved", "converted"}
    /\ extra' = [addOns |-> IF extra.addOns = None THEN bid.scope ELSE extra.addOns,
               extended |-> IF extra.addOns = None THEN extra.extended + 1
                            ELSE extra.extended]
    /\ bid' = [bid EXCEPT !.status = "converted"]
    /\ amendment' = "approved"
    /\ UNCHANGED <<drafting, visit, seriesVars, waiting, pageVars, bidHistory>>
convert_project_bid(u) == manager(u) /\ Convert

\* Seven days pass since the link, and since the publication.
LinkExpires ==
    /\ bid.link > 0 /\ ~bid.expired
    /\ bid' = [bid EXCEPT !.expired = TRUE]
    /\ lapsed' = (Version > 0)
    /\ gone' = [gone EXCEPT ![bid.link] = IF @ = "no" THEN "expired" ELSE @]
    /\ UNCHANGED <<amendment, drafting, visit, series, published, decisions, extra,
                   waiting, pageVars, answered>>

PublicationLapses ==
    /\ bid.outlives /\ ~lapsed
    /\ lapsed' = TRUE
    /\ UNCHANGED <<bidVars, visit, series, published, decisions, extra, waiting,
                   pageVars, bidHistory>>

\* A dispatcher sends the notification, or gives it up.
Dispatched(link) ==
    /\ link \in waiting
    /\ waiting' = waiting \ {link}
    /\ UNCHANGED <<bidVars, visit, seriesVars, extra, pageVars, bidHistory>>

-----------------------------------------------------------------------------
ManagerStep(u) ==
    \/ \E status \in AmendmentStatus : review_day_plan_amendment(u, status)
    \/ \E scope \in Scopes : save_project_bid_draft(u, scope)
    \/ \E key \in Keys : send_project_bid(u, key)
    \/ \E key \in Keys, v \in 1..MaxVersions, scope \in Scopes :
         revise_project_bid(u, key, v, scope)
    \/ revoke_project_bid(u) \/ convert_project_bid(u)

CustomerStep ==
    \/ get_shared_project_bid \/ list_customer_visit_recommendations
    \/ get_customer_visit_recommendation
    \/ \E status \in BidStatus : decide_shared_project_bid(status)
    \/ \E c \in Customers, key \in Keys, action \in CustomerAction :
         decide_customer_visit_recommendation(c, key, action)

BidsNext ==
    \/ \E u \in Members : ManagerStep(u)
    \/ \E scope \in Scopes : SaveDraft(scope)
    \/ CustomerStep
    \/ LinkExpires \/ PublicationLapses
    \/ \E link \in Links : Dispatched(link)

BidsSpec == BidsInit /\ [][BidsNext]_bidsVars

-----------------------------------------------------------------------------
(* Properties.                                                             *)

Answers == {"approved", "rejected", "converted"}

\* An answer is final: no draft, send, revision or second answer that was
\* under way changes what was answered, and an approved bid goes on to be
\* converted only.
AnswerIsFinal ==
    [][bid.status \in Answers =>
         /\ bid'.scope = bid.scope
         /\ \/ bid'.status = bid.status
            \/ bid.status = "approved" /\ bid'.status = "converted"]_bidsVars

\* The two ways to answer do not drift apart: once the link's holder has
\* answered, the signed-in customer is not asked any more, in whatever order
\* the bid was sent, revised, revoked and sent again.
AnswerClosesRecommendation == bid.status \in Answers => series # "pending"

\* A customer's approval or refusal is about the newest version, and no
\* version is published after it; an earlier version has no decision but a
\* request for the revision that followed it.
DecidedVersionIsLast ==
    \A d \in decisions :
        \/ d.version = Version
        \/ d.version < Version /\ d.action = "request_revision"

\* A notification in the queue carries the bid's link, or one that has run out
\* since; never a link that was revoked.
WaitingLinkIsCurrent ==
    \A link \in waiting :
        /\ gone[link] # "revoked"
        /\ link = bid.link \/ gone[link] = "expired"

-----------------------------------------------------------------------------
(* What the documentation says and the code does not keep.                 *)

\* "An approval authorizes only the exact displayed one-time scope and total":
\* what is approved is what the approver's page showed.
ApprovedAsDisplayed ==
    bid.status \in {"approved", "converted"} => answered = bid.scope
=============================================================================

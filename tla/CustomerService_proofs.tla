----------------------- MODULE CustomerService_proofs -----------------------
(***************************************************************************)
(* TLAPS proofs about what a customer is shown and decides on: the project *)
(* bids, the completion report, and the changes that the crew's phone      *)
(* saves and sends again.                                                  *)
(***************************************************************************)
EXTENDS CustomerService, FiniteSetTheorems, TLAPS

-----------------------------------------------------------------------------
(* Project bids: what the statuses of a bid say about its other columns.   *)

\* A bid that exists has a scope, one that was sent has a link, and the add-ons
\* of a conversion are made once.
BidColumns ==
    /\ bid.status # "none" => bid.scope \in Scopes
    /\ bid.status \in {"none", "draft"} <=> bid.link = 0
    /\ extra.extended = IF extra.addOns = None THEN 0 ELSE 1

\* What history says of the current link is what its row says, and of links
\* that were not made yet it says nothing.
LinkHistory ==
    /\ \A link \in Links : link > bid.link => gone[link] = "no"
    /\ bid.link > 0 =>
         /\ bid.revoked <=> gone[bid.link] = "revoked"
         /\ ~bid.revoked => (bid.expired <=> gone[bid.link] = "expired")

\* The decision on the newest version is what the series says.
OutcomeOf(action) ==
    CASE action = "approve" -> "approved"
      [] action = "decline" -> "declined"
      [] OTHER -> "revision_requested"
SeriesFollowsDecision ==
    \A d \in decisions : d.version = Version => series = OutcomeOf(d.action)

BidsInv ==
    /\ BidsTypeOK /\ BidColumns
    /\ AnswerClosesRecommendation
    /\ DecidedVersionIsLast /\ SeriesFollowsDecision
    /\ WaitingLinkIsCurrent /\ LinkHistory

-----------------------------------------------------------------------------
(* Types.                                                                  *)
LEMMA FirstScopes == None \notin Scopes
BY BidAssumption

LEMMA BidsStart == BidsInit => BidsInv
<1> SUFFICES ASSUME BidsInit PROVE BidsInv
  OBVIOUS
<1>1. 0 \in 0..MaxLinks /\ 0 \in 0..MaxVersions /\ 0 \in 0..2
  BY BidAssumption
<1>2. BidsTypeOK
  <2>1. bid \in Bid
    BY <1>1 DEF BidsInit, Bid, BidStatus
  <2>2. published \in Seq(Publication) /\ Len(published) <= MaxVersions
    BY BidAssumption DEF BidsInit
  <2>3. extra \in [addOns : Scopes \cup {None}, extended : 0..2]
    BY <1>1 DEF BidsInit
  <2> QED
    BY <1>1, <2>1, <2>2, <2>3
    DEF BidsInit, BidsTypeOK, AmendmentStatus, SeriesStatus
<1>3. BidColumns /\ AnswerClosesRecommendation /\ LinkHistory
  BY DEF BidsInit, BidColumns, AnswerClosesRecommendation, LinkHistory, Answers
<1>4. DecidedVersionIsLast /\ SeriesFollowsDecision /\ WaitingLinkIsCurrent
  BY DEF BidsInit, DecidedVersionIsLast, SeriesFollowsDecision,
         WaitingLinkIsCurrent
<1> QED
  BY <1>2, <1>3, <1>4 DEF BidsInv

(* The steps of bids, with what every member may do at most.               *)
BidsMoves ==
    \/ \E status \in AmendmentStatus : ReviewAmendment(status)
    \/ \E scope \in Scopes : BeginDraft(scope) \/ SaveDraft(scope)
    \/ \E u \in Members, key \in Keys : Send(u, key)
    \/ \E u \in Members, key \in Keys, v \in 1..MaxVersions, scope \in Scopes :
         Revise(u, key, v, scope)
    \/ Revoke \/ Convert
    \/ OpenLink \/ ListRecommendations \/ OpenRecommendation
    \/ \E status \in {"approved", "rejected"} : DecideShared(status)
    \/ \E c \in Customers, key \in Keys, action \in CustomerAction :
         Decide(c, key, action)
    \/ LinkExpires \/ PublicationLapses
    \/ \E link \in Links : Dispatched(link)

LEMMA BidsNextMoves == BidsNext => BidsMoves
BY DEF BidsNext, BidsMoves, ManagerStep, CustomerStep, review_day_plan_amendment,
       save_project_bid_draft, send_project_bid, revise_project_bid,
       revoke_project_bid, convert_project_bid, get_shared_project_bid,
       list_customer_visit_recommendations, get_customer_visit_recommendation,
       decide_shared_project_bid, decide_customer_visit_recommendation

(* A bid as Send or Revise writes it: the link is current and it was not   *)
(* revoked.                                                                *)
LinkedTo(row, link) ==
    /\ link = IF bid.link = 0 \/ bid.revoked \/ bid.expired THEN bid.link + 1
              ELSE bid.link
    /\ row.link = link /\ link \in Links
    /\ row.expired = FALSE /\ row.revoked = FALSE

LEMMA LinkedFields ==
    ASSUME BidsTypeOK
    PROVE  /\ Linked(bid).link = IF bid.link = 0 \/ bid.revoked \/ bid.expired
                                 THEN bid.link + 1 ELSE bid.link
           /\ Linked(bid).expired = FALSE /\ Linked(bid).revoked = FALSE
           /\ Linked(bid).outlives \in BOOLEAN
           /\ Linked(bid).status = bid.status /\ Linked(bid).scope = bid.scope
           /\ Linked(bid) = [status |-> bid.status, scope |-> bid.scope,
                             link |-> Linked(bid).link, expired |-> FALSE,
                             revoked |-> FALSE, outlives |-> Linked(bid).outlives]
<1> DEFINE link == IF bid.link = 0 \/ bid.revoked \/ bid.expired
                   THEN bid.link + 1 ELSE bid.link
           late == Version > 0
<1>1. bid \in Bid
  BY DEF BidsTypeOK
<1>2. Linked(bid) = [bid EXCEPT !.link = link, !.expired = FALSE,
                                !.revoked = FALSE, !.outlives = late]
  BY Zenon DEF Linked
<1>3. late \in BOOLEAN
  BY DEF BidsTypeOK, Version
<1> HIDE DEF link, late
<1>4. Linked(bid) = [status |-> bid.status, scope |-> bid.scope,
                     link |-> link, expired |-> FALSE,
                     revoked |-> FALSE, outlives |-> late]
  BY <1>1, <1>2 DEF Bid
<1>5. /\ Linked(bid).link = link
      /\ Linked(bid).expired = FALSE /\ Linked(bid).revoked = FALSE
      /\ Linked(bid).outlives = late
      /\ Linked(bid).status = bid.status /\ Linked(bid).scope = bid.scope
  BY <1>4
<1> QED
  BY <1>3, <1>4, <1>5 DEF link

LEMMA SendWrites ==
    ASSUME BidsTypeOK, NEW u, NEW key, Send(u, key)
    PROVE  /\ bid' \in Bid
           /\ bid'.status = "sent" /\ bid'.scope = bid.scope
           /\ LinkedTo(bid', bid'.link)
<1> DEFINE row == [Linked(bid) EXCEPT !.status = "sent"]
<1>1. bid \in Bid /\ bid' = row /\ row.link \in Links
  BY DEF BidsTypeOK, Send
<1>2. row = [status |-> "sent", scope |-> bid.scope,
             link |-> Linked(bid).link, expired |-> FALSE,
             revoked |-> FALSE, outlives |-> Linked(bid).outlives]
  <2> DEFINE r == Linked(bid)
             l == Linked(bid).link
             o == Linked(bid).outlives
  <2>1. r = [status |-> bid.status, scope |-> bid.scope,
             link |-> l, expired |-> FALSE,
             revoked |-> FALSE, outlives |-> o]
    BY LinkedFields
  <2>2. row = [r EXCEPT !.status = "sent"]
    OBVIOUS
  <2> HIDE DEF r, l, o, row
  <2>3. row = [status |-> "sent", scope |-> bid.scope,
               link |-> l, expired |-> FALSE,
               revoked |-> FALSE, outlives |-> o]
    BY <2>1, <2>2
  <2> QED
    BY <2>3 DEF r, l, o
<1> HIDE DEF row
<1>3. Linked(bid).link \in 0..MaxLinks
  BY <1>1, <1>2, BidAssumption DEF Links
<1>4. bid' \in Bid
  BY <1>1, <1>2, <1>3, LinkedFields DEF Bid, BidStatus
<1> QED
  BY <1>1, <1>2, <1>4, LinkedFields DEF LinkedTo

LEMMA ReviseWrites ==
    ASSUME BidsTypeOK, NEW u, NEW key, NEW v, NEW scope \in Scopes,
           Revise(u, key, v, scope)
    PROVE  /\ bid' \in Bid
           /\ bid'.status = "sent" /\ bid'.scope = scope
           /\ LinkedTo(bid', bid'.link)
<1>1. bid \in Bid /\ bid' = Rewritten(scope) /\ Rewritten(scope).link \in Links
      /\ bid.status = "sent"
  BY DEF BidsTypeOK, Revise, Revisable
<1>2. Rewritten(scope) = [status |-> bid.status, scope |-> scope,
             link |-> Linked(bid).link, expired |-> FALSE,
             revoked |-> FALSE, outlives |-> FALSE]
  <2> DEFINE r == Linked(bid)
             l == Linked(bid).link
             o == Linked(bid).outlives
  <2>1. r = [status |-> bid.status, scope |-> bid.scope,
             link |-> l, expired |-> FALSE,
             revoked |-> FALSE, outlives |-> o]
    BY LinkedFields
  <2>2. Rewritten(scope) = [r EXCEPT !.scope = scope, !.outlives = FALSE]
    BY DEF Rewritten
  <2> HIDE DEF r, l, o
  <2>3. Rewritten(scope) = [status |-> bid.status, scope |-> scope,
               link |-> l, expired |-> FALSE,
               revoked |-> FALSE, outlives |-> FALSE]
    BY <2>1, <2>2
  <2> QED
    BY <2>3 DEF r, l, o
<1>3. Linked(bid).link \in 0..MaxLinks
  BY <1>1, <1>2, BidAssumption DEF Links
<1>4. bid' \in Bid
  BY <1>1, <1>2, <1>3 DEF Bid
<1> QED
  BY <1>1, <1>2, <1>4, LinkedFields DEF LinkedTo

LEMMA Publishes ==
    ASSUME BidsTypeOK, NEW u \in Members, NEW key \in Keys, NEW scope \in Scopes,
           NewVersion(u, key, scope), Version < MaxVersions
    PROVE  /\ published' \in Seq(Publication)
           /\ Version' = Version + 1 /\ Version' <= MaxVersions
           /\ series' = "pending" /\ lapsed' = FALSE /\ decisions' = decisions
<1>1. [scope |-> scope, by |-> u, key |-> key] \in Publication
  BY DEF Publication
<1>2. Version \in Nat /\ published \in Seq(Publication)
  BY DEF BidsTypeOK, Version
<1>3. Len(published') = Len(published) + 1 /\ published' \in Seq(Publication)
  BY <1>1, <1>2 DEF NewVersion
<1>4. Version' = Version + 1
  BY <1>3 DEF Version
<1> QED
  BY <1>2, <1>3, <1>4, BidAssumption DEF NewVersion

-----------------------------------------------------------------------------
(* What the conjuncts of the invariant need of a step.                     *)
LEMMA PendingIsOpen ==
    ASSUME BidsTypeOK, SeriesFollowsDecision, series = "pending",
           NEW d \in decisions
    PROVE  d.version # Version
<1>1. OutcomeOf(d.action) # "pending"
  BY DEF OutcomeOf
<1> QED
  BY <1>1 DEF SeriesFollowsDecision

LEMMA DecisionsKept ==
    ASSUME BidsTypeOK, DecidedVersionIsLast, SeriesFollowsDecision,
           UNCHANGED <<published, decisions>>,
           series' = series \/ series = "pending"
    PROVE  DecidedVersionIsLast' /\ SeriesFollowsDecision'
<1>1. Version' = Version
  BY DEF Version
<1>2. DecidedVersionIsLast'
  BY <1>1 DEF DecidedVersionIsLast
<1>3. SeriesFollowsDecision'
  BY <1>1, PendingIsOpen DEF SeriesFollowsDecision
<1> QED
  BY <1>2, <1>3

LEMMA LinksKept ==
    ASSUME BidsTypeOK, WaitingLinkIsCurrent, LinkHistory,
           bid'.link = bid.link, bid'.revoked = bid.revoked,
           bid'.expired = bid.expired, UNCHANGED gone, waiting' \subseteq waiting
    PROVE  WaitingLinkIsCurrent' /\ LinkHistory'
<1>1. LinkHistory'
  BY DEF LinkHistory
<1>2. WaitingLinkIsCurrent'
  BY DEF WaitingLinkIsCurrent
<1> QED
  BY <1>1, <1>2

(* A bid that is sent or revised carries a link that was neither revoked   *)
(* nor has expired; notifications of the old one may remain if it has.     *)
LEMMA LinkedKeeps ==
    ASSUME BidsTypeOK, WaitingLinkIsCurrent, LinkHistory,
           LinkedTo(bid', bid'.link), UNCHANGED gone,
           waiting' \subseteq waiting \cup {bid'.link}
    PROVE  WaitingLinkIsCurrent' /\ LinkHistory'
<1> DEFINE old == bid.link
           new == bid'.link
<1>1. /\ old \in Nat /\ new \in Links /\ Links \subseteq Nat /\ old <= MaxLinks
      /\ new = IF old = 0 \/ bid.revoked \/ bid.expired THEN old + 1 ELSE old
      /\ bid.revoked \in BOOLEAN /\ bid.expired \in BOOLEAN
      /\ bid'.revoked = FALSE /\ bid'.expired = FALSE
      /\ \A link \in Links : gone[link] \in {"no", "revoked", "expired"}
      /\ waiting \subseteq Links
  BY BidAssumption DEF LinkedTo, BidsTypeOK, Bid, Links
<1>2. /\ \A link \in Links : link > old => gone[link] = "no"
      /\ old > 0 => /\ bid.revoked <=> gone[old] = "revoked"
                    /\ ~bid.revoked => (bid.expired <=> gone[old] = "expired")
  BY DEF LinkHistory
<1>3. \A link \in waiting : gone[link] # "revoked"
                            /\ (link = old \/ gone[link] = "expired")
  BY DEF WaitingLinkIsCurrent
<1> HIDE DEF old, new
<1>4. gone[new] = "no"
  <2>1. CASE old = 0 \/ bid.revoked \/ bid.expired
    <3>1. new = old + 1 /\ new > old
      BY <1>1, <2>1
    <3> QED
      BY <1>1, <1>2, <3>1
  <2>2. CASE ~(old = 0 \/ bid.revoked \/ bid.expired)
    <3>1. new = old /\ old > 0 /\ old \in Links
      BY <1>1, <2>2
    <3> QED
      BY <1>1, <1>2, <2>2, <3>1
  <2> QED
    BY <2>1, <2>2
<1>5. \A link \in Links : link > new => gone[link] = "no"
  <2>1. new >= old
    BY <1>1
  <2> QED
    BY <1>1, <1>2, <2>1
<1>6. LinkHistory'
  BY <1>1, <1>4, <1>5 DEF LinkHistory, new, Links
<1>7. ASSUME NEW link \in waiting'
      PROVE  /\ gone[link] # "revoked"
             /\ link = new \/ gone[link] = "expired"
  <2>1. CASE link = new
    BY <1>4, <2>1
  <2>2. CASE link # new
    <3>1. link \in waiting
      BY <2>2 DEF new
    <3>2. gone[link] # "revoked" /\ (link = old \/ gone[link] = "expired")
      BY <1>3, <3>1
    <3>3. CASE link = old
      <4>0. old \in Links
        BY <1>1, <3>1, <3>3
      <4>1. old > 0 /\ (bid.revoked \/ bid.expired)
        BY <1>1, <2>2, <3>3, <4>0, BidAssumption DEF Links
      <4> QED
        BY <1>1, <1>2, <3>2, <3>3, <4>1
    <3> QED
      BY <3>2, <3>3
  <2> QED
    BY <2>1, <2>2
<1>8. WaitingLinkIsCurrent'
  BY <1>7 DEF WaitingLinkIsCurrent, new
<1> QED
  BY <1>6, <1>8

(* A version is only published when no one decided on the one before but   *)
(* to ask for a revision.                                                  *)
LEMMA PublishingKeeps ==
    ASSUME BidsTypeOK, DecidedVersionIsLast, SeriesFollowsDecision,
           Version' = Version + 1, UNCHANGED decisions,
           series \in {"draft", "pending", "revision_requested"}
    PROVE  DecidedVersionIsLast' /\ SeriesFollowsDecision'
<1>1. Version \in Nat
  BY DEF Version, BidsTypeOK
<1>2. ASSUME NEW d \in decisions
      PROVE  /\ d.version \in Nat /\ d.version <= Version
             /\ d.version = Version => d.action = "request_revision"
             /\ d.version < Version => d.action = "request_revision"
  <2>1. d \in Decision
    BY DEF BidsTypeOK
  <2>2. d.version \in Nat /\ d.action \in CustomerAction
    BY <2>1, BidAssumption DEF Decision
  <2>3. d.version = Version => series = OutcomeOf(d.action)
    BY DEF SeriesFollowsDecision
  <2>4. d.version = Version => d.action = "request_revision"
    BY <2>2, <2>3 DEF OutcomeOf, CustomerAction
  <2>5. d.version = Version \/ (d.version < Version /\ d.action = "request_revision")
    BY DEF DecidedVersionIsLast
  <2> QED
    BY <1>1, <2>2, <2>4, <2>5
<1>3. DecidedVersionIsLast'
  BY <1>1, <1>2 DEF DecidedVersionIsLast
<1>4. SeriesFollowsDecision'
  BY <1>1, <1>2 DEF SeriesFollowsDecision
<1> QED
  BY <1>3, <1>4

-----------------------------------------------------------------------------
(* Managers.                                                               *)
LEMMA DraftKeeps ==
    ASSUME BidsInv,
           \/ \E status \in AmendmentStatus : ReviewAmendment(status)
           \/ \E scope \in Scopes : BeginDraft(scope) \/ SaveDraft(scope)
    PROVE  BidsInv'
<1>0. bid \in Bid /\ BidsTypeOK
  BY DEF BidsInv, BidsTypeOK
<1>1. /\ UNCHANGED <<visit, seriesVars, extra, waiting, pageVars, bidHistory>>
      /\ amendment' \in AmendmentStatus /\ drafting' \subseteq Scopes
  BY <1>0 DEF ReviewAmendment, BeginDraft, SaveDraft, BidsTypeOK, AmendmentStatus
<1>2. /\ bid' \in Bid
      /\ bid'.link = bid.link /\ bid'.revoked = bid.revoked
      /\ bid'.expired = bid.expired
      /\ \/ bid' = bid
         \/ /\ bid.status \in {"none", "draft"} /\ bid'.status = "draft"
            /\ bid'.scope \in Scopes
  <2>1. CASE UNCHANGED bid
    BY <1>0, <2>1
  <2>2. ASSUME NEW scope \in Scopes, SaveDraft(scope), bid' # bid
        PROVE  <1>2
    <3>1. /\ bid.status \in {"none", "draft"}
          /\ bid' = [bid EXCEPT !.status = "draft", !.scope = scope]
      BY <2>2 DEF SaveDraft
    <3> QED
      BY <1>0, <3>1 DEF Bid, BidStatus
  <2> QED
    BY <2>1, <2>2 DEF ReviewAmendment, BeginDraft
<1>3. BidsTypeOK'
  BY <1>0, <1>1, <1>2
  DEF BidsTypeOK, seriesVars, pageVars, bidHistory, Version
<1>4. BidColumns' /\ AnswerClosesRecommendation'
  BY <1>1, <1>2 DEF BidsInv, BidColumns, AnswerClosesRecommendation, Answers,
     seriesVars
<1>5. DecidedVersionIsLast' /\ SeriesFollowsDecision'
  BY <1>1, DecisionsKept DEF BidsInv, seriesVars
<1>6. WaitingLinkIsCurrent' /\ LinkHistory'
  BY <1>1, <1>2, LinksKept DEF BidsInv, bidHistory
<1> QED
  BY <1>3, <1>4, <1>5, <1>6 DEF BidsInv

LEMMA SendKeeps ==
    ASSUME BidsInv, NEW u \in Members, NEW key \in Keys, Send(u, key)
    PROVE  BidsInv'
<1>0. bid \in Bid /\ BidsTypeOK /\ bid.scope \in Scopes
  BY DEF BidsInv, BidsTypeOK, BidColumns, Send
<1>1. /\ bid' \in Bid /\ bid'.status = "sent" /\ bid'.scope \in Scopes
      /\ LinkedTo(bid', bid'.link)
  BY <1>0, SendWrites
<1>2. /\ UNCHANGED <<amendment, drafting, visit, extra, pageVars, bidHistory>>
      /\ waiting' = waiting \cup {bid'.link} /\ bid'.link \in Links
  BY <1>1 DEF Send, LinkedTo
<1>3. \/ UNCHANGED seriesVars
      \/ /\ Version = 0 /\ series = "draft"
         /\ NewVersion(u, key, bid.scope)
  BY DEF Send, PublishFirst
<1>4. /\ published' \in Seq(Publication) /\ Len(published') <= MaxVersions
      /\ series' \in SeriesStatus /\ lapsed' \in BOOLEAN
      /\ decisions' = decisions
      /\ DecidedVersionIsLast' /\ SeriesFollowsDecision'
  <2>1. CASE UNCHANGED seriesVars
    BY <1>0, <2>1, DecisionsKept DEF BidsInv, BidsTypeOK, seriesVars
  <2>2. CASE Version = 0 /\ series = "draft" /\ NewVersion(u, key, bid.scope)
    <3>1. Version < MaxVersions
      BY <2>2, BidAssumption
    <3>2. /\ published' \in Seq(Publication)
          /\ Version' = Version + 1 /\ Version' <= MaxVersions
          /\ series' = "pending" /\ lapsed' = FALSE /\ decisions' = decisions
      BY <1>0, <2>2, <3>1, Publishes
    <3>3. DecidedVersionIsLast' /\ SeriesFollowsDecision'
      BY <2>2, <3>2, PublishingKeeps DEF BidsInv
    <3> QED
      BY <3>2, <3>3 DEF Version, SeriesStatus
  <2> QED
    BY <1>3, <2>1, <2>2
<1>5. BidsTypeOK'
  BY <1>0, <1>1, <1>2, <1>4 DEF BidsTypeOK, pageVars, bidHistory
<1>6. BidColumns' /\ AnswerClosesRecommendation'
  <2>1. bid'.link # 0
    BY <1>2, BidAssumption DEF Links
  <2> QED
    BY <1>1, <1>2, <2>1
    DEF BidsInv, BidColumns, AnswerClosesRecommendation, Answers
<1>7. WaitingLinkIsCurrent' /\ LinkHistory'
  BY <1>1, <1>2, LinkedKeeps DEF BidsInv, bidHistory
<1> QED
  BY <1>4, <1>5, <1>6, <1>7 DEF BidsInv

LEMMA ReviseKeeps ==
    ASSUME BidsInv, NEW u \in Members, NEW key \in Keys, NEW v \in 1..MaxVersions,
           NEW scope \in Scopes, Revise(u, key, v, scope)
    PROVE  BidsInv'
<1>0. bid \in Bid /\ BidsTypeOK
  BY DEF BidsInv, BidsTypeOK
<1>1. /\ bid' \in Bid /\ bid'.status = "sent" /\ bid'.scope \in Scopes
      /\ LinkedTo(bid', bid'.link)
  BY <1>0, ReviseWrites
<1>2. /\ UNCHANGED <<amendment, drafting, visit, extra, pageVars, bidHistory>>
      /\ waiting' = {bid'.link} /\ bid'.link \in Links
  BY <1>1 DEF Revise, RequeueNotification, LinkedTo
<1>3. /\ Version < MaxVersions /\ NewVersion(u, key, scope)
      /\ series \in {"pending", "revision_requested"}
  BY DEF Revise, Revisable
<1>4. /\ published' \in Seq(Publication)
      /\ Version' = Version + 1 /\ Version' <= MaxVersions
      /\ series' = "pending" /\ lapsed' = FALSE /\ decisions' = decisions
  BY <1>0, <1>3, Publishes
<1>5. DecidedVersionIsLast' /\ SeriesFollowsDecision'
  BY <1>3, <1>4, PublishingKeeps DEF BidsInv
<1>6. BidsTypeOK'
  BY <1>0, <1>1, <1>2, <1>4
  DEF BidsTypeOK, pageVars, bidHistory, SeriesStatus, Version
<1>7. BidColumns' /\ AnswerClosesRecommendation'
  <2>1. bid'.link # 0
    BY <1>2, BidAssumption DEF Links
  <2> QED
    BY <1>1, <1>2, <2>1
    DEF BidsInv, BidColumns, AnswerClosesRecommendation, Answers
<1>8. WaitingLinkIsCurrent' /\ LinkHistory'
  BY <1>1, <1>2, LinkedKeeps DEF BidsInv, bidHistory
<1> QED
  BY <1>5, <1>6, <1>7, <1>8 DEF BidsInv

LEMMA RevokeKeeps ==
    ASSUME BidsInv, Revoke
    PROVE  BidsInv'
<1>0. bid \in Bid /\ BidsTypeOK
  BY DEF BidsInv, BidsTypeOK
<1>1. /\ bid.status = "sent" /\ waiting' = {}
      /\ gone' = [gone EXCEPT ![bid.link] = "revoked"]
      /\ UNCHANGED <<amendment, drafting, visit, seriesVars, extra, pageVars, answered>>
  BY DEF Revoke
<1>2. /\ bid' \in Bid /\ bid'.revoked = TRUE /\ bid'.link = bid.link
      /\ bid'.status = bid.status /\ bid'.scope = bid.scope
      /\ bid'.expired = bid.expired
  BY <1>0 DEF Revoke, Bid
<1>3. bid.link \in Links
  <2>1. bid.link # 0 /\ bid.link \in 0..MaxLinks
    BY <1>0, <1>1 DEF BidsInv, BidColumns, Bid
  <2> QED
    BY <2>1, BidAssumption DEF Links
<1>4. BidsTypeOK'
  BY <1>0, <1>1, <1>2, <1>3 DEF BidsTypeOK, seriesVars, pageVars
<1>5. BidColumns' /\ AnswerClosesRecommendation'
  BY <1>1, <1>2 DEF BidsInv, BidColumns, AnswerClosesRecommendation, Answers,
     seriesVars
<1>6. DecidedVersionIsLast' /\ SeriesFollowsDecision'
  BY <1>1, DecisionsKept DEF BidsInv, seriesVars
<1>7. WaitingLinkIsCurrent' /\ LinkHistory'
  <2>1. gone'[bid.link] = "revoked"
    BY <1>0, <1>1, <1>3 DEF BidsTypeOK
  <2>2. \A link \in Links : link > bid.link => gone'[link] = "no"
    <3>1. \A link \in Links : link > bid.link => link # bid.link
      BY <1>3, BidAssumption DEF Links
    <3> QED
      BY <1>0, <1>1, <1>3, <3>1 DEF BidsTypeOK, BidsInv, LinkHistory
  <2>3. LinkHistory'
    BY <1>2, <2>1, <2>2 DEF LinkHistory, Links
  <2> QED
    BY <1>1, <2>3 DEF WaitingLinkIsCurrent
<1> QED
  BY <1>4, <1>5, <1>6, <1>7 DEF BidsInv

LEMMA ConvertKeeps ==
    ASSUME BidsInv, Convert
    PROVE  BidsInv'
<1>0. bid \in Bid /\ BidsTypeOK
  BY DEF BidsInv, BidsTypeOK
<1>1. /\ bid.status \in {"approved", "converted"} /\ amendment' = "approved"
      /\ UNCHANGED <<drafting, visit, seriesVars, waiting, pageVars, bidHistory>>
  BY DEF Convert
<1>2. /\ bid' \in Bid /\ bid'.status = "converted"
      /\ bid'.link = bid.link /\ bid'.scope = bid.scope
      /\ bid'.expired = bid.expired /\ bid'.revoked = bid.revoked
  BY <1>0 DEF Convert, Bid, BidStatus
<1>3. /\ bid.scope \in Scopes /\ bid.scope # None /\ bid.link # 0
      /\ extra.extended = IF extra.addOns = None THEN 0 ELSE 1
      /\ extra.addOns \in Scopes \cup {None}
  BY <1>0, <1>1, FirstScopes DEF BidsInv, BidColumns, BidsTypeOK
<1>4. /\ extra' \in [addOns : Scopes \cup {None}, extended : 0..2]
      /\ extra'.extended = IF extra'.addOns = None THEN 0 ELSE 1
  <2>1. CASE extra.addOns = None
    <3>1. extra' = [addOns |-> bid.scope, extended |-> 1]
      BY <1>3, <2>1 DEF Convert
    <3> QED
      BY <1>3, <3>1
  <2>2. CASE extra.addOns # None
    <3>1. extra' = [addOns |-> extra.addOns, extended |-> 1]
      BY <1>3, <2>2 DEF Convert
    <3> QED
      BY <1>3, <2>2, <3>1
  <2> QED
    BY <2>1, <2>2
<1>5. BidsTypeOK'
  BY <1>0, <1>1, <1>2, <1>4
  DEF BidsTypeOK, seriesVars, pageVars, bidHistory, AmendmentStatus
<1>6. BidColumns' /\ AnswerClosesRecommendation'
  BY <1>1, <1>2, <1>3, <1>4
  DEF BidsInv, BidColumns, AnswerClosesRecommendation, Answers, seriesVars
<1>7. DecidedVersionIsLast' /\ SeriesFollowsDecision'
  BY <1>1, DecisionsKept DEF BidsInv, seriesVars
<1>8. WaitingLinkIsCurrent' /\ LinkHistory'
  BY <1>1, <1>2, LinksKept DEF BidsInv, bidHistory
<1> QED
  BY <1>5, <1>6, <1>7, <1>8 DEF BidsInv

-----------------------------------------------------------------------------
(* Customers, time and the dispatchers.                                    *)
LEMMA OpenKeeps ==
    ASSUME BidsInv, OpenLink
    PROVE  BidsInv'
<1>0. bid \in Bid /\ BidsTypeOK
  BY DEF BidsInv, BidsTypeOK
<1>1. /\ UNCHANGED <<bidVars, visit, seriesVars, extra, waiting, screen, bidHistory>>
      /\ page' = [link |-> bid.link, scope |-> bid.scope]
  BY DEF OpenLink
<1>2. bid.link \in Links /\ bid.scope \in Scopes
  <2>1. bid.status # "none" /\ bid.link > 0 /\ bid.link \in 0..MaxLinks
    BY <1>0 DEF OpenLink, Reachable, Bid
  <2> QED
    BY <2>1, BidAssumption DEF BidsInv, BidColumns, Links
<1>3. BidsTypeOK'
  BY <1>0, <1>1, <1>2 DEF BidsTypeOK, bidVars, seriesVars, bidHistory
<1>4. BidColumns' /\ AnswerClosesRecommendation'
  BY <1>1 DEF BidsInv, BidColumns, AnswerClosesRecommendation, bidVars, seriesVars
<1>5. DecidedVersionIsLast' /\ SeriesFollowsDecision'
  BY <1>1, DecisionsKept DEF BidsInv, seriesVars
<1>6. WaitingLinkIsCurrent' /\ LinkHistory'
  BY <1>1, LinksKept DEF BidsInv, bidVars, bidHistory
<1> QED
  BY <1>3, <1>4, <1>5, <1>6 DEF BidsInv

LEMMA ReadKeeps ==
    ASSUME BidsInv, ListRecommendations \/ OpenRecommendation
    PROVE  BidsInv'
<1>0. BidsTypeOK
  BY DEF BidsInv
<1>1. /\ UNCHANGED <<bidVars, visit, published, lapsed, decisions, extra, waiting,
                     page, bidHistory>>
      /\ screen' \in {screen, Version}
      /\ series' = series \/ (series = "pending" /\ series' = "expired")
  BY DEF ListRecommendations, OpenRecommendation, ReconcileExpiration, pageVars
<1>2. screen' \in 0..MaxVersions /\ series' \in SeriesStatus
  BY <1>0, <1>1, BidAssumption DEF BidsTypeOK, Version, SeriesStatus
<1>3. BidsTypeOK'
  BY <1>0, <1>1, <1>2 DEF BidsTypeOK, bidVars, bidHistory
<1>4. BidColumns' /\ AnswerClosesRecommendation'
  BY <1>1 DEF BidsInv, BidColumns, AnswerClosesRecommendation, bidVars
<1>5. DecidedVersionIsLast' /\ SeriesFollowsDecision'
  BY <1>1, DecisionsKept DEF BidsInv
<1>6. WaitingLinkIsCurrent' /\ LinkHistory'
  BY <1>1, LinksKept DEF BidsInv, bidVars, bidHistory
<1> QED
  BY <1>3, <1>4, <1>5, <1>6 DEF BidsInv

LEMMA DecideSharedKeeps ==
    ASSUME BidsInv, NEW status \in {"approved", "rejected"}, DecideShared(status)
    PROVE  BidsInv'
<1>0. bid \in Bid /\ BidsTypeOK
  BY DEF BidsInv, BidsTypeOK
<1>1. /\ page # None /\ bid.status = "sent"
      /\ series' = IF series = "pending" THEN "withdrawn" ELSE series
      /\ answered' = page.scope
      /\ UNCHANGED <<amendment, drafting, visit, published, lapsed, decisions, extra,
                     waiting, pageVars, gone>>
  BY DEF DecideShared
<1>2. /\ bid' \in Bid /\ bid'.status = status
      /\ bid'.link = bid.link /\ bid'.scope = bid.scope
      /\ bid'.expired = bid.expired /\ bid'.revoked = bid.revoked
  BY <1>0 DEF DecideShared, Bid, BidStatus
<1>3. answered' \in Scopes \cup {None} /\ series' \in SeriesStatus
  BY <1>0, <1>1 DEF BidsTypeOK, SeriesStatus
<1>4. BidsTypeOK'
  BY <1>0, <1>1, <1>2, <1>3 DEF BidsTypeOK, pageVars
<1>5. BidColumns' /\ AnswerClosesRecommendation'
  BY <1>1, <1>2 DEF BidsInv, BidColumns, AnswerClosesRecommendation
<1>6. DecidedVersionIsLast' /\ SeriesFollowsDecision'
  BY <1>1, DecisionsKept DEF BidsInv
<1>7. WaitingLinkIsCurrent' /\ LinkHistory'
  BY <1>1, <1>2, LinksKept DEF BidsInv
<1> QED
  BY <1>4, <1>5, <1>6, <1>7 DEF BidsInv

LEMMA DecideKeeps ==
    ASSUME BidsInv, NEW c \in Customers, NEW key \in Keys,
           NEW action \in CustomerAction, Decide(c, key, action)
    PROVE  BidsInv'
<1> DEFINE new == [version |-> screen, action |-> action, by |-> c, key |-> key]
<1>0. BidsTypeOK
  BY DEF BidsInv
<1>1. /\ screen > 0 /\ screen = Version /\ series = "pending"
      /\ decisions' = decisions \cup {new}
      /\ series' = OutcomeOf(action)
      /\ UNCHANGED <<bidVars, visit, published, lapsed, extra, waiting, pageVars,
                     bidHistory>>
  BY DEF Decide, OutcomeOf
<1>2. new \in Decision /\ new.version = Version /\ new.action = action
  BY <1>0, <1>1, BidAssumption DEF BidsTypeOK, Decision
<1> HIDE DEF new
<1>3. series' \in SeriesStatus /\ series' # "pending"
  BY <1>1 DEF OutcomeOf, SeriesStatus
<1>4. BidsTypeOK'
  BY <1>0, <1>1, <1>2, <1>3 DEF BidsTypeOK, bidVars, pageVars, bidHistory
<1>5. BidColumns' /\ AnswerClosesRecommendation'
  BY <1>1, <1>3 DEF BidsInv, BidColumns, AnswerClosesRecommendation, bidVars
<1>6. Version' = Version
  BY <1>1 DEF Version
<1>7. DecidedVersionIsLast'
  BY <1>1, <1>2, <1>6 DEF BidsInv, DecidedVersionIsLast
<1>8. SeriesFollowsDecision'
  <2>1. \A d \in decisions : d.version # Version
    BY <1>0, <1>1, PendingIsOpen DEF BidsInv
  <2> QED
    BY <1>1, <1>2, <1>6, <2>1 DEF SeriesFollowsDecision
<1>9. WaitingLinkIsCurrent' /\ LinkHistory'
  BY <1>0, <1>1, LinksKept DEF BidsInv, bidVars, bidHistory
<1> QED
  BY <1>4, <1>5, <1>7, <1>8, <1>9 DEF BidsInv

LEMMA ExpiryKeeps ==
    ASSUME BidsInv, LinkExpires
    PROVE  BidsInv'
<1>0. bid \in Bid /\ BidsTypeOK
  BY DEF BidsInv, BidsTypeOK
<1>1. /\ bid.link > 0 /\ ~bid.expired
      /\ gone' = [gone EXCEPT ![bid.link] = IF @ = "no" THEN "expired" ELSE @]
      /\ UNCHANGED <<amendment, drafting, visit, series, published, decisions, extra,
                     waiting, pageVars, answered>>
  BY DEF LinkExpires
<1>2. /\ bid' \in Bid /\ bid'.expired = TRUE /\ bid'.link = bid.link
      /\ bid'.status = bid.status /\ bid'.scope = bid.scope
      /\ bid'.revoked = bid.revoked
  BY <1>0 DEF LinkExpires, Bid
<1>3. bid.link \in Links
  BY <1>0, <1>1, BidAssumption DEF Bid, Links
<1>4. lapsed' \in BOOLEAN
  BY <1>0 DEF LinkExpires, Version, BidsTypeOK
<1>5. /\ gone[bid.link] \in {"no", "revoked", "expired"}
      /\ gone'[bid.link] = IF gone[bid.link] = "no" THEN "expired" ELSE gone[bid.link]
      /\ \A link \in Links \ {bid.link} : gone'[link] = gone[link]
      /\ gone' \in [Links -> {"no", "revoked", "expired"}]
  BY <1>0, <1>1, <1>3 DEF BidsTypeOK
<1>6. BidsTypeOK'
  BY <1>0, <1>1, <1>2, <1>4, <1>5 DEF BidsTypeOK, pageVars
<1>7. BidColumns' /\ AnswerClosesRecommendation'
  BY <1>1, <1>2 DEF BidsInv, BidColumns, AnswerClosesRecommendation
<1>8. DecidedVersionIsLast' /\ SeriesFollowsDecision'
  BY <1>0, <1>1, DecisionsKept DEF BidsInv
<1>9. LinkHistory'
  <2>1. \A link \in Links : link > bid.link => link # bid.link
    BY <1>3, BidAssumption DEF Links
  <2>2. \A link \in Links : link > bid.link => gone'[link] = "no"
    BY <1>5, <2>1 DEF BidsInv, LinkHistory
  <2>3. /\ bid.revoked <=> gone'[bid.link] = "revoked"
        /\ ~bid.revoked => gone'[bid.link] = "expired"
    BY <1>1, <1>5 DEF BidsInv, LinkHistory
  <2> QED
    BY <1>2, <2>2, <2>3 DEF LinkHistory, Links
<1>10. WaitingLinkIsCurrent'
  <2>1. waiting \subseteq Links
    BY <1>0 DEF BidsTypeOK
  <2>2. \A link \in waiting : gone[link] # "revoked"
                              /\ (link = bid.link \/ gone[link] = "expired")
    BY DEF BidsInv, WaitingLinkIsCurrent
  <2> QED
    BY <1>1, <1>2, <1>5, <2>1, <2>2 DEF WaitingLinkIsCurrent
<1> QED
  BY <1>6, <1>7, <1>8, <1>9, <1>10 DEF BidsInv

LEMMA LapseKeeps ==
    ASSUME BidsInv, PublicationLapses \/ \E link \in Links : Dispatched(link)
    PROVE  BidsInv'
<1>0. BidsTypeOK
  BY DEF BidsInv
<1>1. /\ UNCHANGED <<bidVars, visit, series, published, decisions, extra, pageVars,
                     bidHistory>>
      /\ lapsed' \in {lapsed, TRUE} /\ waiting' \subseteq waiting
  BY DEF PublicationLapses, Dispatched, seriesVars
<1>2. BidsTypeOK'
  BY <1>0, <1>1 DEF BidsTypeOK, bidVars, pageVars, bidHistory
<1>3. BidColumns' /\ AnswerClosesRecommendation'
  BY <1>1 DEF BidsInv, BidColumns, AnswerClosesRecommendation, bidVars
<1>4. DecidedVersionIsLast' /\ SeriesFollowsDecision'
  BY <1>0, <1>1, DecisionsKept DEF BidsInv
<1>5. WaitingLinkIsCurrent' /\ LinkHistory'
  BY <1>0, <1>1, LinksKept DEF BidsInv, bidVars, bidHistory
<1> QED
  BY <1>2, <1>3, <1>4, <1>5 DEF BidsInv

LEMMA BidsStep == BidsInv /\ [BidsNext]_bidsVars => BidsInv'
<1> SUFFICES ASSUME BidsInv, [BidsNext]_bidsVars PROVE BidsInv'
  OBVIOUS
<1>1. CASE BidsNext
  <2>1. BidsMoves
    BY <1>1, BidsNextMoves
  <2> QED
    BY <2>1, DraftKeeps, SendKeeps, ReviseKeeps, RevokeKeeps, ConvertKeeps,
       OpenKeeps, ReadKeeps, DecideSharedKeeps, DecideKeeps, ExpiryKeeps,
       LapseKeeps DEF BidsMoves
<1>2. CASE UNCHANGED bidsVars
  <2>1. UNCHANGED <<amendment, drafting, bid, visit, series, published, lapsed,
                    decisions, extra, waiting, page, screen, gone, answered>>
    BY <1>2 DEF bidsVars, bidVars, seriesVars, pageVars, bidHistory
  <2>2. Version' = Version
    BY <2>1 DEF Version
  <2>3. BidsTypeOK' /\ BidColumns' /\ AnswerClosesRecommendation'
    BY <2>1 DEF BidsInv, BidsTypeOK, BidColumns, AnswerClosesRecommendation
  <2>4. DecidedVersionIsLast' /\ SeriesFollowsDecision'
    BY <2>1, <2>2 DEF BidsInv, DecidedVersionIsLast, SeriesFollowsDecision
  <2>5. WaitingLinkIsCurrent' /\ LinkHistory'
    BY <2>1 DEF BidsInv, WaitingLinkIsCurrent, LinkHistory
  <2> QED
    BY <2>3, <2>4, <2>5 DEF BidsInv
<1> QED
  BY <1>1, <1>2

LEMMA BidsInvariant == BidsSpec => []BidsInv
BY BidsStart, BidsStep, PTL DEF BidsSpec

\* A bid, its publications and decisions are well typed; the add-ons of a
\* converted bid are made, and its stop extended, once.
THEOREM BidsTypeCorrect == BidsSpec => []BidsTypeOK
BY BidsInvariant, PTL DEF BidsInv

\* Once the link's holder has answered, the signed-in customer is not asked any
\* more (decide_shared_project_bid withdraws a pending recommendation).
THEOREM OneQuestion == BidsSpec => []AnswerClosesRecommendation
BY BidsInvariant, PTL DEF BidsInv

\* A customer's approval or refusal is about the newest version and no version
\* is published after it, for any number of versions, customers and keys.
THEOREM LastIsDecided == BidsSpec => []DecidedVersionIsLast
BY BidsInvariant, PTL DEF BidsInv

\* No notification in the queue carries a revoked link, and an old link only
\* when it has expired, for any number of links.
THEOREM QueuedLinks == BidsSpec => []WaitingLinkIsCurrent
BY BidsInvariant, PTL DEF BidsInv

LEMMA AnswerStays ==
    BidsInv /\ [BidsNext]_bidsVars
    => (bid.status \in Answers =>
          /\ bid'.scope = bid.scope
          /\ \/ bid'.status = bid.status
             \/ bid.status = "approved" /\ bid'.status = "converted")
<1> DEFINE Final == bid.status \in Answers =>
                      /\ bid'.scope = bid.scope
                      /\ \/ bid'.status = bid.status
                         \/ bid.status = "approved" /\ bid'.status = "converted"
<1>1. ASSUME BidsInv, BidsNext PROVE Final
  <2>0. bid \in Bid /\ BidsMoves
    BY <1>1, BidsNextMoves DEF BidsInv, BidsTypeOK
  <2>1. ASSUME UNCHANGED bid PROVE Final
    BY <2>1
  <2>2. ASSUME NEW scope, SaveDraft(scope) PROVE Final
    BY <2>2 DEF SaveDraft, Answers
  <2>3. ASSUME bid.status \in {"draft", "sent"} PROVE Final
    BY <2>3 DEF Answers
  <2>4. ASSUME Convert PROVE Final
    BY <2>0, <2>4 DEF Convert, Answers, Bid
  <2>5. ASSUME LinkExpires PROVE Final
    BY <2>0, <2>5 DEF LinkExpires, Bid
  <2> HIDE DEF Final
  <2>6. \/ UNCHANGED bid \/ bid.status \in {"draft", "sent"}
        \/ \E scope \in Scopes : SaveDraft(scope)
        \/ Convert \/ LinkExpires
    BY <2>0 DEF BidsMoves, ReviewAmendment, BeginDraft, Send, Revise, Revisable,
       Revoke, OpenLink, ListRecommendations, OpenRecommendation, DecideShared,
       Decide, PublicationLapses, Dispatched, bidVars
  <2> QED
    BY <2>1, <2>2, <2>3, <2>4, <2>5, <2>6
<1>2. UNCHANGED bidsVars => Final
  BY DEF bidsVars, bidVars
<1> QED
  BY <1>1, <1>2

\* What was answered is not changed by a draft, a send, a revision or a second
\* answer that was under way; an approved bid goes on to be converted only.
THEOREM AnswersAreFinal == BidsSpec => AnswerIsFinal
BY AnswerStays, BidsInvariant, PTL DEF BidsSpec, AnswerIsFinal

-----------------------------------------------------------------------------
(* The completion report: what the history and the counters mean.          *)

\* The job's counters count the photos that were taken, erased or not.
CountersMatch == job.counters = Counted(photos \cup erased)

\* A checklist transaction under way has an id no other one has used or uses.
WritesAreNew ==
    \A w \in Writers : write[w] # NoOne /\ write[w].id # NoOne =>
        /\ ledger[write[w].id] = NoOne
        /\ \A v \in Writers : write[v] # NoOne /\ write[v].id = write[w].id => v = w

\* What no table knows has not taken effect.
UnknownIsNotApplied ==
    /\ \A m \in Mutations : ledger[m] = NoOne => applied[m] = 0
    /\ \A m \in Moves : moved[m] = NoOne => applied[m] = 0

\* From its submission on, the row has the counts that were reviewed, and only
\* a delivered report has a snapshot.
FrozenAsReviewed ==
    /\ report.status \in Frozen =>
         report.progress = reviewed.progress /\ report.counts = reviewed.counts
    /\ report.snapshot # NoOne => report.status = "delivered"

ReportInv ==
    /\ TypeOK /\ CountersMatch
    /\ WritesAreNew /\ UnknownIsNotApplied /\ AppliedOnce
    /\ FrozenAsReviewed /\ DeliveredAsSubmitted

-----------------------------------------------------------------------------
(* Counting.                                                               *)
LEMMA TotalType == Total \in Nat /\ \A S \in SUBSET Items : Cardinality(S) \in 0..Total
<1>1. IsFiniteSet(Items)
  BY ReportAssumption
<1>2. Total \in Nat
  BY <1>1, FS_CardinalityType DEF Total
<1>3. ASSUME NEW S \in SUBSET Items PROVE Cardinality(S) \in 0..Total
  <2>1. IsFiniteSet(S) /\ Cardinality(S) <= Cardinality(Items)
    BY <1>1, FS_Subset
  <2>2. Cardinality(S) \in Nat
    BY <2>1, FS_CardinalityType
  <2> QED
    BY <1>2, <2>1, <2>2 DEF Total
<1> QED
  BY <1>2, <1>3

LEMMA CountedType == \A S \in SUBSET Photos : Counted(S) \in Counts
<1>1. SUFFICES ASSUME NEW S \in SUBSET Photos, NEW k \in Kinds
               PROVE  Cardinality({p \in S : KindOf[p] = k})
                        \in 0..Cardinality(Photos)
  BY DEF Counted, Counts
<1> DEFINE T == {p \in S : KindOf[p] = k}
<1>2. T \subseteq Photos /\ IsFiniteSet(Photos)
  BY ReportAssumption
<1> HIDE DEF T
<1>3. /\ IsFiniteSet(T) /\ Cardinality(T) <= Cardinality(Photos)
      /\ Cardinality(Photos) \in Nat
  BY <1>2, FS_Subset, FS_CardinalityType
<1>4. Cardinality(T) \in Nat
  BY <1>3, FS_CardinalityType
<1> QED
  BY <1>3, <1>4 DEF T

LEMMA CountedMore ==
    ASSUME NEW S \in SUBSET Photos, NEW p \in Photos, p \notin S
    PROVE  Counted(S \cup {p}) = [Counted(S) EXCEPT ![KindOf[p]] = @ + 1]
<1> DEFINE Of(X, k) == {q \in X : KindOf[q] = k}
<1>1. Counted(S \cup {p}) = [k \in Kinds |-> Cardinality(Of(S \cup {p}, k))]
      /\ Counted(S) = [k \in Kinds |-> Cardinality(Of(S, k))]
  BY DEF Counted
<1>2. ASSUME NEW k \in Kinds, k # KindOf[p]
      PROVE  Of(S \cup {p}, k) = Of(S, k)
  BY <1>2
<1>3. Cardinality(Of(S \cup {p}, KindOf[p])) = Cardinality(Of(S, KindOf[p])) + 1
  <2> DEFINE T == Of(S, KindOf[p])
  <2>1. /\ Of(S \cup {p}, KindOf[p]) = T \cup {p}
        /\ p \notin T /\ T \subseteq Photos
    OBVIOUS
  <2> HIDE DEF T
  <2>2. IsFiniteSet(T)
    BY <2>1, FS_Subset, ReportAssumption
  <2>3. Cardinality(T \cup {p}) = Cardinality(T) + 1
    BY <2>1, <2>2, FS_AddElement
  <2> QED
    BY <2>1, <2>3 DEF T
<1>4. KindOf[p] \in Kinds
  BY ReportAssumption
<1> HIDE DEF Of
<1> QED
  BY <1>1, <1>2, <1>3, <1>4

LEMMA NoneCounted == Counted({}) = [k \in Kinds |-> 0] /\ Counted({}) \in Counts
<1>1. \A k \in Kinds : {p \in {} : KindOf[p] = k} = {}
  OBVIOUS
<1>2. Cardinality({}) = 0
  BY FS_EmptySet
<1> QED
  BY <1>1, <1>2, CountedType DEF Counted

LEMMA ReportStart == Init => ReportInv
<1> SUFFICES ASSUME Init PROVE ReportInv
  OBVIOUS
<1>0. 0 \in 0..Total /\ Counted({}) \in Counts
  BY TotalType, NoneCounted
<1>1. report \in Row
  BY <1>0 DEF Init, NoReport, Row, ReportStatus
<1>2. reviewed \in Evidence
  BY <1>0 DEF Init, Nothing, Evidence
<1>3. job \in [status : {"scheduled", "in_progress", "completed"},
               count : 0..Total, counters : Counts]
  BY <1>0 DEF Init
<1>4. TypeOK
  BY <1>1, <1>2, <1>3 DEF Init, TypeOK, AddOnStatus
<1>5. CountersMatch
  BY DEF Init, CountersMatch
<1>6. WritesAreNew /\ UnknownIsNotApplied /\ AppliedOnce
  BY DEF Init, WritesAreNew, UnknownIsNotApplied, AppliedOnce
<1>7. FrozenAsReviewed /\ DeliveredAsSubmitted
  BY DEF Init, NoReport, FrozenAsReviewed, DeliveredAsSubmitted, Frozen
<1> QED
  BY <1>4, <1>5, <1>6, <1>7 DEF ReportInv

-----------------------------------------------------------------------------
(* What the conjuncts need of a step that does not concern them.           *)
LEMMA AppliedKept ==
    ASSUME WritesAreNew, UnknownIsNotApplied, AppliedOnce,
           UNCHANGED <<write, ledger, moved, applied>>
    PROVE  WritesAreNew' /\ UnknownIsNotApplied' /\ AppliedOnce'
<1>1. WritesAreNew'
  BY DEF WritesAreNew
<1>2. UnknownIsNotApplied' /\ AppliedOnce'
  BY DEF UnknownIsNotApplied, AppliedOnce
<1> QED
  BY <1>1, <1>2

LEMMA ReportKept ==
    ASSUME FrozenAsReviewed, DeliveredAsSubmitted, UNCHANGED <<report, reviewed>>
    PROVE  FrozenAsReviewed' /\ DeliveredAsSubmitted'
<1>1. FrozenAsReviewed'
  BY DEF FrozenAsReviewed
<1>2. DeliveredAsSubmitted'
  BY DEF DeliveredAsSubmitted, Projects, Ready, Redacted
<1> QED
  BY <1>1, <1>2

JobType == [status : {"scheduled", "in_progress", "completed"},
            count : 0..Total, counters : Counts]

-----------------------------------------------------------------------------
(* The crew.                                                               *)
LEMMA LifecycleKeeps ==
    ASSUME ReportInv, NEW m \in Starts \cup {NoOne}, StartJob(m) \/ CompleteJob(m)
    PROVE  ReportInv'
<1>0. TypeOK /\ job \in JobType
  BY DEF ReportInv, TypeOK, JobType
<1>1. /\ UNCHANGED <<photos, erased, addOn, stop, ledger, moved, write, request,
                     report, outbox, applied, reviewed>>
      /\ ticked' \subseteq Items
  BY <1>0, ReportAssumption
  DEF StartJob, CompleteJob, TypeOK, reportVars, historyVars
<1>2. job' \in JobType /\ job'.counters = job.counters
  <2>1. Total \in 0..Total
    BY TotalType
  <2>2. CASE job' = [job EXCEPT !.status = "in_progress"]
    BY <1>0, <2>2 DEF JobType
  <2>3. CASE job' = [job EXCEPT !.status = "completed", !.count = Total]
    BY <1>0, <2>1, <2>3 DEF JobType
  <2> QED
    BY <2>2, <2>3 DEF StartJob, CompleteJob
<1>3. lifecycle' \in [Starts -> {"start", "complete", NoOne}]
  BY <1>0 DEF StartJob, CompleteJob, ClaimLifecycle, TypeOK
<1>4. TypeOK'
  BY <1>0, <1>1, <1>2, <1>3 DEF TypeOK, JobType
<1>5. CountersMatch'
  BY <1>1, <1>2 DEF ReportInv, CountersMatch
<1> QED
  BY <1>1, <1>4, <1>5, AppliedKept, ReportKept DEF ReportInv

LEMMA BeginKeeps ==
    ASSUME ReportInv, NEW w \in Writers, NEW m \in Mutations \cup {NoOne},
           NEW item \in Items, NEW value \in BOOLEAN,
           BeginChecklistChange(w, m, item, value)
    PROVE  ReportInv'
<1> DEFINE new == [id |-> m, item |-> item, value |-> value, count |-> NoOne]
<1>0. TypeOK
  BY DEF ReportInv
<1>1. /\ UNCHANGED <<job, ticked, photos, erased, addOn, stop, ledger, lifecycle,
                     moved, request, report, outbox, applied, reviewed>>
      /\ write' = [write EXCEPT ![w] = new]
      /\ m # NoOne => /\ ledger[m] = NoOne
                      /\ \A v \in Writers : write[v] # NoOne => write[v].id # m
  BY DEF BeginChecklistChange, jobVars, reportVars, historyVars
<1>2. new \in Write /\ new.id = m
  BY Zenon DEF Write
<1> HIDE DEF new
<1>3. write' \in [Writers -> Write \cup {NoOne}] /\ write'[w] = new
      /\ \A v \in Writers \ {w} : write'[v] = write[v]
  BY <1>0, <1>1, <1>2 DEF TypeOK
<1>4. TypeOK'
  BY <1>0, <1>1, <1>3 DEF TypeOK
<1>5. CountersMatch'
  BY <1>1 DEF ReportInv, CountersMatch
<1>6. WritesAreNew'
  <2>1. SUFFICES ASSUME NEW u \in Writers, write'[u] # NoOne, write'[u].id # NoOne
                 PROVE  /\ ledger[write'[u].id] = NoOne
                        /\ \A v \in Writers : write'[v] # NoOne
                             /\ write'[v].id = write'[u].id => v = u
    BY <1>1 DEF WritesAreNew
  <2>2. CASE u = w
    BY <1>1, <1>2, <1>3, <2>1, <2>2
  <2>3. CASE u # w
    <3>1. /\ write'[u] = write[u] /\ ledger[write[u].id] = NoOne
          /\ \A v \in Writers : write[v] # NoOne /\ write[v].id = write[u].id
                                => v = u
      BY <1>3, <2>1, <2>3 DEF ReportInv, WritesAreNew
    <3>2. write'[w].id # write[u].id
      BY <1>1, <1>2, <1>3, <2>1, <3>1
    <3> QED
      BY <1>3, <3>1, <3>2
  <2> QED
    BY <2>2, <2>3
<1>7. UnknownIsNotApplied' /\ AppliedOnce'
  BY <1>1 DEF ReportInv, UnknownIsNotApplied, AppliedOnce
<1> QED
  BY <1>1, <1>4, <1>5, <1>6, <1>7, ReportKept DEF ReportInv

LEMMA CountKeeps ==
    ASSUME ReportInv, NEW w \in Writers, CountChecklist(w)
    PROVE  ReportInv'
<1>0. TypeOK /\ write[w] \in Write
  BY DEF ReportInv, TypeOK, CountChecklist
<1>1. /\ UNCHANGED <<job, ticked, photos, erased, addOn, stop, ledger, lifecycle,
                     moved, request, report, outbox, applied, reviewed>>
      /\ write' = [write EXCEPT ![w] = [@ EXCEPT !.count = Cardinality(AfterChange(w))]]
  BY <1>0 DEF CountChecklist, jobVars, reportVars, historyVars, TypeOK
<1>2. Cardinality(AfterChange(w)) \in 0..Total
  <2>1. AfterChange(w) \in SUBSET Items
    BY <1>0 DEF AfterChange, TypeOK, Write
  <2> QED
    BY <2>1, TotalType
<1>3. [write[w] EXCEPT !.count = Cardinality(AfterChange(w))] \in Write
      /\ [write[w] EXCEPT !.count = Cardinality(AfterChange(w))].id = write[w].id
  BY <1>0, <1>2 DEF Write
<1>4. /\ write' \in [Writers -> Write \cup {NoOne}]
      /\ write'[w].id = write[w].id /\ write[w] # NoOne
      /\ \A v \in Writers \ {w} : write'[v] = write[v]
  BY <1>0, <1>1, <1>3 DEF TypeOK, CountChecklist
<1>5. TypeOK'
  BY <1>0, <1>1, <1>4 DEF TypeOK
<1>6. CountersMatch'
  BY <1>1 DEF ReportInv, CountersMatch
<1>7. WritesAreNew'
  BY <1>1, <1>4 DEF ReportInv, WritesAreNew
<1>8. UnknownIsNotApplied' /\ AppliedOnce'
  BY <1>1 DEF ReportInv, UnknownIsNotApplied, AppliedOnce
<1> QED
  BY <1>1, <1>5, <1>6, <1>7, <1>8, ReportKept DEF ReportInv

(* An id that was not applied is applied once, and nothing else is.        *)
LEMMA AppliesOnce ==
    ASSUME TypeOK, AppliedOnce, NEW m \in Mutations \cup Moves, applied[m] = 0,
           Applies(m)
    PROVE  /\ applied' \in [Mutations \cup Moves -> 0..2]
           /\ \A n \in (Mutations \cup Moves) \ {m} : applied'[n] = applied[n]
           /\ AppliedOnce'
<1>1. applied \in [Mutations \cup Moves -> 0..2]
  BY DEF TypeOK
<1>2. applied' = [applied EXCEPT ![m] = 1]
  BY <1>1 DEF Applies
<1>3. DOMAIN applied = Mutations \cup Moves /\ DOMAIN applied' = Mutations \cup Moves
  BY <1>1, <1>2
<1> QED
  BY <1>1, <1>2, <1>3 DEF AppliedOnce

LEMMA CommitKeeps ==
    ASSUME ReportInv, NEW w \in Writers, CommitChecklistChange(w)
    PROVE  ReportInv'
<1> DEFINE id == write[w].id
           change == [item |-> write[w].item, value |-> write[w].value]
<1>0. TypeOK /\ write[w] \in Write /\ job \in JobType
  BY DEF ReportInv, TypeOK, CommitChecklistChange, JobType
<1>1. /\ UNCHANGED <<photos, erased, addOn, stop, lifecycle, moved, request,
                     report, outbox, reviewed>>
      /\ write' = [write EXCEPT ![w] = NoOne]
      /\ ticked' = AfterChange(w)
      /\ job' = [job EXCEPT !.count = write[w].count]
      /\ write[w] # NoOne /\ write[w].count # NoOne
      /\ IF id = NoOne THEN UNCHANGED <<ledger, applied>>
         ELSE ledger' = [ledger EXCEPT ![id] = change] /\ Applies(id)
  BY DEF CommitChecklistChange, reportVars
<1>2. ticked' \subseteq Items
  BY <1>0, <1>1 DEF AfterChange, TypeOK, Write
<1>3. job' \in JobType /\ job'.counters = job.counters
  BY <1>0, <1>1 DEF JobType, Write
<1>4. /\ write' \in [Writers -> Write \cup {NoOne}] /\ write'[w] = NoOne
      /\ \A v \in Writers \ {w} : write'[v] = write[v]
  BY <1>0, <1>1 DEF TypeOK
<1>5. change \in Change /\ change # NoOne /\ id \in Mutations \cup {NoOne}
  BY <1>0, IdAssumption DEF Change, Write
<1> HIDE DEF change
<1>6. /\ ledger' \in [Mutations -> Change \cup {NoOne}]
      /\ applied' \in [Mutations \cup Moves -> 0..2]
      /\ AppliedOnce' /\ UnknownIsNotApplied'
      /\ \A m \in Mutations \ {id} : ledger'[m] = ledger[m]
  <2>1. CASE id = NoOne
    BY <1>0, <1>1, <2>1 DEF ReportInv, TypeOK, AppliedOnce, UnknownIsNotApplied
  <2>2. CASE id # NoOne
    <3>1. id \in Mutations /\ ledger[id] = NoOne /\ applied[id] = 0
      BY <1>1, <1>5, <2>2 DEF ReportInv, WritesAreNew, UnknownIsNotApplied
    <3>2. /\ applied' \in [Mutations \cup Moves -> 0..2]
          /\ \A n \in (Mutations \cup Moves) \ {id} : applied'[n] = applied[n]
          /\ AppliedOnce'
      BY <1>0, <1>1, <2>2, <3>1, AppliesOnce DEF ReportInv
    <3>3. /\ ledger' \in [Mutations -> Change \cup {NoOne}]
          /\ ledger'[id] # NoOne
          /\ \A m \in Mutations \ {id} : ledger'[m] = ledger[m]
      BY <1>0, <1>1, <1>5, <2>2, <3>1 DEF TypeOK
    <3>4. id \notin Moves
      BY <3>1, IdAssumption
    <3>5. UnknownIsNotApplied'
      BY <1>1, <3>2, <3>3, <3>4 DEF ReportInv, UnknownIsNotApplied
    <3> QED
      BY <3>2, <3>3, <3>5
  <2> QED
    BY <2>1, <2>2
<1>7. TypeOK'
  BY <1>0, <1>1, <1>2, <1>3, <1>4, <1>6 DEF TypeOK, JobType
<1>8. CountersMatch'
  BY <1>1, <1>3 DEF ReportInv, CountersMatch
<1>9. WritesAreNew'
  <2>1. SUFFICES ASSUME NEW u \in Writers, write'[u] # NoOne, write'[u].id # NoOne
                 PROVE  /\ ledger'[write'[u].id] = NoOne
                        /\ \A v \in Writers : write'[v] # NoOne
                             /\ write'[v].id = write'[u].id => v = u
    BY DEF WritesAreNew
  <2>2. u # w /\ write'[u] = write[u]
    BY <1>4, <2>1
  <2>3. /\ ledger[write[u].id] = NoOne /\ write[u].id # id
        /\ \A v \in Writers : write[v] # NoOne /\ write[v].id = write[u].id => v = u
    BY <1>1, <2>1, <2>2 DEF ReportInv, WritesAreNew
  <2>4. write[u].id \in Mutations
    BY <1>0, <2>1, <2>2 DEF TypeOK, Write
  <2> QED
    BY <1>4, <1>6, <2>2, <2>3, <2>4
<1> QED
  BY <1>1, <1>6, <1>7, <1>8, <1>9, ReportKept DEF ReportInv

LEMMA AbortKeeps ==
    ASSUME ReportInv, NEW w \in Writers, AbortChecklistChange(w)
    PROVE  ReportInv'
<1>0. TypeOK
  BY DEF ReportInv
<1>1. /\ UNCHANGED <<job, ticked, photos, erased, addOn, stop, ledger, lifecycle,
                     moved, request, report, outbox, applied, reviewed>>
      /\ write' = [write EXCEPT ![w] = NoOne]
  BY DEF AbortChecklistChange, jobVars, reportVars, historyVars
<1>2. /\ write' \in [Writers -> Write \cup {NoOne}]
      /\ \A v \in Writers : write'[v] \in {write[v], NoOne}
  BY <1>0, <1>1 DEF TypeOK
<1>3. TypeOK' /\ CountersMatch'
  BY <1>0, <1>1, <1>2 DEF ReportInv, TypeOK, CountersMatch
<1>4. WritesAreNew'
  BY <1>1, <1>2 DEF ReportInv, WritesAreNew
<1>5. UnknownIsNotApplied' /\ AppliedOnce'
  BY <1>1 DEF ReportInv, UnknownIsNotApplied, AppliedOnce
<1> QED
  BY <1>1, <1>3, <1>4, <1>5, ReportKept DEF ReportInv

LEMMA MoveKeeps ==
    ASSUME ReportInv, NEW m \in Moves \cup {NoOne},
           NEW status \in {"open", "finished"}, MoveStop(m, status)
    PROVE  ReportInv'
<1>0. TypeOK
  BY DEF ReportInv
<1>1. /\ UNCHANGED <<job, ticked, photos, erased, addOn, ledger, lifecycle, write,
                     request, report, outbox, reviewed>>
      /\ stop' = status
  BY DEF MoveStop, reportVars
<1>2. /\ moved' \in [Moves -> {"open", "finished", NoOne}]
      /\ applied' \in [Mutations \cup Moves -> 0..2]
      /\ AppliedOnce' /\ UnknownIsNotApplied'
  <2>1. CASE m = NoOne
    BY <1>0, <1>1, <2>1
    DEF MoveStop, ReportInv, TypeOK, AppliedOnce, UnknownIsNotApplied
  <2>2. CASE m # NoOne
    <3>1. /\ m \in Moves /\ moved[m] = NoOne /\ applied[m] = 0
          /\ moved' = [moved EXCEPT ![m] = status] /\ Applies(m)
      BY <2>2 DEF MoveStop, ReportInv, UnknownIsNotApplied
    <3>2. /\ applied' \in [Mutations \cup Moves -> 0..2]
          /\ \A n \in (Mutations \cup Moves) \ {m} : applied'[n] = applied[n]
          /\ AppliedOnce'
      BY <1>0, <3>1, AppliesOnce DEF ReportInv
    <3>3. /\ moved' \in [Moves -> {"open", "finished", NoOne}]
          /\ moved'[m] # NoOne
          /\ \A n \in Moves \ {m} : moved'[n] = moved[n]
      BY <1>0, <3>1, IdAssumption DEF TypeOK
    <3>4. m \notin Mutations
      BY <3>1, IdAssumption
    <3>5. UnknownIsNotApplied'
      BY <1>1, <3>2, <3>3, <3>4 DEF ReportInv, UnknownIsNotApplied
    <3> QED
      BY <3>2, <3>3, <3>5
  <2> QED
    BY <2>1, <2>2
<1>3. TypeOK' /\ CountersMatch'
  BY <1>0, <1>1, <1>2 DEF ReportInv, TypeOK, CountersMatch
<1>4. WritesAreNew'
  BY <1>1 DEF ReportInv, WritesAreNew
<1> QED
  BY <1>1, <1>2, <1>3, <1>4, ReportKept DEF ReportInv

(* Add-ons and the route, whoever changes them.                            *)
LEMMA WorkKeeps ==
    ASSUME ReportInv,
           \/ \E a \in AddOns, status \in AddOnStatus : UpdateAddOn(a, status)
           \/ \E a \in AddOns : SellAddOn(a)
           \/ \E status \in {"none", "open", "finished"} : ChangeRoute(status)
    PROVE  ReportInv'
<1>0. TypeOK
  BY DEF ReportInv
<1>1. UNCHANGED <<job, ticked, photos, erased, ledger, lifecycle, moved, write,
                  request, report, outbox, applied, reviewed>>
  BY DEF UpdateAddOn, SellAddOn, ChangeRoute, crewVars, reportVars, historyVars
<1>2. /\ addOn' \in [AddOns -> AddOnStatus]
      /\ stop' \in {"none", "open", "finished"}
  BY <1>0 DEF UpdateAddOn, SellAddOn, ChangeRoute, TypeOK, AddOnStatus
<1>3. TypeOK' /\ CountersMatch'
  BY <1>0, <1>1, <1>2 DEF ReportInv, TypeOK, CountersMatch
<1> QED
  BY <1>1, <1>3, AppliedKept, ReportKept DEF ReportInv

LEMMA PhotoKeeps ==
    ASSUME ReportInv, NEW p \in Photos, TakePhoto(p)
    PROVE  ReportInv'
<1>0. TypeOK /\ job \in JobType
  BY DEF ReportInv, TypeOK, JobType
<1>1. /\ UNCHANGED <<ticked, erased, addOn, stop, ledger, lifecycle, moved, write,
                     request, report, outbox, applied, reviewed>>
      /\ p \notin photos \cup erased /\ photos' = photos \cup {p}
  BY DEF TakePhoto, crewVars, reportVars, historyVars
<1>2. /\ job'.counters = [job.counters EXCEPT ![KindOf[p]] = @ + 1]
      /\ job'.status = job.status /\ job'.count = job.count
      /\ job' = [job EXCEPT !.counters = job'.counters]
  BY <1>0 DEF TakePhoto, JobType
<1>3. photos' \cup erased' = (photos \cup erased) \cup {p}
      /\ photos \cup erased \in SUBSET Photos
  BY <1>0, <1>1 DEF TypeOK
<1>4. CountersMatch'
  <2>1. Counted((photos \cup erased) \cup {p})
          = [Counted(photos \cup erased) EXCEPT ![KindOf[p]] = @ + 1]
    BY <1>1, <1>3, CountedMore
  <2> QED
    BY <1>2, <1>3, <2>1 DEF ReportInv, CountersMatch
<1>5. job'.counters \in Counts
  BY <1>3, <1>4, CountedType DEF CountersMatch
<1>6. job' \in JobType
  BY <1>0, <1>2, <1>5 DEF JobType
<1>7. TypeOK'
  BY <1>0, <1>1, <1>6 DEF TypeOK, JobType
<1> QED
  BY <1>1, <1>4, <1>7, AppliedKept, ReportKept DEF ReportInv

-----------------------------------------------------------------------------
(* Requests that read.                                                     *)
LEMMA InRequest ==
    ASSUME TypeOK, NEW r \in Requests, request[r] \notin {NoOne, Over}
    PROVE  request[r] \in Request
BY DEF TypeOK

LEMMA RequestType ==
    ASSUME NEW q \in Request, NEW n \in 0..Total, NEW c \in Counts,
           NEW S \in SUBSET Photos, NEW b \in BOOLEAN,
           NEW a \in {"job", "photos", "add_ons", "stop", "save", "deliver"}
    PROVE  /\ [q EXCEPT !.progress = n, !.counts = c, !.at = a] \in Request
           /\ [q EXCEPT !.counts = c, !.photos = S, !.at = a] \in Request
           /\ [q EXCEPT !.ready = b, !.at = a] \in Request
           /\ [q EXCEPT !.progress = n, !.counts = c, !.ready = b, !.at = a]
                 \in Request
BY DEF Request

LEMMA MoreCounted ==
    ASSUME NEW c \in Counts, NEW d \in Counts
    PROVE  [k \in Kinds |-> IF d[k] > c[k] THEN d[k] ELSE c[k]] \in Counts
BY DEF Counts

LEMMA OnlyRequestKeeps ==
    ASSUME ReportInv, UNCHANGED onlyRequest,
           request' \in [Requests -> Request \cup {NoOne, Over}]
    PROVE  ReportInv'
<1>1. UNCHANGED <<job, ticked, photos, erased, addOn, stop, ledger, lifecycle,
                  moved, write, report, outbox, applied, reviewed>>
  BY DEF onlyRequest, jobVars, crewVars, reportVars, historyVars
<1>2. TypeOK' /\ CountersMatch'
  BY <1>1 DEF ReportInv, TypeOK, CountersMatch
<1> QED
  BY <1>1, <1>2, AppliedKept, ReportKept DEF ReportInv

LEMMA ReadKeepsReport ==
    ASSUME ReportInv, NEW r \in Requests,
           \/ \E by \in Users \cup {NoOne} : Opened(r, by)
           \/ ReadJob(r) \/ ReadPhotos(r) \/ ReadAddOns(r) \/ ReadStop(r)
           \/ AbandonRequest(r)
    PROVE  ReportInv'
<1> DEFINE Requested == request' \in [Requests -> Request \cup {NoOne, Over}]
<1>0. TypeOK /\ request \in [Requests -> Request \cup {NoOne, Over}]
  BY DEF ReportInv, TypeOK
<1>1. ASSUME NEW q \in Request \cup {Over}, request' = [request EXCEPT ![r] = q]
      PROVE  Requested
  BY <1>0, <1>1
<1> HIDE DEF Requested
<1>2. ASSUME NEW by \in Users \cup {NoOne}, Opened(r, by) PROVE Requested
  <2>1. 0 \in 0..Total /\ Nothing.counts \in Counts
    BY TotalType, NoneCounted DEF Nothing
  <2>2. [by |-> by, at |-> "job", progress |-> 0, counts |-> Nothing.counts,
         photos |-> {}, ready |-> FALSE] \in Request
    BY <2>1 DEF Request
  <2> QED
    BY <1>1, <1>2, <2>2 DEF Opened
<1>3. ASSUME ReadJob(r) PROVE Requested
  <2>1. request[r] \in Request
    BY <1>0, <1>3, InRequest DEF ReadJob, At
  <2>2. job.count \in 0..Total /\ job.counters \in Counts
    BY <1>0 DEF TypeOK
  <2>3. request' = [request EXCEPT ![r] =
                      [@ EXCEPT !.progress = job.count, !.counts = job.counters,
                                !.at = "photos"]]
    BY <1>0, <1>3, <2>1 DEF ReadJob
  <2>4. [request[r] EXCEPT !.progress = job.count, !.counts = job.counters,
                           !.at = "photos"] \in Request
    BY <2>1, <2>2, RequestType
  <2> QED
    BY <1>1, <2>3, <2>4
<1>4. ASSUME ReadPhotos(r) PROVE Requested
  <2> DEFINE most == [k \in Kinds |-> IF Counted(photos)[k] > request[r].counts[k]
                                      THEN Counted(photos)[k]
                                      ELSE request[r].counts[k]]
  <2>1. request[r] \in Request
    BY <1>0, <1>4, InRequest DEF ReadPhotos, At
  <2>2. photos \in SUBSET Photos /\ request[r].counts \in Counts
    BY <1>0, <2>1 DEF TypeOK, Request
  <2>3. most \in Counts
    BY <2>2, CountedType, MoreCounted
  <2>4. request' = [request EXCEPT ![r].counts = most, ![r].photos = photos,
                                   ![r].at = "add_ons"]
    BY <1>4 DEF ReadPhotos
  <2> HIDE DEF most
  <2>5. request' = [request EXCEPT ![r] =
                      [@ EXCEPT !.counts = most, !.photos = photos,
                                !.at = "add_ons"]]
    BY <1>0, <2>1, <2>4
  <2>6. [request[r] EXCEPT !.counts = most, !.photos = photos, !.at = "add_ons"]
          \in Request
    BY <2>1, <2>2, <2>3, RequestType, TotalType
  <2> QED
    BY <1>1, <2>5, <2>6
<1>5. ASSUME ReadAddOns(r) \/ ReadStop(r) PROVE Requested
  <2>1. request[r] \in Request
    BY <1>0, <1>5, InRequest DEF ReadAddOns, ReadStop, At
  <2>2. PICK b \in BOOLEAN, a \in {"stop", "save"} :
          request' = [request EXCEPT ![r].ready = b, ![r].at = a]
    <3>1. CASE ReadAddOns(r)
      <4> DEFINE b == /\ Ready(request[r])
                      /\ ~\E a \in AddOns : addOn[a] \notin {"none", "completed"}
      <4>1. b \in BOOLEAN /\ request' = [request EXCEPT ![r].ready = b,
                                                        ![r].at = "stop"]
        BY <3>1 DEF ReadAddOns, Ready
      <4> QED
        BY <4>1
    <3>2. CASE ReadStop(r)
      <4> DEFINE b == request[r].ready /\ stop # "open"
      <4>1. b \in BOOLEAN
        OBVIOUS
      <4>2. request' = [request EXCEPT ![r].ready = b, ![r].at = "save"]
        BY <1>0, <3>2 DEF ReadStop
      <4> QED
        BY <4>1, <4>2
    <3> QED
      BY <1>5, <3>1, <3>2
  <2>3. request' = [request EXCEPT ![r] = [@ EXCEPT !.ready = b, !.at = a]]
    BY <1>0, <2>1, <2>2
  <2>4. [request[r] EXCEPT !.ready = b, !.at = a] \in Request
    BY <2>1, RequestType, TotalType, NoneCounted
  <2> QED
    BY <1>1, <2>3, <2>4
<1>6. ASSUME AbandonRequest(r) PROVE Requested
  BY <1>1, <1>6 DEF AbandonRequest, End
<1>7. UNCHANGED onlyRequest
  BY DEF Opened, ReadJob, ReadPhotos, ReadAddOns, ReadStop, AbandonRequest
<1> QED
  BY <1>2, <1>3, <1>4, <1>5, <1>6, <1>7, OnlyRequestKeeps DEF Requested

-----------------------------------------------------------------------------
(* Steps that write the report.                                            *)
LEMMA RowKeeps ==
    ASSUME ReportInv, report' \in Row, reviewed' \in Evidence,
           outbox' \subseteq Requests,
           request' \in [Requests -> Request \cup {NoOne, Over}],
           UNCHANGED <<job, ticked, photos, erased, addOn, stop, ledger,
                       lifecycle, moved, write, applied>>,
           FrozenAsReviewed', DeliveredAsSubmitted'
    PROVE  ReportInv'
<1>1. TypeOK'
  BY DEF ReportInv, TypeOK
<1>2. CountersMatch'
  BY DEF ReportInv, CountersMatch
<1> QED
  BY <1>1, <1>2, AppliedKept DEF ReportInv

(* Before its submission the row has no snapshot, and follows the request. *)
LEMMA SavedRow ==
    ASSUME ReportInv, NEW r \in Requests, request[r] \in Request,
           report.status \notin Frozen
    PROVE  /\ Saved(r) \in Row
           /\ Saved(r).snapshot = NoOne
           /\ Saved(r).status = IF request[r].ready THEN "submitted" ELSE "draft"
           /\ Saved(r).progress = request[r].progress
           /\ Saved(r).counts = request[r].counts
           /\ Saved(r).ready = request[r].ready
<1>1. report \in Row /\ report.snapshot = NoOne
  BY DEF ReportInv, TypeOK, FrozenAsReviewed, Frozen
<1>2. Saved(r) = [report EXCEPT
                    !.status = IF request[r].ready THEN "submitted" ELSE "draft",
                    !.ready = request[r].ready, !.progress = request[r].progress,
                    !.counts = request[r].counts]
  BY DEF Saved
<1>3. /\ request[r].ready \in BOOLEAN /\ request[r].progress \in 0..Total
      /\ request[r].counts \in Counts
  BY DEF Request
<1> DEFINE ready == request[r].ready
           progress == request[r].progress
           counts == request[r].counts
           status == IF ready THEN "submitted" ELSE "draft"
<1>4. status \in ReportStatus
  BY DEF ReportStatus
<1> HIDE DEF status
<1>5. Saved(r) = [report EXCEPT !.status = status, !.ready = ready,
                                !.progress = progress, !.counts = counts]
  BY <1>2 DEF status
<1> HIDE DEF ready, progress, counts
<1>6. /\ Saved(r) \in Row
      /\ Saved(r).snapshot = NoOne /\ Saved(r).status = status
      /\ Saved(r).progress = progress /\ Saved(r).counts = counts
      /\ Saved(r).ready = ready
  BY <1>1, <1>3, <1>4, <1>5 DEF Row, ready, progress, counts
<1> QED
  BY <1>6 DEF status, ready, progress, counts

LEMMA SaveKeeps ==
    ASSUME ReportInv, NEW r \in Requests, SaveReport(r)
    PROVE  ReportInv'
<1> DEFINE row == Saved(r)
<1>0. TypeOK /\ request[r] \in Request
  BY InRequest DEF ReportInv, SaveReport, At
<1>1. /\ report' = row
      /\ reviewed' = IF row.status = "submitted" /\ report.status # "submitted"
                     THEN [progress |-> row.progress, counts |-> row.counts]
                     ELSE reviewed
      /\ UNCHANGED <<job, ticked, photos, erased, addOn, stop, ledger, lifecycle,
                     moved, write, outbox, applied>>
      /\ \/ request' = [request EXCEPT ![r] = Over]
         \/ request' = [request EXCEPT
                ![r].progress = row.progress, ![r].counts = row.counts,
                ![r].ready = row.ready, ![r].at = "deliver"]
  BY DEF SaveReport, End, jobVars, crewVars
<1>2. row \in Row
  BY <1>0, SavedRow DEF Saved, TypeOK
<1>3. /\ row.progress \in 0..Total /\ row.counts \in Counts
      /\ row.ready \in BOOLEAN
  BY <1>2 DEF Row
<1>4. FrozenAsReviewed' /\ DeliveredAsSubmitted' /\ reviewed' \in Evidence
  <2>1. CASE report.status \in Frozen
    <3>1. row = report /\ reviewed' = reviewed
      BY <1>1, <2>1 DEF Saved
    <3> HIDE DEF row
    <3> QED
      BY <1>0, <1>1, <3>1, ReportKept DEF ReportInv, TypeOK
  <2>2. CASE report.status \notin Frozen
    <3>1. /\ row.snapshot = NoOne /\ row.status \in {"submitted", "draft"}
      BY <1>0, <2>2, SavedRow
    <3>2. report.status # "submitted"
      BY <2>2 DEF Frozen
    <3> HIDE DEF row
    <3>3. DeliveredAsSubmitted'
      BY <1>1, <3>1 DEF DeliveredAsSubmitted
    <3>4. FrozenAsReviewed'
      BY <1>1, <3>1, <3>2 DEF FrozenAsReviewed, Frozen
    <3>5. reviewed' \in Evidence
      BY <1>0, <1>1, <1>3 DEF TypeOK, Evidence
    <3> QED
      BY <3>3, <3>4, <3>5
  <2> QED
    BY <2>1, <2>2
<1>5. request' \in [Requests -> Request \cup {NoOne, Over}]
  <2> HIDE DEF row
  <2>1. CASE request' = [request EXCEPT ![r] = Over]
    BY <1>0, <2>1 DEF TypeOK
  <2>2. CASE request' = [request EXCEPT
                ![r].progress = row.progress, ![r].counts = row.counts,
                ![r].ready = row.ready, ![r].at = "deliver"]
    <3>1. request' = [request EXCEPT ![r] =
                        [@ EXCEPT !.progress = row.progress, !.counts = row.counts,
                                  !.ready = row.ready, !.at = "deliver"]]
      BY <1>0, <2>2 DEF TypeOK
    <3>2. [request[r] EXCEPT !.progress = row.progress, !.counts = row.counts,
                             !.ready = row.ready, !.at = "deliver"] \in Request
      BY <1>0, <1>3, RequestType
    <3> QED
      BY <1>0, <3>1, <3>2 DEF TypeOK
  <2> QED
    BY <1>1, <2>1, <2>2
<1>6. outbox' \subseteq Requests
  BY <1>0, <1>1 DEF TypeOK
<1> HIDE DEF row
<1> QED
  BY <1>1, <1>2, <1>4, <1>5, <1>6, RowKeeps

LEMMA DeliverKeeps ==
    ASSUME ReportInv, NEW r \in Requests, DeliverReport(r)
    PROVE  ReportInv'
<1> DEFINE new == [progress |-> request[r].progress, counts |-> request[r].counts,
                   photos |-> request[r].photos]
           token == IF report.token = NoOne THEN r ELSE report.token
<1>0. /\ TypeOK /\ request[r] \in Request /\ report \in Row
      /\ report.status = "in_review"
  BY InRequest DEF ReportInv, DeliverReport, DeliveryCandidate, At, TypeOK
<1>1. /\ report' = [report EXCEPT !.status = "delivered", !.token = token,
                                 !.snapshot = new]
      /\ request' = [request EXCEPT ![r] = Over]
      /\ UNCHANGED <<job, ticked, photos, erased, addOn, stop, ledger, lifecycle,
                     moved, write, outbox, applied, reviewed>>
  BY DEF DeliverReport, End, jobVars, crewVars, historyVars
<1>2. /\ new \in Snapshot
      /\ new.progress = Total /\ \A k \in Kinds : new.counts[k] > 0
      /\ new.progress = report.progress /\ new.counts = report.counts
  BY <1>0 DEF DeliverReport, Ready, Request, Snapshot
<1>3. token \in Requests \cup {NoOne}
  BY <1>0 DEF Row
<1> HIDE DEF new, token
<1>4. /\ report' \in Row /\ report'.snapshot = new
      /\ report'.status = "delivered"
      /\ report'.progress = report.progress /\ report'.counts = report.counts
  BY <1>0, <1>1, <1>2, <1>3 DEF Row, ReportStatus
<1>5. report.progress = reviewed.progress /\ report.counts = reviewed.counts
  BY <1>0 DEF ReportInv, FrozenAsReviewed, Frozen
<1>6. FrozenAsReviewed'
  BY <1>1, <1>4, <1>5 DEF FrozenAsReviewed
<1>7. DeliveredAsSubmitted'
  BY <1>1, <1>2, <1>4, <1>5 DEF DeliveredAsSubmitted, Projects, Ready
<1>8. /\ request' \in [Requests -> Request \cup {NoOne, Over}]
      /\ outbox' \subseteq Requests /\ reviewed' \in Evidence
  BY <1>0, <1>1 DEF TypeOK
<1> QED
  BY <1>1, <1>4, <1>6, <1>7, <1>8, RowKeeps

(* A review gives the row another status and reviewer, and leaves what it  *)
(* counts.                                                                 *)
LEMMA ReviewKeeps ==
    ASSUME ReportInv, NEW u \in Users, StartReview(u) \/ RequestChanges \/ Resubmit
    PROVE  ReportInv'
<1>0. /\ TypeOK /\ report \in Row
      /\ report.status \in Frozen \ {"delivered"} /\ report.snapshot = NoOne
  BY DEF ReportInv, TypeOK, StartReview, RequestChanges, Resubmit, Frozen,
         FrozenAsReviewed
<1>1. /\ UNCHANGED <<job, ticked, photos, erased, addOn, stop, ledger, lifecycle,
                     moved, write, request, outbox, applied, reviewed>>
  BY DEF StartReview, RequestChanges, Resubmit, onlyReport, jobVars, crewVars,
         historyVars
<1>2. PICK s \in ReportStatus, p \in Users \cup {NoOne} :
        report' = [report EXCEPT !.status = s, !.reviewer = p]
  <2>1. CASE StartReview(u)
    BY <2>1 DEF StartReview, ReportStatus
  <2>2. CASE RequestChanges
    <3>1. report' = [report EXCEPT !.status = "changes_requested",
                                   !.reviewer = report.reviewer]
      BY <1>0, <2>2 DEF RequestChanges, Row
    <3>2. report.reviewer \in Users \cup {NoOne}
      BY <1>0 DEF Row
    <3> QED
      BY <3>1, <3>2 DEF ReportStatus
  <2>3. CASE Resubmit
    BY <2>3 DEF Resubmit, ReportStatus
  <2> QED
    BY <2>1, <2>2, <2>3
<1>3. /\ report' \in Row /\ report'.snapshot = NoOne
      /\ report'.progress = report.progress /\ report'.counts = report.counts
  BY <1>0, <1>2 DEF Row
<1>4. FrozenAsReviewed' /\ DeliveredAsSubmitted'
  BY <1>0, <1>1, <1>3 DEF ReportInv, FrozenAsReviewed, DeliveredAsSubmitted
<1>5. /\ request' \in [Requests -> Request \cup {NoOne, Over}]
      /\ outbox' \subseteq Requests /\ reviewed' \in Evidence
  BY <1>0, <1>1 DEF TypeOK
<1> QED
  BY <1>1, <1>3, <1>4, <1>5, RowKeeps

LEMMA NotificationKeeps ==
    ASSUME ReportInv, QueueNotification
    PROVE  ReportInv'
<1>1. UNCHANGED <<job, ticked, photos, erased, addOn, stop, ledger, lifecycle,
                  moved, write, request, report, applied, reviewed>>
  BY DEF QueueNotification, jobVars, crewVars, historyVars
<1>2. TypeOK
  BY DEF ReportInv
<1>3. outbox' \subseteq Requests
  BY <1>2 DEF QueueNotification, TypeOK, Row
<1>4. /\ request' \in [Requests -> Request \cup {NoOne, Over}]
      /\ report' \in Row /\ reviewed' \in Evidence
  BY <1>1, <1>2 DEF TypeOK
<1>5. FrozenAsReviewed' /\ DeliveredAsSubmitted'
  BY <1>1, ReportKept DEF ReportInv
<1> QED
  BY <1>1, <1>3, <1>4, <1>5, RowKeeps

(* The erasure empties a snapshot's evidence, once and for all.            *)
LEMMA RedactedType ==
    ASSUME NEW s \in Snapshot
    PROVE  /\ Redacted(s) \in Snapshot /\ Redacted(s).progress = s.progress
           /\ Redacted(Redacted(s)) = Redacted(s)
<1>1. Nothing.counts \in Counts
  BY NoneCounted DEF Nothing
<1> QED
  BY <1>1 DEF Redacted, Snapshot

LEMMA EraseKeeps ==
    ASSUME ReportInv, EraseEvidence
    PROVE  ReportInv'
<1> DEFINE new == IF report.snapshot = NoOne THEN NoOne ELSE Redacted(report.snapshot)
<1>0. TypeOK /\ report \in Row
  BY DEF ReportInv, TypeOK
<1>1. /\ UNCHANGED <<job, ticked, addOn, stop, ledger, lifecycle, moved, write,
                     request, outbox, applied, reviewed>>
      /\ photos' \subseteq Photos /\ erased' \subseteq Photos
      /\ photos' \cup erased' = photos \cup erased
  BY <1>0 DEF EraseEvidence, crewVars, historyVars, TypeOK
<1>2. report' = [report EXCEPT !.snapshot = new]
  BY DEF EraseEvidence
<1>3. /\ new \in Snapshot \cup {NoOne}
      /\ report.snapshot = NoOne => new = NoOne
      /\ report.snapshot # NoOne =>
           new.progress = report.snapshot.progress /\ new = Redacted(new)
  BY <1>0, RedactedType DEF Row
<1> HIDE DEF new
<1>4. /\ report' \in Row /\ report'.snapshot = new
      /\ report'.status = report.status
      /\ report'.progress = report.progress /\ report'.counts = report.counts
  BY <1>0, <1>2, <1>3 DEF Row
<1>5. FrozenAsReviewed'
  BY <1>1, <1>3, <1>4 DEF ReportInv, FrozenAsReviewed
<1>6. DeliveredAsSubmitted'
  BY <1>1, <1>3, <1>4 DEF ReportInv, DeliveredAsSubmitted, Redacted
<1>7. TypeOK'
  BY <1>0, <1>1, <1>4 DEF TypeOK
<1>8. CountersMatch'
  BY <1>1 DEF ReportInv, CountersMatch
<1> QED
  BY <1>1, <1>5, <1>6, <1>7, <1>8, AppliedKept DEF ReportInv

-----------------------------------------------------------------------------
(* The steps without the roles that allow them.                            *)
ReportMoves ==
    \/ \E m \in Starts \cup {NoOne} : StartJob(m) \/ CompleteJob(m)
    \/ \E w \in Writers, m \in Mutations \cup {NoOne}, item \in Items, value \in BOOLEAN :
         BeginChecklistChange(w, m, item, value)
    \/ \E w \in Writers : WriteStep(w)
    \/ \E m \in Moves \cup {NoOne}, status \in {"open", "finished"} : MoveStop(m, status)
    \/ \E a \in AddOns, status \in AddOnStatus : UpdateAddOn(a, status)
    \/ JobStep
    \/ \E r \in Requests, by \in Users \cup {NoOne} : Opened(r, by)
    \/ \E r \in Requests : \/ ReadJob(r) \/ ReadPhotos(r) \/ ReadAddOns(r)
                          \/ ReadStop(r) \/ SaveReport(r) \/ DeliverReport(r)
                          \/ AbandonRequest(r)
    \/ \E u \in Users : StartReview(u) \/ RequestChanges \/ Resubmit
    \/ QueueNotification \/ EraseEvidence

LEMMA NextMoves == Next => ReportMoves
<1>1. CrewStep => ReportMoves
  BY DEF CrewStep, start_job, complete_job, update_checklist_item,
         update_job_add_on_status, update_stop_progress, ReportMoves
<1>2. ASSUME NEW u \in Users, ReviewStep(u) PROVE ReportMoves
  BY <1>2 DEF ReviewStep, start_completion_report_review,
              request_completion_report_changes, resubmit_completion_report,
              queue_completion_report_delivery_notification,
              erase_customer_photo_evidence, ReportMoves
<1>3. ASSUME NEW r \in Requests, RequestStep(r) PROVE ReportMoves
  BY <1>3 DEF RequestStep, get_completion_report, deliver_completion_report,
              ReportMoves
<1>4. JobStep \/ (\E w \in Writers : WriteStep(w)) => ReportMoves
  BY DEF ReportMoves
<1> QED
  BY <1>1, <1>2, <1>3, <1>4 DEF Next

LEMMA ReportStep == ReportInv /\ [Next]_vars => ReportInv'
<1> SUFFICES ASSUME ReportInv, [Next]_vars PROVE ReportInv'
  OBVIOUS
<1>1. CASE Next
  <2>1. ReportMoves
    BY <1>1, NextMoves
  <2>2. ASSUME NEW w \in Writers, WriteStep(w) PROVE ReportInv'
    BY <2>2, CountKeeps, CommitKeeps, AbortKeeps DEF WriteStep
  <2>3. ASSUME JobStep PROVE ReportInv'
    BY <2>3, PhotoKeeps, WorkKeeps DEF JobStep
  <2>4. ASSUME NEW r \in Requests,
               \/ \E by \in Users \cup {NoOne} : Opened(r, by)
               \/ ReadJob(r) \/ ReadPhotos(r) \/ ReadAddOns(r) \/ ReadStop(r)
               \/ SaveReport(r) \/ DeliverReport(r) \/ AbandonRequest(r)
        PROVE  ReportInv'
    BY <2>4, ReadKeepsReport, SaveKeeps, DeliverKeeps
  <2> QED
    BY <2>1, <2>2, <2>3, <2>4, LifecycleKeeps, BeginKeeps, MoveKeeps, WorkKeeps,
       ReviewKeeps, NotificationKeeps, EraseKeeps DEF ReportMoves
<1>2. CASE UNCHANGED vars
  <2>1. UNCHANGED <<job, ticked, photos, erased, addOn, stop, ledger, lifecycle,
                    moved, write, request, report, outbox, applied, reviewed>>
    BY <1>2 DEF vars, jobVars, crewVars, reportVars, historyVars
  <2>2. TypeOK' /\ CountersMatch'
    BY <2>1 DEF ReportInv, TypeOK, CountersMatch
  <2> QED
    BY <2>1, <2>2, AppliedKept, ReportKept DEF ReportInv
<1> QED
  BY <1>1, <1>2

LEMMA ReportInvariant == Spec => []ReportInv
BY ReportStart, ReportStep, PTL DEF Spec

\* The job, the crew's changes, the report and the requests that build it are
\* well typed: no counter of the job or of the report leaves what there is to
\* count (checklist_progress is never over 100).
THEOREM ReportTypeCorrect == Spec => []TypeOK
BY ReportInvariant, PTL DEF ReportInv

\* A customer gets what was submitted: a delivered snapshot has the counts the
\* report was submitted with, whatever the crew did since, for any number of
\* concurrent reads and deliveries.
THEOREM DeliversWhatWasSubmitted == Spec => []DeliveredAsSubmitted
BY ReportInvariant, PTL DEF ReportInv

\* A client mutation id takes effect once (checklist_mutations and
\* stop_progress_mutations), for any number of transactions under way.
THEOREM TakesEffectOnce == Spec => []AppliedOnce
BY ReportInvariant, PTL DEF ReportInv

LEMMA DeliveryStays ==
    ReportInv /\ [Next]_vars
    => (report.status = "delivered" =>
          /\ report'.status = "delivered"
          /\ report'.token = report.token
          /\ report'.snapshot \in {report.snapshot, Redacted(report.snapshot)})
<1> DEFINE Final == report.status = "delivered" =>
                      /\ report'.status = "delivered"
                      /\ report'.token = report.token
                      /\ report'.snapshot \in {report.snapshot,
                                              Redacted(report.snapshot)}
<1>1. ASSUME ReportInv, Next PROVE Final
  <2>0. report \in Row /\ ReportMoves
    BY <1>1, NextMoves DEF ReportInv, TypeOK
  <2>1. ASSUME UNCHANGED report PROVE Final
    BY <2>1
  <2>2. ASSUME report.status \in {"submitted", "in_review", "changes_requested"}
        PROVE  Final
    BY <2>2
  <2>3. ASSUME NEW r \in Requests, SaveReport(r) PROVE Final
    <3>1. report.status = "delivered" => report' = report
      BY <2>3 DEF SaveReport, Saved, Frozen
    <3> QED
      BY <3>1
  <2>4. ASSUME EraseEvidence PROVE Final
    <3> DEFINE new == IF report.snapshot = NoOne THEN NoOne
                      ELSE Redacted(report.snapshot)
    <3>1. report' = [report EXCEPT !.snapshot = new]
      BY <2>4 DEF EraseEvidence
    <3>2. new \in {report.snapshot, Redacted(report.snapshot)}
      OBVIOUS
    <3> HIDE DEF new
    <3>3. report'.status = report.status /\ report'.token = report.token
          /\ report'.snapshot = new
      BY <2>0, <3>1 DEF Row
    <3> QED
      BY <3>2, <3>3
  <2> HIDE DEF Final
  <2>5. \/ UNCHANGED report
        \/ report.status \in {"submitted", "in_review", "changes_requested"}
        \/ \E r \in Requests : SaveReport(r)
        \/ EraseEvidence
    BY <2>0 DEF ReportMoves, StartJob, CompleteJob, BeginChecklistChange, WriteStep,
                CountChecklist, CommitChecklistChange, AbortChecklistChange, MoveStop,
                UpdateAddOn, JobStep, SellAddOn, TakePhoto, ChangeRoute, Opened,
                ReadJob, ReadPhotos, ReadAddOns, ReadStop, AbandonRequest,
                DeliverReport, DeliveryCandidate, StartReview, RequestChanges,
                Resubmit, QueueNotification, onlyRequest, reportVars
  <2> QED
    BY <2>1, <2>2, <2>3, <2>4, <2>5
<1>2. UNCHANGED vars => Final
  BY DEF vars, reportVars
<1> QED
  BY <1>1, <1>2

\* A delivered report keeps its status and its link, and its snapshot but for
\* the erasure of its photos (deliver_completion_report, erase evidence).
THEOREM DeliveryIsFinal == Spec => DeliveredIsFinal
BY DeliveryStays, ReportInvariant, PTL DEF Spec, DeliveredIsFinal

-----------------------------------------------------------------------------
(* The phone: what the taps, the store and the replays know of each other. *)
Lists(list, m) == \E n \in DOMAIN list : list[n] = m

\* What was made was asked for, and so was what is on its way.
Asks ==
    \A m \in Changes : /\ asked[m] \in Wants(m) \cup {NoOne}
                       /\ asked[m] = NoOne <=> tap[m] = NoOne
Asked == \A r \in net : asked[r.change] # NoOne

\* What has been saved is not saved again, and what is in the store has been.
SavedOnce ==
    \A m \in Changes : Lists(order, m) =>
        tap[m] # NoOne /\ tap[m].at \in {"marking", "over"}
StoreListed ==
    \A m \in Changes :
        saved[m] # "none" \/ (tap[m] # NoOne /\ tap[m].at = "marking") => Lists(order, m)

TapInv == Asks /\ Asked /\ SavedOnce /\ StoreListed

\* A replay that goes on has something to send, of its kind.
LoopInv ==
    \A q \in Replays :
        /\ loop[q].at # "idle" => loop[q].todo # <<>>
        /\ \A i \in DOMAIN loop[q].todo :
              loop[q].todo[i] \in q[2] /\ Lists(order, loop[q].todo[i])

PhoneInv == OfflineTypeOK /\ TapInv /\ LoopInv

-----------------------------------------------------------------------------
LEMMA NothingMade ==
    /\ \A m \in Changes : NoOne \notin Wants(m)
    /\ NoOne \notin Tap /\ NoOne \notin Pages /\ NoOne \notin Changes
BY PhoneAssumption DEF Wants, Want

LEMMA KindsOf ==
    \A m \in Changes : /\ KindOfChange(m) \in QueueKinds /\ m \in KindOfChange(m)
                       /\ \A k \in QueueKinds : m \in k => k = KindOfChange(m)
BY PhoneAssumption DEF Changes, QueueKinds, KindOfChange

LEMMA PhoneStart == OfflineInit => PhoneInv
<1> SUFFICES ASSUME OfflineInit PROVE PhoneInv
  OBVIOUS
<1>1. Idle \in Loop /\ Idle.todo = <<>> /\ Idle.at = "idle" /\ DOMAIN Idle.todo = {}
  BY DEF Idle, Loop
<1> HIDE DEF Idle, Loop
<1>2. OfflineTypeOK
  <2>1. order \in Seq(Changes) /\ Distinct(order)
    <3>1. order = <<>>
      BY DEF OfflineInit
    <3> QED
      BY <3>1 DEF Distinct
  <2>2. loop \in [Replays -> Loop]
        /\ \A q \in Replays : Distinct(loop[q].todo)
    BY <1>1 DEF OfflineInit, Distinct
  <2>3. asked \in [Changes -> Want \cup {NoOne}]
    BY DEF OfflineInit
  <2>4. /\ tap \in [Changes -> Tap \cup {NoOne}]
        /\ saved \in [Changes -> SyncState \cup {"none"}]
    BY DEF OfflineInit
  <2>5. /\ net \subseteq Message /\ known \in [Pages -> SUBSET Moves]
        /\ listing \subseteq Pages /\ landed \subseteq Changes /\ discarded \subseteq Changes
    BY DEF OfflineInit
  <2> QED
    BY <2>1, <2>2, <2>3, <2>4, <2>5 DEF OfflineTypeOK
<1>3. TapInv
  BY DEF OfflineInit, TapInv, Asks, Asked, SavedOnce, StoreListed, Lists
<1>4. LoopInv
  BY <1>1 DEF OfflineInit, LoopInv
<1> QED
  BY <1>2, <1>3, <1>4 DEF PhoneInv

LEMMA GoesTo ==
    ASSUME OfflineTypeOK, NEW m \in Changes, NEW at, tap[m] # NoOne, Goes(m, at),
           at \in {"sent", "refused", "saving", "marking", "over"}
    PROVE  /\ tap' \in [Changes -> Tap \cup {NoOne}]
           /\ tap'[m] \in Tap /\ tap'[m].at = at
           /\ \A x \in Changes : x # m => tap'[x] = tap[x]
<1>1. tap \in [Changes -> Tap \cup {NoOne}] /\ tap[m] \in Tap
  BY DEF OfflineTypeOK
<1> DEFINE new == [tap[m] EXCEPT !.at = at]
<1>2. tap' = [tap EXCEPT ![m] = new]
  BY DEF Goes
<1>3. new \in Tap /\ new.at = at
  BY <1>1 DEF Tap
<1> HIDE DEF new
<1> QED
  BY <1>1, <1>2, <1>3

LEMMA ProceedsTo ==
    ASSUME OfflineTypeOK, NEW p \in Pages, NEW k \in QueueKinds, NEW at,
           Proceeds(p, k, at),
           at \in {"idle", "send", "wait", "ok", "failed", "conflict"}
    PROVE  /\ loop' \in [Replays -> Loop]
           /\ loop'[<<p, k>>].todo = loop[<<p, k>>].todo /\ loop'[<<p, k>>].at = at
           /\ \A q \in Replays : q # <<p, k>> => loop'[q] = loop[q]
<1>1. <<p, k>> \in Replays
  BY DEF Replays
<1> DEFINE pk == <<p, k>>
           new == [loop[pk] EXCEPT !.at = at]
<1>2. loop \in [Replays -> Loop] /\ loop[pk] \in Loop
  BY <1>1 DEF OfflineTypeOK
<1>3. loop' = [loop EXCEPT ![pk] = new]
  BY DEF Proceeds
<1>4. new \in Loop /\ new.at = at /\ new.todo = loop[pk].todo
  BY <1>2 DEF Loop
<1> HIDE DEF new
<1> QED
  BY <1>1, <1>2, <1>3, <1>4

-----------------------------------------------------------------------------
(* The steps of taps.                                                      *)
LEMMA MadeTo ==
    ASSUME OfflineTypeOK, NEW m \in Changes, NEW p \in Pages, NEW want \in Wants(m),
           NEW at \in {"sent", "saving"}, Made(m, p, want, at)
    PROVE  /\ asked' \in [Changes -> Want \cup {NoOne}]
           /\ tap' \in [Changes -> Tap \cup {NoOne}]
           /\ asked'[m] = want /\ tap'[m] \in Tap /\ tap'[m].at = at
           /\ \A x \in Changes : x # m => asked'[x] = asked[x] /\ tap'[x] = tap[x]
<1> DEFINE new == [page |-> p, at |-> at]
<1>1. want \in Want
  BY DEF Want, Wants
<1>2. new \in Tap /\ new.at = at
  BY DEF Tap
<1>3. asked' = [asked EXCEPT ![m] = want] /\ tap' = [tap EXCEPT ![m] = new]
  BY DEF Made
<1> HIDE DEF new
<1>4. asked \in [Changes -> Want \cup {NoOne}] /\ tap \in [Changes -> Tap \cup {NoOne}]
  BY DEF OfflineTypeOK
<1>5. /\ asked' \in [Changes -> Want \cup {NoOne}]
      /\ asked'[m] = want
      /\ \A x \in Changes : x # m => asked'[x] = asked[x]
  BY <1>1, <1>3, <1>4
<1>6. /\ tap' \in [Changes -> Tap \cup {NoOne}]
      /\ tap'[m] = new
      /\ \A x \in Changes : x # m => tap'[x] = tap[x]
  BY <1>2, <1>3, <1>4
<1> QED
  BY <1>2, <1>5, <1>6

LEMMA MadeKeeps ==
    ASSUME PhoneInv, NEW p \in Pages, NEW m \in Changes, NEW want \in Wants(m),
           NEW at \in {"sent", "saving"}, Made(m, p, want, at),
           net' = net \/ net' = net \cup {[change |-> m, page |-> NoOne]},
           UNCHANGED <<saved, order, loop, known, listing, landed, discarded>>
    PROVE  PhoneInv'
<1> USE NothingMade
<1>1. OfflineTypeOK /\ TapInv /\ LoopInv
  BY DEF PhoneInv
<1>2. /\ asked' \in [Changes -> Want \cup {NoOne}]
      /\ tap' \in [Changes -> Tap \cup {NoOne}]
      /\ asked'[m] = want /\ tap'[m] \in Tap /\ tap'[m].at = at
      /\ \A x \in Changes : x # m => asked'[x] = asked[x] /\ tap'[x] = tap[x]
  BY <1>1, MadeTo
<1>3. net' \subseteq Message
  <2>1. [change |-> m, page |-> NoOne] \in Message
    BY DEF Message
  <2> QED
    BY <1>1, <2>1 DEF OfflineTypeOK
<1>4. OfflineTypeOK'
  BY <1>1, <1>2, <1>3 DEF OfflineTypeOK
<1>5. TapInv'
  <2>1. asked[m] = NoOne /\ tap[m] = NoOne /\ ~Lists(order, m) /\ want # NoOne
        /\ tap'[m] # NoOne
    BY <1>1, <1>2 DEF Made, TapInv, Asks, SavedOnce
  <2>2. Asks'
    BY <1>1, <1>2, <2>1 DEF TapInv, Asks
  <2>3. Asked'
    BY <1>1, <1>2, <2>1 DEF TapInv, Asked, OfflineTypeOK, Message
  <2>4. SavedOnce'
    BY <1>1, <1>2, <2>1 DEF TapInv, SavedOnce
  <2>5. StoreListed'
    BY <1>1, <1>2, <2>1 DEF TapInv, StoreListed
  <2> QED
    BY <2>2, <2>3, <2>4, <2>5 DEF TapInv
<1>6. LoopInv'
  BY <1>1 DEF LoopInv, OfflineTypeOK
<1> QED
  BY <1>4, <1>5, <1>6 DEF PhoneInv

\* A change that gets further, but is not saved.
LEMMA GoesOn ==
    ASSUME OfflineTypeOK, TapInv, NEW m \in Changes, tap[m] # NoOne,
           NEW at \in {"refused", "saving", "over"}, Goes(m, at),
           at # "over" => ~Lists(order, m),
           net' \subseteq net, UNCHANGED <<asked, saved, order>>
    PROVE  tap' \in [Changes -> Tap \cup {NoOne}] /\ TapInv'
<1> USE NothingMade
<1>1. /\ tap' \in [Changes -> Tap \cup {NoOne}]
      /\ tap'[m] \in Tap /\ tap'[m].at = at
      /\ \A x \in Changes : x # m => tap'[x] = tap[x]
  BY GoesTo
<1>2. Asks'
  BY <1>1 DEF TapInv, Asks
<1>3. Asked'
  BY DEF TapInv, Asked
<1>4. SavedOnce'
  BY <1>1 DEF TapInv, SavedOnce
<1>5. StoreListed'
  BY <1>1 DEF TapInv, StoreListed
<1> QED
  BY <1>1, <1>2, <1>3, <1>4, <1>5 DEF TapInv

LEMMA GoesOnKeeps ==
    ASSUME PhoneInv, NEW m \in Changes, AttemptFails(m) \/ StorageUnavailable(m)
    PROVE  PhoneInv'
<1>1. OfflineTypeOK /\ TapInv /\ LoopInv
  BY DEF PhoneInv
<1>2. PICK at \in {"refused", "saving", "over"} :
         /\ tap[m] # NoOne /\ tap[m].at \in {"sent", "saving", "refused"}
         /\ Goes(m, at)
  BY DEF AttemptFails, StorageUnavailable, Stands
<1>3. UNCHANGED <<asked, saved, order, net, loop, known, listing, landed, discarded>>
  BY DEF AttemptFails, StorageUnavailable
<1>4. ~Lists(order, m)
  BY <1>1, <1>2 DEF TapInv, SavedOnce
<1>5. tap' \in [Changes -> Tap \cup {NoOne}] /\ TapInv'
  BY <1>1, <1>2, <1>3, <1>4, GoesOn
<1>6. OfflineTypeOK'
  BY <1>1, <1>3, <1>5 DEF OfflineTypeOK
<1>7. LoopInv'
  BY <1>1, <1>3 DEF LoopInv
<1> QED
  BY <1>5, <1>6, <1>7 DEF PhoneInv

LEMMA ShowsTo ==
    ASSUME OfflineTypeOK, NEW p \in Pages, NEW m, Shows(p, m)
    PROVE  known' \in [Pages -> SUBSET Moves]
BY DEF OfflineTypeOK, Shows

\* What is appended to the list of what was saved.
LEMMA Appended ==
    ASSUME order \in Seq(Changes), Distinct(order), NEW m \in Changes,
           ~Lists(order, m), order' = Append(order, m)
    PROVE  /\ order' \in Seq(Changes) /\ Distinct(order')
           /\ Lists(order', m)
           /\ \A x : Lists(order', x) <=> Lists(order, x) \/ x = m
<1>1. /\ order' \in Seq(Changes) /\ Len(order) \in Nat
      /\ DOMAIN order = 1..Len(order) /\ DOMAIN order' = 1..Len(order) + 1
      /\ \A n \in DOMAIN order : order'[n] = order[n]
      /\ order'[Len(order) + 1] = m
  OBVIOUS
<1>2. \A n \in DOMAIN order' : n \in DOMAIN order \/ n = Len(order) + 1
  BY <1>1
<1>3. DOMAIN order \subseteq DOMAIN order' /\ Len(order) + 1 \in DOMAIN order'
  BY <1>1
<1>4. Distinct(order')
  BY <1>1, <1>2 DEF Distinct, Lists
<1> HIDE <1>1
<1>5. \A x : Lists(order', x) <=> Lists(order, x) \/ x = m
  BY <1>1, <1>2, <1>3, Zenon DEF Lists
<1> QED
  BY <1>1, <1>4, <1>5

LEMMA EnqueueKeeps ==
    ASSUME PhoneInv, NEW m \in Changes, enqueueMutation(m)
    PROVE  PhoneInv' /\ ~Lists(order, m)
<1> USE NothingMade
<1>1. OfflineTypeOK /\ TapInv /\ LoopInv
  BY DEF PhoneInv
<1>2. tap[m] # NoOne /\ tap[m].at \in {"saving", "refused"} /\ ~Lists(order, m)
  BY <1>1 DEF TapInv, SavedOnce, enqueueMutation, Stands
<1>3. PICK at \in {"marking", "over"} : Goes(m, at)
  BY DEF enqueueMutation
<1>4. /\ tap' \in [Changes -> Tap \cup {NoOne}]
      /\ tap'[m] \in Tap /\ tap'[m].at = at
      /\ \A x \in Changes : x # m => tap'[x] = tap[x]
  BY <1>1, <1>2, <1>3, GoesTo
<1>5. UNCHANGED <<asked, net, loop, listing, landed, discarded>>
  BY DEF enqueueMutation
<1>6. /\ saved' \in [Changes -> SyncState \cup {"none"}]
      /\ \A x \in Changes : x # m => saved'[x] = saved[x]
  BY <1>1 DEF enqueueMutation, OfflineTypeOK, SyncState
<1>7. /\ order' \in Seq(Changes) /\ Distinct(order')
      /\ \A x : Lists(order', x) <=> Lists(order, x) \/ x = m
  BY <1>1, <1>2, Appended DEF enqueueMutation, OfflineTypeOK
<1>8. known' \in [Pages -> SUBSET Moves]
  <2>1. tap[m].page \in Pages /\ known \in [Pages -> SUBSET Moves]
    BY <1>1, <1>2 DEF OfflineTypeOK, Tap
  <2> QED
    BY <1>1, <2>1, ShowsTo DEF enqueueMutation
<1>9. OfflineTypeOK'
  BY <1>1, <1>4, <1>5, <1>6, <1>7, <1>8 DEF OfflineTypeOK
<1>10. TapInv'
  <2>1. Asks'
    BY <1>1, <1>2, <1>4, <1>5 DEF TapInv, Asks
  <2>2. Asked'
    BY <1>1, <1>5 DEF TapInv, Asked
  <2>3. SavedOnce'
    BY <1>1, <1>4, <1>7 DEF TapInv, SavedOnce
  <2>4. StoreListed'
    BY <1>1, <1>4, <1>6, <1>7 DEF TapInv, StoreListed
  <2> QED
    BY <2>1, <2>2, <2>3, <2>4 DEF TapInv
<1>11. LoopInv'
  BY <1>1, <1>5, <1>7 DEF LoopInv
<1> QED
  BY <1>2, <1>9, <1>10, <1>11 DEF PhoneInv

LEMMA MarkRefusedKeeps ==
    ASSUME PhoneInv, NEW m \in Changes, markRefused(m)
    PROVE  PhoneInv' /\ Lists(order, m)
<1> USE NothingMade
<1>1. OfflineTypeOK /\ TapInv /\ LoopInv
  BY DEF PhoneInv
<1>2. tap[m] # NoOne /\ tap[m].at = "marking" /\ Lists(order, m)
  BY <1>1 DEF TapInv, StoreListed, markRefused, Stands
<1>3. /\ tap' \in [Changes -> Tap \cup {NoOne}]
      /\ tap'[m] \in Tap /\ tap'[m].at = "over"
      /\ \A x \in Changes : x # m => tap'[x] = tap[x]
  BY <1>1, <1>2, GoesTo DEF markRefused
<1>4. UNCHANGED <<asked, order, net, loop, listing, landed, discarded>>
  BY DEF markRefused
<1>5. /\ saved' \in [Changes -> SyncState \cup {"none"}]
      /\ \A x \in Changes : x # m => saved'[x] = saved[x]
  BY <1>1 DEF markRefused, OfflineTypeOK, SyncState
<1>6. known' \in [Pages -> SUBSET Moves]
  <2>1. tap[m].page \in Pages
    BY <1>1, <1>2 DEF OfflineTypeOK, Tap
  <2> QED
    BY <1>1, <2>1, ShowsTo DEF markRefused
<1>7. OfflineTypeOK'
  BY <1>1, <1>3, <1>4, <1>5, <1>6 DEF OfflineTypeOK
<1>8. TapInv'
  <2>1. Asks'
    BY <1>1, <1>2, <1>3, <1>4 DEF TapInv, Asks
  <2>2. Asked'
    BY <1>1, <1>4 DEF TapInv, Asked
  <2>3. SavedOnce'
    BY <1>1, <1>3, <1>4 DEF TapInv, SavedOnce
  <2>4. StoreListed'
    BY <1>1, <1>2, <1>3, <1>4, <1>5 DEF TapInv, StoreListed
  <2> QED
    BY <2>1, <2>2, <2>3, <2>4 DEF TapInv
<1>9. LoopInv'
  BY <1>1, <1>4 DEF LoopInv
<1> QED
  BY <1>2, <1>7, <1>8, <1>9 DEF PhoneInv

-----------------------------------------------------------------------------
(* The steps of replays.                                                   *)

LEMMA ToReplay ==
    ASSUME OfflineTypeOK, StoreListed, NEW k \in QueueKinds, Due(k) # {},
           NEW places \in [1..Cardinality(Due(k)) -> Due(k)],
           Ascending(places, Due(k)),
           NEW todo, todo = [i \in DOMAIN places |-> order[places[i]]]
    PROVE  /\ todo \in Seq(Changes) /\ todo # <<>> /\ Distinct(todo)
           /\ DOMAIN todo = DOMAIN places
           /\ \A i \in DOMAIN todo :
                 /\ places[i] \in Due(k) /\ todo[i] = order[places[i]]
                 /\ todo[i] \in k /\ Lists(order, todo[i])
<1>1. order \in Seq(Changes) /\ Distinct(order) /\ Len(order) \in Nat
      /\ DOMAIN order = 1..Len(order)
  BY DEF OfflineTypeOK
<1>2. Cardinality(Due(k)) \in Nat
  <2>1. IsFiniteSet(DOMAIN order)
    BY <1>1, FS_Interval
  <2> QED
    BY <2>1, FS_Subset, FS_CardinalityType DEF Due
<1>3. DOMAIN places = 1..Cardinality(Due(k))
      /\ \A i \in DOMAIN places : places[i] \in Due(k) /\ places[i] \in DOMAIN order
  BY DEF Due
<1>4. \A n \in Due(k) : n \in DOMAIN order /\ order[n] \in Changes /\ order[n] \in k
  BY <1>1 DEF Due, InStore
<1> DEFINE size == Cardinality(Due(k))
<1>5. todo \in [1..size -> Changes] /\ DOMAIN todo = 1..size
      /\ \A i \in 1..size : todo[i] = order[places[i]]
  BY <1>3, <1>4
<1>6. todo \in Seq(Changes) /\ Len(todo) = size
  <2> DEFINE entry(i) == order[places[i]]
  <2>1. size \in Nat
    BY <1>2
  <2>2. todo = [i \in 1..size |-> entry(i)]
    BY <1>3
  <2>3. \A i \in 1..size : entry(i) \in Changes
    BY <1>3, <1>4
  <2> HIDE DEF size, entry
  <2>4. [i \in 1..size |-> entry(i)] \in Seq(Changes)
    BY <2>1, <2>3
  <2>5. Len([i \in 1..size |-> entry(i)]) = size
    BY <2>1
  <2> QED
    BY <2>2, <2>4, <2>5
<1>7. todo # <<>>
  <2>1. PICK n \in Due(k) : TRUE
    OBVIOUS
  <2>2. \E i \in DOMAIN places : places[i] = n
    BY <2>1 DEF Ascending
  <2>3. size # 0
    BY <1>2, <1>3, <2>2
  <2> QED
    BY <1>6, <2>3
<1>8. Distinct(todo)
  <2> SUFFICES ASSUME NEW i \in DOMAIN todo, NEW j \in DOMAIN todo, todo[i] = todo[j]
               PROVE  i = j
    BY DEF Distinct
  <2>1. places[i] = places[j]
    <3>1. /\ places[i] \in DOMAIN order /\ places[j] \in DOMAIN order
          /\ order[places[i]] = order[places[j]]
      BY <1>3, <1>5
    <3> QED
      BY <1>1, <3>1 DEF Distinct
  <2>2. i \in Nat /\ j \in Nat /\ places[i] \in Nat /\ places[j] \in Nat
    <3>1. i \in 1..size /\ j \in 1..size
      BY <1>5
    <3>2. places[i] \in 1..Len(order) /\ places[j] \in 1..Len(order)
      BY <1>1, <1>3, <3>1
    <3> QED
      BY <1>1, <1>2, <3>1, <3>2
  <2>3. i \in DOMAIN places /\ j \in DOMAIN places
    BY <1>3, <1>5
  <2>4. \A x, y \in DOMAIN places : x < y => places[x] < places[y]
    BY DEF Ascending
  <2>5. ~(i < j) /\ ~(j < i)
    BY <2>1, <2>2, <2>3, <2>4
  <2> QED
    BY <2>2, <2>5
<1>9. \A i \in DOMAIN todo : /\ places[i] \in Due(k) /\ todo[i] = order[places[i]]
                             /\ todo[i] \in k /\ Lists(order, todo[i])
  BY <1>3, <1>4, <1>5 DEF Lists
<1> QED
  BY <1>3, <1>5, <1>6, <1>7, <1>8, <1>9

LEMMA InReplays == \A p \in Pages, k \in QueueKinds : <<p, k>> \in Replays
BY DEF Replays

\* The head of a list that is not empty, and what follows it.
LEMMA HeadAndTail ==
    ASSUME NEW S, NEW list \in Seq(S), list # <<>>
    PROVE  /\ 1 \in DOMAIN list /\ Head(list) = list[1] /\ Head(list) \in S
           /\ Tail(list) \in Seq(S)
           /\ Len(list) # 1 => Tail(list) # <<>>
           /\ \A i \in DOMAIN Tail(list) :
                 i + 1 \in DOMAIN list /\ Tail(list)[i] = list[i + 1]
           /\ \A j \in DOMAIN list : j # 1 =>
                 j - 1 \in DOMAIN Tail(list) /\ Tail(list)[j - 1] = list[j]
           /\ Distinct(list) => Distinct(Tail(list))
<1>1. /\ 1 \in DOMAIN list /\ Head(list) = list[1] /\ Head(list) \in S
      /\ Tail(list) \in Seq(S)
  OBVIOUS
<1>5. Len(list) # 1 => Tail(list) # <<>>
  <2>1. Len(list) \in Nat /\ Len(list) > 0 /\ Len(Tail(list)) = Len(list) - 1
    OBVIOUS
  <2>2. Len(list) # 1 => Len(Tail(list)) # 0
    BY <2>1
  <2> QED
    BY <1>1, <2>2
<1>2. /\ \A i \in DOMAIN Tail(list) :
            i + 1 \in DOMAIN list /\ Tail(list)[i] = list[i + 1]
      /\ \A j \in DOMAIN list : j # 1 =>
            j - 1 \in DOMAIN Tail(list) /\ Tail(list)[j - 1] = list[j]
  OBVIOUS
<1>3. \A i \in DOMAIN Tail(list) : i \in Nat
  BY <1>1
<1>4. ASSUME Distinct(list) PROVE Distinct(Tail(list))
  <2> SUFFICES ASSUME NEW i \in DOMAIN Tail(list), NEW j \in DOMAIN Tail(list),
                      Tail(list)[i] = Tail(list)[j]
               PROVE  i = j
    BY DEF Distinct
  <2>1. i + 1 = j + 1
    BY <1>2, <1>4 DEF Distinct
  <2> QED
    BY <1>3, <2>1
<1> QED
  BY <1>1, <1>2, <1>4, <1>5

\* What a replay is about to send, or has sent.
LEMMA CurrentOf ==
    ASSUME PhoneInv, NEW p \in Pages, NEW k \in QueueKinds,
           loop[<<p, k>>].at # "idle"
    PROVE  /\ loop[<<p, k>>] \in Loop /\ loop[<<p, k>>].todo \in Seq(Changes)
           /\ loop[<<p, k>>].todo # <<>> /\ Distinct(loop[<<p, k>>].todo)
           /\ Current(p, k) = loop[<<p, k>>].todo[1]
           /\ 1 \in DOMAIN loop[<<p, k>>].todo
           /\ Current(p, k) \in Changes /\ Current(p, k) \in k
           /\ Lists(order, Current(p, k))
           /\ asked[Current(p, k)] # NoOne
<1> DEFINE pk == <<p, k>>
           todo == loop[pk].todo
<1>1. pk \in Replays /\ pk[2] = k
  BY InReplays
<1> HIDE DEF pk
<1>2. loop[pk] \in Loop /\ Distinct(todo)
  BY <1>1 DEF PhoneInv, OfflineTypeOK
<1>3. todo \in Seq(Changes)
  BY <1>2 DEF Loop
<1>4. todo # <<>> /\ \A i \in DOMAIN todo : todo[i] \in k /\ Lists(order, todo[i])
  BY <1>1 DEF PhoneInv, LoopInv, pk
<1> HIDE DEF todo
<1>5. 1 \in DOMAIN todo /\ Head(todo) = todo[1] /\ Head(todo) \in Changes
  BY <1>3, <1>4, HeadAndTail
<1>6. Current(p, k) = Head(todo)
  BY DEF Current, todo, pk
<1>7. asked[Head(todo)] # NoOne
  BY <1>4, <1>5 DEF PhoneInv, TapInv, Asks, SavedOnce
<1> QED
  BY <1>2, <1>3, <1>4, <1>5, <1>6, <1>7 DEF todo, pk

\* What a list has to be for a replay of a kind.
Sound(entry, k) ==
    /\ Distinct(entry.todo)
    /\ entry.at # "idle" => entry.todo # <<>>
    /\ \A i \in DOMAIN entry.todo : entry.todo[i] \in k /\ Lists(order, entry.todo[i])

LEMMA SoundLoops ==
    ASSUME PhoneInv, NEW q \in Replays
    PROVE  loop[q] \in Loop /\ Sound(loop[q], q[2])
BY DEF PhoneInv, OfflineTypeOK, LoopInv, Sound

LEMMA SoundIdle == \A k : Idle \in Loop /\ Sound(Idle, k)
<1>1. Idle \in Loop /\ Idle.todo = <<>> /\ Idle.at = "idle"
  BY DEF Idle, Loop
<1> QED
  BY <1>1 DEF Sound, Distinct

LEMMA ReplayKeeps ==
    ASSUME PhoneInv, UNCHANGED <<asked, tap, order>>,
           net' \subseteq Message, \A r \in net' : asked[r.change] # NoOne,
           saved' \in [Changes -> SyncState \cup {"none"}],
           \A m \in Changes : saved'[m] # "none" => saved[m] # "none" \/ Lists(order, m),
           loop' \in [Replays -> Loop],
           \A q \in Replays : loop'[q] = loop[q] \/ Sound(loop'[q], q[2]),
           known' \in [Pages -> SUBSET Moves], listing' \subseteq Pages,
           landed' \subseteq Changes, discarded' \subseteq Changes
    PROVE  PhoneInv'
<1>1. \A q \in Replays : Sound(loop'[q], q[2])
  BY SoundLoops
<1>2. OfflineTypeOK'
  BY <1>1 DEF PhoneInv, OfflineTypeOK, Sound
<1>3. TapInv'
  <2>1. Asks' /\ Asked' /\ SavedOnce'
    BY DEF PhoneInv, TapInv, Asks, Asked, SavedOnce
  <2>2. StoreListed'
    BY DEF PhoneInv, TapInv, StoreListed
  <2> QED
    BY <2>1, <2>2 DEF TapInv
<1>4. LoopInv'
  BY <1>1 DEF LoopInv, Sound
<1> QED
  BY <1>2, <1>3, <1>4 DEF PhoneInv

LEMMA LoopBecomes ==
    ASSUME OfflineTypeOK, NEW p \in Pages, NEW k \in QueueKinds, NEW new \in Loop,
           Sound(new, k), loop' = [loop EXCEPT ![<<p, k>>] = new]
    PROVE  /\ loop' \in [Replays -> Loop] /\ loop'[<<p, k>>] = new
           /\ \A q \in Replays : q # <<p, k>> => loop'[q] = loop[q]
           /\ \A q \in Replays : loop'[q] = loop[q] \/ Sound(loop'[q], q[2])
<1> DEFINE pk == <<p, k>>
<1>1. pk \in Replays /\ pk[2] = k
  BY InReplays
<1>2. loop \in [Replays -> Loop] /\ loop' = [loop EXCEPT ![pk] = new]
  BY DEF OfflineTypeOK
<1> HIDE DEF pk
<1>3. /\ loop' \in [Replays -> Loop] /\ loop'[pk] = new
      /\ \A q \in Replays : q # pk => loop'[q] = loop[q]
  BY <1>1, <1>2
<1> QED
  BY <1>1, <1>3 DEF pk

LEMMA BeginReplayKeeps ==
    ASSUME PhoneInv, NEW p \in Pages, NEW k \in QueueKinds, BeginReplay(p, k)
    PROVE  PhoneInv'
<1>1. PICK places \in [1..Cardinality(Due(k)) -> Due(k)] :
          /\ Ascending(places, Due(k))
          /\ loop' = [loop EXCEPT ![<<p, k>>] =
                        [todo |-> [i \in DOMAIN places |-> order[places[i]]],
                         at |-> "send"]]
  BY DEF BeginReplay
<1> DEFINE todo == [i \in DOMAIN places |-> order[places[i]]]
           new == [todo |-> todo, at |-> "send"]
<1>2. Due(k) # {} /\ OfflineTypeOK /\ StoreListed
  BY DEF BeginReplay, PhoneInv, TapInv
<1>3. /\ todo \in Seq(Changes) /\ todo # <<>> /\ Distinct(todo)
      /\ \A i \in DOMAIN todo : todo[i] \in k /\ Lists(order, todo[i])
  <2> HIDE DEF todo
  <2>1. todo = [i \in DOMAIN places |-> order[places[i]]]
    BY DEF todo
  <2> QED
    BY <1>1, <1>2, <2>1, ToReplay
<1>4. loop' = [loop EXCEPT ![<<p, k>>] = new]
  BY <1>1
<1> HIDE DEF todo
<1>5. new \in Loop /\ Sound(new, k)
  BY <1>3 DEF Loop, Sound
<1> HIDE DEF new
<1>6. loop' \in [Replays -> Loop]
      /\ \A q \in Replays : loop'[q] = loop[q] \/ Sound(loop'[q], q[2])
  BY <1>2, <1>4, <1>5, LoopBecomes
<1>7. UNCHANGED <<asked, tap, saved, order, net, known, listing, landed, discarded>>
  BY DEF BeginReplay
<1> QED
  BY <1>6, <1>7, ReplayKeeps DEF PhoneInv, OfflineTypeOK, TapInv, Asked

\* The loop proceeds with the same list.
LEMMA ProceedsSound ==
    ASSUME PhoneInv, NEW p \in Pages, NEW k \in QueueKinds, loop[<<p, k>>].at # "idle",
           NEW at \in {"send", "wait", "ok", "failed", "conflict"}, Proceeds(p, k, at)
    PROVE  /\ loop' \in [Replays -> Loop]
           /\ \A q \in Replays : loop'[q] = loop[q] \/ Sound(loop'[q], q[2])
<1> DEFINE pk == <<p, k>>
<1>1. pk \in Replays /\ pk[2] = k
  BY InReplays
<1>2. /\ loop' \in [Replays -> Loop]
      /\ loop'[pk].todo = loop[pk].todo /\ loop'[pk].at = at
      /\ \A q \in Replays : q # pk => loop'[q] = loop[q]
  BY ProceedsTo DEF PhoneInv
<1>3. Sound(loop[pk], k)
  BY <1>1, SoundLoops
<1> HIDE DEF pk
<1>4. loop[pk].at # "idle"
  BY DEF pk
<1>5. Sound(loop'[pk], k)
  BY <1>2, <1>3, <1>4 DEF Sound
<1> QED
  BY <1>1, <1>2, <1>5

LEMMA SendKeepsPhone ==
    ASSUME PhoneInv, NEW p \in Pages, NEW k \in QueueKinds, SendNext(p, k)
    PROVE  PhoneInv'
<1>1. loop[<<p, k>>].at = "send" /\ Proceeds(p, k, "wait")
  BY DEF SendNext, Replaying
<1>2. Current(p, k) \in Changes /\ asked[Current(p, k)] # NoOne
  BY <1>1, CurrentOf
<1>3. /\ loop' \in [Replays -> Loop]
      /\ \A q \in Replays : loop'[q] = loop[q] \/ Sound(loop'[q], q[2])
  BY <1>1, ProceedsSound
<1>4. net' = net \cup {[change |-> Current(p, k), page |-> p]}
  BY DEF SendNext
<1>5. net' \subseteq Message /\ \A r \in net' : asked[r.change] # NoOne
  <2>1. [change |-> Current(p, k), page |-> p] \in Message
    BY <1>2 DEF Message
  <2> QED
    BY <1>2, <1>4, <2>1 DEF PhoneInv, OfflineTypeOK, TapInv, Asked
<1>6. UNCHANGED <<asked, tap, saved, order, known, listing, landed, discarded>>
  BY DEF SendNext
<1> QED
  BY <1>3, <1>5, <1>6, ReplayKeeps DEF PhoneInv, OfflineTypeOK

LEMMA FailKeepsPhone ==
    ASSUME PhoneInv, NEW p \in Pages, NEW k \in QueueKinds, ReplayFails(p, k)
    PROVE  PhoneInv'
<1>1. loop[<<p, k>>].at = "wait" /\ Proceeds(p, k, "failed")
  BY DEF ReplayFails, Replaying
<1>2. /\ loop' \in [Replays -> Loop]
      /\ \A q \in Replays : loop'[q] = loop[q] \/ Sound(loop'[q], q[2])
  BY <1>1, ProceedsSound
<1>3. UNCHANGED <<asked, tap, saved, order, net, known, listing, landed, discarded>>
  BY DEF ReplayFails
<1> QED
  BY <1>2, <1>3, ReplayKeeps DEF PhoneInv, OfflineTypeOK, TapInv, Asked

LEMMA FinishedTo ==
    ASSUME PhoneInv, NEW p \in Pages, NEW k \in QueueKinds, Finished(p, k)
    PROVE  /\ loop' \in [Replays -> Loop]
           /\ loop'[<<p, k>>] = Idle
           /\ \A q \in Replays : q # <<p, k>> => loop'[q] = loop[q]
           /\ \A q \in Replays : loop'[q] = loop[q] \/ Sound(loop'[q], q[2])
           /\ known' \in [Pages -> SUBSET Moves]
<1>1. known' \in [Pages -> SUBSET Moves]
  <2> DEFINE shown == {m \in Moves : saved'[m] # "none"}
  <2>1. shown \in SUBSET Moves /\ known \in [Pages -> SUBSET Moves]
    BY DEF PhoneInv, OfflineTypeOK
  <2>2. known' = [known EXCEPT ![p] = shown] \/ known' = known
    BY DEF Finished
  <2> HIDE DEF shown
  <2> QED
    BY <2>1, <2>2
<1>2. loop' = [loop EXCEPT ![<<p, k>>] = Idle]
  BY DEF Finished
<1> QED
  BY <1>1, <1>2, SoundIdle, LoopBecomes DEF PhoneInv

LEMMA RemoveKeepsPhone ==
    ASSUME PhoneInv, NEW p \in Pages, NEW k \in QueueKinds, removeOfflineMutation(p, k)
    PROVE  PhoneInv'
<1> DEFINE todo == loop[<<p, k>>].todo
<1>1. loop[<<p, k>>].at # "idle"
  BY DEF removeOfflineMutation, Replaying
<1>2. /\ Current(p, k) \in Changes
      /\ todo \in Seq(Changes) /\ todo # <<>> /\ Sound(loop[<<p, k>>], k)
  <2>1. <<p, k>> \in Replays /\ <<p, k>>[2] = k
    BY InReplays
  <2>2. Sound(loop[<<p, k>>], <<p, k>>[2])
    BY <2>1, SoundLoops
  <2> QED
    BY <1>1, <2>1, <2>2, CurrentOf
<1>3. /\ saved' \in [Changes -> SyncState \cup {"none"}]
      /\ \A m \in Changes : saved'[m] # "none" => saved[m] # "none"
  BY <1>2 DEF removeOfflineMutation, PhoneInv, OfflineTypeOK
<1>4. /\ loop' \in [Replays -> Loop]
      /\ \A q \in Replays : loop'[q] = loop[q] \/ Sound(loop'[q], q[2])
      /\ known' \in [Pages -> SUBSET Moves]
  <2>1. CASE Len(todo) = 1
    <3>1. Finished(p, k)
      BY <2>1 DEF removeOfflineMutation
    <3> QED
      BY <3>1, FinishedTo
  <2>2. CASE Len(todo) # 1
    <3> DEFINE new == [todo |-> Tail(todo), at |-> "send"]
    <3>1. /\ loop' = [loop EXCEPT ![<<p, k>>] = new]
          /\ UNCHANGED known
      BY <2>2 DEF removeOfflineMutation
    <3>2. /\ Tail(todo) \in Seq(Changes) /\ Tail(todo) # <<>> /\ Distinct(Tail(todo))
          /\ \A i \in DOMAIN Tail(todo) :
                i + 1 \in DOMAIN todo /\ Tail(todo)[i] = todo[i + 1]
      BY <1>2, <2>2, HeadAndTail DEF Sound
    <3>3. \A i \in DOMAIN Tail(todo) : Tail(todo)[i] \in k /\ Lists(order, Tail(todo)[i])
      BY <1>2, <3>2 DEF Sound
    <3> HIDE DEF todo
    <3>4. new \in Loop /\ Sound(new, k)
      BY <3>2, <3>3 DEF Loop, Sound
    <3> HIDE DEF new
    <3> QED
      BY <3>1, <3>4, LoopBecomes DEF PhoneInv, OfflineTypeOK
  <2> QED
    BY <2>1, <2>2
<1>5. UNCHANGED <<asked, tap, order, net, listing, landed, discarded>>
  BY DEF removeOfflineMutation
<1> QED
  BY <1>3, <1>4, <1>5, ReplayKeeps DEF PhoneInv, OfflineTypeOK, TapInv, Asked

LEMMA MarkFailedKeepsPhone ==
    ASSUME PhoneInv, NEW p \in Pages, NEW k \in QueueKinds, markOfflineMutationFailed(p, k)
    PROVE  PhoneInv'
<1>1. loop[<<p, k>>].at \in {"failed", "conflict"}
  BY DEF markOfflineMutationFailed, Replaying
<1>2. Current(p, k) \in Changes /\ Lists(order, Current(p, k))
  BY <1>1, CurrentOf
<1>3. /\ saved' \in [Changes -> SyncState \cup {"none"}]
      /\ \A m \in Changes : saved'[m] # "none" => saved[m] # "none" \/ Lists(order, m)
  BY <1>1, <1>2 DEF markOfflineMutationFailed, PhoneInv, OfflineTypeOK, SyncState
<1>4. /\ loop' \in [Replays -> Loop]
      /\ \A q \in Replays : loop'[q] = loop[q] \/ Sound(loop'[q], q[2])
      /\ known' \in [Pages -> SUBSET Moves]
  BY FinishedTo DEF markOfflineMutationFailed
<1>5. UNCHANGED <<asked, tap, order, net, listing, landed, discarded>>
  BY DEF markOfflineMutationFailed
<1> QED
  BY <1>3, <1>4, <1>5, ReplayKeeps DEF PhoneInv, OfflineTypeOK, TapInv, Asked

LEMMA DiscardKeepsPhone ==
    ASSUME PhoneInv, NEW p \in Pages, NEW m \in Changes, discardReviewedConflict(p, m)
    PROVE  PhoneInv'
<1>1. /\ saved' \in [Changes -> SyncState \cup {"none"}]
      /\ \A x \in Changes : saved'[x] # "none" => saved[x] # "none"
  BY DEF discardReviewedConflict, PhoneInv, OfflineTypeOK
<1>2. known' \in [Pages -> SUBSET Moves]
  BY DEF discardReviewedConflict, PhoneInv, OfflineTypeOK
<1>3. discarded' \subseteq Changes
  BY DEF discardReviewedConflict, PhoneInv, OfflineTypeOK
<1>4. UNCHANGED <<asked, tap, order, net, loop, listing, landed>>
  BY DEF discardReviewedConflict
<1> QED
  BY <1>1, <1>2, <1>3, <1>4, ReplayKeeps DEF PhoneInv, OfflineTypeOK, TapInv, Asked

LEMMA ListedKeepsPhone ==
    ASSUME PhoneInv, NEW p \in Pages, Listed(p)
    PROVE  PhoneInv'
<1>1. known' \in [Pages -> SUBSET Moves]
  <2>1. InStore(Moves) \in SUBSET Moves
    BY DEF InStore
  <2>2. known \in [Pages -> SUBSET Moves] /\ known' = [known EXCEPT ![p] = InStore(Moves)]
    BY DEF Listed, PhoneInv, OfflineTypeOK
  <2> HIDE DEF InStore
  <2> QED
    BY <2>1, <2>2
<1>2. listing' \subseteq Pages
  BY DEF Listed, PhoneInv, OfflineTypeOK
<1>3. UNCHANGED <<asked, tap, saved, order, net, loop, landed, discarded>>
  BY DEF Listed
<1> QED
  BY <1>1, <1>2, <1>3, ReplayKeeps DEF PhoneInv, OfflineTypeOK, TapInv, Asked

\* Where a tap is after its page was reloaded.
LEMMA ReloadedTaps ==
    ASSUME OfflineTypeOK, NEW p \in Pages, Reload(p)
    PROVE  /\ tap' \in [Changes -> Tap \cup {NoOne}]
           /\ \A m \in Changes :
                 \/ tap'[m] = tap[m]
                 \/ tap[m] # NoOne /\ tap'[m] # NoOne /\ tap'[m].at = "over"
<1> DEFINE now(m) == IF tap[m] # NoOne /\ tap[m].page = p
                     THEN [tap[m] EXCEPT !.at = "over"] ELSE tap[m]
<1>1. ASSUME NEW m \in Changes
      PROVE  /\ now(m) \in Tap \cup {NoOne}
             /\ \/ now(m) = tap[m]
                \/ tap[m] # NoOne /\ now(m) # NoOne /\ now(m).at = "over"
  <2>1. CASE tap[m] # NoOne /\ tap[m].page = p
    <3>1. tap[m] \in Tap
      BY <2>1 DEF OfflineTypeOK
    <3> DEFINE over == [tap[m] EXCEPT !.at = "over"]
    <3>2. over \in Tap /\ over.at = "over"
      BY <3>1 DEF Tap
    <3>3. now(m) = over
      BY <2>1
    <3> HIDE DEF now, over
    <3> QED
      BY <2>1, <3>2, <3>3, NothingMade
  <2>2. CASE ~(tap[m] # NoOne /\ tap[m].page = p)
    <3>1. now(m) = tap[m]
      BY <2>2
    <3> HIDE DEF now
    <3> QED
      BY <3>1 DEF OfflineTypeOK
  <2> QED
    BY <2>1, <2>2
<1>2. tap' = [m \in Changes |-> now(m)]
  BY DEF Reload
<1> HIDE DEF now
<1> QED
  BY <1>1, <1>2

LEMMA ReloadKeepsPhone ==
    ASSUME PhoneInv, NEW p \in Pages, Reload(p)
    PROVE  PhoneInv'
<1>1. /\ tap' \in [Changes -> Tap \cup {NoOne}]
      /\ \A m \in Changes :
            \/ tap'[m] = tap[m]
            \/ tap[m] # NoOne /\ tap'[m] # NoOne /\ tap'[m].at = "over"
  BY ReloadedTaps DEF PhoneInv
<1>2. UNCHANGED <<asked, saved, order, net, landed, discarded>>
  BY DEF Reload
<1>3. /\ loop' \in [Replays -> Loop]
      /\ \A q \in Replays : loop'[q] = loop[q] \/ loop'[q] = Idle
  BY SoundIdle DEF Reload, PhoneInv, OfflineTypeOK
<1>4. LoopInv' /\ \A q \in Replays : Distinct(loop'[q].todo)
  <2>1. \A q \in Replays : Sound(loop'[q], q[2])
    BY <1>3, SoundLoops, SoundIdle
  <2> QED
    BY <1>2, <2>1 DEF LoopInv, Sound
<1>5. known' \in [Pages -> SUBSET Moves] /\ listing' \subseteq Pages
  BY DEF Reload, PhoneInv, OfflineTypeOK
<1>6. OfflineTypeOK'
  BY <1>1, <1>2, <1>3, <1>4, <1>5 DEF PhoneInv, OfflineTypeOK
<1>7. TapInv'
  <2>1. Asks' /\ Asked'
    BY <1>1, <1>2 DEF PhoneInv, TapInv, Asks, Asked
  <2>2. SavedOnce'
    BY <1>1, <1>2 DEF PhoneInv, TapInv, SavedOnce
  <2>3. StoreListed'
    BY <1>1, <1>2 DEF PhoneInv, TapInv, StoreListed
  <2> QED
    BY <2>1, <2>2, <2>3 DEF TapInv
<1> QED
  BY <1>4, <1>6, <1>7 DEF PhoneInv

LEMMA AnsweredKeepsPhone ==
    ASSUME PhoneInv, NEW r \in net, net' = net \ {r}, NEW answer \in {"ok", "conflict"},
           Answered(r, answer), landed' \subseteq Changes,
           UNCHANGED <<asked, saved, order, known, listing, discarded>>
    PROVE  PhoneInv'
<1>1. OfflineTypeOK /\ TapInv /\ LoopInv /\ r \in Message
  BY DEF PhoneInv, OfflineTypeOK
<1>2. CASE UNCHANGED <<tap, loop>>
  BY <1>1, <1>2, ReplayKeeps DEF PhoneInv, OfflineTypeOK, TapInv, Asked
<1>3. CASE /\ r.page = NoOne /\ Stands(r.change, "sent")
           /\ tap' = [tap EXCEPT ![r.change].at = IF answer = "ok" THEN "over" ELSE "refused"]
           /\ UNCHANGED loop
  <2>1. r.change \in Changes
    BY <1>1 DEF Message
  <2>2. PICK at \in {"refused", "saving", "over"} : Goes(r.change, at)
    BY <1>3 DEF Goes
  <2>3. tap[r.change] # NoOne /\ ~Lists(order, r.change)
    BY <1>1, <1>3, <2>1 DEF Stands, TapInv, SavedOnce
  <2>4. tap' \in [Changes -> Tap \cup {NoOne}] /\ TapInv'
    BY <1>1, <2>1, <2>2, <2>3, GoesOn
  <2>5. LoopInv'
    BY <1>1, <1>3 DEF LoopInv
  <2>6. OfflineTypeOK'
    BY <1>1, <1>3, <2>4 DEF OfflineTypeOK
  <2> QED
    BY <2>4, <2>5, <2>6 DEF PhoneInv
<1>4. CASE /\ r.page # NoOne
           /\ Replaying(r.page, KindOfChange(r.change), "wait")
           /\ Proceeds(r.page, KindOfChange(r.change), answer)
           /\ UNCHANGED tap
  <2>1. r.page \in Pages /\ KindOfChange(r.change) \in QueueKinds
    BY <1>1, <1>4, KindsOf DEF Message
  <2>2. /\ loop' \in [Replays -> Loop]
        /\ \A q \in Replays : loop'[q] = loop[q] \/ Sound(loop'[q], q[2])
    BY <1>4, <2>1, ProceedsSound DEF Replaying
  <2> QED
    BY <1>1, <1>4, <2>2, ReplayKeeps DEF PhoneInv, OfflineTypeOK, TapInv, Asked
<1> QED
  BY <1>2, <1>3, <1>4 DEF Answered

LEMMA ArriveKeepsPhone ==
    ASSUME PhoneInv, NEW r \in net, Arrive(r) \/ Lose(r)
    PROVE  PhoneInv'
<1>1. CASE Lose(r)
  <2>1. UNCHANGED <<tap, loop>> /\ Answered(r, "ok")
    BY <1>1 DEF Lose, Answered
  <2> QED
    BY <1>1, <2>1, AnsweredKeepsPhone DEF Lose, PhoneInv, OfflineTypeOK
<1>2. CASE Arrive(r)
  <2>1. r.change \in Changes
    BY DEF PhoneInv, OfflineTypeOK, Message
  <2>2. landed' \subseteq Changes
    BY <1>2, <2>1 DEF Arrive, PhoneInv, OfflineTypeOK
  <2>3. PICK answer \in {"ok", "conflict"} : Answered(r, answer)
    BY <1>2 DEF Arrive
  <2> QED
    BY <1>2, <2>2, <2>3, AnsweredKeepsPhone DEF Arrive
<1> QED
  BY <1>1, <1>2

LEMMA PhoneKeeps ==
    ASSUME PhoneInv, PhoneStep \/ UNCHANGED phoneVars
    PROVE  PhoneInv'
<1>1. CASE UNCHANGED phoneVars
  BY <1>1 DEF phoneVars, PhoneInv, OfflineTypeOK, TapInv, Asks, Asked, SavedOnce,
              StoreListed, LoopInv, Distinct, Lists
<1>2. CASE TapStep
  <2>1. ASSUME NEW p \in Pages, NEW m \in Changes, NEW want \in Wants(m),
               handleJobAction(p, m, want) \/ persistStopState(p, m, want)
        PROVE  PhoneInv'
    <3>1. PICK at \in {"sent", "saving"} : Made(m, p, want, at)
      BY <2>1 DEF handleJobAction, persistStopState
    <3>2. /\ net' = net \/ net' = net \cup {[change |-> m, page |-> NoOne]}
          /\ UNCHANGED <<saved, order, loop, known, listing, landed, discarded>>
      BY <2>1 DEF handleJobAction, persistStopState
    <3> QED
      BY <3>1, <3>2, MadeKeeps
  <2> QED
    BY <1>2, <2>1, GoesOnKeeps, EnqueueKeeps, MarkRefusedKeeps DEF TapStep
<1>3. CASE ReplayStep
  BY <1>3, BeginReplayKeeps, SendKeepsPhone, FailKeepsPhone, RemoveKeepsPhone,
     MarkFailedKeepsPhone, ListedKeepsPhone, ReloadKeepsPhone, DiscardKeepsPhone
  DEF ReplayStep
<1> QED
  BY <1>1, <1>2, <1>3, ArriveKeepsPhone DEF PhoneStep

-----------------------------------------------------------------------------
(* What is saved arrives in the order in which it was saved.               *)
Reached == {m \in Changes : Stored(m)}
Through == Reached \cup discarded

\* x was saved before m and is of the same kind.
Before(list, x, m) ==
    \E i, j \in DOMAIN list :
        /\ i < j /\ list[i] = x /\ list[j] = m
        /\ KindOfChange(x) = KindOfChange(m)

\* What was saved before m is through, so that m may arrive.
Clear(list, through, m) == \A x \in Changes : Before(list, x, m) => x \in through

\* A replay sends what it has to send in the order in which it was saved.
InOrder(todo, list, through) ==
    \A i \in DOMAIN todo : \A x \in Changes :
        Before(list, x, todo[i]) =>
            x \in through \/ \E j \in DOMAIN todo : j < i /\ todo[j] = x

NotForgotten == \A m \in Changes : Lists(order, m) => saved[m] # "none" \/ m \in Through
ReachedClear == \A m \in Reached : Lists(order, m) /\ Clear(order, Through, m)
SentClear ==
    \A r \in net : r.page # NoOne =>
        Lists(order, r.change) /\ Clear(order, Through, r.change)
LoopsInOrder == \A q \in Replays : InOrder(loop[q].todo, order, Through)
OkReached == \A q \in Replays : loop[q].at = "ok" => loop[q].todo[1] \in Reached

OrderInv == NotForgotten /\ ReachedClear /\ SentClear /\ LoopsInOrder /\ OkReached

LEMMA OrderStart == Init /\ OfflineInit => OrderInv
<1> SUFFICES ASSUME Init, OfflineInit PROVE OrderInv
  OBVIOUS
<1>1. Reached = {}
  BY DEF Init, Reached, Stored, Changes
<1>2. order = <<>> /\ net = {} /\ \A m : ~Lists(order, m)
  BY DEF OfflineInit, Lists
<1>3. \A q \in Replays : loop[q].at = "idle" /\ DOMAIN loop[q].todo = {}
  BY DEF OfflineInit, Idle
<1> QED
  BY <1>1, <1>2, <1>3
  DEF OrderInv, NotForgotten, ReachedClear, SentClear, LoopsInOrder, InOrder, OkReached

\* The order in which changes were saved is never changed: it only gets longer.
LEMMA BeforeKept ==
    ASSUME order \in Seq(Changes), Distinct(order),
           \/ order' = order
           \/ \E m \in Changes : ~Lists(order, m) /\ order' = Append(order, m)
    PROVE  /\ \A m : Lists(order, m) => Lists(order', m)
           /\ \A x, m : Lists(order, m) /\ Before(order', x, m) => Before(order, x, m)
<1>1. CASE order' = order
  BY <1>1
<1>2. ASSUME NEW new \in Changes, ~Lists(order, new), order' = Append(order, new)
      PROVE  /\ \A m : Lists(order, m) => Lists(order', m)
             /\ \A x, m : Lists(order, m) /\ Before(order', x, m) => Before(order, x, m)
  <2>1. \A m : Lists(order', m) <=> Lists(order, m) \/ m = new
    BY <1>2, Appended
  <2>2. /\ Len(order) \in Nat
        /\ DOMAIN order = 1..Len(order) /\ DOMAIN order' = 1..Len(order) + 1
        /\ \A n \in DOMAIN order : order'[n] = order[n]
        /\ order'[Len(order) + 1] = new
    BY <1>2
  <2>3. ASSUME NEW x, NEW m, Lists(order, m), Before(order', x, m)
        PROVE  Before(order, x, m)
    <3>1. m # new
      BY <1>2, <2>3
    <3>2. PICK i \in DOMAIN order', j \in DOMAIN order' :
             /\ i < j /\ order'[i] = x /\ order'[j] = m
             /\ KindOfChange(x) = KindOfChange(m)
      BY <2>3 DEF Before
    <3>3. j # Len(order) + 1
      BY <2>2, <3>1, <3>2
    <3>4. i \in DOMAIN order /\ j \in DOMAIN order
      BY <2>2, <3>2, <3>3
    <3>5. order[i] = x /\ order[j] = m
      BY <2>2, <3>2, <3>4
    <3> QED
      BY <3>2, <3>4, <3>5 DEF Before
  <2> QED
    BY <2>1, <2>3
<1> QED
  BY <1>1, <1>2

LEMMA ClearKept ==
    ASSUME order \in Seq(Changes), Distinct(order),
           \/ order' = order
           \/ \E m \in Changes : ~Lists(order, m) /\ order' = Append(order, m),
           Through \subseteq Through'
    PROVE  /\ \A m : Lists(order, m) /\ Clear(order, Through, m)
                     => Lists(order', m) /\ Clear(order', Through', m)
           /\ \A todo : /\ \A i \in DOMAIN todo : Lists(order, todo[i])
                        /\ InOrder(todo, order, Through)
                        => InOrder(todo, order', Through')
<1>1. /\ \A m : Lists(order, m) => Lists(order', m)
      /\ \A x, m : Lists(order, m) /\ Before(order', x, m) => Before(order, x, m)
  BY BeforeKept
<1> QED
  BY <1>1 DEF Clear, InOrder

LEMMA OrderKeeps ==
    ASSUME PhoneInv, OrderInv,
           \/ order' = order
           \/ \E m \in Changes : ~Lists(order, m) /\ order' = Append(order, m),
           Through \subseteq Through',
           \A m \in Changes : Lists(order', m) => saved'[m] # "none" \/ m \in Through',
           \A m \in Reached' : m \in Reached \/ (Lists(order, m) /\ Clear(order, Through, m)),
           \A r \in net' : r.page # NoOne =>
              r \in net \/ (Lists(order, r.change) /\ Clear(order, Through, r.change)),
           \A q \in Replays :
              \/ loop'[q].todo = loop[q].todo
              \/ /\ \A i \in DOMAIN loop'[q].todo : Lists(order, loop'[q].todo[i])
                 /\ InOrder(loop'[q].todo, order, Through),
           \A q \in Replays : loop'[q].at = "ok" => loop'[q].todo[1] \in Reached'
    PROVE  OrderInv'
<1>1. /\ \A m : Lists(order, m) /\ Clear(order, Through, m)
                => Lists(order', m) /\ Clear(order', Through', m)
      /\ \A todo : /\ \A i \in DOMAIN todo : Lists(order, todo[i])
                   /\ InOrder(todo, order, Through)
                   => InOrder(todo, order', Through')
  BY ClearKept DEF PhoneInv, OfflineTypeOK
<1>2. NotForgotten'
  BY DEF NotForgotten
<1>3. ReachedClear'
  BY <1>1 DEF OrderInv, ReachedClear
<1>4. SentClear'
  BY <1>1 DEF OrderInv, SentClear
<1>5. LoopsInOrder'
  <2> SUFFICES ASSUME NEW q \in Replays PROVE InOrder(loop'[q].todo, order', Through')
    BY DEF LoopsInOrder
  <2>1. /\ \A i \in DOMAIN loop[q].todo : Lists(order, loop[q].todo[i])
        /\ InOrder(loop[q].todo, order, Through)
    BY DEF PhoneInv, LoopInv, OrderInv, LoopsInOrder
  <2> QED
    BY <1>1, <2>1
<1>6. OkReached'
  BY DEF OkReached
<1> QED
  BY <1>2, <1>3, <1>4, <1>5, <1>6 DEF OrderInv

\* Steps that leave the lists, the answers and the backend as they are.
LEMMA QuietKeeps ==
    ASSUME PhoneInv, OrderInv, UNCHANGED <<order, saved, discarded, loop, lifecycle, moved>>,
           \A r \in net' : r.page # NoOne => r \in net
    PROVE  OrderInv'
<1>1. Reached' = Reached /\ Through' = Through
  BY DEF Reached, Through, Stored
<1> QED
  BY <1>1, OrderKeeps DEF OrderInv, NotForgotten, OkReached

\* Steps that save something.
LEMMA SavingKeeps ==
    ASSUME PhoneInv, OrderInv, NEW m \in Changes, saved'[m] # "none",
           \A x \in Changes : x # m => saved'[x] = saved[x],
           \/ order' = order
           \/ ~Lists(order, m) /\ order' = Append(order, m),
           UNCHANGED <<discarded, net, lifecycle, moved>>,
           \A q \in Replays : loop'[q] = loop[q] \/ loop'[q] = Idle
    PROVE  OrderInv'
<1>1. Reached' = Reached /\ Through' = Through
  BY DEF Reached, Through, Stored
<1>2. \A x \in Changes : Lists(order', x) => Lists(order, x) \/ x = m
  BY Appended DEF PhoneInv, OfflineTypeOK
<1>3. \A x \in Changes : Lists(order', x) => saved'[x] # "none" \/ x \in Through'
  BY <1>1, <1>2 DEF OrderInv, NotForgotten
<1>4. /\ Idle.todo = <<>> /\ Idle.at = "idle" /\ DOMAIN Idle.todo = {}
  BY DEF Idle
<1>5. \A q \in Replays :
         \/ loop'[q].todo = loop[q].todo
         \/ /\ \A i \in DOMAIN loop'[q].todo : Lists(order, loop'[q].todo[i])
            /\ InOrder(loop'[q].todo, order, Through)
  BY <1>4 DEF InOrder
<1>6. \A q \in Replays : loop'[q].at = "ok" => loop'[q].todo[1] \in Reached'
  BY <1>1, <1>4 DEF OrderInv, OkReached
<1> QED
  BY <1>1, <1>3, <1>5, <1>6, OrderKeeps

LEMMA BeginReplayInOrder ==
    ASSUME PhoneInv, OrderInv, NEW p \in Pages, NEW k \in QueueKinds, BeginReplay(p, k),
           UNCHANGED <<lifecycle, moved>>
    PROVE  OrderInv'
<1>1. PICK places \in [1..Cardinality(Due(k)) -> Due(k)] :
          /\ Ascending(places, Due(k))
          /\ loop' = [loop EXCEPT ![<<p, k>>] =
                        [todo |-> [i \in DOMAIN places |-> order[places[i]]],
                         at |-> "send"]]
  BY DEF BeginReplay
<1> DEFINE todo == [i \in DOMAIN places |-> order[places[i]]]
           new == [todo |-> todo, at |-> "send"]
<1>2. Due(k) # {} /\ OfflineTypeOK /\ StoreListed
  BY DEF BeginReplay, PhoneInv, TapInv
<1>3. /\ todo \in Seq(Changes) /\ todo # <<>> /\ Distinct(todo)
      /\ DOMAIN todo = DOMAIN places
      /\ \A i \in DOMAIN todo :
            /\ places[i] \in Due(k) /\ todo[i] = order[places[i]]
            /\ todo[i] \in k /\ Lists(order, todo[i])
  <2> HIDE DEF todo
  <2>1. todo = [i \in DOMAIN places |-> order[places[i]]]
    BY DEF todo
  <2> QED
    BY <1>1, <1>2, <2>1, ToReplay
<1>4. loop' = [loop EXCEPT ![<<p, k>>] = new]
  BY <1>1
<1> HIDE DEF todo
<1>5. new \in Loop /\ Sound(new, k)
  BY <1>3 DEF Loop, Sound
<1>6. new.todo = todo /\ new.at = "send"
  OBVIOUS
<1> HIDE DEF new
<1>7. loop'[<<p, k>>] = new /\ \A q \in Replays : q # <<p, k>> => loop'[q] = loop[q]
  BY <1>2, <1>4, <1>5, LoopBecomes
<1>8. InOrder(todo, order, Through)
  <2> SUFFICES ASSUME NEW i \in DOMAIN todo, NEW x \in Changes,
                      Before(order, x, todo[i]), x \notin Through
               PROVE  \E j \in DOMAIN todo : j < i /\ todo[j] = x
    BY DEF InOrder
  <2>0. /\ order \in Seq(Changes) /\ Distinct(order)
        /\ DOMAIN order = 1..Len(order) /\ Len(order) \in Nat
    BY <1>2 DEF OfflineTypeOK
  <2>1. PICK a \in DOMAIN order, b \in DOMAIN order :
           /\ a < b /\ order[a] = x /\ order[b] = todo[i]
           /\ KindOfChange(x) = KindOfChange(todo[i])
    BY DEF Before
  <2>2. b = places[i]
    <3>1. places[i] \in DOMAIN order /\ order[places[i]] = todo[i]
      BY <1>3 DEF Due
    <3> QED
      BY <2>0, <2>1, <3>1 DEF Distinct
  <2>3. \A h \in 1..b : order[h] \in k => saved[order[h]] # "conflict"
    BY <1>3, <2>2 DEF Due
  <2>4. x \in k
    <3>1. todo[i] \in Changes /\ todo[i] \in k
      BY <1>3, <2>0, <2>1
    <3> QED
      BY <2>1, <3>1, KindsOf
  <2>5. saved[x] # "none"
    <3>1. Lists(order, x)
      BY <2>1 DEF Lists
    <3> QED
      BY <3>1 DEF OrderInv, NotForgotten
  <2>6. a \in Due(k)
    <3>1. \A h \in 1..a : h \in 1..b
      BY <2>0, <2>1
    <3>2. order[a] \in InStore(k)
      BY <2>1, <2>4, <2>5 DEF InStore
    <3>3. \A h \in 1..a : order[h] \in k => saved[order[h]] # "conflict"
      BY <2>3, <3>1
    <3> QED
      BY <3>2, <3>3 DEF Due
  <2>7. PICK j \in DOMAIN places : places[j] = a
    BY <1>1, <2>6 DEF Ascending
  <2>8. todo[j] = x /\ j \in DOMAIN todo
    BY <1>3, <2>1, <2>7
  <2>9. j < i
    <3>1. i \in Int /\ j \in Int
      BY <1>3, <2>8
    <3>2. places[j] < places[i] /\ places[i] \in Int /\ places[j] \in Int
      BY <2>0, <2>1, <2>2, <2>7
    <3>3. \A y, z \in DOMAIN places : y < z => places[y] < places[z]
      BY <1>1 DEF Ascending
    <3>4. i \in DOMAIN places
      BY <1>3
    <3> QED
      BY <3>1, <3>2, <3>3, <3>4
  <2> QED
    BY <2>8, <2>9
<1>9. UNCHANGED <<asked, tap, saved, order, net, known, listing, landed, discarded>>
  BY DEF BeginReplay
<1>10. Reached' = Reached /\ Through' = Through
  BY <1>9 DEF Reached, Through, Stored
<1>11. \A q \in Replays :
         \/ loop'[q].todo = loop[q].todo
         \/ /\ \A i \in DOMAIN loop'[q].todo : Lists(order, loop'[q].todo[i])
            /\ InOrder(loop'[q].todo, order, Through)
  BY <1>3, <1>6, <1>7, <1>8
<1>12. \A q \in Replays : loop'[q].at = "ok" => loop'[q].todo[1] \in Reached'
  BY <1>6, <1>7, <1>10 DEF OrderInv, OkReached
<1> QED
  BY <1>9, <1>10, <1>11, <1>12, OrderKeeps DEF OrderInv, NotForgotten

\* Where a loop proceeds with the list it has.
LEMMA ProceedingKeeps ==
    ASSUME PhoneInv, OrderInv, NEW p \in Pages, NEW k \in QueueKinds,
           NEW at \in {"wait", "ok", "failed", "conflict"}, Proceeds(p, k, at),
           at = "ok" => Current(p, k) \in Reached',
           loop[<<p, k>>].at # "idle",
           UNCHANGED <<order, saved, discarded>>, Reached \subseteq Reached',
           \A m \in Reached' : m \in Reached \/ (Lists(order, m) /\ Clear(order, Through, m)),
           \A r \in net' : r.page # NoOne =>
              r \in net \/ (Lists(order, r.change) /\ Clear(order, Through, r.change))
    PROVE  OrderInv'
<1>1. /\ loop'[<<p, k>>].todo = loop[<<p, k>>].todo /\ loop'[<<p, k>>].at = at
      /\ \A q \in Replays : q # <<p, k>> => loop'[q] = loop[q]
  BY ProceedsTo DEF PhoneInv
<1>2. Through \subseteq Through'
  BY DEF Through
<1>3. Current(p, k) = loop[<<p, k>>].todo[1]
  BY CurrentOf
<1>4. \A q \in Replays : loop'[q].at = "ok" => loop'[q].todo[1] \in Reached'
  BY <1>1, <1>3 DEF OrderInv, OkReached
<1>5. \A m \in Changes : Lists(order', m) => saved'[m] # "none" \/ m \in Through'
  BY <1>2 DEF OrderInv, NotForgotten
<1>6. \A q \in Replays : loop'[q].todo = loop[q].todo
  BY <1>1
<1> QED
  BY <1>2, <1>4, <1>5, <1>6, OrderKeeps

\* What was saved before the first of a list is through.
LEMMA CurrentClear ==
    ASSUME PhoneInv, OrderInv, NEW p \in Pages, NEW k \in QueueKinds,
           loop[<<p, k>>].at # "idle"
    PROVE  Lists(order, Current(p, k)) /\ Clear(order, Through, Current(p, k))
<1> DEFINE todo == loop[<<p, k>>].todo
<1>1. /\ todo \in Seq(Changes) /\ 1 \in DOMAIN todo /\ Current(p, k) = todo[1]
      /\ Lists(order, Current(p, k))
  BY CurrentOf
<1>2. InOrder(todo, order, Through)
  BY InReplays DEF OrderInv, LoopsInOrder
<1> HIDE DEF todo
<1>3. ~\E j \in DOMAIN todo : j < 1
  BY <1>1
<1> QED
  BY <1>1, <1>2, <1>3 DEF Clear, InOrder

LEMMA SendInOrder ==
    ASSUME PhoneInv, OrderInv, NEW p \in Pages, NEW k \in QueueKinds, SendNext(p, k),
           UNCHANGED <<lifecycle, moved>>
    PROVE  OrderInv'
<1>1. loop[<<p, k>>].at = "send" /\ Proceeds(p, k, "wait")
  BY DEF SendNext, Replaying
<1>2. Lists(order, Current(p, k)) /\ Clear(order, Through, Current(p, k))
  BY <1>1, CurrentClear
<1>3. Reached' = Reached
  BY DEF Reached, Stored
<1>4. net' = net \cup {[change |-> Current(p, k), page |-> p]}
      /\ UNCHANGED <<order, saved, discarded>>
  BY DEF SendNext
<1> QED
  BY <1>1, <1>2, <1>3, <1>4, ProceedingKeeps

LEMMA FailInOrder ==
    ASSUME PhoneInv, OrderInv, NEW p \in Pages, NEW k \in QueueKinds, ReplayFails(p, k),
           UNCHANGED <<lifecycle, moved>>
    PROVE  OrderInv'
<1>1. loop[<<p, k>>].at = "wait" /\ Proceeds(p, k, "failed")
  BY DEF ReplayFails, Replaying
<1>2. Reached' = Reached
  BY DEF Reached, Stored
<1>3. UNCHANGED <<order, saved, discarded, net>>
  BY DEF ReplayFails
<1> QED
  BY <1>1, <1>2, <1>3, ProceedingKeeps

LEMMA RemoveInOrder ==
    ASSUME PhoneInv, OrderInv, NEW p \in Pages, NEW k \in QueueKinds,
           removeOfflineMutation(p, k), UNCHANGED <<lifecycle, moved>>
    PROVE  OrderInv'
<1> DEFINE todo == loop[<<p, k>>].todo
<1>1. loop[<<p, k>>].at = "ok"
  BY DEF removeOfflineMutation, Replaying
<1>2. /\ Current(p, k) \in Changes /\ Current(p, k) = todo[1] /\ 1 \in DOMAIN todo
      /\ todo \in Seq(Changes) /\ todo # <<>> /\ Distinct(todo)
      /\ loop[<<p, k>>] \in Loop
  BY <1>1, CurrentOf
<1>3. Current(p, k) \in Reached
  BY <1>1, <1>2, InReplays DEF OrderInv, OkReached
<1>4. Reached' = Reached /\ Through' = Through
  BY DEF Reached, Through, Stored, removeOfflineMutation
<1>5. UNCHANGED <<order, net, discarded>>
  BY DEF removeOfflineMutation
<1>6. \A m \in Changes : Lists(order', m) => saved'[m] # "none" \/ m \in Through'
  <2>1. saved' = [saved EXCEPT ![Current(p, k)] = "none"]
        /\ saved \in [Changes -> SyncState \cup {"none"}]
    BY DEF removeOfflineMutation, PhoneInv, OfflineTypeOK
  <2> QED
    BY <1>3, <1>4, <1>5, <2>1 DEF OrderInv, NotForgotten, Through
<1>7. /\ InOrder(todo, order, Through)
      /\ \A i \in DOMAIN todo : Lists(order, todo[i])
  BY InReplays DEF OrderInv, LoopsInOrder, PhoneInv, LoopInv
<1>8. ASSUME NEW q \in Replays
      PROVE  /\ \/ loop'[q].todo = loop[q].todo
                \/ /\ \A i \in DOMAIN loop'[q].todo : Lists(order, loop'[q].todo[i])
                   /\ InOrder(loop'[q].todo, order, Through)
             /\ loop'[q].at = "ok" => loop'[q].todo[1] \in Reached'
  <2>1. CASE loop'[q] = loop[q]
    BY <1>4, <2>1 DEF OrderInv, OkReached
  <2>2. CASE loop'[q] = Idle
    <3>1. loop'[q].todo = <<>> /\ DOMAIN loop'[q].todo = {} /\ loop'[q].at = "idle"
      BY <2>2 DEF Idle
    <3> QED
      BY <3>1 DEF InOrder
  <2>3. CASE loop'[q] = [todo |-> Tail(todo), at |-> "send"]
    <3>1. loop'[q].todo = Tail(todo) /\ loop'[q].at = "send"
      BY <2>3
    <3> HIDE DEF todo
    <3>2. /\ \A i \in DOMAIN Tail(todo) :
                i + 1 \in DOMAIN todo /\ Tail(todo)[i] = todo[i + 1]
          /\ \A j \in DOMAIN todo : j # 1 =>
                j - 1 \in DOMAIN Tail(todo) /\ Tail(todo)[j - 1] = todo[j]
      BY <1>2, HeadAndTail
    <3>3. InOrder(Tail(todo), order, Through)
      <4> SUFFICES ASSUME NEW i \in DOMAIN Tail(todo), NEW x \in Changes,
                          Before(order, x, Tail(todo)[i]), x \notin Through
                   PROVE  \E j \in DOMAIN Tail(todo) : j < i /\ Tail(todo)[j] = x
        BY DEF InOrder
      <4>1. i + 1 \in DOMAIN todo /\ Before(order, x, todo[i + 1])
        BY <3>2
      <4>2. PICK j \in DOMAIN todo : j < i + 1 /\ todo[j] = x
        BY <1>7, <4>1 DEF InOrder
      <4>3. j # 1
        BY <1>2, <1>3, <4>2 DEF Through
      <4>4. j - 1 \in DOMAIN Tail(todo) /\ Tail(todo)[j - 1] = x
        BY <3>2, <4>2, <4>3
      <4>5. i \in Int /\ j \in Int
        <5>1. Tail(todo) \in Seq(Changes)
          BY <1>2, HeadAndTail
        <5> QED
          BY <1>2, <5>1
      <4>6. j - 1 < i
        BY <4>2, <4>5
      <4> QED
        BY <4>4, <4>6
    <3>4. \A i \in DOMAIN Tail(todo) : Lists(order, Tail(todo)[i])
      BY <1>7, <3>2
    <3> QED
      BY <3>1, <3>3, <3>4
  <2>4. loop'[q] = loop[q] \/ loop'[q] = Idle
        \/ loop'[q] = [todo |-> Tail(todo), at |-> "send"]
    <3>1. CASE Len(todo) = 1
      <4>1. Finished(p, k)
        BY <3>1 DEF removeOfflineMutation
      <4> QED
        BY <4>1, FinishedTo
    <3>2. CASE Len(todo) # 1
      <4> DEFINE new == [todo |-> Tail(todo), at |-> "send"]
                 pk == <<p, k>>
      <4>1. loop' = [loop EXCEPT ![pk] = new]
        BY <3>2 DEF removeOfflineMutation
      <4>2. loop \in [Replays -> Loop]
        BY DEF PhoneInv, OfflineTypeOK
      <4>3. pk \in Replays
        BY InReplays
      <4> HIDE DEF new, pk
      <4>4. loop'[q] = loop[q] \/ loop'[q] = new
        BY <4>1, <4>2, <4>3
      <4> QED
        BY <4>4 DEF new
    <3> QED
      BY <3>1, <3>2
  <2> QED
    BY <2>1, <2>2, <2>3, <2>4
<1> QED
  BY <1>4, <1>5, <1>6, <1>8, OrderKeeps

LEMMA MarkFailedInOrder ==
    ASSUME PhoneInv, OrderInv, NEW p \in Pages, NEW k \in QueueKinds,
           markOfflineMutationFailed(p, k), UNCHANGED <<lifecycle, moved>>
    PROVE  OrderInv'
<1>1. loop[<<p, k>>].at \in {"failed", "conflict"}
  BY DEF markOfflineMutationFailed, Replaying
<1>2. Current(p, k) \in Changes
  BY <1>1, CurrentOf
<1>3. /\ saved'[Current(p, k)] # "none"
      /\ \A x \in Changes : x # Current(p, k) => saved'[x] = saved[x]
  BY <1>1, <1>2 DEF markOfflineMutationFailed, PhoneInv, OfflineTypeOK
<1>4. \A q \in Replays : loop'[q] = loop[q] \/ loop'[q] = Idle
  BY FinishedTo DEF markOfflineMutationFailed
<1>5. UNCHANGED <<order, discarded, net>>
  BY DEF markOfflineMutationFailed
<1> QED
  BY <1>2, <1>3, <1>4, <1>5, SavingKeeps

LEMMA RestInOrder ==
    ASSUME PhoneInv, OrderInv, NEW p \in Pages,
           Listed(p) \/ Reload(p) \/ \E m \in Changes : discardReviewedConflict(p, m),
           UNCHANGED <<lifecycle, moved>>
    PROVE  OrderInv'
<1>1. Reached' = Reached
  BY DEF Reached, Stored
<1>2. UNCHANGED <<order, net>>
  BY DEF Listed, Reload, discardReviewedConflict
<1>3. Through \subseteq Through'
  BY <1>1 DEF Through, Listed, Reload, discardReviewedConflict
<1>4. \A m \in Changes : Lists(order', m) => saved'[m] # "none" \/ m \in Through'
  <2>1. CASE Listed(p) \/ Reload(p)
    BY <1>2, <1>3, <2>1 DEF Listed, Reload, OrderInv, NotForgotten
  <2>2. ASSUME NEW m \in Changes, discardReviewedConflict(p, m)
        PROVE  \A x \in Changes : Lists(order', x) => saved'[x] # "none" \/ x \in Through'
    <3>1. \A x \in Changes : x # m => saved'[x] = saved[x]
      BY <2>2 DEF discardReviewedConflict, PhoneInv, OfflineTypeOK
    <3>2. m \in Through'
      BY <2>2 DEF discardReviewedConflict, Through
    <3> QED
      BY <1>2, <1>3, <3>1, <3>2 DEF OrderInv, NotForgotten
  <2> QED
    BY <2>1, <2>2
<1>5. \A q \in Replays : loop'[q] = loop[q] \/ loop'[q] = Idle
  BY DEF Listed, Reload, discardReviewedConflict, PhoneInv, OfflineTypeOK
<1>6. Idle.todo = <<>> /\ DOMAIN Idle.todo = {} /\ Idle.at = "idle"
  BY DEF Idle
<1>7. \A q \in Replays :
         /\ \/ loop'[q].todo = loop[q].todo
            \/ /\ \A i \in DOMAIN loop'[q].todo : Lists(order, loop'[q].todo[i])
               /\ InOrder(loop'[q].todo, order, Through)
         /\ loop'[q].at = "ok" => loop'[q].todo[1] \in Reached'
  BY <1>1, <1>5, <1>6 DEF InOrder, OrderInv, OkReached
<1> QED
  BY <1>1, <1>2, <1>3, <1>4, <1>7, OrderKeeps

\* What an arriving change stores.
LEMMA EffectStores ==
    ASSUME TypeOK, PhoneInv, NEW m \in Changes, asked[m] # NoOne, NEW id \in {m, NoOne},
           Effect(m, id)
    PROVE  Reached' = Reached \cup ({id} \ {NoOne})
<1>1. asked[m] \in Wants(m) /\ m # NoOne /\ NoOne \notin Changes
      /\ NoOne \notin Want
  BY PhoneAssumption DEF PhoneInv, TapInv, Asks
<1>2. /\ lifecycle \in [Starts -> {"start", "complete", NoOne}]
      /\ moved \in [Moves -> {"open", "finished", NoOne}]
  BY DEF TypeOK
<1>3. CASE m \in Starts
  <2>1. PICK action \in {"start", "complete"} : ClaimLifecycle(id, action)
    BY <1>1, <1>3 DEF Effect, Wants, StartJob, CompleteJob
  <2>2. UNCHANGED moved
    BY <1>1, <1>3 DEF Effect, Wants, StartJob, CompleteJob
  <2>3. CASE id = NoOne
    BY <2>1, <2>2, <2>3 DEF ClaimLifecycle, Reached, Stored
  <2>4. CASE id = m
    <3>1. lifecycle' = [lifecycle EXCEPT ![m] = action]
      BY <1>1, <2>1, <2>4 DEF ClaimLifecycle
    <3>2. action # NoOne
      BY <1>1 DEF Want
    <3> QED
      BY <1>1, <1>2, <1>3, <2>2, <2>4, <3>1, <3>2 DEF Reached, Stored, Changes
  <2> QED
    BY <2>3, <2>4
<1>4. CASE m \notin Starts
  <2>1. m \in Moves /\ asked[m] \in {"open", "finished"}
    BY <1>1, <1>4 DEF Changes, Wants
  <2>2. MoveStop(id, asked[m])
    BY <2>1 DEF Effect
  <2>3. UNCHANGED lifecycle
    BY <2>2 DEF MoveStop
  <2>4. CASE id = NoOne
    BY <2>2, <2>3, <2>4 DEF MoveStop, Reached, Stored
  <2>5. CASE id = m
    <3>1. moved' = [moved EXCEPT ![m] = asked[m]]
      BY <1>1, <2>2, <2>5 DEF MoveStop
    <3>2. asked[m] # NoOne
      BY <1>1, <2>1 DEF Want
    <3> QED
      BY <1>1, <1>2, <1>4, <2>1, <2>3, <2>5, <3>1, <3>2 DEF Reached, Stored, Changes
  <2> QED
    BY <2>4, <2>5
<1> QED
  BY <1>3, <1>4

\* The answer to a request that took effect, now or before.
LEMMA AnswerInOrder ==
    ASSUME PhoneInv, OrderInv, NEW r \in net, net' = net \ {r},
           NEW answer \in {"ok", "conflict"}, Answered(r, answer),
           answer = "ok" /\ r.page # NoOne => r.change \in Reached',
           Reached \subseteq Reached',
           \A m \in Reached' : m \in Reached \/ (r.page # NoOne /\ m = r.change),
           UNCHANGED <<saved, order, discarded>>
    PROVE  OrderInv'
<1>1. r \in Message /\ Through \subseteq Through'
  BY DEF PhoneInv, OfflineTypeOK, Through
<1>2. \A m \in Reached' : m \in Reached \/ (Lists(order, m) /\ Clear(order, Through, m))
  BY DEF OrderInv, SentClear
<1>3. CASE UNCHANGED loop
  BY <1>1, <1>2, <1>3, OrderKeeps DEF OrderInv, NotForgotten, OkReached
<1>4. CASE /\ r.page # NoOne
           /\ Replaying(r.page, KindOfChange(r.change), "wait")
           /\ Current(r.page, KindOfChange(r.change)) = r.change
           /\ Proceeds(r.page, KindOfChange(r.change), answer)
  <2>1. r.page \in Pages /\ KindOfChange(r.change) \in QueueKinds
    BY <1>1, <1>4, KindsOf DEF Message
  <2>2. \A s \in net' : s \in net
    OBVIOUS
  <2> QED
    BY <1>2, <1>4, <2>1, <2>2, ProceedingKeeps DEF Replaying
<1> QED
  BY <1>3, <1>4 DEF Answered

LEMMA ArriveInOrder ==
    ASSUME TypeOK, PhoneInv, OrderInv, NEW r \in net, Arrive(r)
    PROVE  OrderInv'
<1> DEFINE m == r.change
<1>1. m \in Changes /\ asked[m] # NoOne /\ m # NoOne /\ r \in Message
  BY PhoneAssumption DEF PhoneInv, OfflineTypeOK, TapInv, Asked, Message
<1>2. net' = net \ {r} /\ UNCHANGED <<saved, order, discarded>>
  BY DEF Arrive
<1>3. CASE r.page = NoOne /\ Effect(m, NoOne) /\ Answered(r, "ok")
  <2>1. Reached' = Reached
    BY <1>1, <1>3, EffectStores
  <2> QED
    BY <1>2, <1>3, <2>1, AnswerInOrder
<1>4. CASE r.page # NoOne /\ Effect(m, m) /\ Answered(r, "ok")
  <2>1. Reached' = Reached \cup {m}
    BY <1>1, <1>4, EffectStores
  <2> QED
    BY <1>2, <1>4, <2>1, AnswerInOrder
<1>5. CASE r.page # NoOne /\ Stored(m) /\ UNCHANGED vars /\ Answered(r, "ok")
  <2>1. Reached' = Reached /\ m \in Reached
    BY <1>1, <1>5 DEF Reached, Stored, vars, crewVars
  <2> QED
    BY <1>2, <1>5, <2>1, AnswerInOrder
<1>6. CASE UNCHANGED vars /\ Answered(r, "conflict")
  <2>1. Reached' = Reached
    BY <1>6 DEF Reached, Stored, vars, crewVars
  <2> QED
    BY <1>2, <1>6, <2>1, AnswerInOrder
<1> QED
  BY <1>3, <1>4, <1>5, <1>6 DEF Arrive

LEMMA PhoneInOrder ==
    ASSUME TypeOK, PhoneInv, OrderInv, PhoneStep
    PROVE  OrderInv'
<1>1. CASE TapStep /\ UNCHANGED vars
  <2>0. UNCHANGED <<lifecycle, moved>>
    BY <1>1 DEF vars, crewVars
  <2>1. ASSUME NEW p \in Pages, NEW m \in Changes, NEW want \in Wants(m),
               handleJobAction(p, m, want) \/ persistStopState(p, m, want)
        PROVE  OrderInv'
    <3>1. UNCHANGED <<order, saved, discarded, loop>>
      BY <2>1 DEF handleJobAction, persistStopState
    <3>2. net' = net \/ net' = net \cup {[change |-> m, page |-> NoOne]}
      BY <2>1 DEF handleJobAction, persistStopState
    <3> QED
      BY <2>0, <3>1, <3>2, QuietKeeps
  <2>2. ASSUME NEW m \in Changes, AttemptFails(m) \/ StorageUnavailable(m)
        PROVE  OrderInv'
    BY <2>0, <2>2, QuietKeeps DEF AttemptFails, StorageUnavailable
  <2>3. ASSUME NEW m \in Changes, enqueueMutation(m)
        PROVE  OrderInv'
    <3>1. ~Lists(order, m)
      BY <2>3, EnqueueKeeps
    <3>2. saved'[m] # "none" /\ \A x \in Changes : x # m => saved'[x] = saved[x]
      BY <2>3 DEF enqueueMutation, PhoneInv, OfflineTypeOK
    <3>3. order' = Append(order, m) /\ UNCHANGED <<discarded, net, loop>>
      BY <2>3 DEF enqueueMutation
    <3> QED
      BY <2>0, <3>1, <3>2, <3>3, SavingKeeps
  <2>4. ASSUME NEW m \in Changes, markRefused(m)
        PROVE  OrderInv'
    <3>1. saved'[m] # "none" /\ \A x \in Changes : x # m => saved'[x] = saved[x]
      BY <2>4 DEF markRefused, PhoneInv, OfflineTypeOK
    <3>2. UNCHANGED <<order, discarded, net, loop>>
      BY <2>4 DEF markRefused
    <3> QED
      BY <2>0, <3>1, <3>2, SavingKeeps
  <2> QED
    BY <1>1, <2>1, <2>2, <2>3, <2>4 DEF TapStep
<1>2. CASE ReplayStep /\ UNCHANGED vars
  <2>0. UNCHANGED <<lifecycle, moved>>
    BY <1>2 DEF vars, crewVars
  <2> QED
    BY <1>2, <2>0, BeginReplayInOrder, SendInOrder, FailInOrder, RemoveInOrder,
       MarkFailedInOrder, RestInOrder
    DEF ReplayStep
<1>3. ASSUME NEW r \in net, Lose(r)
      PROVE  OrderInv'
  BY <1>3, QuietKeeps DEF Lose, vars, crewVars
<1> QED
  BY <1>1, <1>2, <1>3, ArriveInOrder DEF PhoneStep

LEMMA OrderShown == PhoneInv /\ OrderInv => SavedArrivesInOrder
<1> SUFFICES ASSUME PhoneInv, OrderInv, NEW n \in DOMAIN order
             PROVE  /\ saved[order[n]] # "none" \/ Stored(order[n]) \/ order[n] \in discarded
                    /\ Stored(order[n]) =>
                          \A k \in 1..n - 1 :
                             KindOfChange(order[k]) = KindOfChange(order[n])
                             => Stored(order[k]) \/ order[k] \in discarded
  BY DEF SavedArrivesInOrder
<1>1. /\ order \in Seq(Changes) /\ DOMAIN order = 1..Len(order) /\ Len(order) \in Nat
      /\ order[n] \in Changes /\ Lists(order, order[n])
  BY DEF PhoneInv, OfflineTypeOK, Lists
<1>2. saved[order[n]] # "none" \/ Stored(order[n]) \/ order[n] \in discarded
  BY <1>1 DEF OrderInv, NotForgotten, Through, Reached
<1>3. ASSUME Stored(order[n]), NEW k \in 1..n - 1,
             KindOfChange(order[k]) = KindOfChange(order[n])
      PROVE  Stored(order[k]) \/ order[k] \in discarded
  <2>1. k \in DOMAIN order /\ k < n /\ order[k] \in Changes
    BY <1>1
  <2>2. Before(order, order[k], order[n])
    BY <1>3, <2>1 DEF Before
  <2>3. order[n] \in Reached
    BY <1>1, <1>3 DEF Reached
  <2> QED
    BY <2>1, <2>2, <2>3 DEF OrderInv, ReachedClear, Clear, Through, Reached
<1> QED
  BY <1>2, <1>3

-----------------------------------------------------------------------------
(* The phone beside everybody else.                                        *)

\* What the phone sends is a change as the crew makes it.
LEMMA PhoneOnReport ==
    ASSUME ReportInv, PhoneInv, PhoneStep
    PROVE  ReportInv'
<1>1. ASSUME NEW r \in net, Arrive(r)
      PROVE  ReportInv'
  <2>1. r.change \in Changes /\ asked[r.change] # NoOne
        /\ asked[r.change] \in Wants(r.change)
    BY DEF PhoneInv, OfflineTypeOK, TapInv, Asks, Asked, Message
  <2>2. CASE UNCHANGED vars
    BY <2>2, ReportStep
  <2>3. ASSUME NEW id \in {r.change, NoOne}, Effect(r.change, id)
        PROVE  ReportInv'
    <3>1. CASE r.change \in Starts
      <4>1. StartJob(id) \/ CompleteJob(id)
        BY <2>1, <2>3, <3>1 DEF Effect, Wants
      <4> QED
        BY <3>1, <4>1, LifecycleKeeps
    <3>2. CASE r.change \notin Starts
      <4>1. r.change \in Moves /\ asked[r.change] \in {"open", "finished"}
        BY <2>1, <3>2 DEF Changes, Wants
      <4>2. MoveStop(id, asked[r.change])
        BY <2>3, <4>1 DEF Effect
      <4> QED
        BY <4>1, <4>2, MoveKeeps
    <3> QED
      BY <3>1, <3>2
  <2> QED
    BY <1>1, <2>2, <2>3 DEF Arrive
<1>2. (TapStep \/ ReplayStep) /\ UNCHANGED vars => ReportInv'
  BY ReportStep
<1>3. ASSUME NEW r \in net, Lose(r)
      PROVE  ReportInv'
  BY <1>3, ReportStep DEF Lose
<1> QED
  BY <1>1, <1>2, <1>3 DEF PhoneStep

LEMMA OfflineStep ==
    ReportInv /\ PhoneInv /\ OrderInv /\ [OfflineNext]_<<vars, phoneVars>>
    => (ReportInv /\ PhoneInv /\ OrderInv)'
<1> SUFFICES ASSUME ReportInv, PhoneInv, OrderInv, [OfflineNext]_<<vars, phoneVars>>
             PROVE  (ReportInv /\ PhoneInv /\ OrderInv)'
  OBVIOUS
<1>1. CASE PhoneStep
  BY <1>1, PhoneOnReport, PhoneKeeps, PhoneInOrder DEF ReportInv
<1>2. CASE [Next]_vars /\ UNCHANGED <<lifecycle, moved, phoneVars>>
  <2>1. ReportInv' /\ PhoneInv'
    BY <1>2, ReportStep, PhoneKeeps
  <2>2. OrderInv'
    BY <1>2, QuietKeeps DEF phoneVars
  <2> QED
    BY <2>1, <2>2
<1> QED
  BY <1>1, <1>2 DEF OfflineNext, vars, crewVars

LEMMA OfflineInvariant == OfflineSpec => [](ReportInv /\ PhoneInv /\ OrderInv)
<1>1. Init /\ OfflineInit => ReportInv /\ PhoneInv /\ OrderInv
  BY ReportStart, PhoneStart, OrderStart
<1> QED
  BY <1>1, OfflineStep, PTL DEF OfflineSpec

\* What the phone has saved is not forgotten and takes effect in the order in
\* which it was saved (offlineMutationQueue.ts and the replays of App.tsx and
\* DayPlanPanel.tsx): for any number of changes and of pages that replay them
\* at once, and whatever else is done on the job.
THEOREM SavedIsKeptInOrder == OfflineSpec => []SavedArrivesInOrder
<1>1. ReportInv /\ PhoneInv /\ OrderInv => SavedArrivesInOrder
  BY OrderShown
<1> QED
  BY <1>1, OfflineInvariant, PTL

\* What the phone sends breaks nothing of the report: a customer still gets
\* what was submitted, and no change takes effect twice.
THEOREM PhoneIsHarmless == OfflineSpec => [](DeliveredAsSubmitted /\ AppliedOnce)
<1>1. ReportInv => DeliveredAsSubmitted /\ AppliedOnce
  BY DEF ReportInv
<1> QED
  BY <1>1, OfflineInvariant, PTL

LEMMA CustomerKeeps ==
    /\ ReportInv /\ BidsInv /\ PhoneInv
    /\ [CustomerNext]_<<vars, bidsVars, phoneVars>>
    => (ReportInv /\ BidsInv /\ PhoneInv)'
<1> SUFFICES ASSUME ReportInv, BidsInv, PhoneInv,
                    [CustomerNext]_<<vars, bidsVars, phoneVars>>
             PROVE  (ReportInv /\ BidsInv /\ PhoneInv)'
  OBVIOUS
<1>1. CASE [Next]_vars /\ UNCHANGED <<bidsVars, phoneVars>>
  BY <1>1, ReportStep, BidsStep, PhoneKeeps
<1>2. CASE BidsNext /\ UNCHANGED <<vars, phoneVars>>
  BY <1>2, ReportStep, BidsStep, PhoneKeeps
<1>3. CASE PhoneStep /\ UNCHANGED bidsVars
  BY <1>3, PhoneOnReport, BidsStep, PhoneKeeps
<1> QED
  BY <1>1, <1>2, <1>3 DEF CustomerNext

LEMMA CustomerInvariant == CustomerSpec => [](ReportInv /\ BidsInv /\ PhoneInv)
<1>1. CustomerInit => ReportInv /\ BidsInv /\ PhoneInv
  BY ReportStart, BidsStart, PhoneStart DEF CustomerInit
<1> QED
  BY <1>1, CustomerKeeps, PTL DEF CustomerSpec

\* The job, its report, the bid and the phone are well typed together: no
\* list of the phone holds a change twice, no counter leaves its range.
THEOREM CustomerTypeCorrect == CustomerSpec => []CustomerTypeOK
<1>1. ReportInv /\ BidsInv /\ PhoneInv => CustomerTypeOK
  BY DEF ReportInv, BidsInv, PhoneInv, CustomerTypeOK
<1> QED
  BY <1>1, CustomerInvariant, PTL

\* What was shown of the bid and of the report holds beside a phone that starts
\* and completes the job and moves its stop with whatever it had saved.
THEOREM CustomerIsServed ==
    CustomerSpec => [](/\ AnswerClosesRecommendation /\ DecidedVersionIsLast
                       /\ WaitingLinkIsCurrent
                       /\ DeliveredAsSubmitted /\ AppliedOnce)
<1>1. ReportInv /\ BidsInv /\ PhoneInv
      => /\ AnswerClosesRecommendation /\ DecidedVersionIsLast
         /\ WaitingLinkIsCurrent /\ DeliveredAsSubmitted /\ AppliedOnce
  BY DEF ReportInv, BidsInv
<1> QED
  BY <1>1, CustomerInvariant, PTL

\* The phone knows the job and its stop, never the report's row.
LEMMA PhoneKeepsReport == PhoneInv /\ PhoneStep => UNCHANGED report
<1> SUFFICES ASSUME PhoneInv, PhoneStep PROVE UNCHANGED report
  OBVIOUS
<1>1. ASSUME NEW r \in net, Arrive(r) PROVE UNCHANGED report
  <2>1. r.change \in Changes /\ asked[r.change] # NoOne
        /\ asked[r.change] \in Wants(r.change)
    BY DEF PhoneInv, OfflineTypeOK, TapInv, Asks, Asked, Message
  <2>2. CASE UNCHANGED vars
    BY <2>2 DEF vars, reportVars
  <2>3. ASSUME NEW id \in {r.change, NoOne}, Effect(r.change, id)
        PROVE  UNCHANGED report
    <3>1. StartJob(id) \/ CompleteJob(id) \/ MoveStop(id, asked[r.change])
      BY <2>3 DEF Effect
    <3> QED
      BY <3>1 DEF StartJob, CompleteJob, MoveStop, reportVars
  <2> QED
    BY <1>1, <2>2, <2>3 DEF Arrive
<1>2. CASE UNCHANGED vars
  BY <1>2 DEF vars, reportVars
<1> QED
  BY <1>1, <1>2 DEF PhoneStep, Lose

\* What was answered and what was delivered stays so beside each other and
\* beside the phone: nothing that it repeats, late or twice, is read back into
\* a delivered report, and no bid is reopened.
THEOREM CustomerKeepsWhatIsFinal == CustomerSpec => AnswerIsFinal /\ DeliveredIsFinal
<1>1. ASSUME ReportInv, BidsInv, PhoneInv,
             [CustomerNext]_<<vars, bidsVars, phoneVars>>
      PROVE  [BidsNext]_bidsVars /\ ([Next]_vars \/ UNCHANGED report)
  BY <1>1, PhoneKeepsReport DEF CustomerNext
<1>2. ReportInv /\ BidsInv /\ PhoneInv
      /\ [CustomerNext]_<<vars, bidsVars, phoneVars>>
      => [bid.status \in Answers =>
            /\ bid'.scope = bid.scope
            /\ \/ bid'.status = bid.status
               \/ bid.status = "approved" /\ bid'.status = "converted"]_bidsVars
  BY <1>1, AnswerStays
<1>3. ReportInv /\ BidsInv /\ PhoneInv
      /\ [CustomerNext]_<<vars, bidsVars, phoneVars>>
      => [report.status = "delivered" =>
            /\ report'.status = "delivered"
            /\ report'.token = report.token
            /\ report'.snapshot \in {report.snapshot, Redacted(report.snapshot)}]_vars
  BY <1>1, DeliveryStays
<1> QED
  BY <1>2, <1>3, CustomerInvariant, PTL DEF CustomerSpec, AnswerIsFinal, DeliveredIsFinal

=============================================================================

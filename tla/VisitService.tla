---------------------------- MODULE VisitService ----------------------------
(***************************************************************************)
(* The service that follows a confirmed first visit: its release as a job, *)
(* what the provider tells the customer of the service day, and the        *)
(* questions and responses of the visit's thread.                          *)
(*                                                                         *)
(* A publication holds an advisory lock of the release and the row of the  *)
(* job from its checks to its commit; the crew and the dispatcher of       *)
(* JobDispatch change that row too.  A message is written in one step,     *)
(* under the lock of its thread, but its author's page is out of date and  *)
(* loses answers: a page keeps the key of its text until it learns what    *)
(* became of it, and a request can arrive after the page gave it up.  An   *)
(* exact retry of a release or a publication changes nothing and is not a  *)
(* step here.                                                              *)
(***************************************************************************)
EXTENDS JobDispatch, Sequences

CONSTANTS
    Visited,        \* the job of the visit
    Customers,      \* pages of the customer
    ManagerPages,   \* pages of managers, a subset of Users
    MaxEvents,      \* bound on the events of the release
    MaxKeys,        \* bound on the texts one page sends
    MaxMessages     \* bound on the messages of the thread

ASSUME VisitAssumption ==
    /\ Visited \in Unreleased
    /\ ManagerPages \subseteq Users /\ Customers \cap Users = {}
    /\ MaxEvents \in Nat /\ MaxKeys \in Nat /\ MaxMessages \in Nat

Authors == Customers \cup ManagerPages

VARIABLES
    confirmed,      \* the owner has confirmed the first visit
    released,       \* owner_provider_service_releases has the visit
    service_events, \* customer_service_day_events, by version
    publishing,     \* the publication between its checks and its write
    access,         \* customers whose portal grants are valid
    thread,         \* customer_service_visit_messages, by version
    page,           \* the page of each author
    wire            \* requests of pages that have not arrived

serviceVars == <<confirmed, released, service_events, publishing>>
threadVars == <<access, thread, page, wire>>
visitVars == <<serviceVars, threadVars>>

-----------------------------------------------------------------------------
EventKind == {"en_route", "care_in_progress", "weather_delay", "rescheduled",
              "complete_proof_pending"}
Delays == {"weather_delay", "rescheduled"}

Publication == [by : Writers, kind : EventKind, day : Days]
\* to: the question that a response answers, or 0.
Message == [by : Authors, key : 1..MaxKeys, to : 0..MaxMessages]
\* expected: the thread version of the page that sends it.
Request == [by : Authors, key : 1..MaxKeys, to : 0..MaxMessages,
            expected : 0..MaxMessages]
\* seen: the version of the thread on the page; key: of the text on it, 0
\* before the text is sent; used: keys so far; told: keys of texts that the
\* page reported as confirmed.
Page == [loaded : BOOLEAN, seen : 0..MaxMessages, key : 0..MaxKeys,
         used : 0..MaxKeys, to : 0..MaxMessages, told : SUBSET (1..MaxKeys),
         status : {"idle", "sending", "written", "failed"}]

VisitTypeOK ==
    /\ confirmed \in BOOLEAN /\ released \in BOOLEAN
    /\ service_events \in Seq(EventKind) /\ Len(service_events) <= MaxEvents
    /\ publishing \in Publication \cup {None}
    /\ access \subseteq Customers
    /\ thread \in Seq(Message) /\ Len(thread) <= MaxMessages
    /\ page \in [Authors -> Page]
    /\ wire \subseteq Request

VisitInit ==
    /\ confirmed = FALSE /\ released = FALSE
    /\ service_events = <<>> /\ publishing = None
    /\ access = Customers
    /\ thread = <<>>
    /\ page = [a \in Authors |-> [loaded |-> FALSE, seen |-> 0, key |-> 0,
                                  used |-> 0, to |-> 0, told |-> {},
                                  status |-> "idle"]]
    /\ wire = {}

jobVars == <<jobHeld, dispatch, moves, told, clock, planned, held>>

ManagesService(role) == role \in {"organization_owner", "manager"}

ProviderActor == \E u \in Users : user_has_active_membership(u, ManagesService)

-----------------------------------------------------------------------------
(* Release. *)

\* The first visit of ProviderEngagement is confirmed, for good.
ConfirmVisit ==
    /\ ~confirmed
    /\ confirmed' = TRUE
    /\ UNCHANGED <<released, service_events, publishing, threadVars, job, jobVars>>

\* The newest version of the visit is the confirmed one, and no release has it.
Releasable == confirmed /\ ~released

\* One step: an advisory lock of the activation, and the lock of its series.
\* The job is scheduled on the visit's local day, without a crew, and the
\* thread of the visit is opened.
release_initial_service(d) ==
    /\ Releasable
    /\ released' = TRUE
    /\ job' = [job EXCEPT ![Visited] =
                   [status |-> "scheduled", crew |-> None, day |-> d]]
    /\ UNCHANGED <<confirmed, service_events, publishing, threadVars, jobVars>>

release_provider_initial_service(d) == ProviderActor /\ release_initial_service(d)

-----------------------------------------------------------------------------
(* What the customer is told. *)

current_status == IF service_events = <<>> THEN "confirmed" ELSE service_events[Len(service_events)]

service_day_transition_allowed(current, next) ==
    next \in CASE current = "confirmed"     -> {"en_route"} \cup Delays
               [] current = "en_route"      -> {"care_in_progress"} \cup Delays
               [] current = "weather_delay" -> {"en_route", "rescheduled"}
               [] current = "rescheduled"   -> {"en_route"} \cup Delays
               [] current = "care_in_progress" -> {"complete_proof_pending"}
               [] OTHER -> {}

\* What has to be true of the job.
JobAllows(kind) ==
    /\ kind = "care_in_progress" => job[Visited].status = "in_progress"
    /\ kind = "complete_proof_pending" => job[Visited].status = "completed"
    /\ kind \in Delays => job[Visited].status # "completed"

publish_provider_customer_service_status(w, kind, d) ==
    /\ ProviderActor
    /\ publishing' = [by |-> w, kind |-> kind, day |-> d]

\* Mutant: the job is joined without locking its row.
CheckPublication_NoJobLock(w, kind, d) ==
    /\ released /\ publishing = None /\ Len(service_events) < MaxEvents
    /\ publish_provider_customer_service_status(w, kind, d)
    /\ service_day_transition_allowed(current_status, kind)
    /\ JobAllows(kind)
    /\ UNCHANGED <<confirmed, released, service_events, threadVars, job, jobVars>>

\* Both locks are held, the version is the one the caller expects, and the
\* status may follow; otherwise the request ends here.
CheckPublication(w, kind, d) ==
    /\ released /\ publishing = None /\ Len(service_events) < MaxEvents
    /\ publish_provider_customer_service_status(w, kind, d)
    /\ JobFree(Visited)
    /\ service_day_transition_allowed(current_status, kind)
    /\ JobAllows(kind)
    /\ jobHeld' = [jobHeld EXCEPT ![Visited] = w]
    /\ UNCHANGED <<confirmed, released, service_events, threadVars, job, dispatch, moves,
                   told, clock, planned, held>>

\* A reschedule also moves the job, whatever its crew has on that day.
publish_customer_service_day_event ==
    /\ publishing # None
    /\ service_events' = Append(service_events, publishing.kind)
    /\ job' = IF publishing.kind = "rescheduled"
              THEN [job EXCEPT ![Visited].day = publishing.day] ELSE job
    /\ publishing' = None
    /\ jobHeld' = [jobHeld EXCEPT ![Visited] = None]
    /\ UNCHANGED <<confirmed, released, threadVars, dispatch, moves, told, clock,
                   planned, held>>

-----------------------------------------------------------------------------
(* The server's side of the thread. *)

\* The customer's membership, and with it the grants that rest on it, is
\* suspended.
SuspendCustomer(c) ==
    /\ c \in access
    /\ access' = access \ {c}
    /\ UNCHANGED <<thread, page, wire>>

Authorized(a) ==
    /\ released
    /\ IF a \in Customers THEN a \in access
       ELSE user_has_active_membership(a, ManagesService)

IsQuestion(n) == n \in DOMAIN thread /\ thread[n].to = 0

\* Mutant: no message is found by its key.
replay_message_Never(r) == {}

\* The message that an earlier request with this key wrote.
replay_message(r) == {n \in DOMAIN thread : thread[n].by = r.by /\ thread[n].key = r.key}

\* Of the same content, which includes the version that it was sent with.
ExactReplay(r) == \E n \in replay_message(r) : n = r.expected + 1 /\ thread[n].to = r.to

\* A new key, from an up-to-date page.
create_customer_question(r) == replay_message(r) = {} /\ Len(thread) = r.expected

\* So is a response, to a question that has none.
create_provider_response(r) ==
    /\ replay_message(r) = {} /\ Len(thread) = r.expected
    /\ IsQuestion(r.to)
    /\ \A n \in DOMAIN thread : thread[n].to # r.to

Acceptable(r) == IF r.by \in Customers THEN create_customer_question(r)
                 ELSE create_provider_response(r)

\* The page that still waits for this request is answered.  An answer that is
\* lost is one that its page has given up.
Answered(r, ok) ==
    page' = IF /\ page[r.by].status = "sending"
               /\ page[r.by].key = r.key /\ page[r.by].seen = r.expected
            THEN [page EXCEPT ![r.by].status = IF ok THEN "written" ELSE "failed"]
            ELSE page

HandleMessage(r) ==
    /\ r \in wire
    /\ wire' = wire \ {r}
    /\ LET writes == Authorized(r.by) /\ Acceptable(r)
       IN /\ thread' = IF writes
                       THEN Append(thread, [by |-> r.by, key |-> r.key, to |-> r.to])
                       ELSE thread
          /\ Answered(r, writes \/ (Authorized(r.by) /\ ExactReplay(r)))
    /\ UNCHANGED access

-----------------------------------------------------------------------------
(* The pages. *)

Idle(a) == page[a].status = "idle"

\* The thread is opened or refreshed; the text and its key stay.
loadThread(a) ==
    /\ Idle(a) /\ Authorized(a)
    /\ page' = [page EXCEPT ![a].loaded = TRUE, ![a].seen = Len(thread)]
    /\ UNCHANGED <<access, thread, wire>>

\* Every key stroke is a new text, and so is the selection of a visit.
EditBody(a) ==
    /\ Idle(a) /\ page[a].key # 0
    /\ page' = [page EXCEPT ![a].key = 0]
    /\ UNCHANGED <<access, thread, wire>>

\* The questions that the page shows as open.
unansweredCustomerQuestions(a) ==
    {n \in 1..page[a].seen :
        IsQuestion(n) /\ \A m \in 1..page[a].seen : thread[m].to # n}

\* A manager's page answers the last of them.
ResponseTarget(a, n) ==
    IF a \in Customers THEN n = 0
    ELSE /\ n \in unansweredCustomerQuestions(a)
         /\ \A m \in unansweredCustomerQuestions(a) : m <= n

Submit(a, n) ==
    /\ Idle(a) /\ page[a].loaded
    /\ ResponseTarget(a, n)
    /\ page[a].key # 0 \/ page[a].used < MaxKeys
    /\ LET k == IF page[a].key # 0 THEN page[a].key ELSE page[a].used + 1 IN
       /\ page' = [page EXCEPT ![a].status = "sending", ![a].key = k, ![a].to = n,
                               ![a].used = IF k > @ THEN k ELSE @]
       /\ wire' = wire \cup {[by |-> a, key |-> k, to |-> n, expected |-> page[a].seen]}
    /\ UNCHANGED <<access, thread>>

\* The connection fails; the request may still arrive.
LoseAnswer(a) ==
    /\ page[a].status = "sending"
    /\ page' = [page EXCEPT ![a].status = "failed"]
    /\ UNCHANGED <<access, thread, wire>>

Reloaded(a, fields) ==
    page' = [page EXCEPT ![a] = [fields EXCEPT !.loaded = TRUE, !.seen = Len(thread),
                                               !.status = "idle"]]

\* The thread cannot be read: the customer's page keeps the one it has.
NotReloaded(a, fields) ==
    page' = [page EXCEPT ![a] = [fields EXCEPT !.loaded = a \in Customers,
                                               !.status = "idle"]]

ConfirmedOn(a) == [page[a] EXCEPT !.key = 0, !.told = @ \cup {page[a].key}]

\* The text was written: the page says so, and reloads.
AfterSuccess(a) ==
    /\ page[a].status = "written"
    /\ \/ Authorized(a) /\ Reloaded(a, ConfirmedOn(a))
       \/ NotReloaded(a, ConfirmedOn(a))
    /\ UNCHANGED <<access, thread, wire>>

\* The text may have been written: the page reloads and keeps the key.  A
\* manager's page takes any response to the question for its own.
AfterFailure(a) ==
    /\ page[a].status = "failed"
    /\ \/ NotReloaded(a, page[a])
       \/ /\ Authorized(a)
          /\ IF a \in ManagerPages /\ \E n \in DOMAIN thread : thread[n].to = page[a].to
             THEN Reloaded(a, ConfirmedOn(a))
             ELSE Reloaded(a, page[a])
    /\ UNCHANGED <<access, thread, wire>>

-----------------------------------------------------------------------------
ServiceStep ==
    \/ ConfirmVisit
    \/ \E d \in Days :
          \/ release_provider_initial_service(d)
          \/ \E w \in Writers, kind \in EventKind : CheckPublication(w, kind, d)
    \/ publish_customer_service_day_event

PageStep ==
    \E a \in Authors :
        \/ loadThread(a) \/ EditBody(a) \/ LoseAnswer(a)
        \/ AfterSuccess(a) \/ AfterFailure(a)
        \/ \E n \in 0..MaxMessages : Submit(a, n)

ThreadStep ==
    \/ \E c \in Customers : SuspendCustomer(c)
    \/ /\ Len(thread) < MaxMessages
       /\ \E r \in wire : HandleMessage(r)
    \/ PageStep

VisitStep ==
    \/ ServiceStep /\ UNCHANGED vars
    \/ ThreadStep /\ UNCHANGED <<vars, planVars, dispatchVars, serviceVars>>

\* With the dispatch of jobs, the crews and the staff.
VisitNext == VisitStep \/ (DispatchNext /\ UNCHANGED visitVars)
VisitSpec == Init /\ PlanInit /\ DispatchInit /\ VisitInit
             /\ [][VisitNext]_<<vars, planVars, dispatchVars, visitVars>>

-----------------------------------------------------------------------------
(* Properties. *)

\* What the customer is told is so when it is told, although the crew starts
\* and completes the job meanwhile: care is in progress, the work is complete,
\* and nothing that is done is delayed.
ToldAsItIs ==
    [][service_events' # service_events =>
          /\ current_status' = "care_in_progress" => job[Visited].status = "in_progress"
          /\ current_status' = "complete_proof_pending" => job[Visited].status = "completed"
          /\ current_status' \in Delays => job[Visited].status # "completed"]_visitVars

\* Whatever was lost and sent again, from however old a page: a text is
\* written once, a question is answered once, after it was asked, and what the
\* customer's page reports as confirmed is in the thread.
SaidOnce ==
    /\ \A m, n \in DOMAIN thread :
          thread[m].by = thread[n].by /\ thread[m].key = thread[n].key => m = n
    /\ \A m, n \in DOMAIN thread :
          thread[m].to # 0 => /\ thread[m].to < m /\ IsQuestion(thread[m].to)
                              /\ thread[n].to = thread[m].to => m = n
    /\ \A c \in Customers : \A k \in page[c].told :
          \E n \in DOMAIN thread : thread[n].by = c /\ thread[n].key = k

=============================================================================

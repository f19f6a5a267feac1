------------------------- MODULE CompletionReports -------------------------
(***************************************************************************)
(* One service job, its crew's work on it, and its completion report.      *)
(*                                                                         *)
(* The crew starts the job, ticks its checklist, completes it; a phone     *)
(* that lost the answer sends the change again under the same client       *)
(* mutation id.  Whoever opens the report has it built from the job, its   *)
(* photos, its add-ons and its stop on the route, one query after another, *)
(* and saved; once it is submitted the saved status and counts are frozen. *)
(* A manager reviews it, sends it back or delivers it: delivery builds the *)
(* report once more and stores it as the customer's snapshot.  Managers    *)
(* may erase the customer's photo evidence at any time.                    *)
(*                                                                         *)
(* The upload of a photo is that of PhotoEvidence.                         *)
(***************************************************************************)
EXTENDS Naturals, FiniteSets, AccessControl

CONSTANTS
    Kinds,          \* the photo types a report counts: before and after
    Photos,         \* the photos the crew may take
    KindOf,         \* [Photos -> Kinds]
    Items,          \* the job's checklist
    YardItems,      \* those whose id ends in yard_service
    AddOns,         \* add-on services sold with the job
    Users,          \* members of the job's organization
    RoleOf,         \* [Users -> AccessRole]
    Mutations,      \* client mutation ids of checklist changes
    Starts,         \* client mutation ids of job starts and completions
    Moves,          \* client mutation ids of route progress
    Writers,        \* checklist transactions under way
    Requests,       \* report reads and deliveries, each served once
    NoOne,          \* nothing, nobody yet
    Over            \* a request that has ended

ASSUME ReportAssumption ==
    /\ IsFiniteSet(Items) /\ Items # {} /\ YardItems \subseteq Items
    /\ RoleOf \in [Users -> AccessRole]
    /\ IsFiniteSet(Photos) /\ KindOf \in [Photos -> Kinds]

\* An id is made for one change; no row is the missing one.
ASSUME IdAssumption ==
    /\ Mutations \cap Moves = {}
    /\ NoOne \notin [item : Items, value : BOOLEAN] \cup {"open", "finished"}

VARIABLES
    job,        \* service_jobs: status, completed_checklist_items, photo counters
    ticked,     \* the items of job_checklist_items that are completed
    photos,     \* the photos that are uploaded or processed
    erased,     \* the photos that were erased
    addOn,      \* [AddOns -> status of service_job_add_ons]
    stop,       \* the job's stop on today's route of its crew
    ledger,     \* checklist_mutations: what each id asked for
    lifecycle,  \* job_lifecycle_mutations: what each id asked for
    moved,      \* stop_progress_mutations: what each id asked for
    write,      \* [Writers -> checklist transaction]
    request,    \* [Requests -> report request]
    report,     \* job_completion_reports, one row
    outbox,     \* share tokens of queued delivery notifications
    applied,    \* history: how often a change of an id took effect
    reviewed    \* history: the counts the report had when it was submitted

jobVars == <<job, ticked, photos, erased, addOn, stop>>
crewVars == <<ledger, lifecycle, moved, write>>
reportVars == <<report, outbox>>
historyVars == <<applied, reviewed>>
vars == <<jobVars, crewVars, request, reportVars, historyVars>>

-----------------------------------------------------------------------------
Total == Cardinality(Items)
ReportStatus == {"none", "draft", "submitted", "in_review",
                 "changes_requested", "delivered"}
AddOnStatus == {"none", "scheduled", "in_progress", "completed", "cancelled"}
Change == [item : Items, value : BOOLEAN]
Counts == [Kinds -> 0..Cardinality(Photos)]
Counted(S) == [k \in Kinds |-> Cardinality({p \in S : KindOf[p] = k})]

\* progress stands for checklist_progress: 100 exactly when it is Total.
Evidence == [progress : 0..Total, counts : Counts]
Nothing == [progress |-> 0, counts |-> Counted({})]

\* photos: the rows of photo_evidence in the document.
Snapshot == [progress : 0..Total, counts : Counts, photos : SUBSET Photos]
Row == [status : ReportStatus, ready : BOOLEAN, progress : 0..Total,
        counts : Counts, reviewer : Users \cup {NoOne},
        token : Requests \cup {NoOne}, snapshot : Snapshot \cup {NoOne}]
NoReport == [status |-> "none", ready |-> FALSE, progress |-> 0,
             counts |-> Counted({}), reviewer |-> NoOne,
             token |-> NoOne, snapshot |-> NoOne]
Write == [id : Mutations \cup {NoOne}, item : Items, value : BOOLEAN,
          count : 0..Total \cup {NoOne}]
\* by: who delivers, or NoOne when the report is only read.
Request == [by : Users \cup {NoOne},
            at : {"job", "photos", "add_ons", "stop", "save", "deliver"},
            progress : 0..Total, counts : Counts, photos : SUBSET Photos,
            ready : BOOLEAN]

TypeOK ==
    /\ job \in [status : {"scheduled", "in_progress", "completed"},
                count : 0..Total, counters : Counts]
    /\ ticked \subseteq Items
    /\ photos \subseteq Photos /\ erased \subseteq Photos
    /\ addOn \in [AddOns -> AddOnStatus]
    /\ stop \in {"none", "open", "finished"}
    /\ ledger \in [Mutations -> Change \cup {NoOne}]
    /\ lifecycle \in [Starts -> {"start", "complete", NoOne}]
    /\ moved \in [Moves -> {"open", "finished", NoOne}]
    /\ write \in [Writers -> Write \cup {NoOne}]
    /\ request \in [Requests -> Request \cup {NoOne, Over}]
    /\ report \in Row
    /\ outbox \subseteq Requests
    /\ applied \in [Mutations \cup Moves -> 0..2]
    /\ reviewed \in Evidence

Init ==
    /\ job = [status |-> "scheduled", count |-> 0,
              counters |-> Counted({})]
    /\ ticked = {} /\ photos = {} /\ erased = {} /\ outbox = {}
    /\ addOn \in [AddOns -> {"none", "scheduled"}]
    /\ stop \in {"none", "open"}
    /\ ledger = [m \in Mutations |-> NoOne]
    /\ lifecycle = [m \in Starts |-> NoOne]
    /\ moved = [m \in Moves |-> NoOne]
    /\ write = [w \in Writers |-> NoOne]
    /\ request = [r \in Requests |-> NoOne]
    /\ report = NoReport
    /\ applied = [m \in Mutations \cup Moves |-> 0]
    /\ reviewed = Nothing

-----------------------------------------------------------------------------
(* The crew's work: service job, checklist, add-ons, photos, route.        *)

\* Who does the work is not recorded: it only takes somebody who may.
Crew == {u \in Users : can_view_crew_route(RoleOf[u])}
Busy(item) == \E w \in Writers : write[w] # NoOne /\ write[w].item = item

\* An id that was used for the same change is a replay and for another one a
\* conflict; both leave everything as it is.  A start or completion without
\* an id is always new.
ClaimLifecycle(m, action) ==
    IF m = NoOne THEN UNCHANGED lifecycle
    ELSE lifecycle[m] = NoOne /\ lifecycle' = [lifecycle EXCEPT ![m] = action]

StartJob(m) ==
    /\ ClaimLifecycle(m, "start")
    /\ ~\E item \in YardItems : Busy(item)
    /\ job' = [job EXCEPT !.status = "in_progress"]
    /\ ticked' = ticked \cup YardItems
    /\ UNCHANGED <<photos, erased, addOn, stop, ledger, moved, write, request,
                   reportVars, historyVars>>

CompleteJob(m) ==
    /\ ClaimLifecycle(m, "complete")
    /\ ~\E item \in Items : Busy(item)
    /\ job' = [job EXCEPT !.status = "completed", !.count = Total]
    /\ ticked' = Items
    /\ UNCHANGED <<photos, erased, addOn, stop, ledger, moved, write, request,
                   reportVars, historyVars>>

start_job(m) == Crew # {} /\ StartJob(m)
complete_job(m) == Crew # {} /\ CompleteJob(m)

\* Mutant: a change whose id is known is made again.
BeginChecklistChange_NoReplay(w, m, item, value) ==
    /\ write[w] = NoOne
    /\ ~\E v \in Writers : write[v] # NoOne /\ write[v].id = m
    /\ ~Busy(item)
    /\ write' = [write EXCEPT ![w] = [id |-> m, item |-> item, value |-> value,
                                      count |-> NoOne]]
    /\ UNCHANGED <<jobVars, ledger, lifecycle, moved, request, reportVars, historyVars>>

\* The id's row and the item's row are written and stay locked; another
\* transaction with the same id or item waits here.
BeginChecklistChange(w, m, item, value) ==
    /\ write[w] = NoOne
    /\ m # NoOne => /\ ledger[m] = NoOne
                    /\ ~\E v \in Writers : write[v] # NoOne /\ write[v].id = m
    /\ ~Busy(item)
    /\ write' = [write EXCEPT ![w] = [id |-> m, item |-> item, value |-> value,
                                      count |-> NoOne]]
    /\ UNCHANGED <<jobVars, ledger, lifecycle, moved, request, reportVars, historyVars>>

AfterChange(w) ==
    IF write[w].value THEN ticked \cup {write[w].item} ELSE ticked \ {write[w].item}

\* Mutant: the counter goes up or down by one.
CountChecklist_ByOne(w) ==
    /\ write[w] # NoOne /\ write[w].count = NoOne
    /\ write' = [write EXCEPT ![w].count =
                    IF write[w].value THEN job.count + 1
                    ELSE IF job.count = 0 THEN 0 ELSE job.count - 1]
    /\ UNCHANGED <<jobVars, ledger, lifecycle, moved, request, reportVars, historyVars>>

\* The items are counted in the snapshot of the statement that updates the
\* job, before that statement gets the job's row.
CountChecklist(w) ==
    /\ write[w] # NoOne /\ write[w].count = NoOne
    /\ write' = [write EXCEPT ![w].count = Cardinality(AfterChange(w))]
    /\ UNCHANGED <<jobVars, ledger, lifecycle, moved, request, reportVars, historyVars>>

\* How often is counted up to two.
Applies(m) == applied' = [applied EXCEPT ![m] = IF @ = 2 THEN 2 ELSE @ + 1]

CommitChecklistChange(w) ==
    /\ write[w] # NoOne /\ write[w].count # NoOne
    /\ ticked' = AfterChange(w)
    /\ job' = [job EXCEPT !.count = write[w].count]
    /\ IF write[w].id = NoOne THEN UNCHANGED <<ledger, applied>>
       ELSE /\ ledger' = [ledger EXCEPT ![write[w].id] =
                            [item |-> write[w].item, value |-> write[w].value]]
            /\ Applies(write[w].id)
    /\ write' = [write EXCEPT ![w] = NoOne]
    /\ UNCHANGED <<photos, erased, addOn, stop, lifecycle, moved, request,
                   reportVars, reviewed>>

AbortChecklistChange(w) ==
    /\ write[w] # NoOne
    /\ write' = [write EXCEPT ![w] = NoOne]
    /\ UNCHANGED <<jobVars, ledger, lifecycle, moved, request, reportVars, historyVars>>

update_checklist_item(w, m, item, value) ==
    Crew # {} /\ BeginChecklistChange(w, m, item, value)

AddOnTransition(from, to) ==
    \/ from = to
    \/ from = "scheduled" /\ to \in {"in_progress", "cancelled"}
    \/ from = "in_progress" /\ to \in {"completed", "cancelled"}

UpdateAddOn(a, status) ==
    /\ addOn[a] # "none"
    /\ AddOnTransition(addOn[a], status)
    /\ addOn' = [addOn EXCEPT ![a] = status]
    /\ UNCHANGED <<job, ticked, photos, erased, stop, crewVars, request,
                   reportVars, historyVars>>

update_job_add_on_status(a, status) == Crew # {} /\ UpdateAddOn(a, status)

\* A customer's approved bid is converted into an add-on of the job.
SellAddOn(a) ==
    /\ addOn[a] = "none"
    /\ addOn' = [addOn EXCEPT ![a] = "scheduled"]
    /\ UNCHANGED <<job, ticked, photos, erased, stop, crewVars, request,
                   reportVars, historyVars>>

TakePhoto(p) ==
    /\ p \notin photos \cup erased
    /\ photos' = photos \cup {p}
    /\ job' = [job EXCEPT !.counters[KindOf[p]] = @ + 1]
    /\ UNCHANGED <<ticked, erased, addOn, stop, crewVars, request, reportVars,
                   historyVars>>

\* What another component makes of the route of the day: a route with the
\* job's stop is published, or the job leaves it for another crew's.
ChangeRoute(status) ==
    /\ (stop = "none") # (status = "none")
    /\ stop' = status
    /\ UNCHANGED <<job, ticked, photos, erased, addOn, crewVars, request,
                   reportVars, historyVars>>

\* Any progress can follow any other.  An id that is known is a replay or a
\* conflict, a stop that is gone is not found.
MoveStop(m, status) ==
    /\ stop # "none"
    /\ stop' = status
    /\ IF m = NoOne THEN UNCHANGED <<moved, applied>>
       ELSE /\ moved[m] = NoOne
            /\ moved' = [moved EXCEPT ![m] = status]
            /\ Applies(m)
    /\ UNCHANGED <<job, ticked, photos, erased, addOn, ledger, lifecycle, write,
                   request, reportVars, reviewed>>

update_stop_progress(m, status) == Crew # {} /\ MoveStop(m, status)

-----------------------------------------------------------------------------
(* Building and saving the report, query by query.                         *)

At(r, phase) == request[r] \notin {NoOne, Over} /\ request[r].at = phase
End(r) == request' = [request EXCEPT ![r] = Over]
onlyRequest == <<jobVars, crewVars, reportVars, historyVars>>
Ready(evidence) ==
    /\ evidence.progress = Total
    /\ \A k \in Kinds : evidence.counts[k] > 0

\* What a delivery asks of the saved report, before it builds it anew and
\* once more when it stores the snapshot.
DeliveryCandidate ==
    /\ report.status = "in_review" /\ report.reviewer # NoOne
    /\ report.ready /\ Ready(report)

Opened(r, by) ==
    /\ request[r] = NoOne
    /\ request' = [request EXCEPT ![r] =
                     [by |-> by, at |-> "job", progress |-> 0,
                      counts |-> Nothing.counts, photos |-> {}, ready |-> FALSE]]
    /\ UNCHANGED onlyRequest

get_completion_report(r) == Crew # {} /\ Opened(r, NoOne)

deliver_completion_report(u, r) ==
    /\ can_deliver_completion_report(RoleOf[u])
    /\ DeliveryCandidate
    /\ Opened(r, u)

ReadJob(r) ==
    /\ At(r, "job")
    /\ request' = [request EXCEPT ![r].progress = job.count,
                                  ![r].counts = job.counters, ![r].at = "photos"]
    /\ UNCHANGED onlyRequest

\* The larger of the job's counter and the photos there are.
ReadPhotos(r) ==
    /\ At(r, "photos")
    /\ request' = [request EXCEPT
                     ![r].counts = [k \in Kinds |-> IF Counted(photos)[k] > @[k]
                                                   THEN Counted(photos)[k] ELSE @[k]],
                     ![r].photos = photos, ![r].at = "add_ons"]
    /\ UNCHANGED onlyRequest

\* A cancelled add-on is still counted as pending.
ReadAddOns(r) ==
    /\ At(r, "add_ons")
    /\ LET pending == \E a \in AddOns : addOn[a] \notin {"none", "completed"}
       IN  request' = [request EXCEPT ![r].ready = Ready(request[r]) /\ ~pending,
                                      ![r].at = "stop"]
    /\ UNCHANGED onlyRequest

ReadStop(r) ==
    /\ At(r, "stop")
    /\ request' = [request EXCEPT ![r].ready = @ /\ stop # "open", ![r].at = "save"]
    /\ UNCHANGED onlyRequest

AbandonRequest(r) ==
    /\ request[r] \notin {NoOne, Over}
    /\ End(r)
    /\ UNCHANGED onlyRequest

Frozen == {"submitted", "in_review", "changes_requested", "delivered"}

\* Mutant: the counts are refreshed as long as the report is not delivered.
Saved_CountsFollow(r) ==
    IF report.status \in Frozen
    THEN [report EXCEPT !.progress = request[r].progress, !.counts = request[r].counts]
    ELSE [report EXCEPT !.status = IF request[r].ready THEN "submitted" ELSE "draft",
                        !.ready = request[r].ready, !.progress = request[r].progress,
                        !.counts = request[r].counts]

\* The upsert: from its submission on, the row keeps what it has.
Saved(r) ==
    IF report.status \in Frozen THEN report
    ELSE [report EXCEPT !.status = IF request[r].ready THEN "submitted" ELSE "draft",
                        !.ready = request[r].ready, !.progress = request[r].progress,
                        !.counts = request[r].counts]

\* The response, and the snapshot of a delivery, take the counts that were
\* saved; the photos are those that were read.
SaveReport(r) ==
    /\ At(r, "save")
    /\ LET row == Saved(r)
       IN  /\ report' = row
           /\ reviewed' = IF row.status = "submitted" /\ report.status # "submitted"
                          THEN [progress |-> row.progress, counts |-> row.counts]
                          ELSE reviewed
           /\ IF request[r].by = NoOne THEN End(r)
              ELSE request' = [request EXCEPT
                     ![r].progress = row.progress, ![r].counts = row.counts,
                     ![r].ready = row.ready, ![r].at = "deliver"]
    /\ UNCHANGED <<jobVars, crewVars, outbox, applied>>

\* Mutant: the status is not read again.
DeliverReport_StaleStatus(r) ==
    /\ At(r, "deliver")
    /\ request[r].ready /\ Ready(request[r])
    /\ report' = [report EXCEPT !.status = "delivered",
                    !.token = IF @ = NoOne THEN r ELSE @,
                    !.snapshot = [progress |-> request[r].progress,
                                  counts |-> request[r].counts,
                                  photos |-> request[r].photos]]
    /\ End(r)
    /\ UNCHANGED <<jobVars, crewVars, outbox, historyVars>>

\* One transaction, under the lock of the report's row.  A report that is no
\* longer a candidate, or whose counts are not those of the snapshot, is left
\* as it is.
DeliverReport(r) ==
    /\ At(r, "deliver")
    /\ DeliveryCandidate
    /\ request[r].ready /\ Ready(request[r])
    /\ request[r].progress = report.progress /\ request[r].counts = report.counts
    /\ report' = [report EXCEPT !.status = "delivered",
                    !.token = IF @ = NoOne THEN r ELSE @,
                    !.snapshot = [progress |-> request[r].progress,
                                  counts |-> request[r].counts,
                                  photos |-> request[r].photos]]
    /\ End(r)
    /\ UNCHANGED <<jobVars, crewVars, outbox, historyVars>>

-----------------------------------------------------------------------------
(* Review.                                                                 *)

onlyReport == <<jobVars, crewVars, request, outbox, historyVars>>

StartReview(u) ==
    /\ report.status = "submitted"
    /\ report' = [report EXCEPT !.status = "in_review", !.reviewer = u]
    /\ UNCHANGED onlyReport

RequestChanges ==
    /\ report.status = "in_review"
    /\ report' = [report EXCEPT !.status = "changes_requested"]
    /\ UNCHANGED onlyReport

\* Resubmission looks at the saved counts, which are still those the report
\* was first submitted with.
Resubmit ==
    /\ report.status = "changes_requested"
    /\ report.ready /\ Ready(report)
    /\ report' = [report EXCEPT !.status = "submitted", !.reviewer = NoOne]
    /\ UNCHANGED onlyReport

start_completion_report_review(u) ==
    can_review_completion_report(RoleOf[u]) /\ StartReview(u)
request_completion_report_changes(u) ==
    can_review_completion_report(RoleOf[u]) /\ RequestChanges
resubmit_completion_report(u) ==
    can_submit_completion_report(RoleOf[u]) /\ Resubmit

\* The account's preferences and contact allow the channel.
QueueNotification ==
    /\ report.token # NoOne
    /\ report.status = "delivered"
    /\ outbox' = outbox \cup {report.token}
    /\ UNCHANGED <<jobVars, crewVars, request, report, historyVars>>
queue_completion_report_delivery_notification(u) ==
    can_deliver_completion_report(RoleOf[u]) /\ QueueNotification

\* Who holds the link is shown a snapshot that is complete, and nothing else;
\* the signed-in customer's proof is the same.
Projects(snapshot) == Ready(snapshot)

\* Erasing the customer's photo evidence hides the rows and empties the
\* evidence of a delivered snapshot; the job's counters stay.
Redacted(snapshot) ==
    [snapshot EXCEPT !.photos = {}, !.counts = Nothing.counts]

EraseEvidence ==
    /\ photos' = {} /\ erased' = erased \cup photos
    /\ report' = [report EXCEPT !.snapshot = IF @ = NoOne THEN @ ELSE Redacted(@)]
    /\ UNCHANGED <<job, ticked, addOn, stop, crewVars, request, outbox, historyVars>>
erase_customer_photo_evidence(u) ==
    can_review_completion_report(RoleOf[u]) /\ EraseEvidence

-----------------------------------------------------------------------------
CrewStep ==
    \/ \E m \in Starts \cup {NoOne} : start_job(m) \/ complete_job(m)
    \/ \E w \in Writers, m \in Mutations \cup {NoOne}, item \in Items, value \in BOOLEAN :
         update_checklist_item(w, m, item, value)
    \/ \E a \in AddOns, status \in AddOnStatus \ {"none"} :
         update_job_add_on_status(a, status)
    \/ \E m \in Moves \cup {NoOne}, status \in {"open", "finished"} :
         update_stop_progress(m, status)

WriteStep(w) ==
    CountChecklist(w) \/ CommitChecklistChange(w) \/ AbortChecklistChange(w)

JobStep ==
    \/ \E a \in AddOns : SellAddOn(a)
    \/ \E p \in Photos : TakePhoto(p)
    \/ \E status \in {"none", "open", "finished"} : ChangeRoute(status)

RequestStep(r) ==
    \/ get_completion_report(r)
    \/ \E u \in Users : deliver_completion_report(u, r)
    \/ ReadJob(r) \/ ReadPhotos(r) \/ ReadAddOns(r) \/ ReadStop(r)
    \/ SaveReport(r) \/ DeliverReport(r) \/ AbandonRequest(r)

ReviewStep(u) ==
    \/ start_completion_report_review(u) \/ request_completion_report_changes(u)
    \/ resubmit_completion_report(u)
    \/ queue_completion_report_delivery_notification(u)
    \/ erase_customer_photo_evidence(u)

Next ==
    \/ CrewStep
    \/ \E u \in Users : ReviewStep(u)
    \/ \E w \in Writers : WriteStep(w)
    \/ JobStep
    \/ \E r \in Requests : RequestStep(r)

Spec == Init /\ [][Next]_vars

-----------------------------------------------------------------------------
(* Properties.                                                             *)

\* A customer gets what was submitted: the delivered snapshot can be shown,
\* and its counts are those the report had when it was submitted for review,
\* whatever the crew did on the job afterwards; unless the photos were erased
\* since.
DeliveredAsSubmitted ==
    report.snapshot # NoOne =>
        /\ report.snapshot.progress = reviewed.progress
        /\ \/ report.snapshot.counts = reviewed.counts /\ Projects(report.snapshot)
           \/ report.snapshot = Redacted(report.snapshot)

\* A delivered report is never delivered again: its link stays the same, and
\* its snapshot changes only by the erasure of its photos.
DeliveredIsFinal ==
    [][report.status = "delivered" =>
         /\ report'.status = "delivered"
         /\ report'.token = report.token
         /\ report'.snapshot \in {report.snapshot, Redacted(report.snapshot)}]_vars

\* A change of the checklist or of the route's progress takes effect once,
\* however often the phone sends it, so a late copy never undoes what was done
\* since.
AppliedOnce == \A m \in DOMAIN applied : applied[m] <= 1

=============================================================================

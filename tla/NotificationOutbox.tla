------------------------- MODULE NotificationOutbox -------------------------
(***************************************************************************)
(* The durable notification outbox and the dispatchers that drain it.      *)
(*                                                                         *)
(* Business transactions insert rows; every service instance runs one      *)
(* dispatcher that claims a batch under a five-minute lease, posts each    *)
(* notification to the webhook and records the answer; managers retry or   *)
(* resolve what failed; revoking or revising a project bid skips what is   *)
(* still pending for it.  A dispatcher can stop between any two of its     *)
(* database statements, and lose its lease while it waits for the webhook. *)
(***************************************************************************)
EXTENDS Naturals, FiniteSets

CONSTANTS
    Notifications,  \* ids of notification_outbox rows
    Entities,       \* what a notification is about: bids, reports, invitations
    Bids,           \* the project bids among them
    Workers,        \* dispatchers, one per service instance
    NoOne,          \* no entity yet, and no answer to record
    MaxAttempts,    \* NOTIFICATION_MAX_ATTEMPTS
    BatchSize,      \* NOTIFICATION_BATCH_SIZE
    MaxRetries      \* bound on the manual retries of each notification

ASSUME LimitAssumption == MaxAttempts \in Nat \ {0} /\ BatchSize \in Nat \ {0}
ASSUME EntityAssumption == Bids \subseteq Entities /\ NoOne \notin Entities
ASSUME BoundAssumption == MaxRetries \in [Notifications -> Nat]

VARIABLES
    row,       \* [Notifications -> row of notification_outbox]
    batch,     \* <<notification, attempt>> claims a dispatcher still has to post
    answer,    \* the webhook's answer a dispatcher still has to record
    posts,     \* history: webhook requests made for each notification
    lapsed,    \* history: notifications whose lease ran out once
    retries    \* manual retries of each notification

workerVars == <<batch, answer>>
historyVars == <<posts, lapsed>>
vars == <<row, workerVars, historyVars, retries>>

-----------------------------------------------------------------------------
Status == {"none", "queued", "sending", "sent", "failed", "skipped",
           "dead_letter", "resolved"}
Pending == {"queued", "failed", "sending"}      \* what a bid can still skip
Retryable == {"failed", "dead_letter"}          \* what a manager can act on
Claims == Notifications \X (1..MaxAttempts)

\* available: available_at has come.  stale: unchanged for five minutes while
\* sending.  dead: the review link in the payload was revoked.
Row == [status : Status, attempts : 0..MaxAttempts, available : BOOLEAN,
        stale : BOOLEAN, entity : Entities \cup {NoOne}, dead : BOOLEAN]
Answer == [claim : Claims, ok : BOOLEAN]

TypeOK ==
    /\ row \in [Notifications -> Row]
    /\ batch \in [Workers -> SUBSET Claims]
    /\ answer \in [Workers -> Answer \cup {NoOne}]
    /\ posts \in [Notifications -> Nat]
    /\ lapsed \subseteq Notifications
    /\ retries \in [Notifications -> Nat]

Init ==
    /\ row = [n \in Notifications |->
                [status |-> "none", attempts |-> 0, available |-> FALSE,
                 stale |-> FALSE, entity |-> NoOne, dead |-> FALSE]]
    /\ batch = [w \in Workers |-> {}]
    /\ answer = [w \in Workers |-> NoOne]
    /\ posts = [n \in Notifications |-> 0]
    /\ lapsed = {}
    /\ retries = [n \in Notifications |-> 0]

-----------------------------------------------------------------------------
(* Business transactions.                                                  *)

\* Its first attempt waits for available_at, which quiet hours may put off.
NewRow(e) ==
    [status |-> "queued", attempts |-> 0, available |-> FALSE,
     stale |-> FALSE, entity |-> e, dead |-> FALSE]
SkipPending(r, b) ==
    IF r.entity = b /\ r.status \in Pending
    THEN [r EXCEPT !.status = "skipped", !.stale = FALSE] ELSE r

\* A bid is sent or sent again, a report is delivered, a team member is invited
\* or reinvited: what is queued for the entity stays queued.
Enqueue(n, e) ==
    /\ row[n].status = "none"
    /\ row' = [row EXCEPT ![n] = NewRow(e)]
    /\ UNCHANGED <<workerVars, historyVars, retries>>

\* A sent bid is revised: a new notification replaces what is pending, and the
\* link stays what it was unless it was revoked.
ReviseBid(n, b) ==
    /\ row[n].status = "none"
    /\ \E m \in Notifications : row[m].entity = b
    /\ row' = [m \in Notifications |-> IF m = n THEN NewRow(b)
                                       ELSE SkipPending(row[m], b)]
    /\ UNCHANGED <<workerVars, historyVars, retries>>

\* The review link of a sent bid is revoked.
RevokeBid(b) ==
    /\ \E m \in Notifications : row[m].entity = b /\ ~row[m].dead
    /\ row' = [m \in Notifications |->
                 IF row[m].entity = b
                 THEN [SkipPending(row[m], b) EXCEPT !.dead = TRUE]
                 ELSE row[m]]
    /\ UNCHANGED <<workerVars, historyVars, retries>>

-----------------------------------------------------------------------------
(* A dispatcher's cycle: two statements claim a batch, then every claim is *)
(* posted and its answer recorded before the next one.  The two statements *)
(* write different rows, so their order is left open.                      *)

Idle(w) == batch[w] = {} /\ answer[w] = NoOne
Exhausted(r) ==
    /\ r.attempts >= MaxAttempts
    /\ r.status = "failed" \/ (r.status = "sending" /\ r.stale)

DeadLetterExhausted(w) ==
    /\ Idle(w)
    /\ row' = [n \in Notifications |->
                 IF Exhausted(row[n])
                 THEN [row[n] EXCEPT !.status = "dead_letter", !.stale = FALSE]
                 ELSE row[n]]
    /\ UNCHANGED <<workerVars, historyVars, retries>>

\* Mutant: abandoned claims are not recovered.
Claimable_NoRecovery(r) ==
    /\ r.attempts < MaxAttempts
    /\ r.status \in {"queued", "failed"} /\ r.available

\* Mutant: the lease is not looked at.
Claimable_NoLease(r) ==
    /\ r.attempts < MaxAttempts
    /\ \/ r.status \in {"queued", "failed"} /\ r.available
       \/ r.status = "sending"

Claimable(r) ==
    /\ r.attempts < MaxAttempts
    /\ \/ r.status \in {"queued", "failed"} /\ r.available
       \/ r.status = "sending" /\ r.stale

\* The batch is what the limit leaves of the claimable rows.
ClaimBatch(w) ==
    LET candidates == {n \in Notifications : Claimable(row[n])}
    IN /\ Idle(w)
       /\ \E S \in SUBSET candidates :
            /\ Cardinality(S) = IF Cardinality(candidates) < BatchSize
                                THEN Cardinality(candidates) ELSE BatchSize
            /\ row' = [n \in Notifications |->
                         IF n \in S
                         THEN [row[n] EXCEPT !.status = "sending",
                                             !.attempts = @ + 1,
                                             !.stale = FALSE]
                         ELSE row[n]]
            /\ batch' = [batch EXCEPT ![w] = {<<n, row[n].attempts + 1>> : n \in S}]
       /\ UNCHANGED <<answer, historyVars, retries>>

\* The webhook answers: success, another status, or no usable response, after
\* which the notification may or may not have gone out.  The row is not read.
PostWebhook(w, c, ok) ==
    /\ answer[w] = NoOne
    /\ c \in batch[w]
    /\ batch' = [batch EXCEPT ![w] = @ \ {c}]
    /\ answer' = [answer EXCEPT ![w] = [claim |-> c, ok |-> ok]]
    /\ posts' = [posts EXCEPT ![c[1]] = @ + 1]
    /\ UNCHANGED <<row, lapsed, retries>>

MarkSent(r) == [r EXCEPT !.status = "sent", !.stale = FALSE]
\* Mutant: the last attempt is taken for exhausted one attempt early.
MarkFailed_Early(r, attempt) ==
    [r EXCEPT !.status = IF attempt + 1 >= MaxAttempts THEN "dead_letter"
                         ELSE "failed",
              !.available = FALSE, !.stale = FALSE]

MarkFailed(r, attempt) ==
    [r EXCEPT !.status = IF attempt >= MaxAttempts THEN "dead_letter" ELSE "failed",
              !.available = FALSE, !.stale = FALSE]

Recorded(r, a) == IF a.ok THEN MarkSent(r) ELSE MarkFailed(r, a.claim[2])

\* Mutant: an outcome is written whatever became of the row.
RecordAnswer_AnyStatus(w) ==
    LET n == answer[w].claim[1]
    IN /\ answer[w] # NoOne
       /\ row' = [row EXCEPT ![n] = Recorded(@, answer[w])]
       /\ answer' = [answer EXCEPT ![w] = NoOne]
       /\ UNCHANGED <<batch, historyVars, retries>>

\* The update looks at the row's status and not at whose claim it is.
RecordAnswer(w) ==
    LET n == answer[w].claim[1]
    IN /\ answer[w] # NoOne
       /\ row' = IF row[n].status = "sending"
                 THEN [row EXCEPT ![n] = Recorded(@, answer[w])] ELSE row
       /\ answer' = [answer EXCEPT ![w] = NoOne]
       /\ UNCHANGED <<batch, historyVars, retries>>

\* The instance stops, or a statement fails and ends the cycle: the claims that
\* are left stay sending until their lease runs out.
EndCycle(w) ==
    /\ ~Idle(w)
    /\ batch' = [batch EXCEPT ![w] = {}]
    /\ answer' = [answer EXCEPT ![w] = NoOne]
    /\ UNCHANGED <<row, historyVars, retries>>

-----------------------------------------------------------------------------
(* Managers, and time.                                                     *)

RetryFailed(n) ==
    /\ row[n].status \in Retryable
    /\ retries[n] < MaxRetries[n]
    /\ retries' = [retries EXCEPT ![n] = @ + 1]
    /\ row' = [row EXCEPT ![n].status = "queued", ![n].attempts = 0,
                          ![n].available = TRUE]
    /\ UNCHANGED <<workerVars, historyVars>>

ResolveFailed(n) ==
    /\ row[n].status \in Retryable
    /\ row' = [row EXCEPT ![n].status = "resolved", ![n].available = TRUE]
    /\ UNCHANGED <<workerVars, historyVars, retries>>

\* Backoff or quiet hours are over.
BecomeAvailable(n) ==
    /\ row[n].status \in {"queued", "failed"}
    /\ ~row[n].available
    /\ row' = [row EXCEPT ![n].available = TRUE]
    /\ UNCHANGED <<workerVars, historyVars, retries>>

LeaseRunsOut(n) ==
    /\ row[n].status = "sending"
    /\ ~row[n].stale
    /\ row' = [row EXCEPT ![n].stale = TRUE]
    /\ lapsed' = lapsed \cup {n}
    /\ UNCHANGED <<workerVars, posts, retries>>

-----------------------------------------------------------------------------
BusinessStep ==
    \/ \E n \in Notifications, e \in Entities : Enqueue(n, e)
    \/ \E n \in Notifications, b \in Bids : ReviseBid(n, b)
    \/ \E b \in Bids : RevokeBid(b)

PostStep(w) == \E c \in Claims, ok \in BOOLEAN : PostWebhook(w, c, ok)
DispatcherStep ==
    \E w \in Workers : \/ DeadLetterExhausted(w) \/ ClaimBatch(w)
                       \/ PostStep(w) \/ RecordAnswer(w) \/ EndCycle(w)

ManagerStep == \E n \in Notifications : RetryFailed(n) \/ ResolveFailed(n)
TimeStep == \E n \in Notifications : BecomeAvailable(n) \/ LeaseRunsOut(n)

Next == BusinessStep \/ DispatcherStep \/ ManagerStep \/ TimeStep

Spec == Init /\ [][Next]_vars

\* A dispatcher keeps polling, the webhook answers or the connection breaks,
\* and time passes.  Nothing is asked of managers or of business requests.
Fairness ==
    /\ \A w \in Workers : /\ WF_vars(DeadLetterExhausted(w))
                          /\ WF_vars(ClaimBatch(w))
                          /\ WF_vars(PostStep(w))
                          /\ WF_vars(RecordAnswer(w))
    /\ \A n \in Notifications : /\ WF_vars(BecomeAvailable(n))
                                /\ WF_vars(LeaseRunsOut(n))

FairSpec == Spec /\ Fairness

-----------------------------------------------------------------------------
(* Invariants.                                                             *)

\* Two dispatchers work on one notification only after a lease ran out.
OneHolderPerLease ==
    \A n \in Notifications \ lapsed : \A v, w \in Workers :
        LET holds(x) == \/ \E c \in batch[x] : c[1] = n
                        \/ answer[x] # NoOne /\ answer[x].claim[1] = n
        IN holds(v) /\ holds(w) => v = w

\* Nobody gives up early: unless a manager started it again, a dead letter has
\* used all its attempts.
DeadLetterIsExhausted ==
    \A n \in Notifications :
        row[n].status = "dead_letter" /\ retries[n] = 0
        => row[n].attempts = MaxAttempts

(* The outbox is one of the backend's work queues.                         *)

QueueState(status) ==
    CASE status = "none" -> "absent"
      [] status \in {"queued", "failed"} -> "waiting"
      [] status = "sending" -> "held"
      [] status = "sent" -> "done"
      [] status = "dead_letter" -> "dead"
      [] status \in {"skipped", "resolved"} -> "settled"

Queue == INSTANCE LeaseQueue WITH
    Entries <- Notifications, MaxTries <- MaxAttempts,
    state <- [n \in Notifications |-> QueueState(row[n].status)],
    tries <- [n \in Notifications |-> row[n].attempts]

\* Every step of a business transaction, dispatcher or manager is a step of the
\* queue's promise or leaves it alone: late answers of a dispatcher that lost
\* its lease, skips and retries included.
KeepsQueuePromise == Queue!Spec

(* Action properties.                                                      *)

\* What was sent, skipped or resolved stays so: no late answer of a dispatcher
\* that lost its lease moves it again.
SettledStays ==
    [][\A n \in Notifications :
        row[n].status \in {"sent", "skipped", "resolved"}
        => row'[n].status = row[n].status]_vars

(* Liveness.                                                               *)

\* No notification is forgotten: what is pending is sent, skipped, resolved or
\* put before a manager as a dead letter, across crashes and lost leases.
EveryNotificationSettles ==
    \A n \in Notifications :
        row[n].status \in Pending
        ~> row[n].status \in {"sent", "skipped", "resolved", "dead_letter"}

(* What the documentation says and the code does not keep.                 *)

\* The data model: revoking a review link skips its pending deliveries so that
\* a worker cannot later deliver a dead link.  A dispatcher that has claimed
\* the row does not read it again before it posts, and a manager can retry a
\* dead letter whose link was revoked.
DeadLinkIsNotDelivered ==
    [][\A n \in Notifications : posts'[n] > posts[n] => ~row[n].dead]_vars
=============================================================================

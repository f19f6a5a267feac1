# Grover Landscaping: TLA+ verification project

Grover Landscaping is a Rust (Axum, SQLx) backend over PostgreSQL with a React
frontend. The backend keeps no state between requests: everything is in tables,
and several instances may run at once. What can go wrong is what happens
*between* transactions, and between the unlocked reads and the writes *inside*
one: the database runs at READ COMMITTED, and handlers use `FOR UPDATE`, advisory
locks and partial unique indexes where they were thought to be needed. Around it
are actors that fail: dispatchers and photo workers that crash or lose a lease,
an object storage that may not answer, phones that are offline, and pages that
show what has changed since.

This directory models that core, checks it with TLC and proves the safety
properties of the runs that pass with TLAPS. `PROJECT.json` holds the map from definitions to source lines, the runs,
a mutant for every property, the hazards at their lines, and the theorems.

## 1. Inventory

| Component (source) | State | Operations | What is hard | What makes it correct |
|---|---|---|---|---|
| Owner-provider connection (`owner_acquisition.rs`) | invitations, delivery attempts, suppressions, recipient checks, claims, response capabilities | create, retry, revoke, deliver, expire, opt out, report, preview, verify, claim, bootstrap, review, appeal, issue, respond | opt-outs and late receipts, concurrent creation, bootstraps of one name, disputes while a capability is issued | one live invitation per mailbox and property, closed stays closed, one active claim, a capability follows its claim |
| Owner-provider engagement (same file) | disclosure grants, assessments, proposal versions, decisions, activation, first visits, messages, private notes | grant, revoke, open, assess, propose, decide, activate, propose and confirm a visit, write | publication against decision, activation against competitors, expiry on read, pages of any age | decisions and versions agree, one activation after an acceptance, who lost authority holds nothing |
| Owner intake (same file, `photo_storage.rs`) | workspace, properties, brief versions, photographs and their objects | save a brief, upload, complete, replace, delete | the object storage between a read and a write | history is final; a deleted photograph stays deleted (it does not) |
| Staff (`organizations.rs`) | memberships, invitations | bootstrap, invite, reissue, accept, revoke, change role or status | permission checked before the transaction, owners demoting each other | an organization keeps an active owner; invitation and membership agree |
| Workspace rollout (`workspace_rollout.rs`) | enrollment, mutation ids | enable, advance, suspend, resume, repeat | retries after later changes | every answer to one id is the same |
| Branches, crews, day plans (`organizations.rs`, `postgres_day_plans.rs`) | hierarchy, crews, plans, stops | create, deactivate, draft, assign, remove, reorder, publish | checks in the snapshot of a statement that then waits | a published plan is settled; capacity holds (it does not) |
| Job dispatch (`db.rs`, `postgres_write.rs`) | jobs' crew and day, events | move, complete, follow up | capacity counts, times taken before a lock | moves fit, a move is followed up once |
| Service mobilization, visit communication | releases, publications, threads | release, publish a day, ask, respond | lost answers, old pages, a job that moves meanwhile | what is told is so; what is said is said once |
| Customer accounts, properties, onboarding (`accounts.rs`, `property_onboarding.rs`) | accounts, properties, profiles, crew assignments | open, activate, archive, assign, release | checks that are not repeated | archived is out of service |
| Completion reports and the crew's work (`postgres_completion_reports.rs`, `postgres_write.rs`, `postgres_stop_progress.rs`) | job, checklist, add-ons, stop, report row, snapshot, mutation ids | start, tick, complete, photograph, progress, open, review, deliver, erase | a report is rebuilt whenever it is opened | a customer gets what was submitted, once |
| Project bids and recommendations (`postgres_project_bids.rs`, `customer_visit_recommendations.rs`) | bids, links, series, versions, decisions | draft, send, revise, revoke, decide, convert | two ways to decide one thing, old pages | an answer is final and closes both ways |
| Notification outbox (`notifications.rs`) | outbox rows, dispatchers' batches | enqueue, skip, claim, post, record, dead-letter, retry, resolve | crashes, lost leases, late answers | one holder per lease, everything settles |
| Photo evidence and erasure (`postgres_write.rs`, `photo_processing.rs`, `postgres_privacy.rs`) | photos, objects, two queues of jobs | upload, complete, claim, finish, retry, erase | the same, with an object storage | a finished job did its work, an erased object is queued for deletion |
| Offline queue (`offlineMutationQueue.ts`, `App.tsx`, `DayPlanPanel.tsx`) | the browser's database, replays, requests under way | send, save, replay, mark, discard, reload | lost answers, late requests, reloads | saved changes are not lost and arrive in order |
| Portfolios, portal reads, exceptions, marketing, audit, authentication, routing, read models, views | rows, tokens | single-row updates, queries | scope checks | see section 9 |

The components meet in the database. Activation (engagement) closes competing
invitations (connection); a membership change takes authority from requests that
were already admitted; a new brief ends what was promised under the old one;
bids and invitations insert outbox rows in their own transactions; opening a
report rebuilds it from the job, its photos, its add-ons and its stop; erasure
redacts delivered reports; the phone repeats job changes under mutation ids.

## 2. Plan

Done, in order of what matters most and is least testable: connection, engagement,
outbox, the abstract `LeaseQueue` and its two implementations, photos, bids, staff,
reports, day plans and dispatch, visits, accounts, rollout, intake, conversations,
the offline queue; their compositions; and the proofs of section 6, which cover
all of these, each by itself and within its composition.

Left:

1. The remaining replay loops of the phone (checklist, amendments, photos).
2. Scopes of branches and properties in `AccessControl`.
3. `OwnerProvider` together with `ProviderConnection`, which the engagement reduces to
   what it reads.

## 3. Modules

Names of actions are the handlers' names where TLA+ allows it. A request that
ends without a write (not found, conflict, replayed key, stale version) is a
stuttering step. A handler is one step if everything it relies on is read under
the locks it still holds when it writes; otherwise it is as many steps as it has
unlocked reads that something could overtake, with a variable for the requests
in between.

**ProviderConnection.** `inv`, `attempts`, `suppressed`, `check`, `claim`, `cap`,
`responses`, `orgName`, `members`. Not atomic: creation (suppressions are read,
then the live-recipient index may refuse the insert), retry (the same under the
invitation's lock) and organization bootstrap (names are scanned under the
name's advisory lock, then the organization is written). `Lapse` is time.

**ProviderEngagement** reduces the connection to what its handlers read: `inv`,
`lapsed`, `cap`, and the facts `member` and `current`. It keeps `ownerProperty`, the
property's status, since an invitation that is sent (`Connect`) and an activation
(`Activated`, to `provider_setup`) write it. Grants (`GrantScan`,
`GrantCommit`) and publication (`PublishBegin`, `PublishCommit`) are two steps;
`ExpireDue` is the expiry other handlers run first. **EngagementConversation** adds
messages, responses and private notes, sent from pages of any age under
idempotency keys. **OwnerIntake** extends the engagement with the owner's workspace,
new properties, which it gives their first statuses, briefs and photographs;
completing and deleting a photograph read its row, go to the object storage and
write the row without reading it again.

**NotificationOutbox.** `row` is the table, `batch` and `answer` what a dispatcher
has in memory. `ClaimBatch` and `DeadLetterExhausted` are the two statements of
`claim_batch`; `PostWebhook` and `RecordAnswer` the two halves of `dispatch_once`'s
loop; `EndCycle` a crash or a failed statement. Time is two Booleans per row:
`available` (backoff or quiet hours are over) and `stale` (the lease ran out).

**PhotoEvidence.** Uploads with their objects in the bucket, the thumbnail queue and
the deletion queue, erasure by a manager, and workers that drain both queues and
may stop between any two steps. Whether a lease has run out is left open: a
claim takes any of the rows that may be due.

**LeaseQueue** is the promise of a durable work queue: an entry is offered, taken
for a limited number of tries, and finished, given up or settled by a person. It
says nothing of holders. `NotificationOutbox` instantiates it once and
`PhotoEvidence` twice, with a refinement mapping from the tables' statuses.

**CompletionReports.** One job, its checklist, photos, add-ons and stop; checklist
transactions that count before they get the job's row; reports built query by
query and saved by an upsert that keeps some columns; review, delivery and the
customer's snapshot; erasure. `applied` and `reviewed` are history.
**OfflineQueue** extends it with the phone: a change is sent without an id, saved
with one when that failed, and replayed oldest first. What failed may have
arrived all the same, and may still arrive; a reload ends a page's replays but
not its requests. A change's time of creation and its transaction are one step.

**ProjectBids.** A bid, its link, the published versions with the customer's
decisions, the add-ons it is converted into, and the pages on which customers
look at it.

**StaffAccess**, **WorkspaceRollout**, **CrewPlanning**, **JobDispatch**, **VisitService**,
**CustomerRecords** are one organization: staff; the rollout to them; branches,
crews, properties and day plans; jobs given to crews; the visit's release,
publications and thread; accounts and properties. Each extends the ones it
depends on. The admission of a request (an active membership with a role) is
read before its transaction, so a request that was admitted goes on after its
caller lost the role. **AccessControl** holds the predicates they ask.

Each of these modules states the specification of itself with what it extends
(`ConversationSpec`, `BidsSpec`, `OfflineSpec`, `RolloutSpec`, `PlanSpec`, `DispatchSpec`,
`VisitSpec`, `RecordsSpec`). Three modules compose what shares state:

* **OwnerProvider** (`OwnerProviderSpec`): the engagement, its conversation and the
  owner's intake. They share what an invitation was sent with: the owner's page
  sends it for the newest brief of its property, and saving another brief takes
  `current` from every invitation of that property in one step. And they share the
  status of the property, which intake, sending and activation each move on.
* **CustomerService** (`CustomerSpec`): the report of a job, a bid that came from
  another, and the phone, which changes the job through the handlers everybody uses.
* **Organization** (`OrganizationSpec`): the six modules of an organization. They share
  who may act, which each reads in its own transaction; crews, whose rows a move
  holds; jobs, which dispatchers, crews and the visit change; and the crew of a
  property, which the records give and an archive takes away.

The theorems are about these specifications. The MC modules extend the
compositions, and let a behaviour choose one of several *sides* at the start. A side is a conjunction with the composed
next-state relation that keeps all but a part of the system at its initial
value, or bounds how much of it happens; within a side every interleaving of
what is left is explored. (The crews' side of `MCOrganization` gives a crew its
property by the planning module's step alone, without the records' check of the
property, so that crews are explored without accounts.)

## 4. Runs

| Run | Sides and instance | Shows |
|---|---|---|
| `connection` | 2 invitations, 2 mailboxes, 2 properties, 2 claims, 2 reviewers, 2 organizations, 2 attempts, 2 capabilities. *Delivery* with bootstraps of one name; *claims* of one invitation; *activation* of one of two | one live invitation, agreement of attempts and status, one bootstrap per name, one active claim, rejection only after an independent review, capability follows claim, terminal stays closed |
| `engagement` | 2 invitations of one property. *Series* of one invitation (2 grants, the second for a remote assessment, 2 versions, 2 visit windows); *competition* of two with one of each; *conversation* (2 texts, 3 messages); *intake* (2 photographs, 2 requests under way, 2 briefs), from an empty workspace; *setup* (2 briefs, and a second invitation sent at any time around the activation of the first). All but *intake* start from a property with a ready brief | decisions agree with versions, activation follows acceptance and puts the property into setup, who is revoked holds nothing, a conversation moves on, history is final |
| `outbox` | 2 notifications, 2 dispatchers, batches of 2, 2 tries, 1 manual retry, 1 bid | one holder per lease, a dead letter is exhausted, every notification settles, the abstract queue's promise |
| `photos` | 1 photo (2 objects), 2 workers, 1 request, 2 tries. *Upload* beside one worker; *queues* with two workers and managers | completed was done, an erased object is queued, both queues' promises |
| `customer` | 1 job, 1 item, 2 photos, 3 report requests; 1 bid, 2 versions, 2 links, 2 customers; a phone with 2 changes. *Crew* and *route* beside one request and one photo, *requests* beside a crew that repeats nothing, *bids*, *job* and *progress* on the phone | delivered as submitted and once, a change is applied once, saved changes arrive in order, an answer is final and closes the recommendation, the newest version is the decided one, a waiting link is current |
| `organization` | 2 users, 2 invitations, 2 requests, 1 branch, 1 crew, 3 jobs, 1 plan, 1 account and property. *Staff, rollout, crews, routes, dispatch, visit, thread, customers* | an owner remains, invitation and membership agree, retries are answered alike, moves fit and are followed up once, said once, told as it is, a published plan is settled, archived is out of service |
| `suppression_race`, `series_race`, `deleted_media`, `dead_link`, `unseen_scope`, `overbooked` | one side of the above, at most as large | the disagreements of section 7, each a violation |

Why the bounds suffice: two of each kind let any two requests meet, and no
property relates more than two invitations, claims, versions, owners, managers,
dispatchers or changes, or more than one report with the requests that build it
(three let a delivery, an older read and a newer one meet). Limits of two
(`MaxAttempts`, `MaxCapabilities`, `MaxGrants`, `MaxProposals`, `MaxVisits`,
`MaxVersions`, `MaxLinks`, `MaxTokens`, `MaxBriefs`) give a first and a superseding
row; `MaxVersion`, `MaxTalk` and `MaxMessages` of three let one more follow;
`MaxEvents`, `MaxTime` and `MaxOrder` bound the history and the clock of dispatch
and planning. `MaxRetries` allows one of two notifications one manual retry.
`Unsettled` names the invitations that lose membership, currency or time by
themselves. The phone has one page, whose requests outlive its reloads; its
changes of the two kinds do not meet in the queue and have a side each.

All runs set `CHECK_DEADLOCK FALSE`: a model stops when its bounds are used up, and
the system idles when nobody sends a request. Symmetry is used for sets of model
values no constant tells apart, and not in the run with a liveness property.

Every property has a mutant: a plausible bug in one mapped definition, defined
beside it, under which the property fails.

## 5. Fairness

Only the outbox has a liveness property, `EveryNotificationSettles`. Each dispatcher
is a loop in a task of its own (`start_notification_dispatcher`), so claiming,
dead-lettering, posting and recording are weakly fair, and so is time
(`BecomeAvailable`, `LeaseRunsOut`). Nothing is assumed of managers or business
requests, and dispatchers may crash as often as they like (the attempt limit
makes that finite per claim). One assumption is not the code's: a webhook
request returns. Its client has no timeout, so a connection that hangs for ever
stops its dispatcher. Dead-lettered counts as settled.

Elsewhere there is nothing fair to assume: `expire_owner_provider_invitations` is
scheduled by nobody, the phone's replay has no timer (it starts on load, when
the network is back, or when asked), and the rest waits for persons.

## 6. Proofs

The theorems are about the specifications of the modules themselves, without
sides, for any number of invitations, claims, requests, workers, crews, jobs,
messages and so on. Every invariant and every action property of a run of section 4
that passes is stated by one of them.

**`ProviderConnection_proofs`**

* `TypeCorrect`: `TypeOK` with `BoundClaims` (a claim on file belongs to the account
  that the recipient check bound) and `LocksHeld` (what a request checked under a
  row lock still holds until it commits). Neither is inductive alone: a
  bootstrap's commit writes a member from the claim's actor, and a retry's commit
  relies on its invitation's status.
* `ClosedForGood` (`TerminalStaysClosed`), from these two.
* `OneLive` and `OneActive`: the two partial unique indexes, against every action
  that could break them.
* `SecondReviewer`: a claim that was ever rejected is rejected, under an appeal, or
  was decided by somebody else (`RejectionStands`).
* `OneBootstrap`, from `NamesTaken`: a claim that bootstrapped has an organization of
  its name, claims between scan and commit have names nobody else bootstraps.
* `CapabilityBacked`: each step either leaves no active capability (it was
  reconciled), or leaves it and its invitation alone, or issues one for a claim.
* `AttemptsFollow`, from `AttemptsInv`: what the last attempt may be under each
  status, and for a revoked invitation whose delivery is still pending the
  activation that explains it.

**`ProviderEngagement_proofs`, `EngagementConversation_proofs`**

* `TypeCorrect`; `ClosedForGood` (`HistoryIsFinal`): every step moves the rows of a
  series forward, appends one, or leaves it.
* `RevokedForGood`: only an activation revokes, closing what it revokes, and only the
  commit of a grant for an opened invitation opens one.
* `DecidedOnce`, from `DecisionInv`: decisions are about versions that exist, the rows
  say the same, and one is an acceptance. A publication and a decision do not
  exclude each other, so nothing is said of the rows besides.
* `OneProvider`: what is activated is what the owner accepted, and a property is in a
  provider's setup exactly when it has one (only an activation writes that status,
  and sending an invitation only connects a property that is ready).
* `ConversationRefines`: `ConversationSpec => Spec`. What is proved of the engagement
  holds with its conversation.
* `SpeaksInOrder`, from `TalkInv` on the messages and one fact on the engagement: a
  series begins only after its assessment is complete.
* `EngagementTypeCorrect`, and `PreparingIsHarmless` and `PreparingReopensNothing`: the
  same properties with the owner's intake. They do not simply carry over, since
  creating a property and saving a brief are no steps of the engagement (a brief
  ends several invitations' currency at once; `Prepares`); their invariants survive
  them.
* `ActsOnTheNewestBrief`: a provider with an opened, current invitation acts on the
  newest brief, which is ready (`CurrentIsNewest`), and a property for which an
  invitation was sent is connecting until a provider is activated and in that
  provider's setup from then on, whatever is saved or sent (`InvitedIsConnected`).
  From `PreparedInv`, which adds that a property with a ready brief is past its
  draft and that no property has a status that nothing writes, and from
  `OneProvider`'s invariant, which says when it is in a setup.

**`NotificationOutbox_proofs`, `PhotoEvidence_proofs`, `LeaseQueue_proofs`**

* Outbox: `TypeCorrect`; `SettledForGood`; `NobodyGivesUpEarly`
  (`DeadLetterIsExhausted`), which is not inductive, since a failure is recorded
  with the attempt of the *claim*: `LimitInv` adds that no claim in anyone's memory
  is for a later attempt than its row counts, as long as no manager reset it;
  `SingleHolder` (`OneHolderPerLease`), from `LeaseInv`: a row whose lease never ran
  out is sending or skipped while someone holds a claim on it, and a dispatcher
  holds at most one claim per row.
* Photos: `TypeCorrect`; `DoneWasDone`, from `HandWasDone`: a worker that is about to
  record a success did the work, for whoever the row is by then; `ErasedIsQueued`,
  from: an erased photo is one whose objects have deletion jobs.
* `LeaseQueue`: `QueueSafe` (what is held or finished was taken, and no entry is tried
  more often than allowed) and `QueueFinal` (finished work is never redone, and only
  a person resets a count), under `MaxTries \in Nat`.
* `ImplementsQueue` and `ImplementQueues`: the outbox and both photo queues implement
  `LeaseQueue` by their refinement mappings. The queue may do several of its steps
  at once where a statement of the code updates several rows; each step of the
  implementation maps to one such step or to a stutter, so `QueueSafe` and
  `QueueFinal` carry over.

**`CustomerService_proofs`**

* Bids: `BidsTypeCorrect`, `OneQuestion`, `LastIsDecided`, `QueuedLinks`, `AnswersAreFinal`,
  from one invariant, `BidsInv`. It adds what the columns of a bid say of each
  other, that the series' status follows from the decision on the newest version,
  and that the history of the current link is its row's.
* Reports: `ReportTypeCorrect`, `DeliversWhatWasSubmitted`, `TakesEffectOnce`,
  `DeliveryIsFinal`, from `ReportInv`. From its submission on, a report's row has the
  counts that were reviewed, whichever read saves it, and only a delivered one has
  a snapshot; the job's counters count its photos; ids under way are new, and an id
  no table knows has not taken effect.
* Phone: `SavedIsKeptInOrder` (`SavedArrivesInOrder`) for any number of pages that replay
  at once, where the run has one. `PhoneInv` says what a tap, the store, the
  network and the replays know of each other (what is on its way was asked for, a
  change that was saved is not saved again, a replay lists what was saved).
  `OrderInv` says that whatever was saved before a change that arrived, or that a
  page has sent, has arrived or was discarded; and whatever was saved before a
  change in a replay's list has too, or is earlier in that list. A late request,
  a second page or a reload cannot then put one before another.
* Together: `PhoneIsHarmless` (the report beside a phone, for `OfflineSpec`);
  `CustomerTypeCorrect`, `CustomerIsServed` and `CustomerKeepsWhatIsFinal` for `CustomerSpec`.
  `SavedArrivesInOrder` is about `OfflineSpec` only, where everybody but the phone uses
  ids of his own.

**`Organization_proofs`**

* `StaffTypeCorrect`, `InvitationAndMembership`, and `AnOwnerRemains` (`KeepsAnOwner`) for
  any number of owners: a request that counts owners holds the rows it has counted
  and the one it is about, and those are active owners as long as it does
  (`OwnersCounted`); two that finish would have to hold each other's row.
* `RetriesAgree` (`RetryIsAnsweredAlike`): a key of an actor makes one event, and every
  answer is that of its event.
* `PublishedPlansStay` (`PublishedIsSettled`): every write asks for a draft again, or
  only takes stops away.
* `OneFollowUp` (`FollowedUpOnce`), from `DispatchInv`; it rests on the times, since a
  follow-up is written only if none is as late as the move.
* `NoCrewIsOverfilled` (`MovesFit`), from `FitInv`: a move between its count and its
  write holds the rows of its job and its crew, and the crew has room for it; a
  crew whose row is held changes neither its capacity nor, but by that move, its
  jobs.
* `TheCustomerIsToldTheTruth` (`ToldAsItIs`), from `ServiceInv`: between checks and write
  the row of the job is held for the publication, no move holds it, and what is
  to be told is so.
* `NothingIsSaidTwice` (`SaidOnce`), from `ThreadInv`: what a customer's page takes for
  written is in the thread, and a customer's request on its way answers nothing.
* `ArchivedStaysOut` (`ArchivedIsOutOfService`), from `RecordsInv`: what a request under
  way was admitted for is still so when it writes, or its account or property was
  archived meanwhile, which is the exception that section 8 reports.
* The whole organization, from `OrganizationInv`, the conjunction of the invariants
  above with four more. `PlanInv`: what a plan's request has read has the type that
  its write needs, and the stops of a plan have distinct places, without which the
  ranks that a removal gives out would not be ranks; `PlacesAreTheirOwn` states it (the
  unique index enforces it for inserts, but for removals and reorders it follows
  only from what they write). `HasPersons`: an invitation that was made has an
  address and a membership a person, whom a rollout then enrolls. `EnrollmentInv`: an
  enrollment has a unit and a version, which its retries are answered with.
  `DayBounds`: a release under way still has room for its event.
* `OrganizationTypeCorrect`: what a request read when it was checked has the type that
  its write relies on. `PartsHoldTogether` (`KeepsAnOwner`, `MembershipFollowsInvitation`,
  `RetryIsAnsweredAlike`, `FollowedUpOnce`, `SaidOnce`, `ArchivedIsOutOfService`) and
  `PublishedAndToldTogether` (`PublishedIsSettled`, `ToldAsItIs`): each module's properties
  while all the others run. `MovesFit` does not carry over, and rightly: a visit's
  reschedule moves a job to a day without counting the crew's jobs of that day.

The proof assume what the constants' ASSUMEs say: limits are natural numbers, a
placeholder (`NoOne`, `None`) is none of the values it stands beside, every account
has a mailbox, jobs, items and photos are finite sets, and an id that a phone makes
for a checklist change or a start is not one of a route change (all are random;
`PhoneAssumption`). The reorder's offset exceeds the number of jobs.

Only model-checked: liveness (`EveryNotificationSettles`), which the prover does not
support, and the violations of section 7, which are counterexamples.

## 7. Disagreements between documents and code, with a run

* `suppression_race`: docs/owner-provider-invitation-api.md says an opt-out
  suppresses future invitations. A creation or retry that read the suppressions
  before still sends one.
* `series_race`: the proposal design says an accepted proposal closes the series. A
  publication that checked before the acceptance adds a sent version.
* `deleted_media`: the page says a deletion cannot be undone. A completion that read
  the row before writes its status over it.
* `dead_link`: the data model says a revoked link cannot be delivered later. A row
  that a dispatcher has claimed is, and so is a dead letter a manager retries.
* `unseen_scope`: an approval is to authorize exactly the displayed scope. A link's
  decision names no version, and a revision keeps the link.
* `overbooked`: stop assignment is to check capacity atomically. Two assignments
  count the same free place; the unique order refuses the second, unless a
  reorder that commits in between moves the first stop.

## 8. Observed, without a run

* Expiry found while an invitation is read, and an abuse report, leave the active
  capability's row (docs/owner-provider-invitation-api.md: expiry reconciles it).
  Readers look at the invitation too, so it authorizes nothing.
* A reissue of a revoked organization invitation takes no advisory lock and can
  leave two pending ones (`organizations.rs:1882`; docs/organization-invitation-api.md:62).
* A crew can be given to a territory, or a plan be drafted for it, while it or its
  branch is deactivated (docs/data-model.md:106-110, 123).
* A manager's page can take another manager's response for its own
  (`ProviderCustomerVisitQuestionsPanel.tsx:184`).
* An archived property can become active again (docs/customer-property-api.md:45;
  `main.rs:5757`), and an account can be archived beside a request that passed
  its checks. `ArchivedIsOutOfService` excepts exactly the latter.
* Photos erased during a delivery: the snapshot is stored after the redaction and
  names what no longer exists (docs/production-deployment.md:186). After an
  erasure a shared link answers 503 (`completion_reports.rs:234`) where
  docs/completion-report-api.md:117-121 describes a redacted report.
* The data model calls a stale claim `NotClaimed`; `mark_sent` and `mark_failed` ask
  only for the status `sending`, so a dispatcher that lost its lease settles the
  claim of the next one.
* A move's follow-up compares times that transactions took before they waited for
  a lock, so one who asked before a move began can follow it up
  (docs/job-dispatch-assignment.md:42-46).
* Offline: progress made after a reload and before the page has listed its
  database is sent past the progress that is saved (docs/offline-mutation-queue.md:57),
  and a start that was saved is replayed after a completion that was sent at
  once, and reopens the job (line 49). Changes that reach the backend without an
  id are outside `SavedArrivesInOrder`.

## 9. Not modelled

* The in-memory store of `owner_acquisition.rs` (lines 1354-4268), `local_review.rs`:
  development stand-ins under one mutex.
* Portfolios, operational exceptions, marketing leads and events, access audit:
  one row each that a person sets, or append-only, and nothing else reads them.
* Portal access and read models: queries.
* Authentication: stateless; its outcome is who the actor of an action is. Scopes
  of branches and properties; `AccessControl` has the roles.
* Addresses, contacts, texts, amounts, file sizes, rate limits, tokens, audit
  events: data no property tells apart.
* The replay loops of checklist changes, amendments and photos, which have the
  form of the two that are modelled.
* Views, infrastructure and design material.

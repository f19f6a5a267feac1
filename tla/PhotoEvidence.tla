--------------------------- MODULE PhotoEvidence ---------------------------
(***************************************************************************)
(* Photo evidence of service jobs: upload, thumbnails, privacy erasure.    *)
(*                                                                         *)
(* A crew member's phone creates an upload, puts the image into object     *)
(* storage with a presigned URL and reports completion; that request       *)
(* inspects the object, makes the thumbnail or queues it, and updates the  *)
(* photo.  Managers erase a customer's photos: one transaction hides the   *)
(* rows and queues the deletion of the objects, then the handler tries to  *)
(* delete them itself.  Photo workers drain both queues under a ten-minute *)
(* lease.  Requests and workers can stop between any two steps.            *)
(*                                                                         *)
(* The module is about storage in S3; local placeholders are never read or *)
(* deleted.  Whether available_at has come or a lease has run out is left  *)
(* open: a claim takes any of the rows that may be due.                    *)
(***************************************************************************)
EXTENDS Naturals, FiniteSets

CONSTANTS
    Photos,         \* ids of job_photos rows, all of one customer's jobs
    Workers,        \* photo workers, one per service instance
    Requests,       \* upload completions, each served once
    NoOne,          \* no claim in hand, no request yet
    Over,           \* a request that has ended
    MaxAttempts,    \* PHOTO_PROCESSING_MAX_ATTEMPTS
    BatchSize       \* PHOTO_PROCESSING_BATCH_SIZE

ASSUME LimitAssumption == MaxAttempts \in Nat \ {0} /\ BatchSize \in Nat \ {0}

VARIABLES
    photo,      \* [Photos -> row of job_photos]
    stored,     \* the objects in the bucket
    request,    \* upload completions under way
    cleanup,    \* objects an erasure request still has to delete itself
    thumb,      \* [Photos -> row of photo_processing_jobs]
    deletion,   \* [Objects -> row of photo_erasure_deletion_jobs]
    step,       \* where a worker's cycle stands
    held,       \* the claims a worker still has to work on
    hand,       \* the claim it works on, and how far
    made,       \* history: photos whose thumbnail was written once
    deleted     \* history: objects deleted since their photo was erased

queueVars == <<thumb, deletion>>
workerVars == <<step, held, hand>>
historyVars == <<made, deleted>>
vars == <<photo, stored, request, cleanup, queueVars, workerVars,
          historyVars>>

-----------------------------------------------------------------------------
Original(p) == <<p, "original">>
Thumbnail(p) == <<p, "thumbnail">>
ObjectsOf(p) == {Original(p), Thumbnail(p)}
Objects == Photos \X {"original", "thumbnail"}

PhotoStatus == {"none", "pending", "uploaded", "processed", "rejected",
                "erased"}
JobStatus == {"none", "queued", "processing", "completed", "failed",
              "dead_letter", "resolved"}

\* live: object_key and thumbnail_object_key are those of the upload, and not
\* the tombstone 'erased/<id>' and null.  erased: erased_at is set.
\* counted: what the photo added to before_photos or after_photos of its job.
Photo == [status : PhotoStatus, live : BOOLEAN, erased : BOOLEAN,
          counted : Nat]
Job == [status : JobStatus, attempts : 0..MaxAttempts]
NoJob == [status |-> "none", attempts |-> 0]

\* server: the metadata was extracted from the stored image.
Completion == [photo : Photos, live : BOOLEAN, server : BOOLEAN,
               at : {"inspect", "fetch", "put", "queue", "reject", "update",
                     "count"}]
Claims == [item : Photos \cup Objects, attempt : 1..MaxAttempts]
Hand == [claim : Claims, at : {"source", "ok", "failed"}]

TypeOK ==
    /\ photo \in [Photos -> Photo]
    /\ stored \subseteq Objects
    /\ request \in [Requests -> Completion \cup {NoOne, Over}]
    /\ cleanup \subseteq Objects
    /\ thumb \in [Photos -> Job]
    /\ deletion \in [Objects -> Job]
    /\ step \in [Workers -> {"thumbnails", "deletions", "work"}]
    /\ held \in [Workers -> SUBSET Claims]
    /\ hand \in [Workers -> Hand \cup {NoOne}]
    /\ made \subseteq Photos
    /\ deleted \subseteq Objects

Init ==
    /\ photo = [p \in Photos |->
                  [status |-> "none", live |-> FALSE, erased |-> FALSE,
                   counted |-> 0]]
    /\ stored = {} /\ cleanup = {}
    /\ request = [r \in Requests |-> NoOne]
    /\ thumb = [p \in Photos |-> NoJob]
    /\ deletion = [o \in Objects |-> NoJob]
    /\ step = [w \in Workers |-> "thumbnails"]
    /\ held = [w \in Workers |-> {}]
    /\ hand = [w \in Workers |-> NoOne]
    /\ made = {} /\ deleted = {}

-----------------------------------------------------------------------------
(* Uploads.                                                                *)

\* The row is inserted as pending; of a row that is there the keys are
\* rewritten, whatever its status.
InsertUpload(p) ==
    photo' = [photo EXCEPT ![p].status = IF @ = "none" THEN "pending" ELSE @,
                           ![p].live = TRUE]

\* The id comes from the phone's offline queue, so that its retry has the id,
\* and with it the object keys, of the first request.
CreateUpload(p) ==
    /\ InsertUpload(p)
    /\ UNCHANGED <<stored, request, cleanup, queueVars, workerVars, historyVars>>

\* The phone puts the image and its own thumbnail, as long as the presigned
\* URLs have not expired.
PutObject(p, o) ==
    /\ photo[p].status # "none" /\ o \in ObjectsOf(p)
    /\ stored' = stored \cup {o}
    /\ made' = IF o = Thumbnail(p) THEN made \cup {p} ELSE made
    /\ UNCHANGED <<photo, request, cleanup, queueVars, workerVars, deleted>>

-----------------------------------------------------------------------------
(* One upload completion request, statement by statement.                  *)

At(r, phase) == request[r] \notin {NoOne, Over} /\ request[r].at = phase
Goto(r, phase) == request' = [request EXCEPT ![r].at = phase]
End(r) == request' = [request EXCEPT ![r] = Over]
onlyRequest == <<photo, stored, cleanup, queueVars, workerVars, historyVars>>

\* The storage location is read without a lock.
BeginCompletion(r, p) ==
    /\ request[r] = NoOne
    /\ photo[p].status # "none"
    /\ request' = [request EXCEPT ![r] =
                     [photo |-> p, live |-> photo[p].live, server |-> FALSE,
                      at |-> "inspect"]]
    /\ UNCHANGED onlyRequest

\* The inspection reads the header of the stored image; when storage does not
\* answer the upload is believed, and the thumbnail left to the queue.
Inspect(r) ==
    /\ At(r, "inspect")
    /\ LET c == request[r]
           found == c.live /\ Original(c.photo) \in stored
       IN  \/ /\ found
              /\ request' = [request EXCEPT ![r].server = TRUE, ![r].at = "fetch"]
           \/ found /\ Goto(r, "reject")
           \/ Goto(r, IF c.live THEN "queue" ELSE "update")
    /\ UNCHANGED onlyRequest

RejectUpload(r) ==
    /\ At(r, "reject")
    /\ photo' = [photo EXCEPT ![request[r].photo].status = "rejected"]
    /\ End(r)
    /\ UNCHANGED <<stored, cleanup, queueVars, workerVars, historyVars>>

\* The image is read again in full, decoded and scaled.
FetchImage(r) ==
    /\ At(r, "fetch")
    /\ \/ Original(request[r].photo) \in stored /\ Goto(r, "put")
       \/ Goto(r, "queue")
    /\ UNCHANGED onlyRequest

\* A put whose answer is lost may have reached the bucket.
PutThumbnail(p) ==
    /\ stored' = stored \cup {Thumbnail(p)}
    /\ made' = made \cup {p}
WriteThumbnail(r) ==
    /\ At(r, "put")
    /\ \/ PutThumbnail(request[r].photo) /\ Goto(r, "update")
       \/ /\ PutThumbnail(request[r].photo) \/ UNCHANGED <<stored, made>>
          /\ Goto(r, "queue")
    /\ UNCHANGED <<photo, cleanup, queueVars, workerVars, deleted>>

\* An existing row goes back to queued unless it is completed or processing,
\* with the attempts it had.  A photo without a thumbnail key gets none, and
\* the request ends there.
Requeued(j) ==
    [j EXCEPT !.status = IF @ \in {"completed", "processing"} THEN @ ELSE "queued"]
QueueThumbnail(r) ==
    /\ At(r, "queue")
    /\ LET p == request[r].photo
       IN  IF photo[p].live
           THEN thumb' = [thumb EXCEPT ![p] = Requeued(@)] /\ Goto(r, "update")
           ELSE UNCHANGED thumb /\ End(r)
    /\ UNCHANGED <<photo, stored, cleanup, deletion, workerVars, historyVars>>

\* Whatever the photo's status is now, it becomes what the request found.
UpdatePhoto(r) ==
    /\ At(r, "update")
    /\ photo' = [photo EXCEPT ![request[r].photo].status =
                   IF request[r].server THEN "processed" ELSE "uploaded"]
    /\ Goto(r, "count")
    /\ UNCHANGED <<stored, cleanup, queueVars, workerVars, historyVars>>

\* The job's counter is a statement of its own.
CountPhoto(r) ==
    /\ At(r, "count")
    /\ photo' = [photo EXCEPT ![request[r].photo].counted = @ + 1]
    /\ End(r)
    /\ UNCHANGED <<stored, cleanup, queueVars, workerVars, historyVars>>

AbandonCompletion(r) ==
    /\ request[r] \notin {NoOne, Over}
    /\ End(r)
    /\ UNCHANGED onlyRequest

-----------------------------------------------------------------------------
(* Erasure.                                                                *)

Targets == {p \in Photos : photo[p].status \notin {"none", "erased"} /\ ~photo[p].erased}

Tombstone(row) ==
    [row EXCEPT !.status = "erased", !.live = FALSE, !.erased = TRUE]
Queued(j) == [j EXCEPT !.status = IF @ = "completed" THEN @ ELSE "queued"]
ErasedObjects == UNION {ObjectsOf(p) : p \in Targets}

\* Mutant: the deletion of the thumbnails is not queued.
EraseEvidence_OriginalsOnly ==
    /\ Targets # {}
    /\ photo' = [p \in Photos |-> IF p \in Targets THEN Tombstone(photo[p])
                                  ELSE photo[p]]
    /\ deletion' = [o \in Objects |-> IF o \in {Original(p) : p \in Targets}
                                      THEN Queued(deletion[o]) ELSE deletion[o]]
    /\ cleanup' = cleanup \cup ErasedObjects
    /\ UNCHANGED <<stored, request, thumb, workerVars, historyVars>>

\* The rows are hidden and the deletion of their objects queued, in one
\* transaction; the handler then deletes them itself.
EraseEvidence ==
    /\ Targets # {}
    /\ photo' = [p \in Photos |-> IF p \in Targets THEN Tombstone(photo[p])
                                  ELSE photo[p]]
    /\ deletion' = [o \in Objects |-> IF o \in ErasedObjects THEN Queued(deletion[o])
                                      ELSE deletion[o]]
    /\ cleanup' = cleanup \cup ErasedObjects
    /\ UNCHANGED <<stored, request, thumb, workerVars, historyVars>>

\* A delete whose answer is lost may have reached the bucket.
Delete(o) ==
    /\ stored' = stored \ {o}
    /\ deleted' = deleted \cup {o}

\* The handler tells nobody but its caller: the deletion job stays queued.
CleanUp(o) ==
    /\ o \in cleanup
    /\ cleanup' = cleanup \ {o}
    /\ Delete(o) \/ UNCHANGED <<stored, deleted>>
    /\ UNCHANGED <<photo, request, queueVars, workerVars, made>>

-----------------------------------------------------------------------------
(* A worker's cycle: claim thumbnails, claim deletions, work them off.     *)

Exhausted(j) == j.attempts >= MaxAttempts
DeadLetter(j) == [j EXCEPT !.status = "dead_letter"]
ClaimRow(j) == [j EXCEPT !.status = "processing", !.attempts = @ + 1]

\* Mutant: one attempt too many.
Due_OneMore(j) ==
    j.status \in {"queued", "failed", "processing"} /\ j.attempts <= MaxAttempts

Due(j) == j.status \in {"queued", "failed", "processing"} /\ ~Exhausted(j)
ClaimsOf(jobs, S) == {[item |-> t, attempt |-> jobs[t].attempts + 1] : t \in S}
IsThumbnail(c) == c.item \in Photos

\* stale: the rows in processing whose lease has run out.
SweepThumbnails(w, stale) ==
    /\ step[w] = "thumbnails"
    /\ \A p \in stale : thumb[p].status = "processing" /\ Exhausted(thumb[p])
    /\ thumb' = [p \in Photos |->
                   IF p \in stale \/ (thumb[p].status = "failed" /\ Exhausted(thumb[p]))
                   THEN DeadLetter(thumb[p]) ELSE thumb[p]]
    /\ UNCHANGED <<photo, stored, request, cleanup, deletion, workerVars, historyVars>>

ClaimThumbnails(w, S) ==
    /\ step[w] = "thumbnails"
    /\ Cardinality(S) <= BatchSize
    /\ \A p \in S : photo[p].live /\ Due(thumb[p])
    /\ thumb' = [p \in Photos |-> IF p \in S THEN ClaimRow(thumb[p]) ELSE thumb[p]]
    /\ held' = [held EXCEPT ![w] = ClaimsOf(thumb, S)]
    /\ step' = [step EXCEPT ![w] = "deletions"]
    /\ UNCHANGED <<photo, stored, request, cleanup, deletion, hand, historyVars>>

\* Unlike that of the thumbnails, the sweep leaves failed rows alone.
SweepDeletions(w, stale) ==
    /\ step[w] = "deletions"
    /\ stale # {}
    /\ \A o \in stale : deletion[o].status = "processing" /\ Exhausted(deletion[o])
    /\ deletion' = [o \in Objects |-> IF o \in stale THEN DeadLetter(deletion[o])
                                      ELSE deletion[o]]
    /\ UNCHANGED <<photo, stored, request, cleanup, thumb, workerVars, historyVars>>

\* Mutant: reclaiming an abandoned deletion does not count as an attempt.
ClaimDeletions_NoCount(w, S) ==
    /\ step[w] = "deletions"
    /\ Cardinality(S) <= BatchSize
    /\ \A o \in S : Due(deletion[o])
    /\ deletion' = [o \in Objects |->
                      IF o \notin S THEN deletion[o]
                      ELSE IF deletion[o].status = "queued" /\ deletion[o].attempts = 0
                           THEN [deletion[o] EXCEPT !.status = "processing"]
                           ELSE ClaimRow(deletion[o])]
    /\ held' = [held EXCEPT ![w] = @ \cup ClaimsOf(deletion, S)]
    /\ step' = [step EXCEPT ![w] = "work"]
    /\ UNCHANGED <<photo, stored, request, cleanup, thumb, hand, historyVars>>

ClaimDeletions(w, S) ==
    /\ step[w] = "deletions"
    /\ Cardinality(S) <= BatchSize
    /\ \A o \in S : Due(deletion[o])
    /\ deletion' = [o \in Objects |-> IF o \in S THEN ClaimRow(deletion[o])
                                      ELSE deletion[o]]
    /\ held' = [held EXCEPT ![w] = @ \cup ClaimsOf(deletion, S)]
    /\ step' = [step EXCEPT ![w] = "work"]
    /\ UNCHANGED <<photo, stored, request, cleanup, thumb, hand, historyVars>>

\* Takes the next claim of the batch in hand; thumbnails come first.
InHand(w, c) ==
    /\ step[w] = "work" /\ hand[w] = NoOne /\ c \in held[w]
    /\ IsThumbnail(c) \/ \A d \in held[w] : ~IsThumbnail(d)
Answered(w, c, outcome) == hand' = [hand EXCEPT ![w] = [claim |-> c, at |-> outcome]]

FetchSource(w, c) ==
    /\ InHand(w, c) /\ IsThumbnail(c)
    /\ \/ Original(c.item) \in stored /\ Answered(w, c, "source")
       \/ Answered(w, c, "failed")
    /\ UNCHANGED <<photo, stored, request, cleanup, queueVars, step, held, historyVars>>

StoreThumbnail(w) ==
    /\ hand[w] # NoOne /\ hand[w].at = "source"
    /\ LET c == hand[w].claim
       IN  \/ PutThumbnail(c.item) /\ Answered(w, c, "ok")
           \/ /\ PutThumbnail(c.item) \/ UNCHANGED <<stored, made>>
              /\ Answered(w, c, "failed")
    /\ UNCHANGED <<photo, request, cleanup, queueVars, step, held, deleted>>

\* Mutant: a delete that timed out is taken for done.
DeleteObject_AnyAnswer(w, c) ==
    /\ InHand(w, c) /\ ~IsThumbnail(c)
    /\ Delete(c.item) \/ UNCHANGED <<stored, deleted>>
    /\ Answered(w, c, "ok")
    /\ UNCHANGED <<photo, request, cleanup, queueVars, step, held, made>>

DeleteObject(w, c) ==
    /\ InHand(w, c) /\ ~IsThumbnail(c)
    /\ \/ Delete(c.item) /\ Answered(w, c, "ok")
       \/ /\ Delete(c.item) \/ UNCHANGED <<stored, deleted>>
          /\ Answered(w, c, "failed")
    /\ UNCHANGED <<photo, request, cleanup, queueVars, step, held, made>>

\* The outcome is recorded where the row is processing, whoever claimed it
\* last; a failure looks at the attempt of the claim, not of the row.
Finalized(j, claim, outcome) ==
    IF j.status # "processing" THEN j
    ELSE [j EXCEPT !.status =
            IF outcome = "ok" THEN "completed"
            ELSE IF claim.attempt >= MaxAttempts THEN "dead_letter" ELSE "failed"]

\* The deletion queue has two statements of its own, which say the same.
FinalizedDeletion(j, claim, outcome) == Finalized(j, claim, outcome)

Finished(w) ==
    LET rest == held[w] \ {hand[w].claim}
    IN  /\ held' = [held EXCEPT ![w] = rest]
        /\ hand' = [hand EXCEPT ![w] = NoOne]
        /\ UNCHANGED <<photo, stored, request, cleanup, step, historyVars>>

\* When the database is unavailable nothing is recorded and the cycle goes on.
RecordThumbnail(w) ==
    /\ hand[w] # NoOne /\ hand[w].at # "source" /\ IsThumbnail(hand[w].claim)
    /\ LET c == hand[w].claim
       IN  thumb' = [thumb EXCEPT ![c.item] = Finalized(@, c, hand[w].at)]
    /\ Finished(w)
    /\ UNCHANGED deletion

RecordDeletion(w) ==
    /\ hand[w] # NoOne /\ ~IsThumbnail(hand[w].claim)
    /\ LET c == hand[w].claim
       IN  deletion' = [deletion EXCEPT ![c.item] = FinalizedDeletion(@, c, hand[w].at)]
    /\ Finished(w)
    /\ UNCHANGED thumb

RecordNothing(w) ==
    /\ hand[w] # NoOne /\ hand[w].at # "source"
    /\ Finished(w)
    /\ UNCHANGED queueVars

EndCycle(w) ==
    /\ step[w] = "work" /\ held[w] = {} /\ hand[w] = NoOne
    /\ step' = [step EXCEPT ![w] = "thumbnails"]
    /\ UNCHANGED <<photo, stored, request, cleanup, queueVars, held, hand, historyVars>>

\* The process stops and is started again, or the second claim fails: what the
\* worker held stays in processing.
Crash(w) ==
    /\ step[w] # "thumbnails"
    /\ step' = [step EXCEPT ![w] = "thumbnails"]
    /\ held' = [held EXCEPT ![w] = {}]
    /\ hand' = [hand EXCEPT ![w] = NoOne]
    /\ UNCHANGED <<photo, stored, request, cleanup, queueVars, historyVars>>

-----------------------------------------------------------------------------
(* Managers.                                                               *)

Renewed(j) == [j EXCEPT !.status = "queued", !.attempts = 0]
Retryable(j) == j.status \in {"failed", "dead_letter"}

RetryThumbnail(p) ==
    /\ Retryable(thumb[p])
    /\ thumb' = [thumb EXCEPT ![p] = Renewed(@)]
    /\ UNCHANGED <<photo, stored, request, cleanup, deletion, workerVars, historyVars>>

ResolveThumbnail(p) ==
    /\ Retryable(thumb[p])
    /\ thumb' = [thumb EXCEPT ![p].status = "resolved"]
    /\ UNCHANGED <<photo, stored, request, cleanup, deletion, workerVars, historyVars>>

RetryDeletion(o) ==
    /\ Retryable(deletion[o])
    /\ deletion' = [deletion EXCEPT ![o] = Renewed(@)]
    /\ UNCHANGED <<photo, stored, request, cleanup, thumb, workerVars, historyVars>>

ResolveDeletion(o) ==
    /\ Retryable(deletion[o])
    /\ deletion' = [deletion EXCEPT ![o].status = "resolved"]
    /\ UNCHANGED <<photo, stored, request, cleanup, thumb, workerVars, historyVars>>

-----------------------------------------------------------------------------
UploadStep(p) ==
    \/ CreateUpload(p)
    \/ \E o \in ObjectsOf(p) : PutObject(p, o)

CompletionStep(r) ==
    \/ \E p \in Photos : BeginCompletion(r, p)
    \/ Inspect(r) \/ RejectUpload(r) \/ FetchImage(r) \/ WriteThumbnail(r)
    \/ QueueThumbnail(r) \/ UpdatePhoto(r) \/ CountPhoto(r)
    \/ AbandonCompletion(r)

ClaimStep(w) ==
    \/ \E S \in SUBSET Photos : SweepThumbnails(w, S) \/ ClaimThumbnails(w, S)
    \/ \E S \in SUBSET Objects : SweepDeletions(w, S) \/ ClaimDeletions(w, S)

WorkStep(w) ==
    \/ \E c \in held[w] : FetchSource(w, c) \/ DeleteObject(w, c)
    \/ StoreThumbnail(w) \/ RecordThumbnail(w) \/ RecordDeletion(w)
    \/ RecordNothing(w) \/ EndCycle(w)

ManageThumbnail(p) == RetryThumbnail(p) \/ ResolveThumbnail(p)
ManageDeletion(o) == RetryDeletion(o) \/ ResolveDeletion(o)

ManagerStep ==
    \/ \E p \in Photos : ManageThumbnail(p)
    \/ \E o \in Objects : ManageDeletion(o)

Next ==
    \/ \E p \in Photos : UploadStep(p)
    \/ \E r \in Requests : CompletionStep(r)
    \/ EraseEvidence \/ \E o \in Objects : CleanUp(o)
    \/ \E w \in Workers : ClaimStep(w) \/ WorkStep(w) \/ Crash(w)
    \/ ManagerStep

Spec == Init /\ [][Next]_vars

-----------------------------------------------------------------------------
(* Properties.                                                             *)

\* A finished job did what it stands for, whoever finished it: a completed
\* deletion followed a delete of its object, a completed thumbnail job a write
\* of the thumbnail, although completion is recorded wherever the row is
\* processing, by workers that lost their lease too.
CompletedWasDone ==
    /\ \A o \in Objects : deletion[o].status = "completed" => o \in deleted
    /\ \A p \in Photos : thumb[p].status = "completed" => p \in made

\* What erasure leaves behind is not forgotten: an object of an erased photo
\* that is in the bucket has a deletion job, unless it was deleted once and
\* written again by a request or worker that was under way.
ErasedObjectIsQueued ==
    \A p \in Photos : photo[p].erased =>
        \A o \in ObjectsOf(p) \cap stored :
            deletion[o].status # "none" \/ o \in deleted

\* Both queues keep the protocol of the backend's work queues.
StateOf(status) ==
    CASE status = "none" -> "absent"
      [] status \in {"queued", "failed"} -> "waiting"
      [] status = "processing" -> "held"
      [] status = "completed" -> "done"
      [] status = "dead_letter" -> "dead"
      [] status = "resolved" -> "settled"

ThumbnailQueue == INSTANCE LeaseQueue WITH
    Entries <- Photos, MaxTries <- MaxAttempts,
    state <- [p \in Photos |-> StateOf(thumb[p].status)],
    tries <- [p \in Photos |-> thumb[p].attempts]
DeletionQueue == INSTANCE LeaseQueue WITH
    Entries <- Objects, MaxTries <- MaxAttempts,
    state <- [o \in Objects |-> StateOf(deletion[o].status)],
    tries <- [o \in Objects |-> deletion[o].attempts]

\* Every step of uploads, erasures, workers and managers is a step of each
\* queue's promise, or leaves it alone.
QueuesKeepPromise == ThumbnailQueue!Spec /\ DeletionQueue!Spec

=============================================================================

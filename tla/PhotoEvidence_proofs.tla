------------------------ MODULE PhotoEvidence_proofs ------------------------
(***************************************************************************)
(* TLAPS proofs about PhotoEvidence.                                       *)
(***************************************************************************)
EXTENDS PhotoEvidence, TLAPS

(* What a worker has in hand: a fetched image belongs to a thumbnail job,  *)
(* and a good outcome means that the work was done.                        *)
HandWasDone ==
    \A w \in Workers : hand[w] # NoOne =>
        LET c == hand[w].claim
        IN /\ hand[w].at = "source" => IsThumbnail(c)
           /\ hand[w].at = "ok" => IF IsThumbnail(c) THEN c.item \in made
                                   ELSE c.item \in deleted

-----------------------------------------------------------------------------
(* What the updates of one row keep of its type.                           *)
LEMMA PhotoStatusType ==
    ASSUME NEW row \in Photo, NEW s \in PhotoStatus
    PROVE  [row EXCEPT !.status = s] \in Photo
BY DEF Photo

LEMMA PhotoUploadType ==
    ASSUME NEW row \in Photo, NEW s \in PhotoStatus
    PROVE  [row EXCEPT !.status = s, !.live = TRUE] \in Photo
BY DEF Photo

LEMMA PhotoCountType ==
    ASSUME NEW row \in Photo
    PROVE  [row EXCEPT !.counted = @ + 1] \in Photo
BY DEF Photo

LEMMA TombstoneType ==
    ASSUME NEW row \in Photo
    PROVE  Tombstone(row) \in Photo
BY DEF Photo, PhotoStatus, Tombstone

LEMMA JobStatusType ==
    ASSUME NEW j \in Job, NEW s \in JobStatus
    PROVE  [j EXCEPT !.status = s] \in Job
BY DEF Job

LEMMA NoJobType == NoJob \in Job
BY LimitAssumption DEF NoJob, Job, JobStatus

LEMMA RequeuedType ==
    ASSUME NEW j \in Job
    PROVE  Requeued(j) \in Job /\ Queued(j) \in Job
BY DEF Requeued, Queued, Job, JobStatus

LEMMA DeadLetterType ==
    ASSUME NEW j \in Job
    PROVE  DeadLetter(j) \in Job
BY DEF DeadLetter, Job, JobStatus

LEMMA ClaimRowType ==
    ASSUME NEW j \in Job, Due(j)
    PROVE  ClaimRow(j) \in Job /\ j.attempts + 1 \in 1..MaxAttempts
<1>1. j.attempts \in Nat /\ j.attempts + 1 <= MaxAttempts
  BY LimitAssumption DEF Job, Due, Exhausted
<1>2. j.attempts + 1 \in 0..MaxAttempts /\ j.attempts + 1 \in 1..MaxAttempts
  BY <1>1, LimitAssumption
<1> QED
  BY <1>2 DEF ClaimRow, Job, JobStatus

LEMMA FinalizedType ==
    ASSUME NEW j \in Job, NEW c, NEW outcome
    PROVE  Finalized(j, c, outcome) \in Job
BY DEF Finalized, Job, JobStatus

LEMMA RenewedType ==
    ASSUME NEW j \in Job
    PROVE  Renewed(j) \in Job
<1>1. 0 \in 0..MaxAttempts
  BY LimitAssumption
<1> QED
  BY <1>1 DEF Renewed, Job, JobStatus

LEMMA CompletionType ==
    ASSUME NEW c \in Completion,
           NEW a \in {"inspect", "fetch", "put", "queue", "reject", "update",
                      "count"}
    PROVE  /\ [c EXCEPT !.at = a] \in Completion
           /\ [c EXCEPT !.server = TRUE, !.at = a] \in Completion
BY DEF Completion

LEMMA ClaimsType ==
    ASSUME NEW jobs, NEW S \in SUBSET (Photos \cup Objects),
           \A t \in S : jobs[t] \in Job /\ Due(jobs[t])
    PROVE  ClaimsOf(jobs, S) \subseteq Claims
BY ClaimRowType DEF ClaimsOf, Claims

LEMMA HandType ==
    ASSUME NEW c \in Claims, NEW a \in {"source", "ok", "failed"}
    PROVE  [claim |-> c, at |-> a] \in Hand
BY DEF Hand

LEMMA ObjectsType ==
    ASSUME NEW p \in Photos
    PROVE  Original(p) \in Objects /\ Thumbnail(p) \in Objects
BY DEF Original, Thumbnail, Objects

(* What the two requests' helpers keep.                                    *)
LEMMA InProgress ==
    ASSUME TypeOK, NEW r \in Requests, NEW a, At(r, a)
    PROVE  /\ request[r] \in Completion
           /\ request[r].photo \in Photos
BY DEF TypeOK, At, Completion

LEMMA GotoType ==
    ASSUME TypeOK, NEW r \in Requests, request[r] \in Completion,
           NEW a \in {"inspect", "fetch", "put", "queue", "reject", "update",
                      "count"}, Goto(r, a)
    PROVE  request' \in [Requests -> Completion \cup {NoOne, Over}]
BY CompletionType DEF TypeOK, Goto

LEMMA EndType ==
    ASSUME TypeOK, NEW r \in Requests, End(r)
    PROVE  request' \in [Requests -> Completion \cup {NoOne, Over}]
BY DEF TypeOK, End

LEMMA AnsweredType ==
    ASSUME TypeOK, NEW w \in Workers, NEW c \in Claims,
           NEW a \in {"source", "ok", "failed"}, Answered(w, c, a)
    PROVE  hand' \in [Workers -> Hand \cup {NoOne}]
BY HandType DEF TypeOK, Answered

LEMMA InHandFields ==
    ASSUME TypeOK, NEW w \in Workers, hand[w] # NoOne
    PROVE  /\ hand[w].claim \in Claims
           /\ hand[w].claim.item \in Photos \cup Objects
           /\ hand[w].at \in {"source", "ok", "failed"}
BY DEF TypeOK, Hand, Claims

LEMMA FinishedType ==
    ASSUME TypeOK, NEW w \in Workers, Finished(w)
    PROVE  /\ held' \in [Workers -> SUBSET Claims]
           /\ hand' \in [Workers -> Hand \cup {NoOne}]
BY DEF TypeOK, Finished

LEMMA TypeInit == Init => TypeOK
BY NoJobType DEF Init, TypeOK, Photo, PhotoStatus

-----------------------------------------------------------------------------
(* Types: one step per action.                                             *)
LEMMA UploadTypes ==
    ASSUME TypeOK, NEW p \in Photos, UploadStep(p)
    PROVE  TypeOK'
<1>1. ASSUME CreateUpload(p) PROVE TypeOK'
  <2>1. photo[p] \in Photo /\ photo \in [Photos -> Photo]
    BY DEF TypeOK
  <2>2. photo[p].status \in PhotoStatus /\ "pending" \in PhotoStatus
    BY <2>1 DEF Photo, PhotoStatus
  <2>3. PICK s \in PhotoStatus :
          photo' = [photo EXCEPT ![p] = [@ EXCEPT !.status = s, !.live = TRUE]]
    BY <1>1, <2>1, <2>2 DEF CreateUpload, InsertUpload
  <2>4. photo' \in [Photos -> Photo]
    BY <2>1, <2>3, PhotoUploadType
  <2> QED
    BY <1>1, <2>4 DEF CreateUpload, TypeOK, queueVars, workerVars, historyVars
<1>2. ASSUME NEW o \in ObjectsOf(p), PutObject(p, o) PROVE TypeOK'
  <2>1. o \in Objects
    BY ObjectsType DEF ObjectsOf
  <2>2. stored' \subseteq Objects /\ made' \subseteq Photos
    BY <1>2, <2>1 DEF PutObject, TypeOK
  <2> QED
    BY <1>2, <2>2 DEF PutObject, TypeOK, queueVars, workerVars
<1> QED
  BY <1>1, <1>2 DEF UploadStep

LEMMA CompletionTypes ==
    ASSUME TypeOK, NEW r \in Requests, CompletionStep(r)
    PROVE  TypeOK'
<1> DEFINE Requested == request' \in [Requests -> Completion \cup {NoOne, Over}]
<1>1. ASSUME UNCHANGED onlyRequest, Requested PROVE TypeOK'
  BY <1>1 DEF TypeOK, onlyRequest, queueVars, workerVars, historyVars
<1>2. ASSUME NEW p \in Photos, BeginCompletion(r, p) PROVE TypeOK'
  <2>1. photo[p].live \in BOOLEAN
    BY DEF TypeOK, Photo
  <2>2. [photo |-> p, live |-> photo[p].live, server |-> FALSE,
         at |-> "inspect"] \in Completion
    BY <2>1, Zenon DEF Completion
  <2>3. Requested
    BY <1>2, <2>2 DEF BeginCompletion, TypeOK
  <2> QED
    BY <1>1, <1>2, <2>3 DEF BeginCompletion
<1>3. ASSUME Inspect(r) PROVE TypeOK'
  <2>1. request[r] \in Completion
    BY <1>3, InProgress DEF Inspect
  <2>2. CASE request' = [request EXCEPT ![r].server = TRUE, ![r].at = "fetch"]
    <3>1. request' = [request EXCEPT ![r] = [@ EXCEPT !.server = TRUE, !.at = "fetch"]]
      BY <2>1, <2>2 DEF TypeOK
    <3>2. [request[r] EXCEPT !.server = TRUE, !.at = "fetch"] \in Completion
      BY <2>1, CompletionType
    <3>3. Requested
      BY <3>1, <3>2 DEF TypeOK
    <3> QED
      BY <1>1, <1>3, <3>3 DEF Inspect
  <2>3. CASE Goto(r, "reject") \/ Goto(r, "queue") \/ Goto(r, "update")
    <3>1. Requested
      BY <2>1, <2>3, GotoType
    <3> QED
      BY <1>1, <1>3, <3>1 DEF Inspect
  <2> QED
    BY <1>3, <2>2, <2>3 DEF Inspect
<1>4. ASSUME RejectUpload(r) PROVE TypeOK'
  <2>1. request[r].photo \in Photos /\ Requested
    BY <1>4, InProgress, EndType DEF RejectUpload
  <2>2. photo' \in [Photos -> Photo]
    BY <1>4, <2>1, PhotoStatusType DEF RejectUpload, TypeOK, PhotoStatus
  <2> QED
    BY <1>4, <2>1, <2>2
    DEF RejectUpload, TypeOK, queueVars, workerVars, historyVars
<1>5. ASSUME FetchImage(r) PROVE TypeOK'
  <2>1. request[r] \in Completion
    BY <1>5, InProgress DEF FetchImage
  <2>2. Requested
    BY <1>5, <2>1, GotoType DEF FetchImage
  <2> QED
    BY <1>1, <1>5, <2>2 DEF FetchImage
<1>6. ASSUME WriteThumbnail(r) PROVE TypeOK'
  <2>1. request[r] \in Completion /\ request[r].photo \in Photos
    BY <1>6, InProgress DEF WriteThumbnail
  <2>2. Requested
    BY <1>6, <2>1, GotoType DEF WriteThumbnail
  <2>3. stored' \subseteq Objects /\ made' \subseteq Photos
    BY <1>6, <2>1, ObjectsType DEF WriteThumbnail, PutThumbnail, TypeOK
  <2> QED
    BY <1>6, <2>2, <2>3 DEF WriteThumbnail, TypeOK, queueVars, workerVars
<1>7. ASSUME QueueThumbnail(r) PROVE TypeOK'
  <2>1. request[r] \in Completion /\ request[r].photo \in Photos
    BY <1>7, InProgress DEF QueueThumbnail
  <2>2. Requested
    BY <1>7, <2>1, GotoType, EndType DEF QueueThumbnail
  <2>3. thumb' \in [Photos -> Job]
    BY <1>7, <2>1, RequeuedType DEF QueueThumbnail, TypeOK
  <2> QED
    BY <1>7, <2>2, <2>3 DEF QueueThumbnail, TypeOK, workerVars, historyVars
<1>8. ASSUME UpdatePhoto(r) PROVE TypeOK'
  <2>1. request[r] \in Completion /\ request[r].photo \in Photos
    BY <1>8, InProgress DEF UpdatePhoto
  <2>2. Requested
    BY <1>8, <2>1, GotoType DEF UpdatePhoto
  <2>3. photo' \in [Photos -> Photo]
    BY <1>8, <2>1, PhotoStatusType DEF UpdatePhoto, TypeOK, PhotoStatus
  <2> QED
    BY <1>8, <2>2, <2>3
    DEF UpdatePhoto, TypeOK, queueVars, workerVars, historyVars
<1>9. ASSUME CountPhoto(r) PROVE TypeOK'
  <2>1. request[r].photo \in Photos /\ Requested
    BY <1>9, InProgress, EndType DEF CountPhoto
  <2>2. photo' \in [Photos -> Photo]
    BY <1>9, <2>1, PhotoCountType DEF CountPhoto, TypeOK
  <2> QED
    BY <1>9, <2>1, <2>2
    DEF CountPhoto, TypeOK, queueVars, workerVars, historyVars
<1>10. ASSUME AbandonCompletion(r) PROVE TypeOK'
  BY <1>1, <1>10, EndType DEF AbandonCompletion
<1> QED
  BY <1>2, <1>3, <1>4, <1>5, <1>6, <1>7, <1>8, <1>9, <1>10 DEF CompletionStep

LEMMA ErasureTypes ==
    ASSUME TypeOK, EraseEvidence \/ \E o \in Objects : CleanUp(o)
    PROVE  TypeOK'
<1>1. ASSUME EraseEvidence PROVE TypeOK'
  <2>1. \A p \in Photos : photo[p] \in Photo /\ Tombstone(photo[p]) \in Photo
    BY TombstoneType DEF TypeOK
  <2>2. \A o \in Objects : deletion[o] \in Job /\ Queued(deletion[o]) \in Job
    BY RequeuedType DEF TypeOK
  <2>3. ErasedObjects \subseteq Objects
    BY ObjectsType DEF ErasedObjects, Targets, ObjectsOf
  <2>4. photo' \in [Photos -> Photo] /\ deletion' \in [Objects -> Job]
    BY <1>1, <2>1, <2>2 DEF EraseEvidence
  <2> QED
    BY <1>1, <2>3, <2>4 DEF EraseEvidence, TypeOK, workerVars, historyVars
<1>2. ASSUME NEW o \in Objects, CleanUp(o) PROVE TypeOK'
  BY <1>2 DEF CleanUp, Delete, TypeOK, queueVars, workerVars
<1> QED
  BY <1>1, <1>2

LEMMA ClaimTypes ==
    ASSUME TypeOK, NEW w \in Workers, ClaimStep(w)
    PROVE  TypeOK'
<1>1. ASSUME NEW S \in SUBSET Photos, SweepThumbnails(w, S) PROVE TypeOK'
  <2>1. \A p \in Photos : thumb[p] \in Job /\ DeadLetter(thumb[p]) \in Job
    BY DeadLetterType DEF TypeOK
  <2>2. thumb' \in [Photos -> Job]
    BY <1>1, <2>1 DEF SweepThumbnails
  <2> QED
    BY <1>1, <2>2 DEF SweepThumbnails, TypeOK, workerVars, historyVars
<1>2. ASSUME NEW S \in SUBSET Photos, ClaimThumbnails(w, S) PROVE TypeOK'
  <2>1. \A p \in S : thumb[p] \in Job /\ Due(thumb[p])
    BY <1>2 DEF ClaimThumbnails, TypeOK
  <2>2. \A p \in S : ClaimRow(thumb[p]) \in Job
    BY <2>1, ClaimRowType
  <2>3. ClaimsOf(thumb, S) \subseteq Claims
    BY <2>1, ClaimsType
  <2>4. thumb' \in [Photos -> Job]
    BY <1>2, <2>2 DEF ClaimThumbnails, TypeOK
  <2>5. held' \in [Workers -> SUBSET Claims]
    BY <1>2, <2>3 DEF ClaimThumbnails, TypeOK
  <2> QED
    BY <1>2, <2>4, <2>5 DEF ClaimThumbnails, TypeOK, historyVars
<1>3. ASSUME NEW S \in SUBSET Objects, SweepDeletions(w, S) PROVE TypeOK'
  <2>1. \A o \in Objects : deletion[o] \in Job /\ DeadLetter(deletion[o]) \in Job
    BY DeadLetterType DEF TypeOK
  <2>2. deletion' \in [Objects -> Job]
    BY <1>3, <2>1 DEF SweepDeletions
  <2> QED
    BY <1>3, <2>2 DEF SweepDeletions, TypeOK, workerVars, historyVars
<1>4. ASSUME NEW S \in SUBSET Objects, ClaimDeletions(w, S) PROVE TypeOK'
  <2>1. \A o \in S : deletion[o] \in Job /\ Due(deletion[o])
    BY <1>4 DEF ClaimDeletions, TypeOK
  <2>2. \A o \in S : ClaimRow(deletion[o]) \in Job
    BY <2>1, ClaimRowType
  <2>3. ClaimsOf(deletion, S) \subseteq Claims
    BY <2>1, ClaimsType
  <2>4. deletion' \in [Objects -> Job]
    BY <1>4, <2>2 DEF ClaimDeletions, TypeOK
  <2>5. held' \in [Workers -> SUBSET Claims]
    BY <1>4, <2>3 DEF ClaimDeletions, TypeOK
  <2> QED
    BY <1>4, <2>4, <2>5 DEF ClaimDeletions, TypeOK, historyVars
<1> QED
  BY <1>1, <1>2, <1>3, <1>4 DEF ClaimStep

LEMMA WorkTypes ==
    ASSUME TypeOK, HandWasDone, NEW w \in Workers, WorkStep(w)
    PROVE  TypeOK'
<1>1. ASSUME NEW c \in held[w], FetchSource(w, c) PROVE TypeOK'
  <2>1. c \in Claims
    BY DEF TypeOK
  <2>2. hand' \in [Workers -> Hand \cup {NoOne}]
    BY <1>1, <2>1, AnsweredType DEF FetchSource
  <2> QED
    BY <1>1, <2>2 DEF FetchSource, TypeOK, queueVars, historyVars
<1>2. ASSUME NEW c \in held[w], DeleteObject(w, c) PROVE TypeOK'
  <2>1. c \in Claims /\ c.item \in Objects
    BY <1>2 DEF DeleteObject, TypeOK, Claims, IsThumbnail
  <2>2. hand' \in [Workers -> Hand \cup {NoOne}]
    BY <1>2, <2>1, AnsweredType DEF DeleteObject
  <2>3. stored' \subseteq Objects /\ deleted' \subseteq Objects
    BY <1>2, <2>1 DEF DeleteObject, Delete, TypeOK
  <2> QED
    BY <1>2, <2>2, <2>3 DEF DeleteObject, TypeOK, queueVars
<1>3. ASSUME StoreThumbnail(w) PROVE TypeOK'
  <2>1. hand[w].claim \in Claims /\ hand[w].claim.item \in Photos
    BY <1>3, InHandFields DEF StoreThumbnail, HandWasDone, IsThumbnail
  <2>2. hand' \in [Workers -> Hand \cup {NoOne}]
    BY <1>3, <2>1, AnsweredType DEF StoreThumbnail
  <2>3. stored' \subseteq Objects /\ made' \subseteq Photos
    BY <1>3, <2>1, ObjectsType DEF StoreThumbnail, PutThumbnail, TypeOK
  <2> QED
    BY <1>3, <2>2, <2>3 DEF StoreThumbnail, TypeOK, queueVars
<1>4. ASSUME Finished(w), thumb' \in [Photos -> Job], deletion' \in [Objects -> Job]
      PROVE  TypeOK'
  BY <1>4, FinishedType DEF Finished, TypeOK, historyVars
<1>5. ASSUME RecordThumbnail(w) PROVE TypeOK'
  <2>1. thumb' \in [Photos -> Job]
    BY <1>5, FinalizedType DEF RecordThumbnail, TypeOK
  <2> QED
    BY <1>4, <1>5, <2>1 DEF RecordThumbnail, TypeOK
<1>6. ASSUME RecordDeletion(w) PROVE TypeOK'
  <2>1. deletion' \in [Objects -> Job]
    BY <1>6, FinalizedType DEF RecordDeletion, FinalizedDeletion, TypeOK
  <2> QED
    BY <1>4, <1>6, <2>1 DEF RecordDeletion, TypeOK
<1>7. ASSUME RecordNothing(w) PROVE TypeOK'
  BY <1>4, <1>7 DEF RecordNothing, TypeOK, queueVars
<1>8. ASSUME EndCycle(w) PROVE TypeOK'
  BY <1>8 DEF EndCycle, TypeOK, queueVars, historyVars
<1> QED
  BY <1>1, <1>2, <1>3, <1>5, <1>6, <1>7, <1>8 DEF WorkStep

LEMMA CrashTypes ==
    ASSUME TypeOK, NEW w \in Workers, Crash(w)
    PROVE  TypeOK'
BY DEF Crash, TypeOK, queueVars, historyVars

LEMMA ManagerTypes ==
    ASSUME TypeOK, ManagerStep
    PROVE  TypeOK'
<1>1. ASSUME NEW p \in Photos, ManageThumbnail(p) PROVE TypeOK'
  <2>1. thumb[p] \in Job /\ thumb \in [Photos -> Job]
    BY DEF TypeOK
  <2>2. Renewed(thumb[p]) \in Job
    BY <2>1, RenewedType
  <2>3. [thumb[p] EXCEPT !.status = "resolved"] \in Job
    BY <2>1, JobStatusType DEF JobStatus
  <2>4. thumb' \in [Photos -> Job]
    BY <1>1, <2>1, <2>2, <2>3
    DEF ManageThumbnail, RetryThumbnail, ResolveThumbnail
  <2> QED
    BY <1>1, <2>4 DEF ManageThumbnail, RetryThumbnail, ResolveThumbnail, TypeOK,
       workerVars, historyVars
<1>2. ASSUME NEW o \in Objects, ManageDeletion(o) PROVE TypeOK'
  <2>1. deletion[o] \in Job /\ deletion \in [Objects -> Job]
    BY DEF TypeOK
  <2>2. Renewed(deletion[o]) \in Job
    BY <2>1, RenewedType
  <2>3. [deletion[o] EXCEPT !.status = "resolved"] \in Job
    BY <2>1, JobStatusType DEF JobStatus
  <2>4. deletion' \in [Objects -> Job]
    BY <1>2, <2>1, <2>2, <2>3
    DEF ManageDeletion, RetryDeletion, ResolveDeletion
  <2> QED
    BY <1>2, <2>4 DEF ManageDeletion, RetryDeletion, ResolveDeletion, TypeOK,
       workerVars, historyVars
<1> QED
  BY <1>1, <1>2 DEF ManagerStep

LEMMA TypeStep ==
    ASSUME TypeOK, HandWasDone, [Next]_vars
    PROVE  TypeOK'
<1>1. CASE UNCHANGED vars
  BY <1>1 DEF TypeOK, vars, queueVars, workerVars, historyVars
<1>2. CASE Next
  BY <1>2, UploadTypes, CompletionTypes, ErasureTypes, ClaimTypes, WorkTypes,
     CrashTypes, ManagerTypes DEF Next
<1> QED
  BY <1>1, <1>2

-----------------------------------------------------------------------------
(* Which steps touch what.                                                 *)
ThumbMoves ==
    \/ \E r \in Requests : QueueThumbnail(r)
    \/ \E w \in Workers, S \in SUBSET Photos :
         SweepThumbnails(w, S) \/ ClaimThumbnails(w, S)
    \/ \E w \in Workers : RecordThumbnail(w)
    \/ \E p \in Photos : ManageThumbnail(p)

DeletionMoves ==
    \/ EraseEvidence
    \/ \E w \in Workers, S \in SUBSET Objects :
         SweepDeletions(w, S) \/ ClaimDeletions(w, S)
    \/ \E w \in Workers : RecordDeletion(w)
    \/ \E o \in Objects : ManageDeletion(o)

HandMoves ==
    \/ \E w \in Workers, c \in Claims : FetchSource(w, c) \/ DeleteObject(w, c)
    \/ \E w \in Workers : StoreThumbnail(w) \/ Finished(w) \/ Crash(w)

ErasedStays == \A p \in Photos : photo'[p].erased = photo[p].erased

Frame ==
    /\ UNCHANGED thumb \/ ThumbMoves
    /\ UNCHANGED deletion \/ DeletionMoves
    /\ UNCHANGED hand \/ HandMoves
    /\ ErasedStays \/ EraseEvidence
    /\ made \subseteq made' /\ deleted \subseteq deleted'

LEMMA UploadFrame ==
    ASSUME TypeOK, NEW p \in Photos, UploadStep(p)
    PROVE  Frame
<1>1. ErasedStays
  BY DEF TypeOK, Photo, UploadStep, CreateUpload, PutObject, InsertUpload,
         ErasedStays
<1>2. /\ UNCHANGED <<thumb, deletion, hand>>
      /\ made \subseteq made' /\ deleted \subseteq deleted'
  BY DEF UploadStep, CreateUpload, PutObject, queueVars, workerVars, historyVars
<1> QED
  BY <1>1, <1>2 DEF Frame

LEMMA CompletionFrame ==
    ASSUME TypeOK, NEW r \in Requests, CompletionStep(r)
    PROVE  Frame
<1>1. ASSUME RejectUpload(r) \/ UpdatePhoto(r) \/ CountPhoto(r)
      PROVE  Frame
  <2>1. request[r].photo \in Photos /\ photo \in [Photos -> Photo]
    BY <1>1, InProgress DEF RejectUpload, UpdatePhoto, CountPhoto, TypeOK
  <2>2. ErasedStays
    BY <1>1, <2>1 DEF RejectUpload, UpdatePhoto, CountPhoto, ErasedStays, Photo
  <2>3. UNCHANGED <<thumb, deletion, hand, made, deleted>>
    BY <1>1 DEF RejectUpload, UpdatePhoto, CountPhoto, queueVars, workerVars,
       historyVars
  <2> QED
    BY <2>2, <2>3 DEF Frame
<1>2. ASSUME QueueThumbnail(r) PROVE Frame
  BY <1>2 DEF QueueThumbnail, Frame, ThumbMoves, ErasedStays, workerVars,
     historyVars
<1>3. ASSUME WriteThumbnail(r) PROVE Frame
  BY <1>3 DEF WriteThumbnail, PutThumbnail, Frame, ErasedStays, queueVars,
     workerVars
<1>4. ASSUME UNCHANGED onlyRequest PROVE Frame
  BY <1>4 DEF onlyRequest, Frame, ErasedStays, queueVars, workerVars,
     historyVars
<1> QED
  BY <1>1, <1>2, <1>3, <1>4
  DEF CompletionStep, BeginCompletion, Inspect, FetchImage, AbandonCompletion

LEMMA ErasureFrame ==
    ASSUME EraseEvidence \/ \E o \in Objects : CleanUp(o)
    PROVE  Frame
<1>1. CASE EraseEvidence
  BY <1>1 DEF EraseEvidence, Frame, DeletionMoves, workerVars, historyVars
<1>2. CASE \E o \in Objects : CleanUp(o)
  BY <1>2 DEF CleanUp, Delete, Frame, ErasedStays, queueVars, workerVars
<1> QED
  BY <1>1, <1>2

LEMMA ClaimFrame ==
    ASSUME NEW w \in Workers, ClaimStep(w)
    PROVE  Frame
<1>1. UNCHANGED <<photo, hand, made, deleted>>
  BY DEF ClaimStep, SweepThumbnails, ClaimThumbnails, SweepDeletions,
         ClaimDeletions, workerVars, historyVars
<1>2. CASE \E S \in SUBSET Photos : SweepThumbnails(w, S) \/ ClaimThumbnails(w, S)
  <2>1. ThumbMoves /\ UNCHANGED deletion
    BY <1>2 DEF ThumbMoves, SweepThumbnails, ClaimThumbnails
  <2> QED
    BY <1>1, <2>1 DEF Frame, ErasedStays
<1>3. CASE \E S \in SUBSET Objects : SweepDeletions(w, S) \/ ClaimDeletions(w, S)
  <2>1. DeletionMoves /\ UNCHANGED thumb
    BY <1>3 DEF DeletionMoves, SweepDeletions, ClaimDeletions
  <2> QED
    BY <1>1, <2>1 DEF Frame, ErasedStays
<1> QED
  BY <1>2, <1>3 DEF ClaimStep

LEMMA WorkFrame ==
    ASSUME TypeOK, NEW w \in Workers, WorkStep(w) \/ Crash(w)
    PROVE  Frame
<1>1. ASSUME NEW c \in held[w], FetchSource(w, c) \/ DeleteObject(w, c)
      PROVE  Frame
  <2>1. c \in Claims
    BY DEF TypeOK
  <2>2. HandMoves
    BY <1>1, <2>1 DEF HandMoves
  <2>3. /\ UNCHANGED <<photo, thumb, deletion>>
        /\ made \subseteq made' /\ deleted \subseteq deleted'
    BY <1>1 DEF FetchSource, DeleteObject, Delete, queueVars, historyVars
  <2> QED
    BY <2>2, <2>3 DEF Frame, ErasedStays
<1>2. ASSUME StoreThumbnail(w) PROVE Frame
  BY <1>2 DEF StoreThumbnail, PutThumbnail, Frame, HandMoves, ErasedStays,
     queueVars
<1>3. ASSUME RecordThumbnail(w) \/ RecordDeletion(w) \/ RecordNothing(w)
      PROVE  Frame
  <2>1. Finished(w)
    BY <1>3 DEF RecordThumbnail, RecordDeletion, RecordNothing
  <2>2. HandMoves
    BY <2>1 DEF HandMoves
  <2>3. UNCHANGED <<photo, made, deleted>>
    BY <2>1 DEF Finished, historyVars
  <2>4. /\ UNCHANGED thumb \/ ThumbMoves
        /\ UNCHANGED deletion \/ DeletionMoves
    BY <1>3 DEF RecordThumbnail, RecordDeletion, RecordNothing, queueVars,
       ThumbMoves, DeletionMoves
  <2> QED
    BY <2>2, <2>3, <2>4 DEF Frame, ErasedStays
<1>4. ASSUME EndCycle(w) PROVE Frame
  BY <1>4 DEF EndCycle, Frame, ErasedStays, queueVars, historyVars
<1>5. ASSUME Crash(w) PROVE Frame
  <2>1. HandMoves
    BY <1>5 DEF HandMoves
  <2> QED
    BY <1>5, <2>1 DEF Crash, Frame, ErasedStays, queueVars, historyVars
<1> QED
  BY <1>1, <1>2, <1>3, <1>4, <1>5 DEF WorkStep

LEMMA ManagerFrame ==
    ASSUME ManagerStep
    PROVE  Frame
<1>1. UNCHANGED <<photo, hand, made, deleted>>
  BY DEF ManagerStep, ManageThumbnail, ManageDeletion, RetryThumbnail,
         ResolveThumbnail, RetryDeletion, ResolveDeletion, workerVars,
         historyVars
<1>2. \/ ThumbMoves /\ UNCHANGED deletion
      \/ DeletionMoves /\ UNCHANGED thumb
  <2>1. ASSUME NEW p \in Photos, ManageThumbnail(p)
        PROVE  ThumbMoves /\ UNCHANGED deletion
    BY <2>1 DEF ThumbMoves, ManageThumbnail, RetryThumbnail, ResolveThumbnail
  <2>2. ASSUME NEW o \in Objects, ManageDeletion(o)
        PROVE  DeletionMoves /\ UNCHANGED thumb
    BY <2>2 DEF DeletionMoves, ManageDeletion, RetryDeletion, ResolveDeletion
  <2> QED
    BY <2>1, <2>2 DEF ManagerStep
<1> QED
  BY <1>1, <1>2 DEF Frame, ErasedStays

LEMMA StepFrame ==
    ASSUME TypeOK, [Next]_vars
    PROVE  Frame
<1>1. CASE UNCHANGED vars
  BY <1>1 DEF vars, queueVars, workerVars, historyVars, Frame, ErasedStays
<1>2. CASE Next
  BY <1>2, UploadFrame, CompletionFrame, ErasureFrame, ClaimFrame, WorkFrame,
     ManagerFrame DEF Next
<1> QED
  BY <1>1, <1>2

-----------------------------------------------------------------------------
(* What is in hand was done, and so is what is recorded.                   *)
LEMMA HandStep ==
    ASSUME TypeOK, HandWasDone, Frame
    PROVE  HandWasDone'
<1> DEFINE Claim(v) == hand[v].claim
<1>1. made \subseteq made' /\ deleted \subseteq deleted'
  BY DEF Frame
<1>2. SUFFICES ASSUME NEW v \in Workers, hand'[v] # NoOne
               PROVE  /\ hand'[v].at = "source" => IsThumbnail(hand'[v].claim)
                      /\ hand'[v].at = "ok" =>
                           IF IsThumbnail(hand'[v].claim)
                           THEN hand'[v].claim.item \in made'
                           ELSE hand'[v].claim.item \in deleted'
  BY DEF HandWasDone, IsThumbnail
<1>3. CASE hand'[v] = hand[v]
  BY <1>1, <1>2, <1>3 DEF HandWasDone
<1>4. CASE hand'[v] # hand[v]
  <2>1. HandMoves
    BY <1>4 DEF Frame
  <2>2. ASSUME NEW w \in Workers, NEW c \in Claims,
               NEW a \in {"source", "ok", "failed"}, Answered(w, c, a)
        PROVE  hand'[v].claim = c /\ hand'[v].at = a
    BY <1>4, <2>2 DEF Answered, TypeOK
  <2>3. ASSUME NEW w \in Workers, Finished(w) \/ Crash(w)
        PROVE  FALSE
    BY <1>2, <1>4, <2>3 DEF Finished, Crash, TypeOK
  <2>4. ASSUME NEW w \in Workers, NEW c \in Claims, FetchSource(w, c)
        PROVE  /\ IsThumbnail(hand'[v].claim)
               /\ hand'[v].at \in {"source", "failed"}
    <3>1. IsThumbnail(c) /\ \E a \in {"source", "failed"} : Answered(w, c, a)
      BY <2>4 DEF FetchSource
    <3> QED
      BY <2>2, <3>1 DEF IsThumbnail
  <2>5. ASSUME NEW w \in Workers, NEW c \in Claims, DeleteObject(w, c)
        PROVE  /\ ~IsThumbnail(hand'[v].claim)
               /\ hand'[v].at \in {"ok", "failed"}
               /\ hand'[v].at = "ok" => hand'[v].claim.item \in deleted'
    <3>1. /\ ~IsThumbnail(c)
          /\ \/ Answered(w, c, "ok") /\ c.item \in deleted'
             \/ Answered(w, c, "failed")
      BY <2>5 DEF DeleteObject, Delete
    <3>2. CASE Answered(w, c, "ok") /\ c.item \in deleted'
      BY <2>2, <3>1, <3>2 DEF IsThumbnail
    <3>3. CASE Answered(w, c, "failed")
      BY <2>2, <3>1, <3>3 DEF IsThumbnail
    <3> QED
      BY <3>1, <3>2, <3>3
  <2>6. ASSUME NEW w \in Workers, StoreThumbnail(w)
        PROVE  /\ IsThumbnail(hand'[v].claim)
               /\ hand'[v].at \in {"ok", "failed"}
               /\ hand'[v].at = "ok" => hand'[v].claim.item \in made'
    <3> DEFINE c == hand[w].claim
    <3>1. c \in Claims /\ IsThumbnail(c)
      BY <2>6, InHandFields DEF StoreThumbnail, HandWasDone
    <3>2. \/ Answered(w, c, "ok") /\ c.item \in made'
          \/ Answered(w, c, "failed")
      BY <2>6 DEF StoreThumbnail, PutThumbnail
    <3> HIDE DEF c
    <3>3. CASE Answered(w, c, "ok") /\ c.item \in made'
      BY <2>2, <3>1, <3>3 DEF IsThumbnail
    <3>4. CASE Answered(w, c, "failed")
      BY <2>2, <3>1, <3>4 DEF IsThumbnail
    <3> QED
      BY <3>2, <3>3, <3>4
  <2> QED
    BY <2>1, <2>3, <2>4, <2>5, <2>6 DEF HandMoves
<1> QED
  BY <1>3, <1>4

(* A finished row was finished before, or by a worker that did the work.   *)
LEMMA ThumbDone ==
    ASSUME TypeOK, HandWasDone, ThumbMoves, NEW p \in Photos,
           thumb'[p].status = "completed"
    PROVE  thumb[p].status = "completed" \/ p \in made
<1>0. thumb \in [Photos -> Job] /\ thumb[p] \in Job
  BY DEF TypeOK
<1>1. ASSUME NEW r \in Requests, QueueThumbnail(r)
      PROVE  thumb[p].status = "completed"
  <2>1. request[r].photo \in Photos
    BY <1>1, InProgress DEF QueueThumbnail
  <2> QED
    BY <1>0, <1>1, <2>1 DEF QueueThumbnail, Requeued, Job
<1>2. ASSUME NEW w \in Workers, NEW S \in SUBSET Photos,
             SweepThumbnails(w, S) \/ ClaimThumbnails(w, S)
      PROVE  thumb[p].status = "completed"
  <2>1. thumb'[p] \in {thumb[p], DeadLetter(thumb[p]), ClaimRow(thumb[p])}
    BY <1>2 DEF SweepThumbnails, ClaimThumbnails
  <2>2. /\ DeadLetter(thumb[p]).status = "dead_letter"
        /\ ClaimRow(thumb[p]).status = "processing"
    BY <1>0 DEF DeadLetter, ClaimRow, Job
  <2> QED
    BY <2>1, <2>2
<1>3. ASSUME NEW w \in Workers, RecordThumbnail(w)
      PROVE  thumb[p].status = "completed" \/ p \in made
  <2> DEFINE c == hand[w].claim
             outcome == hand[w].at
  <2>1. /\ c.item \in Photos
        /\ outcome = "ok" => c.item \in made
        /\ thumb' = [thumb EXCEPT ![c.item] = Finalized(@, c, outcome)]
    BY <1>3 DEF RecordThumbnail, HandWasDone, IsThumbnail
  <2> HIDE DEF c, outcome
  <2>2. CASE p = c.item /\ outcome = "ok"
    BY <2>1, <2>2
  <2>3. CASE p = c.item /\ outcome # "ok"
    BY <1>0, <2>1, <2>3 DEF Finalized, Job
  <2>4. CASE p # c.item
    BY <1>0, <2>1, <2>4
  <2> QED
    BY <2>2, <2>3, <2>4
<1>4. ASSUME NEW q \in Photos, ManageThumbnail(q)
      PROVE  thumb[p].status = "completed"
  BY <1>0, <1>4 DEF ManageThumbnail, RetryThumbnail, ResolveThumbnail, Renewed,
     Job
<1> QED
  BY <1>1, <1>2, <1>3, <1>4 DEF ThumbMoves

LEMMA DeletionDone ==
    ASSUME TypeOK, HandWasDone, DeletionMoves, NEW o \in Objects,
           deletion'[o].status = "completed"
    PROVE  deletion[o].status = "completed" \/ o \in deleted
<1>0. deletion \in [Objects -> Job] /\ deletion[o] \in Job
  BY DEF TypeOK
<1>1. ASSUME EraseEvidence PROVE deletion[o].status = "completed"
  BY <1>0, <1>1 DEF EraseEvidence, Queued, Job
<1>2. ASSUME NEW w \in Workers, NEW S \in SUBSET Objects,
             SweepDeletions(w, S) \/ ClaimDeletions(w, S)
      PROVE  deletion[o].status = "completed"
  <2>1. deletion'[o] \in {deletion[o], DeadLetter(deletion[o]), ClaimRow(deletion[o])}
    BY <1>2 DEF SweepDeletions, ClaimDeletions
  <2>2. /\ DeadLetter(deletion[o]).status = "dead_letter"
        /\ ClaimRow(deletion[o]).status = "processing"
    BY <1>0 DEF DeadLetter, ClaimRow, Job
  <2> QED
    BY <2>1, <2>2
<1>3. ASSUME NEW w \in Workers, RecordDeletion(w)
      PROVE  deletion[o].status = "completed" \/ o \in deleted
  <2> DEFINE c == hand[w].claim
             outcome == hand[w].at
  <2>1. /\ outcome = "ok" => c.item \in deleted
        /\ deletion' = [deletion EXCEPT ![c.item] = Finalized(@, c, outcome)]
    BY <1>3 DEF RecordDeletion, FinalizedDeletion, HandWasDone
  <2> HIDE DEF c, outcome
  <2>2. CASE o = c.item /\ outcome = "ok"
    BY <2>1, <2>2
  <2>3. CASE o = c.item /\ outcome # "ok"
    BY <1>0, <2>1, <2>3 DEF Finalized, Job
  <2>4. CASE o # c.item
    BY <1>0, <2>1, <2>4
  <2> QED
    BY <2>2, <2>3, <2>4
<1>4. ASSUME NEW q \in Objects, ManageDeletion(q)
      PROVE  deletion[o].status = "completed"
  BY <1>0, <1>4 DEF ManageDeletion, RetryDeletion, ResolveDeletion, Renewed, Job
<1> QED
  BY <1>1, <1>2, <1>3, <1>4 DEF DeletionMoves

LEMMA DoneStep ==
    ASSUME TypeOK, HandWasDone, CompletedWasDone, Frame
    PROVE  CompletedWasDone'
<1>1. ASSUME NEW o \in Objects, deletion'[o].status = "completed"
      PROVE  o \in deleted'
  BY <1>1, DeletionDone DEF Frame, CompletedWasDone
<1>2. ASSUME NEW p \in Photos, thumb'[p].status = "completed"
      PROVE  p \in made'
  BY <1>2, ThumbDone DEF Frame, CompletedWasDone
<1> QED
  BY <1>1, <1>2 DEF CompletedWasDone

-----------------------------------------------------------------------------
(* The objects of a photo are queued for deletion when it is erased, by    *)
(* the same transaction, and at no other time.                             *)
ErasedWithObjects ==
    \A p \in Photos : \A o \in ObjectsOf(p) :
        photo[p].erased <=> deletion[o].status # "none"

LEMMA QueuedObjectsStay ==
    ASSUME TypeOK, DeletionMoves, ~EraseEvidence, NEW o \in Objects
    PROVE  deletion'[o].status = "none" <=> deletion[o].status = "none"
<1>0. deletion \in [Objects -> Job] /\ deletion[o] \in Job
  BY DEF TypeOK
<1>1. ASSUME NEW w \in Workers, NEW S \in SUBSET Objects, SweepDeletions(w, S)
      PROVE  deletion'[o].status = "none" <=> deletion[o].status = "none"
  BY <1>0, <1>1 DEF SweepDeletions, DeadLetter, Job
<1>2. ASSUME NEW w \in Workers, NEW S \in SUBSET Objects, ClaimDeletions(w, S)
      PROVE  deletion'[o].status = "none" <=> deletion[o].status = "none"
  BY <1>0, <1>2 DEF ClaimDeletions, ClaimRow, Due, Job
<1>3. ASSUME NEW w \in Workers, RecordDeletion(w)
      PROVE  deletion'[o].status = "none" <=> deletion[o].status = "none"
  BY <1>0, <1>3 DEF RecordDeletion, FinalizedDeletion, Finalized, Job
<1>4. ASSUME NEW q \in Objects, ManageDeletion(q)
      PROVE  deletion'[o].status = "none" <=> deletion[o].status = "none"
  BY <1>0, <1>4 DEF ManageDeletion, RetryDeletion, ResolveDeletion, Retryable,
     Renewed, Job
<1> QED
  BY <1>1, <1>2, <1>3, <1>4 DEF DeletionMoves

LEMMA ErasedStep ==
    ASSUME TypeOK, ErasedWithObjects, Frame
    PROVE  ErasedWithObjects'
<1>1. SUFFICES ASSUME NEW p \in Photos, NEW o \in ObjectsOf(p)
               PROVE  photo'[p].erased <=> deletion'[o].status # "none"
  BY DEF ErasedWithObjects, ObjectsOf, Original, Thumbnail
<1>2. o \in Objects
  BY ObjectsType DEF ObjectsOf
<1>3. photo[p].erased <=> deletion[o].status # "none"
  BY DEF ErasedWithObjects
<1>4. CASE ~EraseEvidence
  <2>1. photo'[p].erased = photo[p].erased
    BY <1>4 DEF Frame, ErasedStays
  <2>2. deletion'[o].status = "none" <=> deletion[o].status = "none"
    BY <1>2, <1>4, QueuedObjectsStay DEF Frame
  <2> QED
    BY <1>3, <2>1, <2>2
<1>5. CASE EraseEvidence
  <2>1. p \in Targets <=> o \in ErasedObjects
    <3>1. ASSUME NEW q \in Targets, o \in ObjectsOf(q) PROVE q = p
      BY <3>1 DEF ObjectsOf, Original, Thumbnail
    <3> QED
      BY <3>1 DEF ErasedObjects
  <2>2. photo[p] \in Photo /\ deletion[o] \in Job
    BY <1>2 DEF TypeOK
  <2>3. CASE p \in Targets
    <3>1. photo'[p] = Tombstone(photo[p])
      BY <1>5, <2>3 DEF EraseEvidence
    <3>2. photo'[p].erased
      BY <2>2, <3>1 DEF Tombstone, Photo
    <3>3. deletion'[o] = Queued(deletion[o])
      BY <1>2, <1>5, <2>1, <2>3 DEF EraseEvidence
    <3>4. deletion'[o].status # "none"
      BY <2>2, <3>3 DEF Queued, Job
    <3> QED
      BY <3>2, <3>4
  <2>4. CASE p \notin Targets
    BY <1>2, <1>3, <1>5, <2>1, <2>4 DEF EraseEvidence
  <2> QED
    BY <2>3, <2>4
<1> QED
  BY <1>4, <1>5

-----------------------------------------------------------------------------
(* The inductive invariant.                                                *)
PhotoInv == TypeOK /\ HandWasDone /\ CompletedWasDone /\ ErasedWithObjects

LEMMA PhotoInit == Init => PhotoInv
<1>1. ASSUME Init PROVE HandWasDone /\ CompletedWasDone
  BY <1>1 DEF Init, HandWasDone, CompletedWasDone, NoJob
<1>2. ASSUME Init PROVE ErasedWithObjects
  BY <1>2, ObjectsType DEF Init, ErasedWithObjects, ObjectsOf, NoJob
<1> QED
  BY <1>1, <1>2, TypeInit DEF PhotoInv

LEMMA PhotoStep == PhotoInv /\ [Next]_vars => PhotoInv'
<1> SUFFICES ASSUME PhotoInv, [Next]_vars PROVE PhotoInv'
  OBVIOUS
<1>1. Frame
  BY StepFrame DEF PhotoInv
<1> QED
  BY <1>1, TypeStep, HandStep, DoneStep, ErasedStep DEF PhotoInv

LEMMA PhotoInvariant == Spec => []PhotoInv
BY PhotoInit, PhotoStep, PTL DEF Spec

\* Rows, requests and claims are well typed: a row is never claimed more often
\* than MaxAttempts, a thumbnail is only stored for a claim on a photo.
THEOREM TypeCorrect == Spec => []TypeOK
BY PhotoInvariant, PTL DEF PhotoInv

\* Whoever records it, a completed thumbnail job followed a write of the
\* thumbnail and a completed deletion job a delete of the object
\* (finalize_photo_processing_job records wherever the row is processing).
THEOREM DoneWasDone == Spec => []CompletedWasDone
BY PhotoInvariant, PTL DEF PhotoInv

\* Every object of an erased photo that is in the bucket is queued for deletion
\* or was deleted once: the rows are hidden and the objects queued by one
\* transaction, and no later step takes a deletion job away.
THEOREM ErasedIsQueued == Spec => []ErasedObjectIsQueued
<1>1. PhotoInv => ErasedObjectIsQueued
  BY DEF PhotoInv, ErasedWithObjects, ErasedObjectIsQueued
<1> QED
  BY <1>1, PhotoInvariant, PTL

-----------------------------------------------------------------------------
(* Both queues implement LeaseQueue: what each step shows of their rows.   *)
LEMMA StatusShown ==
    /\ StateOf("none") = "absent"
    /\ \A s \in {"queued", "failed"} : StateOf(s) = "waiting"
    /\ StateOf("processing") = "held"
    /\ StateOf("completed") = "done"
    /\ StateOf("dead_letter") = "dead"
    /\ StateOf("resolved") = "settled"
BY DEF StateOf

(* One row moves: offered (again), worked off, renewed or settled.         *)
RowMove(j, k) ==
    \/ /\ j.status \in {"none", "queued", "failed", "dead_letter", "resolved"}
       /\ k.status = "queued" /\ k.attempts = j.attempts
    \/ /\ j.status = "processing"
       /\ k.status \in {"completed", "failed", "dead_letter"}
       /\ k.attempts = j.attempts
    \/ Retryable(j) /\ k.status = "queued" /\ k.attempts = 0
    \/ Retryable(j) /\ k.status = "resolved" /\ k.attempts = j.attempts
    \/ k = j

LEMMA RowMoves ==
    ASSUME NEW j \in Job, NEW c, NEW outcome
    PROVE  /\ RowMove(j, Requeued(j))
           /\ RowMove(j, Finalized(j, c, outcome))
           /\ Retryable(j) => /\ RowMove(j, Renewed(j))
                              /\ RowMove(j, [j EXCEPT !.status = "resolved"])
<1>1. RowMove(j, Requeued(j))
  <2>1. CASE j.status \in {"completed", "processing"}
    BY <2>1 DEF RowMove, Requeued, Job
  <2>2. CASE j.status \notin {"completed", "processing"}
    BY <2>2 DEF RowMove, Requeued, Job, JobStatus
  <2> QED
    BY <2>1, <2>2
<1>2. RowMove(j, Finalized(j, c, outcome))
  BY DEF RowMove, Finalized, Job, JobStatus
<1>3. Retryable(j) => /\ RowMove(j, Renewed(j))
                      /\ RowMove(j, [j EXCEPT !.status = "resolved"])
  BY DEF RowMove, Renewed, Job
<1> QED
  BY <1>1, <1>2, <1>3

LEMMA RowsTaken ==
    ASSUME NEW j \in Job, Due(j)
    PROVE  /\ j.status \in {"queued", "failed", "processing"}
           /\ j.attempts < MaxAttempts
           /\ ClaimRow(j).status = "processing"
           /\ ClaimRow(j).attempts = j.attempts + 1
<1>1. j.attempts \in Nat /\ j.attempts < MaxAttempts
  BY LimitAssumption DEF Job, Due, Exhausted
<1>2. j.status \in {"queued", "failed", "processing"}
  BY DEF Due
<1>3. ClaimRow(j).status = "processing" /\ ClaimRow(j).attempts = j.attempts + 1
  BY DEF ClaimRow, Job
<1> QED
  BY <1>1, <1>2, <1>3

LEMMA RowsGivenUp ==
    ASSUME NEW j \in Job, Exhausted(j)
    PROVE  /\ j.attempts = MaxAttempts
           /\ DeadLetter(j).status = "dead_letter"
           /\ DeadLetter(j).attempts = j.attempts
BY LimitAssumption DEF Exhausted, DeadLetter, Job

-----------------------------------------------------------------------------
(* The thumbnail queue.                                                    *)
LEMMA ThumbnailSame ==
    ASSUME UNCHANGED thumb
    PROVE  UNCHANGED ThumbnailQueue!vars
BY DEF ThumbnailQueue!vars

LEMMA ThumbnailTake ==
    ASSUME NEW S \in SUBSET Photos,
           \A p \in S : thumb[p] \in Job /\ Due(thumb[p]),
           \A p \in S : thumb'[p] = ClaimRow(thumb[p]),
           \A p \in Photos \ S : thumb'[p] = thumb[p]
    PROVE  ThumbnailQueue!Next
<1>1. \A p \in S : /\ thumb[p].status \in {"queued", "failed", "processing"}
                  /\ thumb[p].attempts < MaxAttempts
                  /\ thumb'[p].status = "processing"
                  /\ thumb'[p].attempts = thumb[p].attempts + 1
  BY RowsTaken
<1>2. ThumbnailQueue!Take(S)
  BY <1>1, StatusShown DEF ThumbnailQueue!Take, ThumbnailQueue!Open
<1> QED
  BY <1>2 DEF ThumbnailQueue!Next

LEMMA ThumbnailGiveUp ==
    ASSUME NEW S \in SUBSET Photos,
           \A p \in S : /\ thumb[p] \in Job /\ Exhausted(thumb[p])
                       /\ thumb[p].status \in {"failed", "processing"}
                       /\ thumb'[p] = DeadLetter(thumb[p]),
           \A p \in Photos \ S : thumb'[p] = thumb[p]
    PROVE  ThumbnailQueue!Next
<1>1. \A p \in S : /\ thumb[p].status \in {"failed", "processing"}
                  /\ thumb[p].attempts = MaxAttempts
                  /\ thumb'[p].status = "dead_letter"
                  /\ thumb'[p].attempts = thumb[p].attempts
  BY RowsGivenUp
<1>2. ThumbnailQueue!GiveUp(S)
  BY <1>1, StatusShown DEF ThumbnailQueue!GiveUp, ThumbnailQueue!Open
<1> QED
  BY <1>2 DEF ThumbnailQueue!Next

LEMMA ThumbnailMoved ==
    ASSUME NEW p \in Photos, RowMove(thumb[p], thumb'[p]),
           \A y \in Photos \ {p} : thumb'[y] = thumb[y]
    PROVE  ThumbnailQueue!Next \/ UNCHANGED ThumbnailQueue!vars
<1> DEFINE j == thumb[p]
           k == thumb'[p]
<1>1. CASE j.status = "none" /\ k.status = "queued" /\ k.attempts = j.attempts
  <2>1. ThumbnailQueue!Offer({p}, {})
    BY <1>1, StatusShown DEF ThumbnailQueue!Offer
  <2> QED
    BY <2>1 DEF ThumbnailQueue!Next
<1>2. CASE /\ j.status \in {"queued", "failed", "dead_letter", "resolved"}
           /\ k.status = "queued" /\ k.attempts = j.attempts
  <2>1. ThumbnailQueue!OfferAgain({p})
    BY <1>2, StatusShown DEF ThumbnailQueue!OfferAgain
  <2> QED
    BY <2>1 DEF ThumbnailQueue!Next
<1>3. CASE /\ j.status = "processing" /\ k.status = "completed"
           /\ k.attempts = j.attempts
  <2>1. ThumbnailQueue!Finish(p)
    BY <1>3, StatusShown DEF ThumbnailQueue!Finish
  <2> QED
    BY <2>1 DEF ThumbnailQueue!Next
<1>4. CASE /\ j.status = "processing" /\ k.status \in {"failed", "dead_letter"}
           /\ k.attempts = j.attempts
  <2>1. ThumbnailQueue!Fail(p)
    BY <1>4, StatusShown DEF ThumbnailQueue!Fail
  <2> QED
    BY <2>1 DEF ThumbnailQueue!Next
<1>5. CASE Retryable(j) /\ k.status = "queued" /\ k.attempts = 0
  <2>1. ThumbnailQueue!Renew(p)
    BY <1>5, StatusShown DEF ThumbnailQueue!Renew, Retryable
  <2> QED
    BY <2>1 DEF ThumbnailQueue!Next
<1>6. CASE Retryable(j) /\ k.status = "resolved" /\ k.attempts = j.attempts
  <2>1. ThumbnailQueue!Settle(p)
    BY <1>6, StatusShown DEF ThumbnailQueue!Settle, Retryable
  <2> QED
    BY <2>1 DEF ThumbnailQueue!Next
<1>7. CASE k = j
  BY <1>7 DEF ThumbnailQueue!vars
<1> QED
  BY <1>1, <1>2, <1>3, <1>4, <1>5, <1>6, <1>7 DEF RowMove

LEMMA ThumbnailInit == Init => ThumbnailQueue!Init
<1> SUFFICES ASSUME Init PROVE ThumbnailQueue!Init
  OBVIOUS
<1>1. \A p \in Photos : thumb[p].status = "none" /\ thumb[p].attempts = 0
  BY DEF Init, NoJob
<1> QED
  BY <1>1, StatusShown DEF ThumbnailQueue!Init

LEMMA ThumbnailStep ==
    ASSUME TypeOK, ThumbMoves
    PROVE  ThumbnailQueue!Next \/ UNCHANGED ThumbnailQueue!vars
<1>0. thumb \in [Photos -> Job]
  BY DEF TypeOK
<1>1. ASSUME NEW r \in Requests, QueueThumbnail(r)
      PROVE  ThumbnailQueue!Next \/ UNCHANGED ThumbnailQueue!vars
  <2> DEFINE p == request[r].photo
  <2>1. p \in Photos
    BY <1>1, InProgress DEF QueueThumbnail
  <2>2. UNCHANGED thumb \/ thumb' = [thumb EXCEPT ![p] = Requeued(@)]
    BY <1>1 DEF QueueThumbnail
  <2> HIDE DEF p
  <2>3. CASE thumb' = [thumb EXCEPT ![p] = Requeued(@)]
    <3>1. thumb'[p] = Requeued(thumb[p])
          /\ \A y \in Photos \ {p} : thumb'[y] = thumb[y]
      BY <1>0, <2>1, <2>3
    <3>2. RowMove(thumb[p], thumb'[p])
      BY <1>0, <2>1, <3>1, RowMoves
    <3> QED
      BY <2>1, <3>1, <3>2, ThumbnailMoved
  <2> QED
    BY <2>2, <2>3, ThumbnailSame
<1>2. ASSUME NEW w \in Workers, NEW stale \in SUBSET Photos,
             SweepThumbnails(w, stale)
      PROVE  ThumbnailQueue!Next
  <2> DEFINE S == {p \in Photos : p \in stale \/ (thumb[p].status = "failed"
                                                  /\ Exhausted(thumb[p]))}
  <2>1. \A p \in S : /\ thumb[p] \in Job /\ Exhausted(thumb[p])
                     /\ thumb[p].status \in {"failed", "processing"}
                     /\ thumb'[p] = DeadLetter(thumb[p])
    BY <1>0, <1>2 DEF SweepThumbnails
  <2>2. S \in SUBSET Photos /\ \A p \in Photos \ S : thumb'[p] = thumb[p]
    BY <1>2 DEF SweepThumbnails
  <2> HIDE DEF S
  <2> QED
    BY <2>1, <2>2, ThumbnailGiveUp
<1>3. ASSUME NEW w \in Workers, NEW S \in SUBSET Photos, ClaimThumbnails(w, S)
      PROVE  ThumbnailQueue!Next
  <2>1. /\ \A p \in S : thumb[p] \in Job /\ Due(thumb[p])
        /\ \A p \in S : thumb'[p] = ClaimRow(thumb[p])
        /\ \A p \in Photos \ S : thumb'[p] = thumb[p]
    BY <1>0, <1>3 DEF ClaimThumbnails
  <2> QED
    BY <2>1, ThumbnailTake
<1>4. ASSUME NEW w \in Workers, RecordThumbnail(w)
      PROVE  ThumbnailQueue!Next \/ UNCHANGED ThumbnailQueue!vars
  <2> DEFINE c == hand[w].claim
             outcome == hand[w].at
  <2>1. c.item \in Photos
        /\ thumb' = [thumb EXCEPT ![c.item] = Finalized(@, c, outcome)]
    BY <1>4 DEF RecordThumbnail, IsThumbnail
  <2> HIDE DEF c, outcome
  <2>2. thumb'[c.item] = Finalized(thumb[c.item], c, outcome)
        /\ \A y \in Photos \ {c.item} : thumb'[y] = thumb[y]
    BY <1>0, <2>1
  <2>3. RowMove(thumb[c.item], thumb'[c.item])
    BY <1>0, <2>1, <2>2, RowMoves
  <2> QED
    BY <2>1, <2>2, <2>3, ThumbnailMoved
<1>5. ASSUME NEW p \in Photos, ManageThumbnail(p)
      PROVE  ThumbnailQueue!Next \/ UNCHANGED ThumbnailQueue!vars
  <2>1. /\ Retryable(thumb[p]) /\ \A y \in Photos \ {p} : thumb'[y] = thumb[y]
        /\ thumb'[p] \in {Renewed(thumb[p]), [thumb[p] EXCEPT !.status = "resolved"]}
    BY <1>0, <1>5 DEF ManageThumbnail, RetryThumbnail, ResolveThumbnail
  <2>2. RowMove(thumb[p], thumb'[p])
    BY <1>0, <2>1, RowMoves
  <2> QED
    BY <2>1, <2>2, ThumbnailMoved
<1> QED
  BY <1>1, <1>2, <1>3, <1>4, <1>5 DEF ThumbMoves

-----------------------------------------------------------------------------
(* The deletion queue.                                                     *)
LEMMA DeletionSame ==
    ASSUME UNCHANGED deletion
    PROVE  UNCHANGED DeletionQueue!vars
BY DEF DeletionQueue!vars

LEMMA DeletionOffer ==
    ASSUME NEW S \in SUBSET Objects,
           \A o \in S : /\ deletion[o].status = "none"
                       /\ deletion'[o].status = "queued",
           \A o \in Objects \ S : deletion'[o].status = deletion[o].status,
           \A o \in Objects : deletion'[o].attempts = deletion[o].attempts
    PROVE  DeletionQueue!Next
<1>1. DeletionQueue!Offer(S, {})
  BY StatusShown DEF DeletionQueue!Offer
<1> QED
  BY <1>1 DEF DeletionQueue!Next

LEMMA DeletionTake ==
    ASSUME NEW S \in SUBSET Objects,
           \A o \in S : deletion[o] \in Job /\ Due(deletion[o]),
           \A o \in S : deletion'[o] = ClaimRow(deletion[o]),
           \A o \in Objects \ S : deletion'[o] = deletion[o]
    PROVE  DeletionQueue!Next
<1>1. \A o \in S : /\ deletion[o].status \in {"queued", "failed", "processing"}
                  /\ deletion[o].attempts < MaxAttempts
                  /\ deletion'[o].status = "processing"
                  /\ deletion'[o].attempts = deletion[o].attempts + 1
  BY RowsTaken
<1>2. DeletionQueue!Take(S)
  BY <1>1, StatusShown DEF DeletionQueue!Take, DeletionQueue!Open
<1> QED
  BY <1>2 DEF DeletionQueue!Next

LEMMA DeletionGiveUp ==
    ASSUME NEW S \in SUBSET Objects,
           \A o \in S : /\ deletion[o] \in Job /\ Exhausted(deletion[o])
                       /\ deletion[o].status \in {"failed", "processing"}
                       /\ deletion'[o] = DeadLetter(deletion[o]),
           \A o \in Objects \ S : deletion'[o] = deletion[o]
    PROVE  DeletionQueue!Next
<1>1. \A o \in S : /\ deletion[o].status \in {"failed", "processing"}
                  /\ deletion[o].attempts = MaxAttempts
                  /\ deletion'[o].status = "dead_letter"
                  /\ deletion'[o].attempts = deletion[o].attempts
  BY RowsGivenUp
<1>2. DeletionQueue!GiveUp(S)
  BY <1>1, StatusShown DEF DeletionQueue!GiveUp, DeletionQueue!Open
<1> QED
  BY <1>2 DEF DeletionQueue!Next

LEMMA DeletionMoved ==
    ASSUME NEW o \in Objects, RowMove(deletion[o], deletion'[o]),
           \A y \in Objects \ {o} : deletion'[y] = deletion[y]
    PROVE  DeletionQueue!Next \/ UNCHANGED DeletionQueue!vars
<1> DEFINE j == deletion[o]
           k == deletion'[o]
<1>1. CASE j.status = "none" /\ k.status = "queued" /\ k.attempts = j.attempts
  <2>1. DeletionQueue!Offer({o}, {})
    BY <1>1, StatusShown DEF DeletionQueue!Offer
  <2> QED
    BY <2>1 DEF DeletionQueue!Next
<1>2. CASE /\ j.status \in {"queued", "failed", "dead_letter", "resolved"}
           /\ k.status = "queued" /\ k.attempts = j.attempts
  <2>1. DeletionQueue!OfferAgain({o})
    BY <1>2, StatusShown DEF DeletionQueue!OfferAgain
  <2> QED
    BY <2>1 DEF DeletionQueue!Next
<1>3. CASE /\ j.status = "processing" /\ k.status = "completed"
           /\ k.attempts = j.attempts
  <2>1. DeletionQueue!Finish(o)
    BY <1>3, StatusShown DEF DeletionQueue!Finish
  <2> QED
    BY <2>1 DEF DeletionQueue!Next
<1>4. CASE /\ j.status = "processing" /\ k.status \in {"failed", "dead_letter"}
           /\ k.attempts = j.attempts
  <2>1. DeletionQueue!Fail(o)
    BY <1>4, StatusShown DEF DeletionQueue!Fail
  <2> QED
    BY <2>1 DEF DeletionQueue!Next
<1>5. CASE Retryable(j) /\ k.status = "queued" /\ k.attempts = 0
  <2>1. DeletionQueue!Renew(o)
    BY <1>5, StatusShown DEF DeletionQueue!Renew, Retryable
  <2> QED
    BY <2>1 DEF DeletionQueue!Next
<1>6. CASE Retryable(j) /\ k.status = "resolved" /\ k.attempts = j.attempts
  <2>1. DeletionQueue!Settle(o)
    BY <1>6, StatusShown DEF DeletionQueue!Settle, Retryable
  <2> QED
    BY <2>1 DEF DeletionQueue!Next
<1>7. CASE k = j
  BY <1>7 DEF DeletionQueue!vars
<1> QED
  BY <1>1, <1>2, <1>3, <1>4, <1>5, <1>6, <1>7 DEF RowMove

LEMMA DeletionInit == Init => DeletionQueue!Init
<1> SUFFICES ASSUME Init PROVE DeletionQueue!Init
  OBVIOUS
<1>1. \A o \in Objects : deletion[o].status = "none" /\ deletion[o].attempts = 0
  BY DEF Init, NoJob
<1> QED
  BY <1>1, StatusShown DEF DeletionQueue!Init

LEMMA DeletionStep ==
    ASSUME TypeOK, HandWasDone, ErasedWithObjects, DeletionMoves
    PROVE  DeletionQueue!Next \/ UNCHANGED DeletionQueue!vars
<1>0. deletion \in [Objects -> Job]
  BY DEF TypeOK
<1>1. ASSUME EraseEvidence
      PROVE  DeletionQueue!Next
  <2>1. ASSUME NEW o \in ErasedObjects
        PROVE  /\ o \in Objects /\ deletion[o].status = "none"
               /\ deletion'[o].status = "queued"
               /\ deletion'[o].attempts = deletion[o].attempts
    <3>1. PICK p \in Targets : o \in ObjectsOf(p)
      BY DEF ErasedObjects
    <3>2. o \in Objects
      BY <3>1, ObjectsType DEF Targets, ObjectsOf
    <3>3. deletion[o].status = "none"
      BY <3>1 DEF Targets, ErasedWithObjects
    <3>4. deletion'[o] = Queued(deletion[o])
      BY <1>1, <3>2 DEF EraseEvidence
    <3> QED
      BY <1>0, <3>2, <3>3, <3>4 DEF Queued, Job
  <2>2. \A o \in Objects \ ErasedObjects : deletion'[o] = deletion[o]
    BY <1>1 DEF EraseEvidence
  <2> QED
    BY <2>1, <2>2, DeletionOffer
<1>2. ASSUME NEW w \in Workers, NEW S \in SUBSET Objects, SweepDeletions(w, S)
      PROVE  DeletionQueue!Next
  <2>1. /\ \A o \in S : /\ deletion[o] \in Job /\ Exhausted(deletion[o])
                        /\ deletion[o].status \in {"failed", "processing"}
                        /\ deletion'[o] = DeadLetter(deletion[o])
        /\ \A o \in Objects \ S : deletion'[o] = deletion[o]
    BY <1>0, <1>2 DEF SweepDeletions
  <2> QED
    BY <2>1, DeletionGiveUp
<1>3. ASSUME NEW w \in Workers, NEW S \in SUBSET Objects, ClaimDeletions(w, S)
      PROVE  DeletionQueue!Next
  <2>1. /\ \A o \in S : deletion[o] \in Job /\ Due(deletion[o])
        /\ \A o \in S : deletion'[o] = ClaimRow(deletion[o])
        /\ \A o \in Objects \ S : deletion'[o] = deletion[o]
    BY <1>0, <1>3 DEF ClaimDeletions
  <2> QED
    BY <2>1, DeletionTake
<1>4. ASSUME NEW w \in Workers, RecordDeletion(w)
      PROVE  DeletionQueue!Next \/ UNCHANGED DeletionQueue!vars
  <2> DEFINE c == hand[w].claim
             outcome == hand[w].at
  <2>1. c.item \in Objects
        /\ deletion' = [deletion EXCEPT ![c.item] = Finalized(@, c, outcome)]
    BY <1>4, InHandFields DEF RecordDeletion, FinalizedDeletion, IsThumbnail
  <2> HIDE DEF c, outcome
  <2>2. deletion'[c.item] = Finalized(deletion[c.item], c, outcome)
        /\ \A y \in Objects \ {c.item} : deletion'[y] = deletion[y]
    BY <1>0, <2>1
  <2>3. RowMove(deletion[c.item], deletion'[c.item])
    BY <1>0, <2>1, <2>2, RowMoves
  <2> QED
    BY <2>1, <2>2, <2>3, DeletionMoved
<1>5. ASSUME NEW o \in Objects, ManageDeletion(o)
      PROVE  DeletionQueue!Next \/ UNCHANGED DeletionQueue!vars
  <2>1. /\ Retryable(deletion[o])
        /\ \A y \in Objects \ {o} : deletion'[y] = deletion[y]
        /\ deletion'[o] \in {Renewed(deletion[o]),
                             [deletion[o] EXCEPT !.status = "resolved"]}
    BY <1>0, <1>5 DEF ManageDeletion, RetryDeletion, ResolveDeletion
  <2>2. RowMove(deletion[o], deletion'[o])
    BY <1>0, <2>1, RowMoves
  <2> QED
    BY <2>1, <2>2, DeletionMoved
<1> QED
  BY <1>1, <1>2, <1>3, <1>4, <1>5 DEF DeletionMoves

\* Both work queues, with lost leases, late answers, sweeps, repeated uploads
\* and manual retries, implement the queue protocol of LeaseQueue: a completed
\* job is never worked on again and no job is tried more than MaxAttempts times
\* between two renewals.
THEOREM ImplementQueues == Spec => QueuesKeepPromise
<1>1. PhotoInv /\ [Next]_vars => [ThumbnailQueue!Next]_(ThumbnailQueue!vars)
  BY StepFrame, ThumbnailStep, ThumbnailSame DEF PhotoInv, Frame
<1>2. PhotoInv /\ [Next]_vars => [DeletionQueue!Next]_(DeletionQueue!vars)
  BY StepFrame, DeletionStep, DeletionSame DEF PhotoInv, Frame
<1>3. Spec => ThumbnailQueue!Spec
  BY <1>1, ThumbnailInit, PhotoInvariant, PTL DEF Spec, ThumbnailQueue!Spec
<1>4. Spec => DeletionQueue!Spec
  BY <1>2, DeletionInit, PhotoInvariant, PTL DEF Spec, DeletionQueue!Spec
<1> QED
  BY <1>3, <1>4 DEF QueuesKeepPromise
=============================================================================

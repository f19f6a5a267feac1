---------------------- MODULE NotificationOutbox_proofs ---------------------
(***************************************************************************)
(* TLAPS proofs about NotificationOutbox.                                  *)
(***************************************************************************)
EXTENDS NotificationOutbox, TLAPS

(* What the updates of one row keep of its type.                           *)
LEMMA NewRowType ==
    ASSUME NEW e \in Entities
    PROVE  NewRow(e) \in Row
BY LimitAssumption DEF NewRow, Row, Status

LEMMA SkipType ==
    ASSUME NEW r \in Row, NEW b
    PROVE  SkipPending(r, b) \in Row
BY DEF SkipPending, Row, Status

LEMMA DeadType ==
    ASSUME NEW r \in Row
    PROVE  [r EXCEPT !.dead = TRUE] \in Row
BY DEF Row

LEMMA DeadLetterType ==
    ASSUME NEW r \in Row
    PROVE  [r EXCEPT !.status = "dead_letter", !.stale = FALSE] \in Row
BY DEF Row, Status

LEMMA ClaimedType ==
    ASSUME NEW r \in Row, Claimable(r)
    PROVE  /\ [r EXCEPT !.status = "sending", !.attempts = @ + 1,
                        !.stale = FALSE] \in Row
           /\ r.attempts + 1 \in 1..MaxAttempts
<1>1. r.attempts \in Nat /\ r.attempts + 1 <= MaxAttempts
  BY LimitAssumption DEF Row, Claimable
<1>2. r.attempts + 1 \in 0..MaxAttempts /\ r.attempts + 1 \in 1..MaxAttempts
  BY <1>1, LimitAssumption
<1> QED  BY <1>2 DEF Row, Status

LEMMA RecordedType ==
    ASSUME NEW r \in Row, NEW a
    PROVE  Recorded(r, a) \in Row
BY DEF Recorded, MarkSent, MarkFailed, Row, Status

LEMMA RetriedType ==
    ASSUME NEW r \in Row
    PROVE  [r EXCEPT !.status = "queued", !.attempts = 0, !.available = TRUE] \in Row
<1>1. 0 \in 0..MaxAttempts
  BY LimitAssumption
<1> QED  BY <1>1 DEF Row, Status

LEMMA ResolvedType ==
    ASSUME NEW r \in Row
    PROVE  [r EXCEPT !.status = "resolved", !.available = TRUE] \in Row
BY DEF Row, Status

LEMMA TimedType ==
    ASSUME NEW r \in Row
    PROVE  /\ [r EXCEPT !.available = TRUE] \in Row
           /\ [r EXCEPT !.stale = TRUE] \in Row
BY DEF Row

-----------------------------------------------------------------------------
(* Type correctness.                                                       *)

LEMMA TypeInit == Init => TypeOK
<1> SUFFICES ASSUME Init PROVE TypeOK
  OBVIOUS
<1>1. row \in [Notifications -> Row]
  BY LimitAssumption DEF Init, Row, Status
<1> QED  BY <1>1 DEF Init, TypeOK

LEMMA TypeNext == TypeOK /\ [Next]_vars => TypeOK'
<1> SUFFICES ASSUME TypeOK, [Next]_vars PROVE TypeOK'
  OBVIOUS
<1> USE DEF TypeOK
<1>1. ASSUME NEW n \in Notifications, NEW e \in Entities, Enqueue(n, e)
      PROVE  TypeOK'
  <2>1. NewRow(e) \in Row
    BY NewRowType
  <2> HIDE DEF Row, NewRow
  <2> QED  BY <1>1, <2>1 DEF Enqueue, workerVars, historyVars
<1>2. ASSUME NEW n \in Notifications, NEW b \in Bids, ReviseBid(n, b)
      PROVE  TypeOK'
  <2>1. NewRow(b) \in Row
    BY NewRowType, EntityAssumption
  <2>2. \A m \in Notifications : SkipPending(row[m], b) \in Row
    BY SkipType
  <2> QED  BY <1>2, <2>1, <2>2 DEF ReviseBid, workerVars, historyVars
<1>3. ASSUME NEW b \in Bids, RevokeBid(b)
      PROVE  TypeOK'
  <2>1. \A m \in Notifications : SkipPending(row[m], b) \in Row
    BY SkipType
  <2>2. \A m \in Notifications :
          [SkipPending(row[m], b) EXCEPT !.dead = TRUE] \in Row
    BY <2>1, DeadType
  <2> QED  BY <1>3, <2>2 DEF RevokeBid, workerVars, historyVars
<1>4. ASSUME NEW w \in Workers, DeadLetterExhausted(w)
      PROVE  TypeOK'
  <2>1. \A m \in Notifications :
          [row[m] EXCEPT !.status = "dead_letter", !.stale = FALSE] \in Row
    BY DeadLetterType
  <2> QED  BY <1>4, <2>1 DEF DeadLetterExhausted, workerVars, historyVars
<1>5. ASSUME NEW w \in Workers, ClaimBatch(w)
      PROVE  TypeOK'
  <2>1. PICK S \in SUBSET {n \in Notifications : Claimable(row[n])} :
          /\ row' = [n \in Notifications |->
                       IF n \in S
                       THEN [row[n] EXCEPT !.status = "sending",
                                           !.attempts = @ + 1,
                                           !.stale = FALSE]
                       ELSE row[n]]
          /\ batch' = [batch EXCEPT ![w] = {<<n, row[n].attempts + 1>> : n \in S}]
    BY <1>5 DEF ClaimBatch
  <2>2. \A n \in S :
          /\ [row[n] EXCEPT !.status = "sending", !.attempts = @ + 1,
                            !.stale = FALSE] \in Row
          /\ row[n].attempts + 1 \in 1..MaxAttempts
    BY <2>1, ClaimedType
  <2>3. row' \in [Notifications -> Row]
    BY <2>1, <2>2
  <2>4. {<<n, row[n].attempts + 1>> : n \in S} \in SUBSET Claims
    <3>1. \A n \in S : n \in Notifications
      BY <2>1
    <3>2. \A n \in S : <<n, row[n].attempts + 1>> \in Claims
      BY <3>1, <2>2 DEF Claims
    <3> QED  BY <3>2
  <2>5. batch' \in [Workers -> SUBSET Claims]
    BY <2>1, <2>4
  <2> QED  BY <1>5, <2>3, <2>5 DEF ClaimBatch, historyVars
<1>6. ASSUME NEW w \in Workers, PostStep(w)
      PROVE  TypeOK'
  <2>1. PICK c \in Claims, ok \in BOOLEAN : PostWebhook(w, c, ok)
    BY <1>6 DEF PostStep
  <2>2. [claim |-> c, ok |-> ok] \in Answer
    BY DEF Answer
  <2>3. answer' \in [Workers -> Answer \cup {NoOne}]
    BY <2>1, <2>2 DEF PostWebhook
  <2>4. batch' \in [Workers -> SUBSET Claims]
    BY <2>1 DEF PostWebhook
  <2>5. posts' \in [Notifications -> Nat]
    <3>1. c[1] \in Notifications
      BY DEF Claims
    <3>2. posts' = [posts EXCEPT ![c[1]] = @ + 1]
      BY <2>1 DEF PostWebhook
    <3> QED  BY <3>1, <3>2
  <2> QED  BY <2>1, <2>3, <2>4, <2>5 DEF PostWebhook
<1>7. ASSUME NEW w \in Workers, RecordAnswer(w)
      PROVE  TypeOK'
  <2>1. row' \in [Notifications -> Row]
    <3> DEFINE n == answer[w].claim[1]
    <3>1. \A m \in Notifications : Recorded(row[m], answer[w]) \in Row
      BY RecordedType
    <3> QED  BY <1>7, <3>1 DEF RecordAnswer
  <2> QED  BY <1>7, <2>1 DEF RecordAnswer, historyVars
<1>8. ASSUME NEW w \in Workers, EndCycle(w)
      PROVE  TypeOK'
  BY <1>8 DEF EndCycle, historyVars
<1>9. ASSUME NEW n \in Notifications, RetryFailed(n)
      PROVE  TypeOK'
  <2>1. [row[n] EXCEPT !.status = "queued", !.attempts = 0, !.available = TRUE] \in Row
    BY RetriedType
  <2>2. row' \in [Notifications -> Row]
    BY <1>9, <2>1 DEF RetryFailed
  <2> QED  BY <1>9, <2>2 DEF RetryFailed, workerVars, historyVars
<1>10. ASSUME NEW n \in Notifications, ResolveFailed(n)
       PROVE  TypeOK'
  <2>1. [row[n] EXCEPT !.status = "resolved", !.available = TRUE] \in Row
    BY ResolvedType
  <2> QED  BY <1>10, <2>1 DEF ResolveFailed, workerVars, historyVars
<1>11. ASSUME NEW n \in Notifications, BecomeAvailable(n)
       PROVE  TypeOK'
  <2>1. [row[n] EXCEPT !.available = TRUE] \in Row
    BY TimedType
  <2> QED  BY <1>11, <2>1 DEF BecomeAvailable, workerVars, historyVars
<1>12. ASSUME NEW n \in Notifications, LeaseRunsOut(n)
       PROVE  TypeOK'
  <2>1. [row[n] EXCEPT !.stale = TRUE] \in Row
    BY TimedType
  <2> QED  BY <1>12, <2>1 DEF LeaseRunsOut, workerVars
<1>13. CASE UNCHANGED vars
  BY <1>13 DEF vars, workerVars, historyVars
<1> QED
  BY <1>1, <1>2, <1>3, <1>4, <1>5, <1>6, <1>7, <1>8, <1>9, <1>10, <1>11, <1>12, <1>13
     DEF Next, BusinessStep, DispatcherStep, ManagerStep, TimeStep

\* Every reachable state of the outbox is well typed: no row is attempted more
\* often than the limit of claim_batch and no claim is for a later attempt.
THEOREM TypeCorrect == Spec => []TypeOK
<1> QED  BY TypeInit, TypeNext, PTL DEF Spec

-----------------------------------------------------------------------------
(* What is settled stays settled.                                          *)

Settled == {"sent", "skipped", "resolved"}
SettledKept ==
    \A n \in Notifications :
        row[n].status \in Settled => row'[n].status = row[n].status

LEMMA SettledStep == TypeOK /\ [Next]_vars => SettledKept
<1> SUFFICES ASSUME TypeOK, [Next]_vars, NEW m \in Notifications,
                    row[m].status \in Settled
             PROVE  row'[m].status = row[m].status
  BY DEF SettledKept
<1>0. row \in [Notifications -> Row]
  BY DEF TypeOK
<1>a. row[m] \in Row
  BY <1>0
<1>1. ASSUME NEW n \in Notifications, NEW e \in Entities, Enqueue(n, e)
      PROVE  row'[m].status = row[m].status
  <2>1. n # m
    BY <1>1 DEF Enqueue, Settled
  <2> QED  BY <1>0, <1>1, <2>1 DEF Enqueue
<1>2. ASSUME NEW n \in Notifications, NEW b \in Bids, ReviseBid(n, b)
      PROVE  row'[m].status = row[m].status
  <2>1. n # m
    BY <1>2 DEF ReviseBid, Settled
  <2>2. SkipPending(row[m], b) = row[m]
    BY DEF SkipPending, Pending, Settled
  <2> QED  BY <1>2, <2>1, <2>2 DEF ReviseBid
<1>3. ASSUME NEW b \in Bids, RevokeBid(b)
      PROVE  row'[m].status = row[m].status
  <2>1. SkipPending(row[m], b) = row[m]
    BY DEF SkipPending, Pending, Settled
  <2>2. [row[m] EXCEPT !.dead = TRUE].status = row[m].status
    BY <1>a DEF Row
  <2> QED  BY <1>3, <2>1, <2>2 DEF RevokeBid
<1>4. ASSUME NEW w \in Workers, DeadLetterExhausted(w)
      PROVE  row'[m].status = row[m].status
  <2>1. ~Exhausted(row[m])
    BY DEF Exhausted, Settled
  <2> QED  BY <1>4, <2>1 DEF DeadLetterExhausted
<1>5. ASSUME NEW w \in Workers, ClaimBatch(w)
      PROVE  row'[m].status = row[m].status
  <2>1. ~Claimable(row[m])
    BY DEF Claimable, Settled
  <2> QED  BY <1>5, <2>1 DEF ClaimBatch
<1>6. ASSUME NEW w \in Workers, PostStep(w) \/ EndCycle(w)
      PROVE  row'[m].status = row[m].status
  BY <1>6 DEF PostStep, PostWebhook, EndCycle
<1>7. ASSUME NEW w \in Workers, RecordAnswer(w)
      PROVE  row'[m].status = row[m].status
  <2> DEFINE n == answer[w].claim[1]
  <2>1. CASE row[n].status = "sending"
    <3>1. n # m
      BY <2>1 DEF Settled
    <3> QED  BY <1>0, <1>7, <2>1, <3>1 DEF RecordAnswer
  <2>2. CASE row[n].status # "sending"
    BY <1>7, <2>2 DEF RecordAnswer
  <2> QED  BY <2>1, <2>2
<1>8. ASSUME NEW n \in Notifications, RetryFailed(n) \/ ResolveFailed(n)
      PROVE  row'[m].status = row[m].status
  <2>1. n # m
    BY <1>8 DEF RetryFailed, ResolveFailed, Retryable, Settled
  <2> QED  BY <1>0, <1>8, <2>1 DEF RetryFailed, ResolveFailed
<1>9. ASSUME NEW n \in Notifications, BecomeAvailable(n) \/ LeaseRunsOut(n)
      PROVE  row'[m].status = row[m].status
  <2>1. n # m
    BY <1>9 DEF BecomeAvailable, LeaseRunsOut, Settled
  <2> QED  BY <1>0, <1>9, <2>1 DEF BecomeAvailable, LeaseRunsOut
<1>10. CASE UNCHANGED vars
  BY <1>10 DEF vars
<1> QED
  BY <1>1, <1>2, <1>3, <1>4, <1>5, <1>6, <1>7, <1>8, <1>9, <1>10
     DEF Next, BusinessStep, DispatcherStep, ManagerStep, TimeStep

\* A notification that was sent, skipped or resolved is never moved again by the
\* late mark_sent or mark_failed of a dispatcher that lost its lease.
THEOREM SettledForGood == Spec => SettledStays
<1>1. TypeOK /\ [Next]_vars
      => [\A n \in Notifications :
            row[n].status \in {"sent", "skipped", "resolved"}
            => row'[n].status = row[n].status]_vars
  BY SettledStep DEF SettledKept, Settled
<1> QED  BY <1>1, TypeCorrect, PTL DEF Spec, SettledStays

-----------------------------------------------------------------------------
(* Nobody gives up early.  The attempt a dispatcher reports is the one its  *)
(* claim was made for, and that never exceeds the row's own count until a   *)
(* manager resets it.                                                       *)

Held(w) == batch[w] \cup (IF answer[w] = NoOne THEN {} ELSE {answer[w].claim})

Untouched == \A n \in Notifications : row[n].status = "none" => row[n].attempts = 0
CountedFor(n) == \A w \in Workers : \A c \in Held(w) :
                    c[1] = n => c[2] <= row[n].attempts
ClaimsCounted == \A n \in Notifications : retries[n] = 0 => CountedFor(n)
LimitInv == Untouched /\ ClaimsCounted /\ DeadLetterIsExhausted

(* A dispatcher that posts, records or stops holds nothing new.            *)
LEMMA HeldShrinks ==
    ASSUME NEW w \in Workers, TypeOK,
           PostStep(w) \/ RecordAnswer(w) \/ EndCycle(w)
    PROVE  \A v \in Workers : Held(v)' \subseteq Held(v)
<1> SUFFICES ASSUME NEW v \in Workers PROVE Held(v)' \subseteq Held(v)
  OBVIOUS
<1>0. batch \in [Workers -> SUBSET Claims] /\ DOMAIN answer = Workers
  BY DEF TypeOK
<1>1. CASE PostStep(w)
  <2>1. PICK c \in Claims, ok \in BOOLEAN : PostWebhook(w, c, ok)
    BY <1>1 DEF PostStep
  <2>2. CASE v = w
    <3>1. answer'[v] = [claim |-> c, ok |-> ok] /\ batch'[v] = batch[v] \ {c}
      BY <1>0, <2>1, <2>2 DEF PostWebhook
    <3>2. c \in batch[v]
      BY <2>1, <2>2 DEF PostWebhook
    <3> QED  BY <3>1, <3>2 DEF Held
  <2>3. CASE v # w
    <3>1. answer'[v] = answer[v] /\ batch'[v] = batch[v]
      BY <1>0, <2>1, <2>3 DEF PostWebhook
    <3> QED  BY <3>1 DEF Held
  <2> QED  BY <2>2, <2>3
<1>2. CASE RecordAnswer(w)
  <2>1. batch'[v] = batch[v] /\ answer'[v] \in {NoOne, answer[v]}
    BY <1>0, <1>2 DEF RecordAnswer
  <2> QED  BY <2>1 DEF Held
<1>3. CASE EndCycle(w)
  <2>1. batch'[v] \subseteq batch[v] /\ answer'[v] \in {NoOne, answer[v]}
    BY <1>0, <1>3 DEF EndCycle
  <2> QED  BY <2>1 DEF Held
<1> QED  BY <1>1, <1>2, <1>3

LEMMA HeldSame ==
    ASSUME UNCHANGED workerVars
    PROVE  \A v \in Workers : Held(v)' = Held(v)
BY DEF workerVars, Held

(* A step that keeps the manual retries and no row's attempts decrease.    *)
LEMMA CountsKept ==
    ASSUME TypeOK, LimitInv, UNCHANGED retries,
           \A v \in Workers : Held(v)' \subseteq Held(v),
           \A n \in Notifications : /\ row'[n].attempts \in Nat
                                    /\ row'[n].attempts >= row[n].attempts
    PROVE  ClaimsCounted'
<1> SUFFICES ASSUME NEW n \in Notifications, retries'[n] = 0,
                    NEW w \in Workers, NEW c \in Held(w)', c[1] = n
             PROVE  c[2] <= row'[n].attempts
  BY DEF ClaimsCounted, CountedFor
<1>1. c \in Held(w) /\ retries[n] = 0
  OBVIOUS
<1>2. c[2] <= row[n].attempts
  BY <1>1 DEF LimitInv, ClaimsCounted, CountedFor
<1>3. row[n].attempts \in Nat
  BY LimitAssumption DEF TypeOK, Row
<1>4. c \in Claims
  <2>1. batch[w] \subseteq Claims
    BY DEF TypeOK
  <2>2. answer[w] # NoOne => answer[w].claim \in Claims
    BY DEF TypeOK, Answer
  <2> QED  BY <1>1, <2>1, <2>2 DEF Held
<1>5. c[2] \in Nat
  BY <1>4, LimitAssumption DEF Claims
<1> QED  BY <1>2, <1>3, <1>5

LEMMA AttemptsNat ==
    ASSUME TypeOK'
    PROVE  \A n \in Notifications : row'[n].attempts \in Nat
BY LimitAssumption DEF TypeOK, Row

(* What LimitInv asks of one row, when its attempts may only grow.         *)
RowOK(m) ==
    /\ row'[m].attempts >= row[m].attempts
    /\ row'[m].status = "none" => row'[m].attempts = 0
    /\ row'[m].status = "dead_letter" /\ retries'[m] = 0
       => row'[m].attempts = MaxAttempts

LEMMA RowsOK ==
    ASSUME TypeOK, TypeOK', LimitInv, UNCHANGED retries,
           \A v \in Workers : Held(v)' \subseteq Held(v),
           \A m \in Notifications : RowOK(m)
    PROVE  LimitInv'
<1>1. \A n \in Notifications : row'[n].attempts \in Nat
  BY AttemptsNat
<1>2. \A n \in Notifications : row'[n].attempts >= row[n].attempts
  BY DEF RowOK
<1>3. ClaimsCounted'
  BY <1>1, <1>2, CountsKept
<1> QED  BY <1>3 DEF RowOK, LimitInv, Untouched, DeadLetterIsExhausted

(* A row keeps RowOK when its status and its attempts stay.                *)
LEMMA SameRow ==
    ASSUME TypeOK, LimitInv, UNCHANGED retries, NEW m \in Notifications,
           row'[m].status \in {row[m].status, "skipped", "resolved", "sent"},
           row'[m].attempts = row[m].attempts
    PROVE  RowOK(m)
<1>1. row[m].attempts \in Nat
  BY LimitAssumption DEF TypeOK, Row
<1> QED  BY <1>1 DEF RowOK, LimitInv, Untouched, DeadLetterIsExhausted

LEMMA NewRowOK ==
    ASSUME TypeOK, LimitInv, NEW m \in Notifications, NEW e,
           row[m].status = "none", row'[m] = NewRow(e)
    PROVE  RowOK(m)
<1>1. row[m].attempts = 0
  BY DEF LimitInv, Untouched
<1>2. row'[m].attempts = 0 /\ row'[m].status = "queued"
  BY DEF NewRow
<1> QED  BY <1>1, <1>2 DEF RowOK

LEMMA SkipKeeps ==
    ASSUME NEW r \in Row, NEW b
    PROVE  /\ SkipPending(r, b).status \in {r.status, "skipped"}
           /\ SkipPending(r, b).attempts = r.attempts
BY DEF SkipPending, Row

LEMMA LimitInit == Init => LimitInv
<1> SUFFICES ASSUME Init PROVE LimitInv
  OBVIOUS
<1>1. \A w \in Workers : Held(w) = {}
  BY DEF Init, Held
<1> QED  BY <1>1 DEF Init, LimitInv, Untouched, ClaimsCounted, CountedFor,
                     DeadLetterIsExhausted

LEMMA LimitNext == TypeOK /\ TypeOK' /\ LimitInv /\ [Next]_vars => LimitInv'
<1> SUFFICES ASSUME TypeOK, TypeOK', LimitInv, [Next]_vars PROVE LimitInv'
  OBVIOUS
<1>0. row \in [Notifications -> Row]
  BY DEF TypeOK
<1>1. ASSUME NEW n \in Notifications, NEW e \in Entities, Enqueue(n, e)
      PROVE  LimitInv'
  <2>1. UNCHANGED <<workerVars, retries>>
    BY <1>1 DEF Enqueue
  <2>2. RowOK(n)
    BY <1>0, <1>1, NewRowOK DEF Enqueue
  <2>3. \A m \in Notifications \ {n} : RowOK(m)
    BY <1>0, <1>1, SameRow DEF Enqueue
  <2> QED  BY <2>1, <2>2, <2>3, HeldSame, RowsOK
<1>2. ASSUME NEW n \in Notifications, NEW b \in Bids, ReviseBid(n, b)
      PROVE  LimitInv'
  <2>1. UNCHANGED <<workerVars, retries>>
    BY <1>2 DEF ReviseBid
  <2>2. RowOK(n)
    BY <1>2, NewRowOK DEF ReviseBid
  <2>3. ASSUME NEW m \in Notifications \ {n} PROVE RowOK(m)
    <3>1. row'[m] = SkipPending(row[m], b)
      BY <1>2, <2>3 DEF ReviseBid
    <3>2. /\ row'[m].status \in {row[m].status, "skipped"}
          /\ row'[m].attempts = row[m].attempts
      BY <1>0, <3>1, SkipKeeps
    <3> QED  BY <2>1, <3>2, SameRow
  <2> QED  BY <2>1, <2>2, <2>3, HeldSame, RowsOK
<1>3. ASSUME NEW b \in Bids, RevokeBid(b)
      PROVE  LimitInv'
  <2>1. UNCHANGED <<workerVars, retries>>
    BY <1>3 DEF RevokeBid
  <2>2. ASSUME NEW m \in Notifications PROVE RowOK(m)
    <3>1. row'[m] \in {row[m], [SkipPending(row[m], b) EXCEPT !.dead = TRUE]}
      BY <1>3 DEF RevokeBid
    <3>2. SkipPending(row[m], b) \in Row
      BY <1>0, SkipType
    <3>3. /\ [SkipPending(row[m], b) EXCEPT !.dead = TRUE].status
             = SkipPending(row[m], b).status
          /\ [SkipPending(row[m], b) EXCEPT !.dead = TRUE].attempts
             = SkipPending(row[m], b).attempts
      BY <3>2 DEF Row
    <3>4. /\ row'[m].status \in {row[m].status, "skipped"}
          /\ row'[m].attempts = row[m].attempts
      BY <1>0, <3>1, <3>3, SkipKeeps
    <3> QED  BY <2>1, <3>4, SameRow
  <2> QED  BY <2>1, <2>2, HeldSame, RowsOK
<1>4. ASSUME NEW w \in Workers, DeadLetterExhausted(w)
      PROVE  LimitInv'
  <2>1. UNCHANGED <<workerVars, retries>>
    BY <1>4 DEF DeadLetterExhausted
  <2>2. ASSUME NEW m \in Notifications PROVE RowOK(m)
    <3>1. row[m] \in Row /\ row[m].attempts \in 0..MaxAttempts
      BY <1>0 DEF Row
    <3>2. CASE Exhausted(row[m])
      <4>1. row'[m].status = "dead_letter" /\ row'[m].attempts = row[m].attempts
        BY <1>4, <3>1, <3>2 DEF DeadLetterExhausted, Row
      <4>2. row[m].attempts = MaxAttempts
        BY <3>1, <3>2, LimitAssumption DEF Exhausted
      <4> QED  BY <4>1, <4>2, LimitAssumption DEF RowOK
    <3>3. CASE ~Exhausted(row[m])
      <4>1. row'[m] = row[m]
        BY <1>4, <3>3 DEF DeadLetterExhausted
      <4> QED  BY <2>1, <4>1, SameRow
    <3> QED  BY <3>2, <3>3
  <2> QED  BY <2>1, <2>2, HeldSame, RowsOK
<1>5. ASSUME NEW w \in Workers, ClaimBatch(w)
      PROVE  LimitInv'
  <2>1. PICK S \in SUBSET {n \in Notifications : Claimable(row[n])} :
          /\ row' = [n \in Notifications |->
                       IF n \in S
                       THEN [row[n] EXCEPT !.status = "sending",
                                           !.attempts = @ + 1,
                                           !.stale = FALSE]
                       ELSE row[n]]
          /\ batch' = [batch EXCEPT ![w] = {<<n, row[n].attempts + 1>> : n \in S}]
    BY <1>5 DEF ClaimBatch
  <2>2. UNCHANGED <<answer, retries>> /\ answer[w] = NoOne
    BY <1>5 DEF ClaimBatch, Idle
  <2>3. ASSUME NEW m \in S
        PROVE  /\ m \in Notifications
               /\ row'[m].status = "sending"
               /\ row'[m].attempts = row[m].attempts + 1
    <3>1. m \in Notifications /\ row[m] \in Row
      BY <1>0, <2>1
    <3> QED  BY <2>1, <3>1 DEF Row
  <2>4. ASSUME NEW m \in Notifications PROVE RowOK(m)
    <3>1. row[m].attempts \in Nat
      BY <1>0, LimitAssumption DEF Row
    <3>2. CASE m \in S
      BY <2>3, <3>1, <3>2 DEF RowOK
    <3>3. CASE m \notin S
      <4>1. row'[m] = row[m]
        BY <2>1, <3>3
      <4> QED  BY <2>2, <4>1, SameRow
    <3> QED  BY <3>2, <3>3
  <2>5. ASSUME NEW m \in Notifications, retries'[m] = 0,
               NEW v \in Workers, NEW c \in Held(v)', c[1] = m
        PROVE  c[2] <= row'[m].attempts
    <3>1. CASE v = w
      <4>1. batch'[v] = {<<n, row[n].attempts + 1>> : n \in S} /\ answer'[v] = NoOne
        BY <2>1, <2>2, <3>1 DEF TypeOK
      <4>2. c \in {<<n, row[n].attempts + 1>> : n \in S}
        BY <4>1 DEF Held
      <4>3. m \in S /\ c[2] = row[m].attempts + 1
        BY <2>5, <4>2
      <4>4. row'[m].attempts \in Nat
        BY AttemptsNat
      <4> QED  BY <2>3, <4>3, <4>4
    <3>2. CASE v # w
      <4>1. batch'[v] = batch[v] /\ answer'[v] = answer[v]
        BY <2>1, <2>2, <3>2 DEF TypeOK
      <4>2. c \in Held(v)
        BY <4>1 DEF Held
      <4>3. c[2] <= row[m].attempts
        BY <2>2, <2>5, <4>2 DEF LimitInv, ClaimsCounted, CountedFor
      <4>4. c \in Claims
        <5>1. batch[v] \subseteq Claims
          BY DEF TypeOK
        <5>2. answer[v] # NoOne => answer[v].claim \in Claims
          BY DEF TypeOK, Answer
        <5> QED  BY <4>2, <5>1, <5>2 DEF Held
      <4>5. c[2] \in Nat /\ row[m].attempts \in Nat /\ row'[m].attempts \in Nat
        BY <1>0, <4>4, AttemptsNat, LimitAssumption DEF Claims, Row
      <4>6. row'[m].attempts >= row[m].attempts
        BY <2>4 DEF RowOK
      <4> QED  BY <4>3, <4>5, <4>6
    <3> QED  BY <3>1, <3>2
  <2>6. ClaimsCounted'
    BY <2>5 DEF ClaimsCounted, CountedFor
  <2> QED  BY <2>4, <2>6 DEF RowOK, LimitInv, Untouched, DeadLetterIsExhausted
<1>6. ASSUME NEW w \in Workers, PostStep(w) \/ EndCycle(w)
      PROVE  LimitInv'
  <2>1. UNCHANGED <<row, retries>>
    BY <1>6 DEF PostStep, PostWebhook, EndCycle
  <2>2. \A m \in Notifications : RowOK(m)
    BY <2>1, SameRow
  <2> QED  BY <1>6, <2>1, <2>2, HeldShrinks, RowsOK
<1>7. ASSUME NEW w \in Workers, RecordAnswer(w)
      PROVE  LimitInv'
  <2> DEFINE n == answer[w].claim[1]
  <2>1. UNCHANGED retries
    BY <1>7 DEF RecordAnswer
  <2>2. answer[w] \in Answer /\ answer[w].claim \in Claims
    BY <1>7 DEF RecordAnswer, TypeOK, Answer
  <2>3. n \in Notifications /\ answer[w].claim[2] \in 1..MaxAttempts
    BY <2>2 DEF Claims
  <2>4. answer[w].claim \in Held(w)
    BY <1>7 DEF RecordAnswer, Held
  <2>5. ASSUME NEW m \in Notifications PROVE RowOK(m)
    <3>1. CASE m = n /\ row[n].status = "sending"
      <4>1. row'[m] = Recorded(row[m], answer[w])
        BY <1>0, <1>7, <3>1 DEF RecordAnswer
      <4>2. row[m] \in Row
        BY <1>0
      <4>3. row[m].attempts \in 0..MaxAttempts
        BY <4>2 DEF Row
      <4>4. row'[m].attempts = row[m].attempts /\ row'[m].status # "none"
        BY <4>1, <4>2 DEF Recorded, MarkSent, MarkFailed, Row
      <4>5. row'[m].status = "dead_letter" => answer[w].claim[2] >= MaxAttempts
        BY <4>1, <4>2 DEF Recorded, MarkSent, MarkFailed, Row
      <4>6. retries'[m] = 0 => answer[w].claim[2] <= row[m].attempts
        BY <2>1, <2>4, <3>1 DEF LimitInv, ClaimsCounted, CountedFor
      <4> QED  BY <2>3, <4>3, <4>4, <4>5, <4>6, LimitAssumption DEF RowOK
    <3>2. CASE ~(m = n /\ row[n].status = "sending")
      <4>1. row'[m] = row[m]
        BY <1>0, <1>7, <3>2 DEF RecordAnswer
      <4> QED  BY <2>1, <4>1, SameRow
    <3> QED  BY <3>1, <3>2
  <2> QED  BY <1>7, <2>1, <2>5, HeldShrinks, RowsOK
<1>8. ASSUME NEW n \in Notifications, RetryFailed(n)
      PROVE  LimitInv'
  <2>1. retries'[n] # 0
    <3>1. retries'[n] = retries[n] + 1 /\ retries[n] \in Nat
      BY <1>8 DEF RetryFailed, TypeOK
    <3> QED  BY <3>1
  <2>2. row'[n].status = "queued" /\ UNCHANGED workerVars
    BY <1>0, <1>8 DEF RetryFailed, Row
  <2>3. \A m \in Notifications \ {n} : row'[m] = row[m] /\ retries'[m] = retries[m]
    BY <1>0, <1>8 DEF RetryFailed, TypeOK
  <2>4. Untouched' /\ DeadLetterIsExhausted'
    BY <2>1, <2>2, <2>3 DEF LimitInv, Untouched, DeadLetterIsExhausted
  <2>5. ClaimsCounted'
    BY <2>1, <2>2, <2>3, HeldSame DEF LimitInv, ClaimsCounted, CountedFor
  <2> QED  BY <2>4, <2>5 DEF LimitInv
<1>9. ASSUME NEW n \in Notifications,
             ResolveFailed(n) \/ BecomeAvailable(n) \/ LeaseRunsOut(n)
      PROVE  LimitInv'
  <2>1. UNCHANGED <<workerVars, retries>>
    BY <1>9 DEF ResolveFailed, BecomeAvailable, LeaseRunsOut
  <2>2. ASSUME NEW m \in Notifications
        PROVE  /\ row'[m].status \in {row[m].status, "resolved"}
               /\ row'[m].attempts = row[m].attempts
    BY <1>0, <1>9 DEF ResolveFailed, BecomeAvailable, LeaseRunsOut, Row
  <2>3. \A m \in Notifications : RowOK(m)
    BY <2>1, <2>2, SameRow
  <2> QED  BY <2>1, <2>3, HeldSame, RowsOK
<1>10. CASE UNCHANGED vars
  <2>1. UNCHANGED <<row, workerVars, retries>>
    BY <1>10 DEF vars
  <2>2. \A m \in Notifications : RowOK(m)
    BY <2>1, SameRow
  <2> QED  BY <2>1, <2>2, HeldSame, RowsOK
<1> QED
  BY <1>1, <1>2, <1>3, <1>4, <1>5, <1>6, <1>7, <1>8, <1>9, <1>10
     DEF Next, BusinessStep, DispatcherStep, ManagerStep, TimeStep

\* A dead letter that no manager has retried used every attempt it was allowed,
\* whatever late failures were recorded over newer claims.
THEOREM NobodyGivesUpEarly == Spec => []DeadLetterIsExhausted
<1>1. LimitInv => DeadLetterIsExhausted
  BY DEF LimitInv
<1> QED  BY <1>1, LimitInit, LimitNext, TypeCorrect, PTL DEF Spec

-----------------------------------------------------------------------------
(* One holder per lease.  While no lease of a notification ran out, its row *)
(* is sending, or was skipped, as long as a dispatcher holds a claim on it; *)
(* a dispatcher takes several claims in one statement, of different rows.   *)

Holds(w, n) == \E c \in Held(w) : c[1] = n
OneEach ==
    \A w \in Workers :
        /\ \A c, d \in batch[w] : c[1] = d[1] => c = d
        /\ answer[w] # NoOne => \A c \in batch[w] : c[1] # answer[w].claim[1]
LeaseOf(n) ==
    /\ ~row[n].stale
    /\ \A w \in Workers : Holds(w, n) => row[n].status \in {"sending", "skipped"}
    /\ \A v, w \in Workers : Holds(v, n) /\ Holds(w, n) => v = w
LeaseInv == OneEach /\ \A n \in Notifications \ lapsed : LeaseOf(n)

LEMMA HolderAgrees == LeaseInv => OneHolderPerLease
<1> SUFFICES ASSUME LeaseInv, NEW n \in Notifications \ lapsed,
                    NEW v \in Workers, NEW w \in Workers,
                    \/ \E c \in batch[v] : c[1] = n
                    \/ answer[v] # NoOne /\ answer[v].claim[1] = n,
                    \/ \E c \in batch[w] : c[1] = n
                    \/ answer[w] # NoOne /\ answer[w].claim[1] = n
             PROVE  v = w
  BY DEF OneHolderPerLease
<1>1. Holds(v, n) /\ Holds(w, n)
  BY DEF Holds, Held
<1> QED  BY <1>1 DEF LeaseInv, LeaseOf

LEMMA LeaseInit == Init => LeaseInv
<1> SUFFICES ASSUME Init PROVE LeaseInv
  OBVIOUS
<1>1. \A w \in Workers : Held(w) = {} /\ batch[w] = {} /\ answer[w] = NoOne
  BY DEF Init, Held
<1> QED  BY <1>1 DEF Init, LeaseInv, LeaseOf, OneEach, Holds

(* A step that gives nobody a claim, and moves only a row no one holds, or  *)
(* skips one.                                                               *)
LEMMA LeaseKept ==
    ASSUME LeaseInv, OneEach', lapsed \subseteq lapsed',
           \A v \in Workers : Held(v)' \subseteq Held(v),
           \A n \in Notifications \ lapsed' :
              /\ ~row'[n].stale
              /\ \/ row'[n].status \in {row[n].status, "skipped"}
                 \/ \A v \in Workers : ~Holds(v, n)'
    PROVE  LeaseInv'
<1> SUFFICES ASSUME NEW n \in Notifications \ lapsed' PROVE LeaseOf(n)'
  BY DEF LeaseInv
<1>1. LeaseOf(n)
  BY DEF LeaseInv
<1>2. \A v \in Workers : Holds(v, n)' => Holds(v, n)
  BY DEF Holds
<1> QED  BY <1>1, <1>2 DEF LeaseOf

LEMMA OneEachSame ==
    ASSUME LeaseInv, UNCHANGED workerVars
    PROVE  OneEach'
BY DEF LeaseInv, OneEach, workerVars

(* A row that is neither sending nor skipped is held by nobody.            *)
LEMMA FreeRow ==
    ASSUME LeaseInv, NEW n \in Notifications \ lapsed,
           row[n].status \notin {"sending", "skipped"}
    PROVE  \A v \in Workers : ~Holds(v, n)
BY DEF LeaseInv, LeaseOf

LEMMA HoldsSame ==
    ASSUME UNCHANGED workerVars, NEW n
    PROVE  \A v \in Workers : Holds(v, n)' = Holds(v, n)
BY HeldSame DEF Holds

LEMMA LeaseNext == TypeOK /\ TypeOK' /\ LeaseInv /\ [Next]_vars => LeaseInv'
<1> SUFFICES ASSUME TypeOK, TypeOK', LeaseInv, [Next]_vars PROVE LeaseInv'
  OBVIOUS
<1>0. row \in [Notifications -> Row]
  BY DEF TypeOK
<1>a. \A n \in Notifications \ lapsed : ~row[n].stale
  BY DEF LeaseInv, LeaseOf
<1>1. ASSUME NEW n \in Notifications, NEW e \in Entities, Enqueue(n, e)
      PROVE  LeaseInv'
  <2>1. UNCHANGED <<workerVars, lapsed>>
    BY <1>1 DEF Enqueue, historyVars
  <2>2. ASSUME NEW m \in Notifications \ lapsed'
        PROVE  /\ ~row'[m].stale
               /\ row'[m].status = row[m].status \/ \A v \in Workers : ~Holds(v, m)'
    <3>1. CASE m = n
      <4>1. row[m].status = "none" /\ row'[m] = NewRow(e)
        BY <1>0, <1>1, <3>1 DEF Enqueue
      <4>2. \A v \in Workers : ~Holds(v, m)
        BY <2>1, <4>1, FreeRow
      <4> QED  BY <2>1, <4>1, <4>2, HoldsSame DEF NewRow
    <3>2. CASE m # n
      BY <1>0, <1>a, <1>1, <2>1, <3>2 DEF Enqueue
    <3> QED  BY <3>1, <3>2
  <2> QED  BY <2>1, <2>2, HeldSame, OneEachSame, LeaseKept
<1>2. ASSUME NEW n \in Notifications, NEW b \in Bids, ReviseBid(n, b)
      PROVE  LeaseInv'
  <2>1. UNCHANGED <<workerVars, lapsed>>
    BY <1>2 DEF ReviseBid, historyVars
  <2>2. ASSUME NEW m \in Notifications \ lapsed'
        PROVE  /\ ~row'[m].stale
               /\ \/ row'[m].status \in {row[m].status, "skipped"}
                  \/ \A v \in Workers : ~Holds(v, m)'
    <3>1. CASE m = n
      <4>1. row[m].status = "none" /\ row'[m] = NewRow(b)
        BY <1>2, <3>1 DEF ReviseBid
      <4>2. \A v \in Workers : ~Holds(v, m)
        BY <2>1, <4>1, FreeRow
      <4> QED  BY <2>1, <4>1, <4>2, HoldsSame DEF NewRow
    <3>2. CASE m # n
      <4>1. row'[m] = SkipPending(row[m], b) /\ row[m] \in Row /\ ~row[m].stale
        BY <1>0, <1>a, <1>2, <2>1, <3>2 DEF ReviseBid
      <4> QED  BY <4>1 DEF SkipPending, Row
    <3> QED  BY <3>1, <3>2
  <2> QED  BY <2>1, <2>2, HeldSame, OneEachSame, LeaseKept
<1>3. ASSUME NEW b \in Bids, RevokeBid(b)
      PROVE  LeaseInv'
  <2>1. UNCHANGED <<workerVars, lapsed>>
    BY <1>3 DEF RevokeBid, historyVars
  <2>2. ASSUME NEW m \in Notifications \ lapsed'
        PROVE  /\ ~row'[m].stale
               /\ row'[m].status \in {row[m].status, "skipped"}
    <3>1. row'[m] \in {row[m], [SkipPending(row[m], b) EXCEPT !.dead = TRUE]}
      BY <1>3 DEF RevokeBid
    <3>2. row[m] \in Row /\ ~row[m].stale
      BY <1>0, <1>a, <2>1
    <3>3. /\ ~SkipPending(row[m], b).stale
          /\ SkipPending(row[m], b).status \in {row[m].status, "skipped"}
          /\ SkipPending(row[m], b) \in Row
      BY <3>2, SkipType DEF SkipPending, Row
    <3> QED  BY <3>1, <3>2, <3>3 DEF Row
  <2> QED  BY <2>1, <2>2, HeldSame, OneEachSame, LeaseKept
<1>4. ASSUME NEW w \in Workers, DeadLetterExhausted(w)
      PROVE  LeaseInv'
  <2>1. UNCHANGED <<workerVars, lapsed>>
    BY <1>4 DEF DeadLetterExhausted, historyVars
  <2>2. ASSUME NEW m \in Notifications \ lapsed'
        PROVE  /\ ~row'[m].stale
               /\ row'[m].status = row[m].status \/ \A v \in Workers : ~Holds(v, m)'
    <3>1. row[m] \in Row /\ ~row[m].stale
      BY <1>0, <1>a, <2>1
    <3>2. CASE Exhausted(row[m])
      <4>1. row[m].status = "failed"
        BY <3>1, <3>2 DEF Exhausted
      <4>2. \A v \in Workers : ~Holds(v, m)
        BY <2>1, <4>1, FreeRow
      <4>3. ~row'[m].stale
        BY <1>4, <3>1, <3>2 DEF DeadLetterExhausted, Row
      <4> QED  BY <2>1, <4>2, <4>3, HoldsSame
    <3>3. CASE ~Exhausted(row[m])
      BY <1>4, <3>1, <3>3 DEF DeadLetterExhausted
    <3> QED  BY <3>2, <3>3
  <2> QED  BY <2>1, <2>2, HeldSame, OneEachSame, LeaseKept
<1>5. ASSUME NEW w \in Workers, ClaimBatch(w)
      PROVE  LeaseInv'
  <2>1. PICK S \in SUBSET {n \in Notifications : Claimable(row[n])} :
          /\ row' = [n \in Notifications |->
                       IF n \in S
                       THEN [row[n] EXCEPT !.status = "sending",
                                           !.attempts = @ + 1,
                                           !.stale = FALSE]
                       ELSE row[n]]
          /\ batch' = [batch EXCEPT ![w] = {<<n, row[n].attempts + 1>> : n \in S}]
    BY <1>5 DEF ClaimBatch
  <2>2. UNCHANGED <<answer, lapsed>> /\ answer[w] = NoOne /\ batch[w] = {}
    BY <1>5 DEF ClaimBatch, Idle, historyVars
  <2>3. batch'[w] = {<<n, row[n].attempts + 1>> : n \in S}
    BY <2>1 DEF TypeOK
  <2>4. \A v \in Workers \ {w} : batch'[v] = batch[v] /\ answer'[v] = answer[v]
    BY <2>1, <2>2 DEF TypeOK
  <2>5. OneEach'
    <3>1. \A c, d \in batch'[w] : c[1] = d[1] => c = d
      BY <2>3
    <3> QED  BY <2>2, <2>4, <3>1 DEF LeaseInv, OneEach
  <2>6. ASSUME NEW m \in Notifications \ lapsed' PROVE LeaseOf(m)'
    <3>1. Holds(w, m)' <=> m \in S
      <4>1. Held(w)' = {<<n, row[n].attempts + 1>> : n \in S}
        BY <2>2, <2>3 DEF Held
      <4> DEFINE claims == {<<n, row[n].attempts + 1>> : n \in S}
      <4>2. (\E c \in claims : c[1] = m) <=> m \in S
        <5>1. ASSUME NEW c \in claims, c[1] = m PROVE m \in S
          <6>1. PICK n \in S : c = <<n, row[n].attempts + 1>>
            OBVIOUS
          <6> QED  BY <5>1, <6>1
        <5>2. ASSUME m \in S PROVE \E c \in claims : c[1] = m
          <6>1. <<m, row[m].attempts + 1>> \in claims
            BY <5>2
          <6> QED  BY <6>1
        <5> QED  BY <5>1, <5>2
      <4>3. Holds(w, m)' <=> \E c \in Held(w)' : c[1] = m
        BY DEF Holds
      <4> QED  BY <4>1, <4>2, <4>3
    <3>2. \A v \in Workers \ {w} : Holds(v, m)' <=> Holds(v, m)
      BY <2>4 DEF Holds, Held
    <3>3. LeaseOf(m) /\ row[m] \in Row
      BY <1>0, <2>2 DEF LeaseInv
    <3>4. CASE m \in S
      <4>1. row[m].status \notin {"sending", "skipped"}
        BY <2>1, <3>3, <3>4 DEF LeaseOf, Claimable
      <4>2. \A v \in Workers \ {w} : ~Holds(v, m)'
        BY <2>2, <3>2, <4>1, FreeRow
      <4>3. row'[m].status = "sending" /\ ~row'[m].stale
        BY <2>1, <3>3, <3>4 DEF Row
      <4> QED  BY <4>2, <4>3 DEF LeaseOf
    <3>5. CASE m \notin S
      <4>1. row'[m] = row[m]
        BY <2>1, <3>5
      <4> QED  BY <3>1, <3>2, <3>3, <3>5, <4>1 DEF LeaseOf
    <3> QED  BY <3>4, <3>5
  <2> QED  BY <2>5, <2>6 DEF LeaseInv
<1>6. ASSUME NEW w \in Workers, PostStep(w)
      PROVE  LeaseInv'
  <2>1. PICK c \in Claims, ok \in BOOLEAN : PostWebhook(w, c, ok)
    BY <1>6 DEF PostStep
  <2>2. UNCHANGED <<row, lapsed>> /\ c \in batch[w]
    BY <2>1 DEF PostWebhook
  <2>3. answer'[w] = [claim |-> c, ok |-> ok] /\ batch'[w] = batch[w] \ {c}
    BY <2>1 DEF PostWebhook, TypeOK
  <2>4. \A v \in Workers \ {w} : batch'[v] = batch[v] /\ answer'[v] = answer[v]
    BY <2>1 DEF PostWebhook, TypeOK
  <2>5. OneEach'
    <3>1. \A d, e \in batch'[w] : d[1] = e[1] => d = e
      BY <2>3 DEF LeaseInv, OneEach
    <3>2. \A d \in batch'[w] : d[1] # answer'[w].claim[1]
      BY <2>2, <2>3 DEF LeaseInv, OneEach
    <3> QED  BY <2>4, <3>1, <3>2 DEF LeaseInv, OneEach
  <2> QED  BY <1>6, <1>a, <2>2, <2>5, HeldShrinks, LeaseKept
<1>7. ASSUME NEW w \in Workers, RecordAnswer(w)
      PROVE  LeaseInv'
  <2> DEFINE n == answer[w].claim[1]
  <2>1. UNCHANGED <<batch, lapsed>> /\ answer[w] # NoOne
    BY <1>7 DEF RecordAnswer, historyVars
  <2>2. answer'[w] = NoOne
    BY <1>7 DEF RecordAnswer, TypeOK
  <2>3. \A v \in Workers \ {w} : answer'[v] = answer[v]
    BY <1>7 DEF RecordAnswer, TypeOK
  <2>4. OneEach'
    BY <2>1, <2>2, <2>3 DEF LeaseInv, OneEach
  <2>5. \A v \in Workers : Held(v)' \subseteq Held(v)
    BY <1>7, HeldShrinks
  <2>6. ASSUME NEW m \in Notifications \ lapsed'
        PROVE  /\ ~row'[m].stale
               /\ row'[m].status = row[m].status \/ \A v \in Workers : ~Holds(v, m)'
    <3>1. row[m] \in Row /\ ~row[m].stale /\ LeaseOf(m)
      BY <1>0, <1>a, <2>1 DEF LeaseInv
    <3>2. CASE m = n /\ row[n].status = "sending"
      <4>1. row'[m] = Recorded(row[m], answer[w])
        BY <1>0, <1>7, <3>2 DEF RecordAnswer
      <4>2. ~row'[m].stale
        BY <3>1, <4>1 DEF Recorded, MarkSent, MarkFailed, Row
      <4>3. Holds(w, m)
        BY <2>1, <3>2 DEF Holds, Held
      <4>4. ~Holds(w, m)'
        <5>1. Held(w)' = batch[w]
          BY <2>1, <2>2 DEF Held
        <5>2. \A c \in batch[w] : c[1] # m
          BY <2>1, <3>2 DEF LeaseInv, OneEach
        <5> QED  BY <5>1, <5>2 DEF Holds
      <4>5. \A v \in Workers \ {w} : ~Holds(v, m)'
        <5>1. \A v \in Workers \ {w} : ~Holds(v, m)
          BY <3>1, <4>3 DEF LeaseOf
        <5> QED  BY <2>5, <5>1 DEF Holds
      <4> QED  BY <4>2, <4>4, <4>5
    <3>3. CASE ~(m = n /\ row[n].status = "sending")
      BY <1>0, <1>7, <3>1, <3>3 DEF RecordAnswer
    <3> QED  BY <3>2, <3>3
  <2> QED  BY <2>1, <2>4, <2>5, <2>6, LeaseKept
<1>8. ASSUME NEW w \in Workers, EndCycle(w)
      PROVE  LeaseInv'
  <2>1. UNCHANGED <<row, lapsed>>
    BY <1>8 DEF EndCycle, historyVars
  <2>2. batch'[w] = {} /\ answer'[w] = NoOne
    BY <1>8 DEF EndCycle, TypeOK
  <2>3. \A v \in Workers \ {w} : batch'[v] = batch[v] /\ answer'[v] = answer[v]
    BY <1>8 DEF EndCycle, TypeOK
  <2>4. OneEach'
    BY <2>2, <2>3 DEF LeaseInv, OneEach
  <2> QED  BY <1>8, <1>a, <2>1, <2>4, HeldShrinks, LeaseKept
<1>9. ASSUME NEW n \in Notifications,
             RetryFailed(n) \/ ResolveFailed(n) \/ BecomeAvailable(n)
      PROVE  LeaseInv'
  <2>1. UNCHANGED <<workerVars, lapsed>>
    BY <1>9 DEF RetryFailed, ResolveFailed, BecomeAvailable, historyVars
  <2>2. ASSUME NEW m \in Notifications \ lapsed'
        PROVE  /\ ~row'[m].stale
               /\ row'[m].status = row[m].status \/ \A v \in Workers : ~Holds(v, m)'
    <3>1. row[m] \in Row /\ ~row[m].stale
      BY <1>0, <1>a, <2>1
    <3>2. CASE m = n
      <4>1. row[m].status \notin {"sending", "skipped"}
        BY <1>9, <3>2 DEF RetryFailed, ResolveFailed, BecomeAvailable, Retryable
      <4>2. \A v \in Workers : ~Holds(v, m)
        BY <2>1, <4>1, FreeRow
      <4>3. ~row'[m].stale
        BY <1>0, <1>9, <3>1, <3>2 DEF RetryFailed, ResolveFailed, BecomeAvailable, Row
      <4> QED  BY <2>1, <4>2, <4>3, HoldsSame
    <3>3. CASE m # n
      BY <1>0, <1>9, <3>1, <3>3 DEF RetryFailed, ResolveFailed, BecomeAvailable
    <3> QED  BY <3>2, <3>3
  <2> QED  BY <2>1, <2>2, HeldSame, OneEachSame, LeaseKept
<1>10. ASSUME NEW n \in Notifications, LeaseRunsOut(n)
       PROVE  LeaseInv'
  <2>1. UNCHANGED workerVars /\ lapsed' = lapsed \cup {n}
    BY <1>10 DEF LeaseRunsOut
  <2>2. \A m \in Notifications \ lapsed' : row'[m] = row[m]
    BY <1>0, <1>10, <2>1 DEF LeaseRunsOut
  <2> QED  BY <1>a, <2>1, <2>2, HeldSame, OneEachSame, LeaseKept
<1>11. CASE UNCHANGED vars
  <2>1. UNCHANGED <<row, workerVars, lapsed>>
    BY <1>11 DEF vars, historyVars
  <2> QED  BY <1>a, <2>1, HeldSame, OneEachSame, LeaseKept
<1> QED
  BY <1>1, <1>2, <1>3, <1>4, <1>5, <1>6, <1>7, <1>8, <1>9, <1>10, <1>11
     DEF Next, BusinessStep, DispatcherStep, ManagerStep, TimeStep

\* Two dispatchers have claims on one notification only after its lease ran out:
\* FOR UPDATE SKIP LOCKED and the lease test of claim_batch keep them apart.
THEOREM SingleHolder == Spec => []OneHolderPerLease
<1> QED  BY LeaseInit, LeaseNext, HolderAgrees, TypeCorrect, PTL DEF Spec

-----------------------------------------------------------------------------
(* The outbox implements the abstract work queue: every statement of a     *)
(* transaction, a dispatcher or a manager is one operation of the queue on *)
(* the rows it writes, or leaves what the queue sees of them alone.        *)

LEMMA StatusShown ==
    /\ QueueState("none") = "absent"
    /\ \A s \in {"queued", "failed"} : QueueState(s) = "waiting"
    /\ QueueState("sending") = "held"
    /\ QueueState("sent") = "done"
    /\ QueueState("dead_letter") = "dead"
    /\ \A s \in {"skipped", "resolved"} : QueueState(s) = "settled"
BY DEF QueueState

LEMMA QueueInit == Init => Queue!Init
<1> SUFFICES ASSUME Init PROVE Queue!Init
  OBVIOUS
<1>1. \A n \in Notifications : row[n].status = "none" /\ row[n].attempts = 0
  BY DEF Init
<1> QED
  BY <1>1, StatusShown DEF Queue!Init

LEMMA NothingShown ==
    ASSUME \A n \in Notifications :
              /\ QueueState(row'[n].status) = QueueState(row[n].status)
              /\ row'[n].attempts = row[n].attempts
    PROVE  UNCHANGED Queue!vars
BY DEF Queue!vars

LEMMA OffersRows ==
    ASSUME NEW New \in SUBSET Notifications, NEW Old \in SUBSET Notifications,
           New \cap Old = {},
           \A n \in New : row[n].status = "none" /\ row'[n].status = "queued",
           \A n \in Old : row[n].status \in Pending /\ row'[n].status = "skipped",
           \A n \in Notifications \ (New \cup Old) : row'[n].status = row[n].status,
           \A n \in Notifications : row'[n].attempts = row[n].attempts
    PROVE  Queue!Next
<1>1. Queue!Offer(New, Old)
  BY StatusShown DEF Queue!Offer, Queue!Open, Pending
<1> QED
  BY <1>1 DEF Queue!Next

LEMMA TakesRows ==
    ASSUME NEW S \in SUBSET Notifications,
           \A n \in S : /\ row[n].status \in Pending
                        /\ row[n].attempts < MaxAttempts
                        /\ row'[n].status = "sending"
                        /\ row'[n].attempts = row[n].attempts + 1,
           \A n \in Notifications \ S : row'[n] = row[n]
    PROVE  Queue!Next
<1>1. Queue!Take(S)
  BY StatusShown DEF Queue!Take, Queue!Open, Pending
<1> QED
  BY <1>1 DEF Queue!Next

LEMMA GivesUpRows ==
    ASSUME NEW S \in SUBSET Notifications,
           \A n \in S : /\ row[n].status \in Pending
                        /\ row[n].attempts = MaxAttempts
                        /\ row'[n].status = "dead_letter"
                        /\ row'[n].attempts = row[n].attempts,
           \A n \in Notifications \ S : row'[n] = row[n]
    PROVE  Queue!Next
<1>1. Queue!GiveUp(S)
  BY StatusShown DEF Queue!GiveUp, Queue!Open, Pending
<1> QED
  BY <1>1 DEF Queue!Next

(* One row moves from one status to another.                               *)
LEMMA MovesRow ==
    ASSUME NEW n \in Notifications,
           \A m \in Notifications \ {n} : row'[m] = row[m],
           \/ /\ row[n].status = "sending"
              /\ row'[n].status \in {"sent", "failed", "dead_letter"}
              /\ row'[n].attempts = row[n].attempts
           \/ /\ row[n].status \in Retryable
              /\ row'[n].status = "queued" /\ row'[n].attempts = 0
           \/ /\ row[n].status \in Retryable
              /\ row'[n].status = "resolved"
              /\ row'[n].attempts = row[n].attempts
    PROVE  Queue!Next
<1>1. CASE /\ row[n].status = "sending" /\ row'[n].status = "sent"
           /\ row'[n].attempts = row[n].attempts
  <2>1. Queue!Finish(n)
    BY <1>1, StatusShown DEF Queue!Finish
  <2> QED
    BY <2>1 DEF Queue!Next
<1>2. CASE /\ row[n].status = "sending"
           /\ row'[n].status \in {"failed", "dead_letter"}
           /\ row'[n].attempts = row[n].attempts
  <2>1. Queue!Fail(n)
    BY <1>2, StatusShown DEF Queue!Fail
  <2> QED
    BY <2>1 DEF Queue!Next
<1>3. CASE /\ row[n].status \in Retryable
           /\ row'[n].status = "queued" /\ row'[n].attempts = 0
  <2>1. Queue!Renew(n)
    BY <1>3, StatusShown DEF Queue!Renew, Retryable
  <2> QED
    BY <2>1 DEF Queue!Next
<1>4. CASE /\ row[n].status \in Retryable
           /\ row'[n].status = "resolved"
           /\ row'[n].attempts = row[n].attempts
  <2>1. Queue!Settle(n)
    BY <1>4, StatusShown DEF Queue!Settle, Retryable
  <2> QED
    BY <2>1 DEF Queue!Next
<1> QED
  BY <1>1, <1>2, <1>3, <1>4

LEMMA SkipShown ==
    ASSUME NEW r \in Row, NEW b
    PROVE  /\ SkipPending(r, b).attempts = r.attempts
           /\ SkipPending(r, b).status =
                 IF r.entity = b /\ r.status \in Pending THEN "skipped" ELSE r.status
BY DEF SkipPending, Row

LEMMA QueueStep ==
    TypeOK /\ Untouched /\ [Next]_vars => Queue!Next \/ UNCHANGED Queue!vars
<1> SUFFICES ASSUME TypeOK, Untouched, [Next]_vars
             PROVE  Queue!Next \/ UNCHANGED Queue!vars
  OBVIOUS
<1>0. row \in [Notifications -> Row]
  BY DEF TypeOK
<1>1. ASSUME NEW n \in Notifications, NEW e \in Entities, Enqueue(n, e)
      PROVE  Queue!Next
  <2>1. /\ row[n].status = "none" /\ row[n].attempts = 0
        /\ row'[n].status = "queued" /\ row'[n].attempts = 0
        /\ \A m \in Notifications \ {n} : row'[m] = row[m]
    BY <1>0, <1>1 DEF Enqueue, NewRow, Untouched
  <2> QED
    BY <2>1, OffersRows, {n} \cap {} = {}, {n} \in SUBSET Notifications
<1>2. ASSUME NEW n \in Notifications, NEW b \in Bids, ReviseBid(n, b)
      PROVE  Queue!Next
  <2> DEFINE Old == {m \in Notifications \ {n} :
                        row[m].entity = b /\ row[m].status \in Pending}
  <2>1. /\ row[n].status = "none" /\ row[n].attempts = 0
        /\ row'[n].status = "queued" /\ row'[n].attempts = 0
        /\ \A m \in Notifications \ {n} : row'[m] = SkipPending(row[m], b)
    BY <1>2 DEF ReviseBid, NewRow, Untouched
  <2>2. \A m \in Notifications \ {n} :
           /\ row'[m].attempts = row[m].attempts
           /\ row'[m].status = IF m \in Old THEN "skipped" ELSE row[m].status
    BY <1>0, <2>1, SkipShown
  <2>3. {n} \cap Old = {} /\ {n} \in SUBSET Notifications
        /\ Old \in SUBSET Notifications /\ \A m \in Old : row[m].status \in Pending
    OBVIOUS
  <2> HIDE DEF Old
  <2> QED
    BY <2>1, <2>2, <2>3, OffersRows
<1>3. ASSUME NEW b \in Bids, RevokeBid(b)
      PROVE  Queue!Next
  <2> DEFINE Old == {m \in Notifications :
                        row[m].entity = b /\ row[m].status \in Pending}
  <2>1. ASSUME NEW m \in Notifications
        PROVE  /\ row'[m].attempts = row[m].attempts
               /\ row'[m].status = IF m \in Old THEN "skipped" ELSE row[m].status
    <3>1. row[m] \in Row /\ SkipPending(row[m], b) \in Row
      BY <1>0, SkipType
    <3>2. LET new == [SkipPending(row[m], b) EXCEPT !.dead = TRUE]
          IN /\ new.attempts = SkipPending(row[m], b).attempts
             /\ new.status = SkipPending(row[m], b).status
      BY <3>1 DEF Row
    <3> QED
      BY <1>3, <3>1, <3>2, SkipShown DEF RevokeBid
  <2>2. Old \in SUBSET Notifications /\ \A m \in Old : row[m].status \in Pending
    OBVIOUS
  <2> HIDE DEF Old
  <2> QED
    BY <2>1, <2>2, OffersRows, {} \cap Old = {}
<1>4. ASSUME NEW w \in Workers, DeadLetterExhausted(w)
      PROVE  Queue!Next
  <2> DEFINE S == {n \in Notifications : Exhausted(row[n])}
  <2>1. ASSUME NEW n \in S
        PROVE  /\ row[n].status \in Pending
               /\ row[n].attempts = MaxAttempts
               /\ row'[n].status = "dead_letter"
               /\ row'[n].attempts = row[n].attempts
    <3>1. row[n] \in Row /\ row[n].attempts >= MaxAttempts
          /\ row[n].status \in {"failed", "sending"}
      BY <1>0 DEF Exhausted
    <3>2. row[n].attempts = MaxAttempts
      BY <3>1, LimitAssumption DEF Row
    <3>3. row'[n] = [row[n] EXCEPT !.status = "dead_letter", !.stale = FALSE]
      BY <1>4 DEF DeadLetterExhausted
    <3> QED
      BY <3>1, <3>2, <3>3 DEF Row, Pending
  <2>2. \A n \in Notifications \ S : row'[n] = row[n]
    BY <1>4 DEF DeadLetterExhausted
  <2>3. S \in SUBSET Notifications
    OBVIOUS
  <2> HIDE DEF S
  <2> QED
    BY <2>1, <2>2, <2>3, GivesUpRows
<1>5. ASSUME NEW w \in Workers, ClaimBatch(w)
      PROVE  Queue!Next
  <2>1. PICK S \in SUBSET {n \in Notifications : Claimable(row[n])} :
          row' = [n \in Notifications |->
                    IF n \in S
                    THEN [row[n] EXCEPT !.status = "sending",
                                        !.attempts = @ + 1,
                                        !.stale = FALSE]
                    ELSE row[n]]
    BY <1>5 DEF ClaimBatch
  <2>2. ASSUME NEW n \in S
        PROVE  /\ row[n].status \in Pending
               /\ row[n].attempts < MaxAttempts
               /\ row'[n].status = "sending"
               /\ row'[n].attempts = row[n].attempts + 1
    <3>1. row[n] \in Row /\ Claimable(row[n])
      BY <1>0, <2>1
    <3>2. row'[n] = [row[n] EXCEPT !.status = "sending", !.attempts = @ + 1,
                                   !.stale = FALSE]
      BY <2>1
    <3> QED
      BY <3>1, <3>2 DEF Row, Claimable, Pending
  <2>3. S \in SUBSET Notifications /\ \A n \in Notifications \ S : row'[n] = row[n]
    BY <2>1
  <2> QED
    BY <2>2, <2>3, TakesRows
<1>6. ASSUME NEW w \in Workers, PostStep(w) \/ EndCycle(w)
      PROVE  UNCHANGED Queue!vars
  <2>1. UNCHANGED row
    BY <1>6 DEF PostStep, PostWebhook, EndCycle
  <2> QED
    BY <2>1, NothingShown
<1>7. ASSUME NEW w \in Workers, RecordAnswer(w)
      PROVE  Queue!Next \/ UNCHANGED Queue!vars
  <2> DEFINE n == answer[w].claim[1]
  <2>1. CASE row[n].status = "sending" /\ n \in Notifications
    <3>1. row'[n] = Recorded(row[n], answer[w])
          /\ \A m \in Notifications \ {n} : row'[m] = row[m]
      BY <1>0, <1>7, <2>1 DEF RecordAnswer
    <3>2. /\ row'[n].status \in {"sent", "failed", "dead_letter"}
          /\ row'[n].attempts = row[n].attempts
      BY <1>0, <2>1, <3>1 DEF Recorded, MarkSent, MarkFailed, Row
    <3> HIDE DEF n
    <3> QED
      BY <2>1, <3>1, <3>2, MovesRow
  <2>2. CASE row[n].status # "sending" \/ n \notin Notifications
    <3>1. UNCHANGED row
      BY <1>0, <1>7, <2>2 DEF RecordAnswer
    <3> QED
      BY <3>1, NothingShown
  <2> QED
    BY <2>1, <2>2
<1>8. ASSUME NEW n \in Notifications, RetryFailed(n) \/ ResolveFailed(n)
      PROVE  Queue!Next
  <2>1. /\ row[n].status \in Retryable
        /\ \A m \in Notifications \ {n} : row'[m] = row[m]
    BY <1>0, <1>8 DEF RetryFailed, ResolveFailed
  <2>2. \/ row'[n].status = "queued" /\ row'[n].attempts = 0
        \/ row'[n].status = "resolved" /\ row'[n].attempts = row[n].attempts
    BY <1>0, <1>8 DEF RetryFailed, ResolveFailed, Row
  <2> QED
    BY <2>1, <2>2, MovesRow
<1>9. ASSUME NEW n \in Notifications, BecomeAvailable(n) \/ LeaseRunsOut(n)
      PROVE  UNCHANGED Queue!vars
  <2>1. \A m \in Notifications : /\ row'[m].status = row[m].status
                                 /\ row'[m].attempts = row[m].attempts
    BY <1>0, <1>9 DEF BecomeAvailable, LeaseRunsOut, Row
  <2> QED
    BY <2>1, NothingShown
<1>10. CASE UNCHANGED vars
  BY <1>10, NothingShown DEF vars
<1> QED
  BY <1>1, <1>2, <1>3, <1>4, <1>5, <1>6, <1>7, <1>8, <1>9, <1>10
     DEF Next, BusinessStep, DispatcherStep, ManagerStep, TimeStep

\* The outbox, with its leases, crashes, late answers, skips and retries,
\* implements the queue that is promised to the rest of the backend.
THEOREM ImplementsQueue == Spec => KeepsQueuePromise
<1>1. LimitInv => Untouched
  BY DEF LimitInv
<1>2. TypeOK /\ Untouched /\ [Next]_vars => [Queue!Next]_(Queue!vars)
  BY QueueStep
<1> QED
  BY <1>1, <1>2, QueueInit, LimitInit, LimitNext, TypeCorrect, PTL
  DEF Spec, KeepsQueuePromise, Queue!Spec
=============================================================================

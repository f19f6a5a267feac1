------------------------- MODULE LeaseQueue_proofs -------------------------
(***************************************************************************)
(* The work queue's promises, proved for every set of entries and every    *)
(* limit; they hold of every module that implements LeaseQueue.            *)
(***************************************************************************)
EXTENDS LeaseQueue, TLAPS

QueueInv == TypeOK /\ HeldWasTaken

LEMMA InitInv == ASSUME MaxTries \in Nat PROVE Init => QueueInv
BY DEF Init, QueueInv, TypeOK, HeldWasTaken, State

LEMMA StepInv ==
    ASSUME MaxTries \in Nat, QueueInv, [Next]_vars
    PROVE  QueueInv'
<1> USE DEF QueueInv, TypeOK, HeldWasTaken, State, Open
<1>1. ASSUME NEW S \in SUBSET Entries, NEW T \in SUBSET Entries, Offer(S, T)
      PROVE  QueueInv'
  BY <1>1 DEF Offer
<1>2. ASSUME NEW S \in SUBSET Entries, OfferAgain(S) PROVE QueueInv'
  BY <1>2 DEF OfferAgain
<1>3. ASSUME NEW S \in SUBSET Entries, Take(S) PROVE QueueInv'
  BY <1>3 DEF Take
<1>4. ASSUME NEW S \in SUBSET Entries, GiveUp(S) PROVE QueueInv'
  BY <1>4 DEF GiveUp
<1>5. ASSUME NEW e \in Entries, Finish(e) \/ Fail(e) PROVE QueueInv'
  BY <1>5 DEF Finish, Fail
<1>6. ASSUME NEW e \in Entries, Renew(e) \/ Settle(e) PROVE QueueInv'
  BY <1>6 DEF Renew, Settle
<1>7. CASE UNCHANGED vars
  BY <1>7 DEF vars
<1> QED
  BY <1>1, <1>2, <1>3, <1>4, <1>5, <1>6, <1>7 DEF Next

\* What a step may do to the state s and the tries n of an entry.
Keeps(s, n, s2, n2) ==
    /\ s = "done" => s2 = "done" /\ n2 = n
    /\ n2 < n => s \in {"waiting", "dead"}

LEMMA StepFinal ==
    ASSUME MaxTries \in Nat, QueueInv, Next, NEW e \in Entries
    PROVE  Keeps(state[e], tries[e], state'[e], tries'[e])
<1> DEFINE Goal == Keeps(state[e], tries[e], state'[e], tries'[e])
<1> USE DEF QueueInv, TypeOK, State, Open, Keeps
<1>1. ASSUME NEW S \in SUBSET Entries, NEW T \in SUBSET Entries, Offer(S, T)
      PROVE  Goal
  BY <1>1 DEF Offer
<1>2. ASSUME NEW S \in SUBSET Entries, OfferAgain(S) PROVE Goal
  BY <1>2 DEF OfferAgain
<1>3. ASSUME NEW S \in SUBSET Entries, Take(S) PROVE Goal
  BY <1>3 DEF Take
<1>4. ASSUME NEW S \in SUBSET Entries, GiveUp(S) PROVE Goal
  BY <1>4 DEF GiveUp
<1>5. ASSUME NEW d \in Entries, Finish(d) \/ Fail(d) PROVE Goal
  BY <1>5 DEF Finish, Fail
<1>6. ASSUME NEW d \in Entries, Renew(d) PROVE Goal
  BY <1>6 DEF Renew
<1>7. ASSUME NEW d \in Entries, Settle(d) PROVE Goal
  BY <1>7 DEF Settle
<1> HIDE DEF Goal, QueueInv, TypeOK, State, Open, Keeps
<1>8. Goal
  BY <1>1, <1>2, <1>3, <1>4, <1>5, <1>6, <1>7 DEF Next
<1> QED
  BY <1>8 DEF Goal

\* In every reachable state the queue is well typed and every held or finished
\* entry was claimed: attempts stay within the limit of the workers' settings.
THEOREM QueueSafe ==
    ASSUME MaxTries \in Nat
    PROVE  Spec => [](TypeOK /\ HeldWasTaken)
<1>1. Init => QueueInv
  BY InitInv
<1>2. QueueInv /\ [Next]_vars => QueueInv'
  BY StepInv
<1> QED
  BY <1>1, <1>2, PTL DEF Spec, QueueInv

\* Completed work is never taken again, and attempts restart only for entries
\* that nobody is working on.
THEOREM QueueFinal ==
    ASSUME MaxTries \in Nat
    PROVE  Spec => FinishedIsFinal
<1> DEFINE Step == \A e \in Entries : Keeps(state[e], tries[e], state'[e], tries'[e])
<1>1. Init => QueueInv
  BY InitInv
<1>2. QueueInv /\ [Next]_vars => QueueInv'
  BY StepInv
<1>3. QueueInv /\ [Next]_vars => [Step]_vars
  BY StepFinal
<1>4. Spec => [][Step]_vars
  <2> HIDE DEF Step
  <2> QED BY <1>1, <1>2, <1>3, PTL DEF Spec
<1> QED
  BY <1>4 DEF FinishedIsFinal, Keeps
=============================================================================

----------------------------- MODULE LeaseQueue -----------------------------
(***************************************************************************)
(* What the backend's durable work queues promise, whoever drains them.    *)
(*                                                                         *)
(* notification_outbox, photo_processing_jobs and                          *)
(* photo_erasure_deletion_jobs are three tables with one protocol: an      *)
(* entry is offered, taken for a limited number of tries, and finished,    *)
(* given up or settled by a person.  Nothing is said of who holds an entry *)
(* or for how long: a hold may be taken over at any time.  NotificationOut-*)
(* box and PhotoEvidence are shown to implement this specification.        *)
(***************************************************************************)
EXTENDS Naturals

CONSTANTS
    Entries,    \* ids of the rows of the queue
    MaxTries    \* attempts before an entry is given up

VARIABLES
    state,      \* where each entry stands
    tries       \* claims made of it since it was offered or renewed

vars == <<state, tries>>

State == {"absent", "waiting", "held", "done", "dead", "settled"}
Open == {"waiting", "held"}

TypeOK ==
    /\ state \in [Entries -> State]
    /\ tries \in [Entries -> 0..MaxTries]

Init ==
    /\ state = [e \in Entries |-> "absent"]
    /\ tries = [e \in Entries |-> 0]

\* A transaction adds the entries of New and withdraws those of Old.
Offer(New, Old) ==
    /\ \A e \in New : state[e] = "absent"
    /\ \A e \in Old : state[e] \in Open
    /\ state' = [e \in Entries |-> IF e \in New THEN "waiting"
                                   ELSE IF e \in Old THEN "settled"
                                   ELSE state[e]]
    /\ UNCHANGED tries

\* An entry that was not finished is offered again; its tries still count.
OfferAgain(S) ==
    /\ \A e \in S : state[e] \in {"waiting", "dead", "settled"}
    /\ state' = [e \in Entries |-> IF e \in S THEN "waiting" ELSE state[e]]
    /\ UNCHANGED tries

\* A batch is taken: every hold costs a try, a hold taken over included.
Take(S) ==
    /\ \A e \in S : state[e] \in Open /\ tries[e] < MaxTries
    /\ state' = [e \in Entries |-> IF e \in S THEN "held" ELSE state[e]]
    /\ tries' = [e \in Entries |-> IF e \in S THEN tries[e] + 1 ELSE tries[e]]

Finish(e) ==
    /\ state[e] = "held"
    /\ state' = [state EXCEPT ![e] = "done"]
    /\ UNCHANGED tries

Fail(e) ==
    /\ state[e] = "held"
    /\ \E s \in {"waiting", "dead"} : state' = [state EXCEPT ![e] = s]
    /\ UNCHANGED tries

\* Entries that used up their tries are given up.
GiveUp(S) ==
    /\ \A e \in S : state[e] \in Open /\ tries[e] = MaxTries
    /\ state' = [e \in Entries |-> IF e \in S THEN "dead" ELSE state[e]]
    /\ UNCHANGED tries

\* A manager gives a failed or dead entry its tries back, or closes it.
Renew(e) ==
    /\ state[e] \in {"waiting", "dead"}
    /\ state' = [state EXCEPT ![e] = "waiting"]
    /\ tries' = [tries EXCEPT ![e] = 0]

Settle(e) ==
    /\ state[e] \in {"waiting", "dead"}
    /\ state' = [state EXCEPT ![e] = "settled"]
    /\ UNCHANGED tries

Next ==
    \/ \E S, T \in SUBSET Entries : Offer(S, T)
    \/ \E S \in SUBSET Entries : OfferAgain(S) \/ Take(S) \/ GiveUp(S)
    \/ \E e \in Entries : Finish(e) \/ Fail(e) \/ Renew(e) \/ Settle(e)

Spec == Init /\ [][Next]_vars

-----------------------------------------------------------------------------
\* A held or finished entry was claimed: no row is completed that no worker
\* took, and an entry nobody offered was never tried.
HeldWasTaken ==
    \A e \in Entries :
        /\ state[e] \in {"held", "done"} => tries[e] > 0
        /\ state[e] = "absent" => tries[e] = 0

\* Finished work is never redone, and only a manager starts the count again,
\* on an entry that is not being worked on.
FinishedIsFinal ==
    [][\A e \in Entries :
         /\ state[e] = "done" => state'[e] = "done" /\ tries'[e] = tries[e]
         /\ tries'[e] < tries[e] => state[e] \in {"waiting", "dead"}]_vars
=============================================================================

---------------------------- MODULE OfflineQueue ----------------------------
(***************************************************************************)
(* The crew's phone: changes of the job and of the route's progress that   *)
(* did not reach the backend are saved in the browser's database and sent  *)
(* again, oldest first, until the backend has stored them.                 *)
(*                                                                         *)
(* A change is first sent without an id; when that fails it is saved with  *)
(* one.  What failed may have arrived all the same, and may still arrive.  *)
(* Every open page replays the saved changes of each kind by itself: the   *)
(* pages share the database, and each has a list of its own that it took   *)
(* when it began.  A page can be reloaded at any moment, which ends its    *)
(* replays and forgets what it waits for, but not its requests.            *)
(*                                                                         *)
(* The backend is that of CompletionReports.  A member of Starts or Moves  *)
(* names one change that the crew makes, and is its id once it is saved.   *)
(* Checklist changes, amendments and photos have a loop of the same form   *)
(* each, and are left out.                                                 *)
(***************************************************************************)
EXTENDS CompletionReports, Sequences

CONSTANT Pages  \* open pages of one crew member on one phone

VARIABLES
    asked,      \* [Changes -> what the change asks for]
    tap,        \* [Changes -> the page it was made on, and how far it got]
    saved,      \* the database: [Changes -> syncState]
    order,      \* the changes that were ever saved, by creation
    net,        \* requests on their way to the backend
    loop,       \* the replay of each kind by each page
    known,      \* the saved route progress a page shows
    listing,    \* pages that were loaded and have not yet read the database
    landed,     \* history: changes that took effect without their id
    discarded   \* history: changes a person has discarded

phoneVars == <<asked, tap, saved, order, net, loop, known, listing, landed, discarded>>

-----------------------------------------------------------------------------
Changes == Starts \cup Moves
QueueKinds == {Starts, Moves}   \* job_lifecycle and stop_progress
Replays == Pages \X QueueKinds
KindOfChange(m) == IF m \in Starts THEN Starts ELSE Moves
Want == {"start", "complete", "open", "finished"}
Wants(m) == IF m \in Starts THEN {"start", "complete"} ELSE {"open", "finished"}
SyncState == {"pending", "failed", "conflict"}

\* refused: answered with a status that counts as a conflict; marking: saved,
\* and still to be marked as a conflict.
Tap == [page : Pages,
        at : {"sent", "refused", "saving", "marking", "over"}]
\* page: the page that replays it; NoOne for a first attempt, without the id.
Message == [change : Changes, page : Pages \cup {NoOne}]
Loop == [todo : Seq(Changes),
         at : {"idle", "send", "wait", "ok", "failed", "conflict"}]
Idle == [todo |-> <<>>, at |-> "idle"]

\* A change is of one kind; none of these is the missing one.
ASSUME PhoneAssumption ==
    /\ Starts \cap Moves = {}
    /\ NoOne \notin Changes \cup Pages \cup Tap \cup Want

Distinct(list) == \A i, j \in DOMAIN list : list[i] = list[j] => i = j

OfflineTypeOK ==
    /\ asked \in [Changes -> Want \cup {NoOne}]
    /\ tap \in [Changes -> Tap \cup {NoOne}]
    /\ saved \in [Changes -> SyncState \cup {"none"}]
    /\ order \in Seq(Changes) /\ Distinct(order)
    /\ net \subseteq Message
    /\ loop \in [Replays -> Loop]
    /\ \A q \in Replays : Distinct(loop[q].todo)
    /\ known \in [Pages -> SUBSET Moves]
    /\ listing \subseteq Pages
    /\ landed \subseteq Changes
    /\ discarded \subseteq Changes

OfflineInit ==
    /\ asked = [m \in Changes |-> NoOne]
    /\ tap = [m \in Changes |-> NoOne]
    /\ saved = [m \in Changes |-> "none"]
    /\ order = <<>>
    /\ net = {}
    /\ loop = [q \in Replays |-> Idle]
    /\ known = [p \in Pages |-> {}]
    /\ listing = Pages
    /\ landed = {}
    /\ discarded = {}

InStore(kind) == {m \in kind : saved[m] # "none"}

-----------------------------------------------------------------------------
(* A change is made on a page.                                             *)

Made(m, p, want, at) ==
    /\ asked[m] = NoOne
    /\ asked' = [asked EXCEPT ![m] = want]
    /\ tap' = [tap EXCEPT ![m] = [page |-> p, at |-> at]]

\* A start or completion is always sent at once.
handleJobAction(p, m, want) ==
    /\ m \in Starts
    /\ Made(m, p, want, "sent")
    /\ net' = net \cup {[change |-> m, page |-> NoOne]}
    /\ UNCHANGED <<saved, order, loop, known, listing, landed, discarded>>

\* Progress goes behind the progress the page knows to be saved.
persistStopState(p, m, want) ==
    /\ m \in Moves
    /\ IF known[p] # {}
       THEN Made(m, p, want, "saving") /\ UNCHANGED net
       ELSE /\ Made(m, p, want, "sent")
            /\ net' = net \cup {[change |-> m, page |-> NoOne]}
    /\ UNCHANGED <<saved, order, loop, known, listing, landed, discarded>>

Stands(m, at) == tap[m] # NoOne /\ tap[m].at = at
Goes(m, at) == tap' = [tap EXCEPT ![m].at = at]

\* The connection breaks, or the backend cannot answer.
AttemptFails(m) ==
    /\ Stands(m, "sent")
    /\ Goes(m, "saving")
    /\ UNCHANGED <<asked, saved, order, net, loop, known, listing, landed, discarded>>

Shows(p, m) == known' = [known EXCEPT ![p] = @ \cup ({m} \cap Moves)]

\* A refused start or completion is saved like one that failed; refused
\* progress is saved, and marked in a second transaction.
enqueueMutation(m) ==
    /\ Stands(m, "saving") \/ Stands(m, "refused")
    /\ saved' = [saved EXCEPT ![m] = "pending"]
    /\ order' = Append(order, m)
    /\ IF m \in Moves /\ Stands(m, "refused")
       THEN Goes(m, "marking") /\ UNCHANGED known
       ELSE Goes(m, "over") /\ Shows(tap[m].page, m)
    /\ UNCHANGED <<asked, net, loop, listing, landed, discarded>>

\* The database cannot be written: the change stays on the page.
StorageUnavailable(m) ==
    /\ Stands(m, "saving") \/ Stands(m, "refused")
    /\ Goes(m, "over")
    /\ UNCHANGED <<asked, saved, order, net, loop, known, listing, landed, discarded>>

markRefused(m) ==
    /\ Stands(m, "marking")
    /\ saved' = [saved EXCEPT ![m] = "conflict"]
    /\ Goes(m, "over") /\ Shows(tap[m].page, m)
    /\ UNCHANGED <<asked, order, net, loop, listing, landed, discarded>>

-----------------------------------------------------------------------------
(* The replay of one kind by one page.                                     *)

Replaying(p, k, at) == loop[<<p, k>>].at = at
Current(p, k) == Head(loop[<<p, k>>].todo)
Proceeds(p, k, at) == loop' = [loop EXCEPT ![<<p, k>>].at = at]

\* Where the changes are that a replay sends: what is saved, up to the first
\* conflict.
Due(k) ==
    {n \in DOMAIN order :
        /\ order[n] \in InStore(k)
        /\ \A h \in 1..n : order[h] \in k => saved[order[h]] # "conflict"}
Ascending(list, numbers) ==
    /\ \A i, j \in DOMAIN list : i < j => list[i] < list[j]
    /\ \A n \in numbers : \E i \in DOMAIN list : list[i] = n

\* On load, when the network is back, or because the crew member asks.
BeginReplay(p, k) ==
    /\ Replaying(p, k, "idle")
    /\ Due(k) # {}
    /\ \E places \in [1..Cardinality(Due(k)) -> Due(k)] :
          /\ Ascending(places, Due(k))
          /\ loop' = [loop EXCEPT ![<<p, k>>] =
                        [todo |-> [i \in DOMAIN places |-> order[places[i]]],
                         at |-> "send"]]
    /\ UNCHANGED <<asked, tap, saved, order, net, known, listing, landed, discarded>>

SendNext(p, k) ==
    /\ Replaying(p, k, "send")
    /\ net' = net \cup {[change |-> Current(p, k), page |-> p]}
    /\ Proceeds(p, k, "wait")
    /\ UNCHANGED <<asked, tap, saved, order, known, listing, landed, discarded>>

ReplayFails(p, k) ==
    /\ Replaying(p, k, "wait")
    /\ Proceeds(p, k, "failed")
    /\ UNCHANGED <<asked, tap, saved, order, net, known, listing, landed, discarded>>

\* A page that is done with its list reads the database once more.
Finished(p, k) ==
    /\ loop' = [loop EXCEPT ![<<p, k>>] = Idle]
    /\ known' = IF k = Moves
                THEN [known EXCEPT ![p] = {m \in Moves : saved'[m] # "none"}]
                ELSE known

removeOfflineMutation(p, k) ==
    /\ Replaying(p, k, "ok")
    /\ saved' = [saved EXCEPT ![Current(p, k)] = "none"]
    /\ IF Len(loop[<<p, k>>].todo) = 1
       THEN Finished(p, k)
       ELSE /\ loop' = [loop EXCEPT ![<<p, k>>] = [todo |-> Tail(@.todo), at |-> "send"]]
            /\ UNCHANGED known
    /\ UNCHANGED <<asked, tap, order, net, listing, landed, discarded>>

\* Mutant: the loop goes on after a failure.
markOfflineMutationFailed_GoesOn(p, k) ==
    /\ Replaying(p, k, "failed") \/ Replaying(p, k, "conflict")
    /\ saved' = [saved EXCEPT ![Current(p, k)] = loop[<<p, k>>].at]
    /\ IF Len(loop[<<p, k>>].todo) = 1
       THEN Finished(p, k)
       ELSE /\ loop' = [loop EXCEPT ![<<p, k>>] = [todo |-> Tail(@.todo), at |-> "send"]]
            /\ UNCHANGED known
    /\ UNCHANGED <<asked, tap, order, net, listing, landed, discarded>>

\* The record is written as the page has it, whether it is still there or not.
markOfflineMutationFailed(p, k) ==
    /\ Replaying(p, k, "failed") \/ Replaying(p, k, "conflict")
    /\ saved' = [saved EXCEPT ![Current(p, k)] = loop[<<p, k>>].at]
    /\ Finished(p, k)
    /\ UNCHANGED <<asked, tap, order, net, listing, landed, discarded>>

\* A person discards a conflict, and the replay may go on.
discardReviewedConflict(p, m) ==
    /\ saved[m] = "conflict"
    /\ m \in Moves => m \in known[p]
    /\ saved' = [saved EXCEPT ![m] = "none"]
    /\ known' = [known EXCEPT ![p] = @ \ {m}]
    /\ discarded' = discarded \cup {m}
    /\ UNCHANGED <<asked, tap, order, net, loop, listing, landed>>

Listed(p) ==
    /\ p \in listing
    /\ listing' = listing \ {p}
    /\ known' = [known EXCEPT ![p] = InStore(Moves)]
    /\ UNCHANGED <<asked, tap, saved, order, net, loop, landed, discarded>>

\* Requests of the page stay on their way.
Reload(p) ==
    /\ loop' = [q \in Replays |-> IF q[1] = p THEN Idle ELSE loop[q]]
    /\ tap' = [m \in Changes |-> IF tap[m] # NoOne /\ tap[m].page = p
                                 THEN [tap[m] EXCEPT !.at = "over"] ELSE tap[m]]
    /\ known' = [known EXCEPT ![p] = {}]
    /\ listing' = listing \cup {p}
    /\ UNCHANGED <<asked, saved, order, net, landed, discarded>>

-----------------------------------------------------------------------------
(* The network and the backend.                                            *)

Lose(r) ==
    /\ net' = net \ {r}
    /\ UNCHANGED <<vars, asked, tap, saved, order, loop, known, listing, landed,
                   discarded>>

Effect(m, id) ==
    CASE asked[m] = "start" -> StartJob(id)
      [] asked[m] = "complete" -> CompleteJob(id)
      [] OTHER -> MoveStop(id, asked[m])

Stored(m) == (IF m \in Starts THEN lifecycle ELSE moved)[m] # NoOne

\* The page may get the answer if it still waits for it.
Answered(r, answer) ==
    \/ UNCHANGED <<tap, loop>>
    \/ /\ r.page = NoOne /\ Stands(r.change, "sent")
       /\ tap' = [tap EXCEPT ![r.change].at = IF answer = "ok" THEN "over" ELSE "refused"]
       /\ UNCHANGED loop
    \/ /\ r.page # NoOne
       /\ LET k == KindOfChange(r.change) IN
          /\ Replaying(r.page, k, "wait") /\ Current(r.page, k) = r.change
          /\ Proceeds(r.page, k, answer)
       /\ UNCHANGED tap

\* A change takes effect, repeats one that did, or finds its stop gone.
Arrive(r) ==
    /\ net' = net \ {r}
    /\ LET m == r.change IN
       \/ /\ r.page = NoOne
          /\ Effect(m, NoOne) /\ landed' = landed \cup {m}
          /\ Answered(r, "ok")
       \/ /\ r.page # NoOne /\ ~Stored(m)
          /\ Effect(m, m) /\ UNCHANGED landed
          /\ Answered(r, "ok")
       \/ /\ r.page # NoOne /\ Stored(m)
          /\ UNCHANGED <<vars, landed>>
          /\ Answered(r, "ok")
       \/ /\ m \in Moves /\ stop = "none" /\ (r.page = NoOne \/ ~Stored(m))
          /\ UNCHANGED <<vars, landed>>
          /\ Answered(r, "conflict")
    /\ UNCHANGED <<asked, saved, order, known, listing, discarded>>

-----------------------------------------------------------------------------
TapStep ==
    \/ \E p \in Pages, m \in Changes : \E want \in Wants(m) :
          handleJobAction(p, m, want) \/ persistStopState(p, m, want)
    \/ \E m \in Changes : \/ AttemptFails(m) \/ enqueueMutation(m)
                          \/ StorageUnavailable(m) \/ markRefused(m)

ReplayStep ==
    \/ \E p \in Pages, k \in QueueKinds :
          \/ BeginReplay(p, k) \/ SendNext(p, k) \/ ReplayFails(p, k)
          \/ removeOfflineMutation(p, k) \/ markOfflineMutationFailed(p, k)
    \/ \E p \in Pages : \/ Listed(p) \/ Reload(p)
                        \/ \E m \in Changes : discardReviewedConflict(p, m)

PhoneStep ==
    \/ (TapStep \/ ReplayStep) /\ UNCHANGED vars
    \/ \E r \in net : Arrive(r) \/ Lose(r)

\* Everybody else uses ids of their own.
OfflineNext == PhoneStep \/ (Next /\ UNCHANGED <<lifecycle, moved, phoneVars>>)

OfflineSpec == Init /\ OfflineInit /\ [][OfflineNext]_<<vars, phoneVars>>

-----------------------------------------------------------------------------
(* Properties.                                                             *)

\* What the phone has saved is not forgotten, and takes effect in the order in
\* which it was saved: whichever page sends it, however often, and whatever
\* answers are lost, a saved change has reached the backend, is still saved
\* or was discarded by a person, and no later one of its kind arrived before.
SavedArrivesInOrder ==
    \A n \in DOMAIN order :
        /\ saved[order[n]] # "none" \/ Stored(order[n]) \/ order[n] \in discarded
        /\ Stored(order[n]) =>
             \A k \in 1..n - 1 :
                KindOfChange(order[k]) = KindOfChange(order[n])
                => Stored(order[k]) \/ order[k] \in discarded
=============================================================================

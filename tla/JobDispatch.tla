---------------------------- MODULE JobDispatch ----------------------------
(***************************************************************************)
(* The dispatch of jobs to the crews of CrewPlanning: a scheduled job moves *)
(* to a crew and a day, and a move that the customer has to be told of is  *)
(* followed up once.                                                       *)
(*                                                                         *)
(* A request locks the job's row, a move also the row of its crew.  The    *)
(* events of both carry the time their transaction BEGAN, which is before  *)
(* it waited for the lock; the follow-up finds the latest move, and asks   *)
(* whether it was followed up, by these times.                             *)
(***************************************************************************)
EXTENDS CrewPlanning

CONSTANTS
    Days,       \* scheduled dates
    Unreleased, \* jobs that a service release is still to create
    MaxTime     \* bound on the requests that are begun

ASSUME DispatchAssumption ==
    MaxTime \in Nat /\ None \notin Days /\ Unreleased \subseteq Jobs

VARIABLES
    job,        \* service_jobs
    jobHeld,    \* the request that holds the row of a job
    dispatch,   \* the dispatch requests under way
    moves,      \* job_reassigned events that require a notification
    told,       \* dispatch_customer_notified events
    clock       \* the time; every beginning of a transaction has its own

dispatchVars == <<job, jobHeld, dispatch, moves, told, clock>>

-----------------------------------------------------------------------------
Job == [status : {"none", "scheduled", "in_progress", "completed"},
        crew : Crews \cup {None}, day : Days]
Move == [job : Jobs, time : 1..MaxTime]
Told == [move : Move, time : 1..MaxTime]
Dispatch ==
         [op : {"move"}, job : Jobs, time : 1..MaxTime, crew : Crews, day : Days,
          notify : BOOLEAN, step : {"begun", "locked"}]
    \cup [op : {"tell"}, job : Jobs, time : 1..MaxTime]

DispatchTypeOK ==
    /\ job \in [Jobs -> Job]
    /\ jobHeld \in [Jobs -> Writers \cup {None}]
    /\ dispatch \in [Writers -> Dispatch \cup {None}]
    /\ moves \subseteq Move
    /\ told \subseteq Told
    /\ clock \in 0..MaxTime

DispatchInit ==
    /\ job \in {f \in [Jobs -> [status : {"none", "scheduled"}, crew : {None},
                                day : Days]] :
                   \A j \in Jobs : f[j].status = "none" <=> j \in Unreleased}
    /\ jobHeld = [j \in Jobs |-> None]
    /\ dispatch = [w \in Writers |-> None]
    /\ moves = {}
    /\ told = {}
    /\ clock = 0

JobFree(j) == jobHeld[j] = None

Begun(w, q) ==
    /\ dispatch[w] = None
    /\ clock < MaxTime
    /\ clock' = clock + 1
    /\ dispatch' = [dispatch EXCEPT ![w] = q]

planned == <<branch, territory, crew, assigned, plan, stop, work>>

-----------------------------------------------------------------------------
(* Moves. *)

update_job_dispatch_assignment(w, j, c, d, notify) ==
    /\ Scheduler
    /\ job[j].status # "none"
    /\ Begun(w, [op |-> "move", job |-> j, time |-> clock + 1, crew |-> c,
                 day |-> d, notify |-> notify, step |-> "begun"])
    /\ UNCHANGED <<planned, held, job, jobHeld, moves, told>>

\* The jobs of a crew on a day besides j.
Load(c, d, j) ==
    Cardinality({k \in Jobs \ {j} : /\ job[k].crew = c /\ job[k].day = d
                                    /\ job[k].status # "completed"})

Movable(q) ==
    /\ job[q.job].status = "scheduled"
    /\ crew[q.crew].status = "active"
    /\ Load(q.crew, q.day, q.job) + 1 <= crew[q.crew].capacity

\* Mutant: the crew's row is read without a lock.
LockMove_Unlocked(w) ==
    /\ dispatch[w] # None
    /\ LET q == dispatch[w] IN
       /\ q.op = "move" /\ q.step = "begun"
       /\ JobFree(q.job)
       /\ dispatch' = [dispatch EXCEPT ![w] =
                          IF Movable(q) THEN [q EXCEPT !.step = "locked"] ELSE None]
       /\ jobHeld' = IF Movable(q) THEN [jobHeld EXCEPT ![q.job] = w] ELSE jobHeld
    /\ UNCHANGED <<planned, held, job, moves, told, clock>>

\* The rows of the job and of the crew are locked, in this order, and the
\* jobs of the crew counted.
LockMove(w) ==
    /\ dispatch[w] # None
    /\ LET q == dispatch[w] IN
       /\ q.op = "move" /\ q.step = "begun"
       /\ JobFree(q.job) /\ held[q.crew] = None
       /\ IF Movable(q)
          THEN /\ dispatch' = [dispatch EXCEPT ![w] = [q EXCEPT !.step = "locked"]]
               /\ held' = [held EXCEPT ![q.crew] = w]
               /\ jobHeld' = [jobHeld EXCEPT ![q.job] = w]
          ELSE /\ dispatch' = [dispatch EXCEPT ![w] = None]
               /\ UNCHANGED <<held, jobHeld>>
    /\ UNCHANGED <<planned, job, moves, told, clock>>

update_dispatch_assignment(w) ==
    /\ dispatch[w] # None
    /\ LET q == dispatch[w] IN
       /\ q.op = "move" /\ q.step = "locked"
       /\ job' = [job EXCEPT ![q.job].crew = q.crew, ![q.job].day = q.day]
       /\ moves' = IF q.notify THEN moves \cup {[job |-> q.job, time |-> q.time]}
                   ELSE moves
       /\ held' = [held EXCEPT ![q.crew] = None]
       /\ jobHeld' = [jobHeld EXCEPT ![q.job] = None]
    /\ dispatch' = [dispatch EXCEPT ![w] = None]
    /\ UNCHANGED <<planned, told, clock>>

-----------------------------------------------------------------------------
(* Follow-ups. *)

complete_dispatch_customer_notification(w, j) ==
    /\ Scheduler
    /\ Begun(w, [op |-> "tell", job |-> j, time |-> clock + 1])
    /\ job[j].status # "none"
    /\ UNCHANGED <<planned, held, job, jobHeld, moves, told>>

\* The latest move of the job that requires a notification.
LatestMove(m) == m \in moves /\ \A n \in moves : n.job = m.job => n.time <= m.time

\* Mutant: any earlier follow-up is overlooked.
Unresolved_ThisMove(m) ==
    ~ \E x \in told : x.move = m /\ x.time = m.time

\* No follow-up of the job since the move.
Unresolved(m) == ~ \E x \in told : x.move.job = m.job /\ x.time >= m.time

TellCustomer(w) ==
    /\ dispatch[w] # None
    /\ dispatch[w].op = "tell"
    /\ LET q == dispatch[w] IN
       /\ JobFree(q.job)
       /\ told' = told \cup {[move |-> m, time |-> q.time] :
                     m \in {n \in moves : /\ n.job = q.job
                                          /\ LatestMove(n) /\ Unresolved(n)}}
    /\ dispatch' = [dispatch EXCEPT ![w] = None]
    /\ UNCHANGED <<planned, held, job, jobHeld, moves, clock>>

-----------------------------------------------------------------------------
(* The crew starts and completes a job (CompletionReports has the details). *)

StartJob(j) ==
    /\ JobFree(j)
    /\ job[j].status = "scheduled"
    /\ job' = [job EXCEPT ![j].status = "in_progress"]
    /\ UNCHANGED <<planned, held, jobHeld, dispatch, moves, told, clock>>

CompleteJob(j) ==
    /\ JobFree(j)
    /\ job[j].status = "in_progress"
    /\ job' = [job EXCEPT ![j].status = "completed"]
    /\ UNCHANGED <<planned, held, jobHeld, dispatch, moves, told, clock>>

-----------------------------------------------------------------------------
DispatchStep ==
    /\ UNCHANGED vars
    /\ \/ \E w \in Writers, j \in Jobs :
             \/ complete_dispatch_customer_notification(w, j)
             \/ \E c \in Crews, d \in Days, n \in BOOLEAN :
                   update_job_dispatch_assignment(w, j, c, d, n)
       \/ \E w \in Writers :
             LockMove(w) \/ update_dispatch_assignment(w) \/ TellCustomer(w)
       \/ \E j \in Jobs : StartJob(j) \/ CompleteJob(j)

\* With the crews and the staff.
DispatchNext == DispatchStep \/ (PlanNext /\ UNCHANGED dispatchVars)
DispatchSpec == Init /\ PlanInit /\ DispatchInit
                /\ [][DispatchNext]_<<vars, planVars, dispatchVars>>

-----------------------------------------------------------------------------
(* Properties. *)

\* Two moves cannot both take the last place of a crew on a day: the jobs of
\* a crew grow up to its capacity as it then is, whatever moves, completes or
\* changes the crew meanwhile.
MovesFit ==
    [][\A c \in Crews, d \in Days :
          LET before == {k \in Jobs : /\ job[k].crew = c /\ job[k].day = d
                                      /\ job[k].status # "completed"}
              after == {k \in Jobs : /\ job'[k].crew = c /\ job'[k].day = d
                                     /\ job'[k].status # "completed"}
          IN after \subseteq before \/ Cardinality(after) <= crew[c].capacity
      ]_dispatchVars

\* A move is followed up once by those who asked to after it began.  (One who
\* asked before the move began, and waited for the job, follows it up too and
\* does not count as having done so.)
FollowedUpOnce ==
    \A x, y \in told :
        x.move = y.move /\ x.time > x.move.time /\ y.time > y.move.time => x = y
=============================================================================

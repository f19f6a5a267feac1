------------------------- MODULE WorkspaceRollout -------------------------
(***************************************************************************)
(* The staged rollout of the new workspace to the members of StaffAccess.  *)
(*                                                                         *)
(* An owner enables a first unit of a member's persona, advances it unit   *)
(* by unit, suspends it and resumes it.  Each change names the version it  *)
(* was decided on and a mutation id of its own; it is one transaction      *)
(* under an advisory lock of the id and the locks of the membership's and  *)
(* the enrollment's rows.  The enrollment belongs to the person and the    *)
(* persona, not to the membership, so it outlives a change of role.        *)
(***************************************************************************)
EXTENDS StaffAccess

CONSTANTS
    Keys,           \* mutation ids
    MaxUnit,        \* units of a persona
    MaxVersion      \* bound on the versions of an enrollment

ASSUME RolloutAssumption == MaxUnit \in Nat \ {0} /\ MaxVersion \in Nat \ {0}

VARIABLES
    enrollment,     \* workspace_rollout_enrollments, by person and persona
    events,         \* workspace_rollout_events
    answers         \* history: what successful requests were answered

rolloutVars == <<enrollment, events, answers>>
allVars == <<vars, rolloutVars>>

-----------------------------------------------------------------------------
Person == Users \cup Mailboxes
Actions == {"enable", "advance", "suspend", "resume"}
Enrollment == [status : {"none", "active", "suspended"}, unit : 0..MaxUnit,
               version : 0..MaxVersion]
\* role stands for the persona, of which each role has one.
Event == [actor : Users, key : Keys, person : Person, role : Roles,
          action : Actions, unit : 1..MaxUnit, version : 1..MaxVersion]
Answer == [actor : Users, key : Keys, unit : 1..MaxUnit, version : 1..MaxVersion]

RolloutTypeOK ==
    /\ enrollment \in [Person \X Roles -> Enrollment]
    /\ events \subseteq Event
    /\ answers \subseteq Answer

RolloutInit ==
    /\ enrollment = [p \in Person \X Roles |->
                        [status |-> "none", unit |-> 0, version |-> 0]]
    /\ events = {}
    /\ answers = {}

\* A request: the version it expects, 0 for none, and the persona and rank of
\* the unit it asks for, rank 0 for none.
Mutation == [action : Actions, expected : 0..MaxVersion,
             role : Roles, unit : 0..MaxUnit]

\* The units of a persona are its own.
request_shape_is_valid(q, persona) ==
    CASE q.action = "enable"  -> q.expected = 0 /\ q.unit # 0 /\ q.role = persona
      [] q.action = "advance" -> q.expected # 0 /\ q.unit # 0 /\ q.role = persona
      [] OTHER                -> q.expected # 0 /\ q.unit = 0

\* The current enrollment takes the change.  Only a suspension is possible
\* when the membership is not active.
Takes(e, q, active) ==
    /\ q.action = "suspend" \/ active
    /\ CASE q.action = "enable"  -> e.status = "none"
         [] q.action = "advance" -> /\ e.status = "active" /\ q.unit > e.unit
                                    /\ q.expected = e.version
         [] q.action = "suspend" -> e.status = "active" /\ q.expected = e.version
         [] q.action = "resume"  -> e.status = "suspended" /\ q.expected = e.version

\* Mutant: the status is the action's name.
update_workspace_rollout_enrollment_StoresAction(e, q) ==
    [status |-> IF q.action = "suspend" THEN "suspend" ELSE "active",
     unit |-> IF q.unit # 0 THEN q.unit ELSE e.unit,
     version |-> e.version + 1]

\* The enrollment after the change; the trigger wants the next exact version.
update_workspace_rollout_enrollment(e, q) ==
    [status |-> IF q.action = "suspend" THEN "suspended" ELSE "active",
     unit |-> IF q.unit # 0 THEN q.unit ELSE e.unit,
     version |-> e.version + 1]

\* The event that an earlier request of this actor and key left.
load_workspace_rollout_mutation_replay(u, key) ==
    {v \in events : v.actor = u /\ v.key = key}

\* The stored event is the one that this request would have made.
SameRequest(v, q, person, persona) ==
    /\ v.action = q.action /\ v.person = person /\ v.role = persona
    /\ v.version = q.expected + 1
    /\ q.unit # 0 => q.unit = v.unit

\* Mutant: a replay is answered with the enrollment as it now is.
ReplayAnswer_Current(v) ==
    LET e == enrollment[<<v.person, v.role>>] IN
    [actor |-> v.actor, key |-> v.key, unit |-> e.unit, version |-> e.version]

\* A replay is answered with what the event says, not with what is now.
ReplayAnswer(v) ==
    [actor |-> v.actor, key |-> v.key, unit |-> v.unit, version |-> v.version]

\* Answered from the event log; nothing changes.
Replay(u, key, q, x) ==
    \E v \in load_workspace_rollout_mutation_replay(u, key) :
        /\ SameRequest(v, q, member[x].user, member[x].role)
        /\ answers' = answers \cup {ReplayAnswer(v)}
        /\ UNCHANGED <<enrollment, events>>

\* The first request with its key changes the enrollment and logs the event.
Apply(u, key, q, x) ==
    LET p == <<member[x].user, member[x].role>>
        e == enrollment[p]
        n == update_workspace_rollout_enrollment(e, q) IN
    /\ load_workspace_rollout_mutation_replay(u, key) = {}
    /\ e.version < MaxVersion
    /\ Takes(e, q, member[x].status = "active")
    /\ enrollment' = [enrollment EXCEPT ![p] = n]
    /\ events' = events \cup
         {[actor |-> u, key |-> key, person |-> p[1], role |-> p[2],
           action |-> q.action, unit |-> n.unit, version |-> n.version]}
    /\ answers' = answers \cup
         {[actor |-> u, key |-> key, unit |-> n.unit, version |-> n.version]}

\* The row of the membership is locked: a change of its role waits or is done.
mutate_membership_workspace_rollout(u, key, q, x) ==
    /\ member[x].status # "none" /\ Free(x)
    /\ request_shape_is_valid(q, member[x].role)
    /\ Replay(u, key, q, x) \/ Apply(u, key, q, x)

\* The handler of the request; nothing else is refused than it says.
update_workspace_rollout_enrollment_request(u, key, q, x) ==
    /\ Granted(u)
    /\ mutate_membership_workspace_rollout(u, key, q, x)
    /\ UNCHANGED <<rowVars, request, lock>>

RolloutStep ==
    \E u \in Users, key \in Keys, q \in Mutation, x \in Rows :
        update_workspace_rollout_enrollment_request(u, key, q, x)

\* With the staff whose memberships it reads.
RolloutNext == RolloutStep \/ (Next /\ UNCHANGED rolloutVars)
RolloutSpec == Init /\ RolloutInit /\ [][RolloutNext]_allVars

-----------------------------------------------------------------------------
(* Properties. *)

\* A client that repeats a request whose answer was lost is told what the
\* first one did, however the enrollment, the role and the membership have
\* changed since: all answers to one mutation id agree.
RetryIsAnsweredAlike ==
    \A a, b \in answers : a.actor = b.actor /\ a.key = b.key => a = b

=============================================================================

---------------------------- MODULE StaffAccess ----------------------------
(***************************************************************************)
(* The staff of one organization: its first owner, the invitations of its  *)
(* managers, and the memberships that decide who may do what.              *)
(*                                                                         *)
(* A handler first asks whether its caller has an active membership with a *)
(* suitable role, and opens its transaction afterwards: the answer may be  *)
(* out of date by then.  Invitations are created under an advisory lock of *)
(* their recipient and are otherwise changed one row at a time.  A role or *)
(* a status changes under the lock of its row and, when it would take an   *)
(* owner away, under the locks of every active owner's row, which the      *)
(* scan takes one after the other: two such requests can wait for each     *)
(* other, and the database then aborts one.                                *)
(***************************************************************************)
EXTENDS Naturals, FiniteSets, AccessControl

CONSTANTS
    Users,          \* signed-in people
    Mailboxes,      \* invited addresses, the placeholder users of invitations
    MailOf,         \* [Users -> Mailboxes], the verified address of a user
    Invites,        \* invitations; each has the membership row of its name
    Founder,        \* the membership row of the organization's bootstrap
    Roles,          \* roles that memberships have
    Requests,       \* role and status changes under way
    MaxTokens,      \* bound on the tokens of one invitation
    None            \* nobody, no request

ASSUME StaffAssumption ==
    /\ MailOf \in [Users -> Mailboxes]
    /\ Users \cap Mailboxes = {} /\ None \notin Users \cup Mailboxes
    /\ Founder \notin Invites /\ None \notin Requests
    /\ Roles \subseteq AccessRole /\ "organization_owner" \in Roles
    /\ MaxTokens \in Nat \ {0}

Rows == Invites \cup {Founder}

VARIABLES
    member,     \* organization_memberships
    invite,     \* organization_invitations
    passed,     \* users whose request passed the membership check and goes on
    request,    \* the role and status changes under way
    lock        \* the request that holds a membership row

rowVars == <<member, invite>>
vars == <<member, invite, passed, request, lock>>

-----------------------------------------------------------------------------
MemberStatus == {"none", "invited", "active", "suspended", "archived"}
Member == [user : Users \cup Mailboxes \cup {None}, role : Roles,
           status : MemberStatus]
InviteStatus == {"none", "pending", "accepted", "revoked"}
\* token: how many tokens it has had; the last one is valid.
Invite == [email : Mailboxes \cup {None}, status : InviteStatus,
           lapsed : BOOLEAN, token : 0..MaxTokens]
\* to: the new role or status; scan: owner rows still to lock; owners: those
\* that were locked and found to be active owners.
Change == [kind : {"role", "status"}, row : Rows,
           to : Roles \cup {"active", "suspended"},
           step : {"begun", "counting"}, scan : SUBSET Rows,
           owners : SUBSET Rows]

TypeOK ==
    /\ member \in [Rows -> Member]
    /\ invite \in [Invites -> Invite]
    /\ passed \subseteq Users
    /\ request \in [Requests -> Change \cup {None}]
    /\ lock \in [Rows -> Requests \cup {None}]

Init ==
    /\ member = [x \in Rows |-> [user |-> None, role |-> "organization_owner",
                                 status |-> "none"]]
    /\ invite = [i \in Invites |-> [email |-> None, status |-> "none",
                                    lapsed |-> FALSE, token |-> 0]]
    /\ passed = {}
    /\ request = [r \in Requests |-> None]
    /\ lock = [x \in Rows |-> None]

-----------------------------------------------------------------------------
(* Access checks. *)

list_active_memberships(u) ==
    {x \in Rows : member[x].user = u /\ member[x].status = "active"}

user_has_active_membership(u, required_role(_)) ==
    \E x \in list_active_memberships(u) : required_role(member[x].role)

\* A caller's request passes the check; what it asked for happens later.
require_organization_membership(u) ==
    /\ u \notin passed
    /\ user_has_active_membership(u, can_manage_organization)
    /\ passed' = passed \cup {u}
    /\ UNCHANGED <<rowVars, request, lock>>

\* The request of u, which passed the check, does its work and ends.
Granted(u) == u \in passed /\ passed' = passed \ {u}

\* UNIQUE (organization_id, user_id, role, scope_type, scope_id).
Vacant(u, role, x) ==
    ~ \E y \in Rows \ {x} : /\ member[y].status # "none"
                            /\ member[y].user = u /\ member[y].role = role

Free(x) == lock[x] = None

-----------------------------------------------------------------------------
(* The first owner. *)

AlreadyMember(u) == list_active_memberships(u) # {}

\* Asked again under an advisory lock of the user, which makes it one step.
CreateOrganization(u) ==
    /\ ~AlreadyMember(u)
    /\ member[Founder].status = "none"
    /\ member' = [member EXCEPT ![Founder] =
                      [user |-> u, role |-> "organization_owner",
                       status |-> "active"]]

bootstrap_organization(u) ==
    /\ CreateOrganization(u)
    /\ UNCHANGED <<invite, passed, request, lock>>

-----------------------------------------------------------------------------
(* Invitations. *)

Live(i) == invite[i].status = "pending" /\ ~invite[i].lapsed

\* Creations for one recipient are serialized by an advisory lock.
create_invitation(i, e, role) ==
    /\ invite[i].status = "none"
    /\ ~ \E j \in Invites : invite[j].email = e /\ Live(j)
    /\ Vacant(e, role, i)
    /\ member' = [member EXCEPT ![i] =
                      [user |-> e, role |-> role, status |-> "invited"]]
    /\ invite' = [invite EXCEPT ![i] = [email |-> e, status |-> "pending",
                                        lapsed |-> FALSE, token |-> 1]]

create_organization_invitation(u, i, e, role) ==
    /\ Granted(u)
    /\ create_invitation(i, e, role)
    /\ UNCHANGED <<request, lock>>

\* Time: expires_at has come.
Lapse(i) ==
    /\ Live(i)
    /\ invite' = [invite EXCEPT ![i].lapsed = TRUE]
    /\ UNCHANGED <<member, passed, request, lock>>

\* Mutant: a revocation leaves the membership invited.
revoke_invitation_Half(i) ==
    /\ Live(i) /\ Free(i)
    /\ invite' = [invite EXCEPT ![i].status = "revoked"]
    /\ UNCHANGED member

revoke_invitation(i) ==
    /\ Live(i)
    /\ invite' = [invite EXCEPT ![i].status = "revoked"]
    /\ IF member[i].status = "invited"
       THEN Free(i) /\ member' = [member EXCEPT ![i].status = "archived"]
       ELSE UNCHANGED member

revoke_organization_invitation(u, i) ==
    /\ Granted(u)
    /\ revoke_invitation(i)
    /\ UNCHANGED <<request, lock>>

\* No advisory lock, and no look at the recipient's other invitations.
reissue_invitation(i) ==
    /\ \/ invite[i].status = "revoked"
       \/ invite[i].status = "pending" /\ invite[i].lapsed
    /\ invite[i].token < MaxTokens
    /\ invite' = [invite EXCEPT ![i].status = "pending", ![i].lapsed = FALSE,
                                ![i].token = @ + 1]
    /\ IF member[i].status \in {"invited", "archived"}
       THEN Free(i) /\ member' = [member EXCEPT ![i].user = invite[i].email,
                                                ![i].status = "invited"]
       ELSE UNCHANGED member

reissue_organization_invitation(u, i) ==
    /\ Granted(u)
    /\ reissue_invitation(i)
    /\ UNCHANGED <<request, lock>>

\* Whatever the status of the membership, it becomes active.
accept_invitation(u, i, t) ==
    /\ invite[i].token # 0 /\ t = invite[i].token
    /\ MailOf[u] = invite[i].email
    /\ Live(i)
    /\ Free(i) /\ Vacant(u, member[i].role, i)
    /\ invite' = [invite EXCEPT ![i].status = "accepted"]
    /\ member' = [member EXCEPT ![i].user = u, ![i].status = "active"]

accept_organization_invitation(u, i, t) ==
    /\ accept_invitation(u, i, t)
    /\ UNCHANGED <<passed, request, lock>>

-----------------------------------------------------------------------------
(* Changes of a role or a status. *)

ActiveOwner(x) ==
    member[x].role = "organization_owner" /\ member[x].status = "active"

\* A handler whose caller passed the check opens the transaction.
BeginChange(u, r, kind, x, to) ==
    /\ request[r] = None
    /\ request' = [request EXCEPT ![r] =
                       [kind |-> kind, row |-> x, to |-> to, step |-> "begun",
                        scan |-> {}, owners |-> {}]]
    /\ UNCHANGED <<rowVars, lock>>

update_organization_membership_role(u, r, x, role) ==
    /\ role \in Roles
    /\ Granted(u)
    /\ BeginChange(u, r, "role", x, role)

update_organization_membership_status(u, r, x, status) ==
    /\ status \in {"active", "suspended"}
    /\ Granted(u)
    /\ BeginChange(u, r, "status", x, status)

\* The change would take an active owner away.
DropsOwner(q) ==
    /\ ActiveOwner(q.row)
    /\ IF q.kind = "role" THEN q.to # "organization_owner"
       ELSE q.to = "suspended"

\* SELECT ... FOR UPDATE finds the row, in a status that can be managed.
Manageable(q) ==
    IF q.kind = "role" THEN member[q.row].status # "none"
    ELSE member[q.row].status \in {"active", "suspended"}

Held(r) == {x \in Rows : lock[x] = r}

\* The transaction of r ends, whatever it did, and lets go of its rows.
Ended(r) ==
    /\ request' = [request EXCEPT ![r] = None]
    /\ lock' = [x \in Rows |-> IF lock[x] = r THEN None ELSE lock[x]]

\* The new role or status is written; the unique constraint may refuse it.
Written(q) ==
    IF q.kind = "status"
    THEN member' = [member EXCEPT ![q.row].status = q.to]
    ELSE IF Vacant(member[q.row].user, q.to, q.row)
    THEN member' = [member EXCEPT ![q.row].role = q.to]
    ELSE UNCHANGED member

\* Nothing to protect: the request locks its row, writes and commits.
update_membership(r) ==
    /\ request[r] # None
    /\ LET q == request[r] IN
       /\ q.step = "begun" /\ Free(q.row)
       /\ ~(Manageable(q) /\ DropsOwner(q))
       /\ IF Manageable(q) THEN Written(q) ELSE UNCHANGED member
    /\ Ended(r)
    /\ UNCHANGED <<invite, passed>>

\* The request holds an active owner's row; the scan for the others starts.
LockOwnerRow(r) ==
    /\ request[r] # None
    /\ LET q == request[r] IN
       /\ q.step = "begun" /\ Free(q.row)
       /\ Manageable(q) /\ DropsOwner(q)
       /\ lock' = [lock EXCEPT ![q.row] = r]
       /\ request' = [request EXCEPT ![r] =
                          [q EXCEPT !.step = "counting", !.owners = {},
                                    !.scan = {x \in Rows : ActiveOwner(x)}]]
    /\ UNCHANGED <<rowVars, passed>>

\* Mutant: SELECT count(*) without FOR UPDATE.
LockNextOwner_Unlocked(r) ==
    /\ request[r] # None
    /\ LET q == request[r] IN
       /\ q.step = "counting"
       /\ \E x \in q.scan :
             request' = [request EXCEPT ![r] =
                 [q EXCEPT !.scan = @ \ {x},
                           !.owners = IF ActiveOwner(x) THEN @ \cup {x} ELSE @]]
    /\ UNCHANGED <<rowVars, passed, lock>>

\* The scan locks the next row it found, waiting for whoever holds it, and
\* looks again whether it still is an active owner's.
LockNextOwner(r) ==
    /\ request[r] # None
    /\ LET q == request[r] IN
       /\ q.step = "counting"
       /\ \E x \in q.scan :
             /\ lock[x] \in {None, r}
             /\ lock' = [lock EXCEPT ![x] = r]
             /\ request' = [request EXCEPT ![r] =
                   [q EXCEPT !.scan = @ \ {x},
                             !.owners = IF ActiveOwner(x) THEN @ \cup {x} ELSE @]]
    /\ UNCHANGED <<rowVars, passed>>

\* All owners are counted: the last one stays, any other may go.
FinishOwnerChange(r) ==
    /\ request[r] # None
    /\ LET q == request[r] IN
       /\ q.step = "counting" /\ q.scan = {}
       /\ IF Cardinality(q.owners) <= 1 THEN UNCHANGED member ELSE Written(q)
    /\ Ended(r)
    /\ UNCHANGED <<invite, passed>>

\* The rows that r waits for, in a scan or before it.
Wanted(r) ==
    IF request[r] = None THEN {}
    ELSE IF request[r].step = "begun" THEN {request[r].row}
    ELSE request[r].scan

\* Two requests wait for each other: the database aborts one of them.
AbortDeadlock(r) ==
    /\ \E s \in Requests \ {r} : /\ Wanted(r) \cap Held(s) # {}
                                 /\ Wanted(s) \cap Held(r) # {}
    /\ Ended(r)
    /\ UNCHANGED <<rowVars, passed>>

-----------------------------------------------------------------------------
InvitationStep ==
    \E i \in Invites :
        \/ Lapse(i)
        \/ \E u \in Users :
              \/ revoke_organization_invitation(u, i)
              \/ reissue_organization_invitation(u, i)
              \/ \E e \in Mailboxes, role \in Roles :
                    create_organization_invitation(u, i, e, role)
              \/ \E t \in 1..MaxTokens : accept_organization_invitation(u, i, t)

CheckStep ==
    \E u \in Users : bootstrap_organization(u) \/ require_organization_membership(u)

ChangeStep ==
    \E r \in Requests :
        \/ \E u \in Users, x \in Rows :
              \/ \E role \in Roles :
                    update_organization_membership_role(u, r, x, role)
              \/ \E status \in {"active", "suspended"} :
                    update_organization_membership_status(u, r, x, status)
        \/ update_membership(r) \/ LockOwnerRow(r) \/ LockNextOwner(r)
        \/ FinishOwnerChange(r) \/ AbortDeadlock(r)

Next == CheckStep \/ InvitationStep \/ ChangeStep

Spec == Init /\ [][Next]_vars

-----------------------------------------------------------------------------
(* Properties. *)

\* Once an organization has been founded it always has an active owner,
\* however many requests demote and suspend owners at the same time, and
\* although each was admitted by a check that may be out of date.
KeepsAnOwner ==
    member[Founder].status # "none" => \E x \in Rows : ActiveOwner(x)

\* An invitation and its membership, written by separate statements and by
\* handlers that lock different rows, agree: pending is invited, revoked is
\* archived, and a membership is in use exactly when its invitation was
\* accepted.
MembershipFollowsInvitation ==
    \A i \in Invites :
        /\ invite[i].status = "pending" <=> member[i].status = "invited"
        /\ invite[i].status = "revoked" <=> member[i].status = "archived"
        /\ invite[i].status = "accepted"
              <=> member[i].status \in {"active", "suspended"}

=============================================================================
